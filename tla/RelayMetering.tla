---------------------------- MODULE RelayMetering -----------------------------
(* The credentials a relay logs in to its landing with.  Without metering    *)
(* one shared secret serves; with link metering every definition of the      *)
(* landing mints a new generation for the link, and with user metering one   *)
(* for every owner on it.  The landing must run a credential before the      *)
(* relay may dial with it, and must go on accepting it until no relay does.  *)
(* One link between two machines; clocks are reduced to collection passes,   *)
(* the machines' own failures are those of module Deploy.                    *)
EXTENDS Integers, FiniteSets, Functions

CONSTANTS
  Owners,       \* users of the entry, numbers from 1
  Specs,        \* definitions of the landing
  MaxGen,       \* bound on generations
  MaxOps        \* bound on administrators' changes

VARIABLES
  mode,         \* settings relay_link_metering and relay_user_metering: off, link or user
  spec,         \* the landing as drawn
  subjects,     \* [Owners -> version of the owner's logins at the entry, 0: none]
  link,         \* row of relay_metering_links: generation (0: no row), state, spec_hash
  gens,         \* relay_metering_generations by generation
  rows,         \* relay_metering_users by identity <<owner, generation>>
  compat,       \* relay_legacy_compatibility of the landing
  running,      \* [landing and relay -> the configuration the machine runs]
  flight,       \* the configuration being applied to a machine, or Nothing
  pass,         \* idle, prepared, or the machines this pass has yet to compile
  byTag,        \* BuildUsersByTag of the pass
  calm,         \* collection passes since a replaced identity's boundary, counted up to two
  ops

vars == <<mode, spec, subjects, link, gens, rows, compat, running, flight, pass, byTag, calm, ops>>

Machines == {"landing", "relay"}
Shared == <<0, 0>>
Gens == 1..MaxGen
Identities == {Shared} \cup ((Owners \cup {0}) \X Gens)
Nothing == [is |-> "nothing"]
Spend == ops < MaxOps /\ ops' = ops + 1
Current(o) == <<o, link.gen>>
-----------------------------------------------------------------------------
(* PrepareRelayMetering, before every compilation                            *)

\* A changed landing mints a generation; what was acknowledged was for the old one
PreparedLink ==
  IF mode = "off" \/ (link.gen > 0 /\ link.spec = spec) THEN link
  ELSE [gen |-> link.gen + 1, state |-> "prepared", spec |-> spec]

OwnerOn(o) == subjects[o] # 0

\* A user's row for every owner on the link
Registered(gen) == DOMAIN rows \cup {<<o, gen>> : o \in {p \in Owners : OwnerOn(p)}}
FreshUser == [on |-> TRUE, state |-> "prepared", acc |-> FALSE, names |-> 0, life |-> "none", clear |-> FALSE]

\* An owner who is gone disables his rows of all generations, one who is back starts
\* unacknowledged
Toggled(r, o) ==
  IF r.on = OwnerOn(o) THEN r
  ELSE IF OwnerOn(o) THEN [r EXCEPT !.on = TRUE, !.state = "prepared", !.acc = FALSE]
  ELSE [r EXCEPT !.on = FALSE]

\* Other logins than before must be routed again
Named(r, id, gen) ==
  IF id[2] # gen \/ ~OwnerOn(id[1]) \/ r.names = subjects[id[1]] THEN r
  ELSE [r EXCEPT !.names = subjects[id[1]], !.state = IF @ = "active" THEN "accepted" ELSE @]

PreparedRows(gen) ==
  [id \in Registered(gen) |->
     Named(IF id \in DOMAIN rows THEN Toggled(rows[id], id[1]) ELSE FreshUser, id, gen)]

Prepare ==
  /\ pass = {"idle"}
  /\ PreparedLink.gen <= MaxGen
  /\ LET l == PreparedLink
         new == mode = "user" /\ DOMAIN PreparedRows(l.gen) # DOMAIN rows
     IN /\ link' = IF new THEN [l EXCEPT !.state = "prepared"] ELSE l
        /\ rows' = IF mode = "user" THEN PreparedRows(l.gen) ELSE rows
        /\ gens' = IF l.gen = link.gen THEN gens
                   ELSE [g \in 1..l.gen |-> IF g \in DOMAIN gens THEN gens[g]
                           ELSE [acc |-> FALSE, retired |-> FALSE, gone |-> FALSE]]
  /\ pass' = {"prepared"}
  /\ UNCHANGED <<mode, spec, subjects, compat, running, flight, byTag, calm, ops>>

\* The users are read once for the whole pass
Start ==
  /\ pass = {"prepared"}
  /\ byTag' = subjects
  /\ pass' = Machines
  /\ UNCHANGED <<mode, spec, subjects, link, gens, rows, compat, running, flight, calm, ops>>
-----------------------------------------------------------------------------
(* What a machine is given                                                   *)

\* Generations a landing goes on accepting
AcceptedGenerations ==
  {<<0, g>> : g \in {h \in DOMAIN gens : ~gens[h].retired /\ (gens[h].acc \/ mode # "off")}}

LandingUsers ==
  {id \in DOMAIN rows : /\ rows[id].on /\ rows[id].life \notin {"retiring", "retired"}
                        /\ rows[id].acc \/ mode = "user" \/ rows[id].life = "restoring"}

LandingConfig ==
  [is |-> "landing", spec |-> spec,
   accepts |-> (IF compat \in {"retiring", "retired"} THEN {} ELSE {Shared})
                 \cup AcceptedGenerations \cup LandingUsers]

\* Mutant: the relay does not wait for the landing
LinkReadyAnyway == link.gen > 0 /\ link.spec = spec

\* meteredRelayOutbound: the landing runs this generation, and is still the same
LinkReady == link.gen > 0 /\ link.state \in {"accepted", "active"} /\ link.spec = spec

\* meteredUserRelays: so do its users' own credentials
UsersReady ==
  \A o \in {p \in Owners : byTag[p] # 0} :
    /\ Current(o) \in DOMAIN rows /\ rows[Current(o)].on
    /\ rows[Current(o)].state \in {"accepted", "active"}

SharedConfig == [is |-> "relay", uses |-> {Shared}, names |-> << >>]

\* An error leaves the relay its old configuration
RelayConfig ==
  LET riders == IF mode = "user" THEN {o \in Owners : byTag[o] # 0} ELSE {}
  IN IF mode = "off" THEN SharedConfig
     ELSE IF ~LinkReady \/ (mode = "user" /\ ~UsersReady) THEN Nothing
     ELSE [is |-> "relay", uses |-> {Current(0)} \cup {Current(o) : o \in riders},
           names |-> [o \in riders |-> byTag[o]]]

\* The pass ends when every machine is compiled and no configuration is on its way
Send(m, config, left) ==
  /\ flight' = [flight EXCEPT ![m] = config]
  /\ pass' = IF left = {} /\ Range(flight') = {Nothing} THEN {"idle"} ELSE left

Compile(m) ==
  /\ m \in pass
  /\ Send(m, IF m = "landing" THEN LandingConfig ELSE RelayConfig, pass \ {m})
  /\ UNCHANGED <<mode, spec, subjects, link, gens, rows, compat, running, byTag, calm, ops>>

\* The machine runs the new configuration; the panel has yet to write it down
Apply(m) ==
  /\ flight[m] \notin {Nothing, running[m]}
  /\ running' = [running EXCEPT ![m] = flight[m]]
  /\ UNCHANGED <<mode, spec, subjects, link, gens, rows, compat, flight, pass, byTag, calm, ops>>

\* The machine could not be reached, refused the file, or the panel went down
ApplyFails(m) ==
  /\ flight[m] # Nothing
  /\ Send(m, Nothing, pass)
  /\ UNCHANGED <<mode, spec, subjects, link, gens, rows, compat, running, byTag, calm, ops>>
-----------------------------------------------------------------------------
(* RecordRelayConfigApplied, one transaction, nothing while metering is off  *)

\* Users of the current generation, while the landing is what they were minted for
Counted(id) == mode = "user" /\ rows[id].on /\ id[2] = link.gen /\ link.spec = spec

AckAtLanding(c, id) ==
  LET r == rows[id] IN
    IF id \in c.accepts /\ c.spec = spec
      THEN IF r.state = "prepared" THEN [r EXCEPT !.state = "accepted", !.acc = TRUE] ELSE r
      ELSE [r EXCEPT !.state = "prepared", !.acc = FALSE]

\* Every login of the owner leaves by the owner's own outbound
Routed(c, id) == id \in c.uses /\ id[1] \in DOMAIN c.names /\ c.names[id[1]] = rows[id].names

AckAtRelay(c, id) ==
  LET r == rows[id] IN
    CASE Routed(c, id) /\ r.state = "accepted" -> [r EXCEPT !.state = "active"]
      [] ~Routed(c, id) /\ r.state = "active" -> [r EXCEPT !.state = "accepted"]
      [] OTHER -> r

AckUser(m, c, id) ==
  IF ~Counted(id) THEN rows[id] ELSE IF m = "landing" THEN AckAtLanding(c, id) ELSE AckAtRelay(c, id)

\* The relay is rid of a replaced credential once the new one carries its owner
Rid(c, id, acked) ==
  LET new == Current(id[1]) IN
    /\ mode = "user" /\ id \notin c.uses
    /\ new \in DOMAIN acked /\ acked[new].on /\ acked[new].state = "active"

\* What became of a replaced credential at the landing
LifeAt(c, id, life) ==
  CASE life = "none" -> life
    [] life \in {"retiring", "retired"} -> IF id \in c.accepts THEN "retiring" ELSE "retired"
    [] OTHER -> IF id \in c.accepts /\ c.spec = spec THEN "active" ELSE "restoring"

AckReplaced(m, c, id, acked) ==
  IF id[2] >= link.gen THEN acked[id]
  ELSE IF m = "relay" THEN [acked[id] EXCEPT !.clear = Rid(c, id, acked)]
  ELSE [acked[id] EXCEPT !.life = LifeAt(c, id, @)]

AckGeneration(c, g) ==
  CASE gens[g].retired /\ <<0, g>> \notin c.accepts -> [gens[g] EXCEPT !.gone = TRUE]
    [] ~gens[g].retired /\ <<0, g>> \in c.accepts -> [gens[g] EXCEPT !.acc = TRUE]
    [] OTHER -> gens[g]

AckCompat(c) ==
  CASE compat = "retiring" /\ Shared \notin c.accepts -> "retired"
    [] compat = "restoring" /\ Shared \in c.accepts -> "active"
    [] OTHER -> compat

\* The link's own identity
OwnState(m, c) ==
  IF link.gen = 0 \/ link.spec # spec THEN link.state
  ELSE CASE m = "landing" /\ link.state = "prepared" /\ Current(0) \in c.accepts -> "accepted"
         [] m = "relay" /\ link.state = "accepted" /\ Current(0) \in c.uses -> "active"
         [] OTHER -> link.state

\* With users on it, a link is as ready as the least ready of them
AckLink(m, c, acked) ==
  LET states == {acked[id].state : id \in {i \in DOMAIN acked : i[2] = link.gen /\ acked[i].on}}
  IN IF mode # "user" \/ states = {} THEN OwnState(m, c)
     ELSE IF "prepared" \in states THEN "prepared"
     ELSE IF "accepted" \in states THEN "accepted" ELSE "active"

Record(m) ==
  /\ flight[m] # Nothing /\ flight[m] = running[m]
  /\ Send(m, Nothing, pass)
  /\ LET c == flight[m]
         acked == [id \in DOMAIN rows |-> AckUser(m, c, id)]
         state == AckLink(m, c, acked)
         began(id) == m = "relay" /\ \/ id[1] = 0 /\ state = "active" /\ link.state # "active"
                                     \/ id[1] # 0 /\ id \in DOMAIN rows /\ ~rows[id].clear
     IN IF mode = "off" THEN UNCHANGED <<link, gens, rows, compat, calm>>
        ELSE /\ link' = [link EXCEPT !.state = state]
             /\ rows' = [id \in DOMAIN rows |-> AckReplaced(m, c, id, acked)]
             /\ gens' = IF m = "landing" THEN [g \in DOMAIN gens |-> AckGeneration(c, g)] ELSE gens
             /\ compat' = IF m = "landing" THEN AckCompat(c) ELSE compat
             /\ calm' = [id \in Identities |-> IF began(id) THEN 0 ELSE calm[id]]
  /\ UNCHANGED <<mode, spec, subjects, running, byTag, ops>>
-----------------------------------------------------------------------------
(* The administrator                                                         *)

\* Metering is not switched off while the landing refuses the shared secret
ConfigureMetering ==
  /\ Spend
  /\ \E m \in {"off", "link", "user"} \ {mode} :
       /\ m = "off" => compat = "active"
       /\ mode' = m
  /\ UNCHANGED <<spec, subjects, link, gens, rows, compat, running, flight, pass, byTag, calm>>

EditLanding ==
  /\ Spend
  /\ spec' \in Specs \ {spec}
  /\ UNCHANGED <<mode, subjects, link, gens, rows, compat, running, flight, pass, byTag, calm>>

\* An owner comes, goes, or has other logins than before
EntitlementChanges ==
  /\ Spend
  /\ \E o \in Owners, v \in 0..2 : v # subjects[o] /\ subjects' = [subjects EXCEPT ![o] = v]
  /\ UNCHANGED <<mode, spec, link, gens, rows, compat, running, flight, pass, byTag, calm>>

CanRetireUser(id) ==
  /\ mode = "user" /\ id[2] < link.gen
  /\ Current(id[1]) \in DOMAIN rows
  /\ rows[Current(id[1])].on /\ rows[Current(id[1])].state = "active"
  /\ rows[id].life \in {"none", "active"} /\ rows[id].clear

\* Two quiet collection passes after the switch; for a user's credential, also the
\* proof that the relay's configuration is rid of it
CanRetire(id) ==
  /\ calm[id] = 2
  /\ id[1] = 0 => link.state = "active" /\ (id # Shared => id[2] < link.gen)
  /\ id[1] # 0 => CanRetireUser(id)

Replaced == (IF link.gen = 0 THEN {} ELSE {Shared}) \cup {<<0, g>> : g \in {h \in DOMAIN gens : h < link.gen}}
              \cup {id \in DOMAIN rows : id[2] < link.gen}

ChangeCredential(id, retire) ==
  /\ compat' = IF id # Shared THEN compat ELSE IF retire THEN "retiring" ELSE "restoring"
  /\ gens' = IF id[1] # 0 \/ id = Shared THEN gens
             ELSE [gens EXCEPT ![id[2]] = [acc |-> FALSE, retired |-> retire, gone |-> FALSE]]
  /\ rows' = IF id[1] = 0 THEN rows
             ELSE [rows EXCEPT ![id].life = IF retire THEN "retiring" ELSE "restoring"]
  /\ UNCHANGED <<mode, spec, subjects, link, running, flight, pass, byTag, calm>>

Retire == Spend /\ mode # "off" /\ \E id \in Replaced : CanRetire(id) /\ ChangeCredential(id, TRUE)
Restore == Spend /\ mode # "off" /\ \E id \in Replaced : ChangeCredential(id, FALSE)

\* Both machines are collected; some of the relay's identities carried traffic
Collect ==
  /\ \E busy \in SUBSET running["relay"].uses :
       calm' = [id \in Identities |-> IF id \in busy \/ id \notin Replaced THEN 0
                                    ELSE IF calm[id] = 2 THEN 2 ELSE calm[id] + 1]
  /\ UNCHANGED <<mode, spec, subjects, link, gens, rows, compat, running, flight, pass, byTag, ops>>
-----------------------------------------------------------------------------
\* A relay in use, without metering or just before the first pass with it
Init ==
  /\ mode \in {"off", "link", "user"} /\ spec = CHOOSE s \in Specs : TRUE
  /\ subjects = [o \in Owners |-> 1] /\ byTag = subjects
  /\ link = [gen |-> 0, state |-> "prepared", spec |-> spec]
  /\ gens = << >> /\ rows = << >> /\ compat = "active"
  /\ running = [m \in Machines |-> IF m = "landing" THEN LandingConfig ELSE SharedConfig]
  /\ flight = [m \in Machines |-> Nothing] /\ pass = {"idle"}
  /\ calm = [id \in Identities |-> 0]
  /\ ops = 0

Next ==
  \/ Prepare \/ Start
  \/ \E m \in Machines : Compile(m) \/ Apply(m) \/ ApplyFails(m) \/ Record(m)
  \/ ConfigureMetering \/ EditLanding \/ EntitlementChanges \/ Retire \/ Restore \/ Collect

Spec == Init /\ [][Next]_vars
-----------------------------------------------------------------------------
\* An owner's credential he lost, or one being restored, counts again once accepted
Expected(id) ==
  IF id[1] = 0 THEN id[2] = link.gen \/ gens[id[2]].acc \/ gens[id[2]].retired
  ELSE rows[id].on /\ rows[id].acc

\* However edits, switches, failed applications and retirements interleave, a credential
\* that was minted is one the running landing accepts for as long as the running relay
\* dials with it (relay_metering.go: "New links remain blocked at entry until the
\* downstream running config has acknowledged the same generation").
DialsAreAccepted ==
  \A id \in running["relay"].uses \ {Shared} :
    Expected(id) => id \in running["landing"].accepts
=============================================================================
