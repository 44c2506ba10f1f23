----------------------------- MODULE NodeSources -----------------------------
(* External subscriptions: a source row, the nodes it supplied last time,    *)
(* and the fetches, manual and periodic, that replace them.  A fetch takes   *)
(* as long as the network lets it; meanwhile the source may be edited or     *)
(* deleted.                                                                  *)
EXTENDS Integers, FiniteSets, Functions

CONSTANTS
  Sources,   \* ids of node_sources
  Groups,    \* ids of node_groups
  Links,     \* nodes a source may offer
  Jobs,      \* fetches that can be under way together
  MaxOps     \* bound on requests and fetches

VARIABLES
  source,    \* rows of node_sources: enabled, bound groups
  group,     \* groups that exist
  node,      \* per source: its nodes and the groups each of them is in
  job,       \* fetches under way: the row they started from, the groups they carry
  good,      \* history: per source, what its last complete answer held
  ops        \* requests and fetches so far

vars == <<source, group, node, job, good, ops>>

Idle == [on |-> "none"]
Stored == "stored"     \* the request carries no groups: those of the row count
Spend == ops < MaxOps /\ ops' = ops + 1

Init ==
  /\ source = << >> /\ group = Groups
  /\ node = [s \in Sources |-> << >>]
  /\ job = [j \in Jobs |-> Idle]
  /\ good = [s \in Sources |-> {}]
  /\ ops = 0

CreateSource ==
  /\ Spend
  /\ \E s \in Sources \ DOMAIN source, g \in SUBSET group :
       /\ node[s] = << >> /\ good[s] = {}      \* ids are not used twice
       /\ source' = [x \in DOMAIN source \cup {s} |->
                       IF x = s THEN [enabled |-> TRUE, groups |-> g] ELSE source[x]]
  /\ UNCHANGED <<group, node, job, good>>

\* The binding is edited; the nodes follow at the next fetch
UpdateSource ==
  /\ Spend
  /\ \E s \in DOMAIN source, g \in SUBSET group, on \in BOOLEAN :
       source' = [source EXCEPT ![s] = [enabled |-> on, groups |-> g]]
  /\ UNCHANGED <<group, node, job, good>>

DeleteSource ==
  /\ Spend
  /\ \E s \in DOMAIN source :
       /\ source' = Restrict(source, DOMAIN source \ {s})
       /\ node' = [node EXCEPT ![s] = << >>]
  /\ UNCHANGED <<group, job, good>>

\* Memberships go with the group; the bindings of sources keep naming it
DeleteGroup ==
  /\ Spend
  /\ \E g \in group :
       /\ group' = group \ {g}
       /\ node' = [s \in Sources |-> [l \in DOMAIN node[s] |-> node[s][l] \ {g}]]
  /\ UNCHANGED <<source, job, good>>

\* A fetch by request, with groups of its own or without
FetchSource(j) ==
  /\ job[j] = Idle /\ Spend
  /\ \E s \in DOMAIN source, g \in {{Stored}} \cup SUBSET group :
       job' = [job EXCEPT ![j] = [on |-> s, groups |-> g]]
  /\ UNCHANGED <<source, group, node, good>>

\* The periodic fetch of an enabled source
SourceSync(j) ==
  /\ job[j] = Idle /\ Spend
  /\ \E s \in DOMAIN source :
       /\ source[s].enabled
       /\ job' = [job EXCEPT ![j] = [on |-> s, groups |-> {Stored}]]
  /\ UNCHANGED <<source, group, node, good>>

\* No answer, another status than 200, a page instead of a list, or no node in it:
\* only the diagnostic is written
FetchFails(j) ==
  /\ job[j] # Idle
  /\ job' = [job EXCEPT ![j] = Idle]
  /\ UNCHANGED <<source, group, node, good, ops>>

\* Mutant: the nodes are written for whatever row the fetch started from
ReplaceAnyway(j) ==
  /\ job[j] # Idle
  /\ LET s == job[j].on
         bound == IF job[j].groups = {Stored}
                    THEN IF s \in DOMAIN source THEN source[s].groups ELSE {}
                    ELSE job[j].groups
     IN \E links \in (SUBSET Links) \ {{}} :
          /\ node' = [node EXCEPT ![s] = [l \in links |-> bound]]
          /\ good' = [good EXCEPT ![s] = links]
          /\ source' = IF s \in DOMAIN source THEN [source EXCEPT ![s].groups = bound] ELSE source
  /\ job' = [job EXCEPT ![j] = Idle]
  /\ UNCHANGED <<group, ops>>

\* A complete list replaces the nodes, their memberships and, if it came with groups,
\* the binding, in one transaction; a source deleted meanwhile gets nothing
ReplaceSourceNodes(j) ==
  /\ job[j] # Idle
  /\ LET s == job[j].on
         bound == IF job[j].groups = {Stored} THEN source[s].groups ELSE job[j].groups
     IN IF s \in DOMAIN source
          THEN \E links \in (SUBSET Links) \ {{}} :
                 /\ node' = [node EXCEPT ![s] = [l \in links |-> bound]]
                 /\ good' = [good EXCEPT ![s] = links]
                 /\ source' = [source EXCEPT ![s].groups = bound]
          ELSE UNCHANGED <<source, node, good>>
  /\ job' = [job EXCEPT ![j] = Idle]
  /\ UNCHANGED <<group, ops>>

Next ==
  \/ CreateSource \/ UpdateSource \/ DeleteSource \/ DeleteGroup
  \/ \E j \in Jobs : FetchSource(j) \/ SourceSync(j) \/ FetchFails(j) \/ ReplaceSourceNodes(j)

Spec == Init /\ [][Next]_vars
-----------------------------------------------------------------------------
\* However fetches, edits and deletions overlap, a source offers exactly what its last
\* complete answer held - a failed refresh takes nothing away - and a source that was
\* deleted offers nothing, not even what a fetch brought in afterwards.
OffersLastAnswer ==
  \A s \in Sources : DOMAIN node[s] = IF s \in DOMAIN source THEN good[s] ELSE {}
=============================================================================
