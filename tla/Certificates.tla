----------------------------- MODULE Certificates -----------------------------
(* Managed certificates: issued and renewed on the panel's machine by        *)
(* acme.sh, which keeps one pair of files per domain, read back, verified    *)
(* and stored, referenced by TLS profiles and built into the configurations  *)
(* of the machines whose inbounds use a profile.  An issue takes minutes, so *)
(* requests, renewals and edits overlap.  A certificate and its key are the  *)
(* number of the issue they come from; domains, key types and expiry dates   *)
(* are left out, and what the rebuild queue does with a request is module    *)
(* Deploy's.                                                                 *)
EXTENDS Integers, FiniteSets

CONSTANTS
  Certs,      \* ids of rows of certificates, all for one domain
  Profiles,   \* ids of rows of sb_tls
  Inbounds,   \* ids of sb_inbounds, each on a machine of its own
  Jobs,       \* requests that can be under way together
  None,
  MaxIssues,  \* bound on issues by the authority
  MaxOps      \* bound on requests

VARIABLES
  issues,     \* issues so far
  disk,       \* the certificate file and the key file of the domain
  cert,       \* rows of certificates: absent, or the stored pair and what it is
  profile,    \* rows of sb_tls: absent, or the certificate they name (None: inline)
  inbound,    \* the profile each inbound names, or None
  running,    \* the pair each machine presents: [cert, crt, key], or None
  queue,      \* machines a rebuild is requested for
  failed,     \* machines whose last build was refused
  reverted,   \* history: certificates an edit wrote another pair of than was stored
  job, ops

vars == <<issues, disk, cert, profile, inbound, running, queue, failed, reverted, job, ops>>

Idle == [at |-> "idle"]
Absent == [is |-> "absent"]
Row(source, auto, crt, key) ==
  [is |-> "row", source |-> source, auto |-> auto, crt |-> crt, key |-> key]
Spend == ops < MaxOps /\ ops' = ops + 1
Go(j, next) == job' = [job EXCEPT ![j] = next]
To(j, at) == Go(j, [job[j] EXCEPT !.at = at])
Pair(p) == p.crt = p.key
Exists(c) == cert[c].is = "row"

Init ==
  /\ issues = 1
  /\ disk = [crt |-> 1, key |-> 1]
  /\ \E c \in Certs, t \in Profiles :
       /\ cert = [x \in Certs |-> IF x = c THEN Row("acme", TRUE, 1, 1) ELSE Absent]
       /\ profile = [x \in Profiles |-> IF x = t THEN [is |-> "row", cert |-> c] ELSE Absent]
       /\ inbound = [i \in Inbounds |-> t]
       /\ running = [i \in Inbounds |-> [cert |-> c, crt |-> 1, key |-> 1]]
  /\ queue = {} /\ failed = {} /\ reverted = {}
  /\ job = [j \in Jobs |-> Idle] /\ ops = 0
-----------------------------------------------------------------------------
(* Issue and renewal                                                         *)

\* A new certificate is asked for
CertAcme(j) ==
  /\ job[j] = Idle /\ Spend
  /\ \E c \in Certs : /\ cert[c] = Absent
                      /\ \A k \in Jobs : job[k] # Idle => job[k].cert # c
                      /\ Go(j, [at |-> "issue", cert |-> c, row |-> Row("acme", TRUE, 0, 0), new |-> TRUE])
  /\ UNCHANGED <<issues, disk, cert, profile, inbound, running, queue, failed, reverted>>

\* The sweep takes certificates it may renew by itself, a request any; the row is held
\* from here on
RenewDueCerts(j) ==
  /\ job[j] = Idle /\ Spend
  /\ \E c \in Certs : /\ Exists(c) /\ cert[c].source = "acme" /\ cert[c].auto
                      /\ Go(j, [at |-> "issue", cert |-> c, row |-> cert[c], new |-> FALSE])
  /\ UNCHANGED <<issues, disk, cert, profile, inbound, running, queue, failed, reverted>>

CertRenew(j) ==
  /\ job[j] = Idle /\ Spend
  /\ \E c \in Certs : /\ Exists(c) /\ cert[c].source = "acme"
                      /\ Go(j, [at |-> "issue", cert |-> c, row |-> cert[c], new |-> FALSE])
  /\ UNCHANGED <<issues, disk, cert, profile, inbound, running, queue, failed, reverted>>

\* acme.sh fails, finds the certificate still valid, or has a new one issued and writes
\* the key and then the chain
AcmeRun(j) ==
  /\ \/ Go(j, Idle) /\ UNCHANGED <<issues, disk>>
     \/ To(j, "crt") /\ UNCHANGED <<issues, disk>>
     \/ /\ issues < MaxIssues /\ issues' = issues + 1
        /\ disk' = [disk EXCEPT !.key = issues + 1]
        /\ Go(j, [job[j] EXCEPT !.at = "install", !.row.key = issues + 1])
  /\ UNCHANGED <<cert, profile, inbound, running, queue, failed, reverted, ops>>

Issue(j) == job[j].at = "issue" /\ job[j].new /\ AcmeRun(j)
Renew(j) == job[j].at = "issue" /\ ~job[j].new /\ AcmeRun(j)

Install(j) ==
  /\ job[j].at = "install"
  /\ disk' = [disk EXCEPT !.crt = job[j].row.key]
  /\ To(j, "crt")
  /\ UNCHANGED <<issues, cert, profile, inbound, running, queue, failed, reverted, ops>>

\* ReadPEM: one command for each file
ReadCrt(j) ==
  /\ job[j].at = "crt"
  /\ Go(j, [job[j] EXCEPT !.at = "key", !.row.crt = disk.crt])
  /\ UNCHANGED <<issues, disk, cert, profile, inbound, running, queue, failed, reverted, ops>>

ReadKey(j) ==
  /\ job[j].at = "key"
  /\ Go(j, [job[j] EXCEPT !.at = "save", !.row.key = disk.key])
  /\ UNCHANGED <<issues, disk, cert, profile, inbound, running, queue, failed, reverted, ops>>

\* Mutant: the pair is stored as it was read
SaveAnyPair(j) ==
  /\ job[j].at = "save"
  /\ cert' = IF job[j].new \/ Exists(job[j].cert)
               THEN [cert EXCEPT ![job[j].cert] = job[j].row] ELSE cert
  /\ IF job[j].new THEN Go(j, Idle) ELSE To(j, "push")
  /\ UNCHANGED <<issues, disk, profile, inbound, running, queue, failed, reverted, ops>>

\* A candidate that is not a pair leaves the stored one alone; otherwise the whole row
\* is written as it was held
SaveCert(j) ==
  /\ job[j].at = "save"
  /\ IF Pair(job[j].row)
       THEN /\ cert' = IF job[j].new \/ Exists(job[j].cert)
                         THEN [cert EXCEPT ![job[j].cert] = job[j].row] ELSE cert
            /\ IF job[j].new THEN Go(j, Idle) ELSE To(j, "push")
       ELSE Go(j, Idle) /\ UNCHANGED cert
  /\ UNCHANGED <<issues, disk, profile, inbound, running, queue, failed, reverted, ops>>

\* Machines that carry the certificate now
CertServerIDs(c) ==
  {i \in Inbounds : inbound[i] # None /\ profile[inbound[i]] # Absent /\ profile[inbound[i]].cert = c}

PushCertServers(j) ==
  /\ job[j].at = "push"
  /\ queue' = queue \cup CertServerIDs(job[j].cert)
  /\ Go(j, Idle)
  /\ UNCHANGED <<issues, disk, cert, profile, inbound, running, failed, reverted, ops>>
-----------------------------------------------------------------------------
(* Certificates by hand                                                      *)

Imported(source) ==
  /\ Spend
  /\ \E c \in Certs : /\ cert[c] = Absent
                      /\ \A k \in Jobs : job[k] # Idle => job[k].cert # c
                      /\ cert' = [cert EXCEPT ![c] = Row(source, FALSE, 0, 0)]
  /\ UNCHANGED <<issues, disk, profile, inbound, running, queue, failed, reverted, job>>

CertPaste == Imported("paste")
CertSelfSigned == Imported("selfsigned")

\* The row is read, its switch changed, and all of it written: in two statements
UpdateCertRead(j) ==
  /\ job[j] = Idle /\ Spend
  /\ \E c \in Certs : /\ Exists(c)
                      /\ Go(j, [at |-> "edit", cert |-> c, row |-> [cert[c] EXCEPT !.auto = ~@], new |-> FALSE])
  /\ UNCHANGED <<issues, disk, cert, profile, inbound, running, queue, failed, reverted>>

UpdateCert(j) ==
  /\ job[j].at = "edit"
  /\ LET c == job[j].cert IN
       /\ cert' = IF Exists(c) THEN [cert EXCEPT ![c] = job[j].row] ELSE cert
       /\ reverted' = IF Exists(c) /\ cert[c].crt # job[j].row.crt THEN reverted \cup {c} ELSE reverted
  /\ Go(j, Idle)
  /\ UNCHANGED <<issues, disk, profile, inbound, running, queue, failed, ops>>

\* References are counted in one statement, the row deleted in the next
CountCertRefs(j) ==
  /\ job[j] = Idle /\ Spend
  /\ \E c \in Certs : /\ Exists(c)
                      /\ \A t \in Profiles : profile[t] # Absent => profile[t].cert # c
                      /\ Go(j, [at |-> "delete", cert |-> c])
  /\ UNCHANGED <<issues, disk, cert, profile, inbound, running, queue, failed, reverted>>

DeleteCert(j) ==
  /\ job[j].at = "delete"
  /\ cert' = [cert EXCEPT ![job[j].cert] = [is |-> "gone"]]
  /\ Go(j, Idle)
  /\ UNCHANGED <<issues, disk, profile, inbound, running, queue, failed, reverted, ops>>
-----------------------------------------------------------------------------
(* Profiles and the inbounds that use them                                   *)

\* The certificate is looked up before the profile is written
SaveCertTlsCheck(j) ==
  /\ job[j] = Idle /\ Spend
  /\ \E t \in Profiles, c \in {d \in Certs : Exists(d)} \cup {None} :
       Go(j, [at |-> "profile", cert |-> c, profile |-> t])
  /\ UNCHANGED <<issues, disk, cert, profile, inbound, running, queue, failed, reverted>>

\* Every machine is asked to rebuild
SaveSbTls(j) ==
  /\ job[j].at = "profile"
  /\ profile' = [profile EXCEPT ![job[j].profile] = [is |-> "row", cert |-> job[j].cert]]
  /\ queue' = Inbounds
  /\ Go(j, Idle)
  /\ UNCHANGED <<issues, disk, cert, inbound, running, failed, reverted, ops>>

\* A profile with a certificate of its own takes the place of one with a managed one
UpdateRealityTls ==
  /\ Spend
  /\ \E t \in Profiles : profile[t] # Absent /\ profile' = [profile EXCEPT ![t].cert = None]
  /\ queue' = Inbounds
  /\ UNCHANGED <<issues, disk, cert, inbound, running, failed, reverted, job>>

\* No inbound can name a profile that is just made
NewInlineTls ==
  /\ Spend
  /\ \E t \in Profiles : /\ profile[t] = Absent
                         /\ profile' = [profile EXCEPT ![t] = [is |-> "row", cert |-> None]]
  /\ UNCHANGED <<issues, disk, cert, inbound, running, failed, reverted, job>>

CreateRealityTls == NewInlineTls /\ UNCHANGED queue
QuickSelfSignedTls == NewInlineTls /\ UNCHANGED queue

DeleteSbTls ==
  /\ Spend
  /\ \E t \in Profiles : /\ profile[t] # Absent /\ \A i \in Inbounds : inbound[i] # t
                         /\ profile' = [profile EXCEPT ![t] = Absent]
  /\ queue' = Inbounds
  /\ UNCHANGED <<issues, disk, cert, inbound, running, failed, reverted, job>>

\* The profile an inbound names is not looked up
SaveSbInbound ==
  /\ Spend
  /\ \E i \in Inbounds, t \in {p \in Profiles : profile[p] # Absent} \cup {None} :
       inbound' = [inbound EXCEPT ![i] = t] /\ queue' = queue \cup {i}
  /\ UNCHANGED <<issues, disk, cert, profile, running, failed, reverted, job>>

\* resolveTlsBlock: a profile whose certificate is gone refuses the whole machine's
\* configuration
ResolveTlsBlock(i) ==
  LET t == inbound[i] IN
    IF t = None \/ profile[t] = Absent \/ profile[t].cert = None THEN None
    ELSE [cert |-> profile[t].cert, crt |-> cert[profile[t].cert].crt, key |-> cert[profile[t].cert].key]

\* A queued or periodic pass over one machine
Rebuild ==
  \E i \in Inbounds :
    LET t == inbound[i]
        dangling == /\ t # None /\ profile[t] # Absent /\ profile[t].cert # None
                    /\ ~Exists(profile[t].cert)
    IN /\ queue' = queue \ {i}
       /\ IF dangling
            THEN failed' = failed \cup {i} /\ UNCHANGED running
            ELSE failed' = failed \ {i} /\ running' = [running EXCEPT ![i] = ResolveTlsBlock(i)]
       /\ UNCHANGED <<issues, disk, cert, profile, inbound, reverted, job, ops>>

\* Requests, renewals and the queue are gone; the periodic pass goes over every machine
PanelRestarts ==
  /\ Spend
  /\ job' = [j \in Jobs |-> Idle]
  /\ queue' = Inbounds
  /\ UNCHANGED <<issues, disk, cert, profile, inbound, running, failed, reverted>>

Next ==
  \/ \E j \in Jobs :
       \/ CertAcme(j) \/ RenewDueCerts(j) \/ CertRenew(j) \/ Issue(j) \/ Renew(j) \/ Install(j)
       \/ ReadCrt(j) \/ ReadKey(j) \/ SaveCert(j) \/ PushCertServers(j)
       \/ UpdateCertRead(j) \/ UpdateCert(j) \/ CountCertRefs(j) \/ DeleteCert(j)
       \/ SaveCertTlsCheck(j) \/ SaveSbTls(j)
  \/ CertPaste \/ CertSelfSigned \/ UpdateRealityTls \/ CreateRealityTls
  \/ QuickSelfSignedTls \/ DeleteSbTls \/ SaveSbInbound \/ Rebuild \/ PanelRestarts

Spec == Init /\ [][Next]_vars
-----------------------------------------------------------------------------
\* However issues, renewals and reads of the shared files overlap, a machine presents
\* a certificate with its own key; and one whose stored certificate is newer than what
\* it presents is about to be rebuilt, or is on record as failed: a renewal reaches
\* every machine that uses it.  An edit held across a renewal writes the pair it read
\* back and asks for no rebuild; such certificates are left out.
RenewalsArrive ==
  \A i \in Inbounds :
    running[i] # None =>
      LET c == running[i].cert
          outdated == /\ i \in CertServerIDs(c) /\ Exists(c) /\ c \notin reverted
                      /\ cert[c].crt > running[i].crt
      IN /\ Pair(running[i])
         /\ outdated => \/ i \in queue \cup failed
                        \/ \E j \in Jobs : job[j].at = "push" /\ job[j].cert = c
=============================================================================
