------------------------------ MODULE MCPanel ------------------------------
(* A small instance of each part of Panel:                                   *)
(*   accounts       two users, one address, one invite code of one use       *)
(*   monitoring     one machine of several kinds, each with the inputs that  *)
(*                  matter to it                                             *)
(*   upgrades       three releases, two snapshots kept                       *)
(*   backup         two buckets, two records kept                            *)
(*   migrations     two accounts of an older release, one package            *)
(*   notifications  one user, one Telegram account, one broadcast            *)
(*   credentials    two members, one of them an administrator, one name      *)
(*   codes          two members, two codes, two wrong guesses lock           *)
EXTENDS Panel

MCMaxOps == [accounts |-> 3, credentials |-> 3, monitoring |-> 2, upgrades |-> 4, backup |-> 2,
             migrations |-> 2, notifications |-> 3]
MCHorizon == [credentials |-> 1, codes |-> 2, monitoring |-> 3, backup |-> 1, migrations |-> 1]

MCVersions == 1..3
MCOptional == [source \in {"env", "keys"} |-> source = "keys"]
MCChain == <<"baseline", "monthly">>

Report(hot, total, booted, valid) == [hot |-> hot, total |-> total, booted |-> booted, valid |-> valid]
Machine(local, setting, expiry, limit, reports, patches, others) ==
  [local |-> local, setting |-> setting, daily |-> local, expiry |-> expiry, limit |-> limit,
   reports |-> reports, patches |-> patches, others |-> others]

MCMachines ==
    { \* runs hot at times, may stop reporting, may be taken off the probe
      Machine(FALSE, 2, 0, 0, {Report(FALSE, 1, FALSE, TRUE), Report(TRUE, 1, FALSE, TRUE)},
              {"probe"}, {"read all", "restart"}),
      \* the panel's own, about to expire
      Machine(TRUE, 0, 3, 0, {Report(TRUE, 2, FALSE, TRUE)}, {"expiry"}, {"read"}),
      \* limited: its cycle is moved, its counters start over; it is calibrated or deleted;
      \* its mode and its limit are edited
      Machine(FALSE, 0, 0, 2, {Report(FALSE, 2, FALSE, TRUE), Report(FALSE, 1, TRUE, FALSE)}, {"reset"}, {}),
      Machine(FALSE, 0, 0, 2, {Report(FALSE, 2, FALSE, TRUE)}, {}, {"calibrate", "delete"}),
      Machine(TRUE, 0, 0, 2, {Report(FALSE, 1, FALSE, TRUE), Report(FALSE, 0, TRUE, TRUE)}, {"mode", "limit"}, {})}
=============================================================================
