------------------------------ MODULE MCDeploy ------------------------------
(* The panel's own machine and one remote machine.                           *)
EXTENDS DeployProperties

CONSTANTS panel, remote

MCNodes == {panel, remote}
MCLocal == {panel}
MCNeeds == [n \in MCNodes |-> IF n = remote THEN {remote} ELSE {}]
=============================================================================
