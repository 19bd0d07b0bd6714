---------------------------- MODULE MCDeployRecord ----------------------------
(* Instances of DeployRecord for TLC; foreground deploys are interchangeable,  *)
(* and so are background ones.                                                 *)
EXTENDS DeployRecord, TLC

CONSTANTS f1, f2, f3, b1, b2

DeploySymmetry == Permutations({f1, f2, f3}) \cup Permutations({b1, b2})
=============================================================================
