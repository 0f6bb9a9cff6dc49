----------------------- MODULE MCRecoveryCoordinator -----------------------
(* The bounds of the instance are given in recovery.cfg.                   *)
EXTENDS RecoveryCoordinator
=============================================================================
