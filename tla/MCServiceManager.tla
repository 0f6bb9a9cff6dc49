-------------------------- MODULE MCServiceManager --------------------------
(* The model values of the instance are given in service_manager.cfg.      *)
EXTENDS ServiceManager
=============================================================================
