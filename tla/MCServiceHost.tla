--------------------------- MODULE MCServiceHost ---------------------------
(* The model values of the instance are given in service_host.cfg.         *)
EXTENDS ServiceHost
=============================================================================
