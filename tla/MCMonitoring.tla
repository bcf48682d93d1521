---------------------------- MODULE MCMonitoring ----------------------------
(* Monitoring for TLC; its bound is given in the configuration.                *)
EXTENDS Monitoring
=============================================================================
