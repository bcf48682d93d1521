---------------------------- MODULE MCDeviceActor ----------------------------
(* Values of the constants of DeviceActor for TLC: the kinds of requests a      *)
(* client sends to an instrument of a LAN server, and which of them a backend   *)
(* answers while the worker runs.                                               *)
EXTENDS DeviceActor
LiveKinds == AllKinds \ {"GetRecentValue"}
AnsweredAtOnce == {"GetDeviceStatus"}
=============================================================================
