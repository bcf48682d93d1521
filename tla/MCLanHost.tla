------------------------------ MODULE MCLanHost ------------------------------
(* Values of the constants of LanHost for TLC: a server with two instruments.  *)
EXTENDS LanHost
CONSTANTS i1, i2
TwoInstruments == {i1, i2}
=============================================================================
