--------------------------- MODULE MCSerialPorts ---------------------------
(* Values of the constants of SerialPorts for TLC: a USB port and an RS-232    *)
(* interface.                                                                  *)
EXTENDS SerialPorts
CONSTANTS usb, rs232
============================================================================
