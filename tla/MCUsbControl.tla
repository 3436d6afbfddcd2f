---------------------------- MODULE MCUsbControl ----------------------------
(* UsbControl with descriptors of usb_desc.c, one of a whole packet, which   *)
(* takes the packet of length zero, and the string behind the last one.      *)
EXTENDS UsbControl

MCSize == [device |-> 18, config |-> 106, whole |-> 64, string4 |-> 40]
Ask(r, to, v, n) == [req |-> r, to |-> to, value |-> v, len |-> n]

MCReads ==
  {Ask("GET_DESCRIPTOR", "device", 0, 8), Ask("GET_DESCRIPTOR", "config", 0, 255),
   Ask("GET_DESCRIPTOR", "whole", 0, 64), Ask("GET_DESCRIPTOR", "whole", 0, 255),
   Ask("GET_DESCRIPTOR", "unknown", 0, 64), Ask("GET_DESCRIPTOR", "beyond", 0, 64),
   Ask("GET_DESCRIPTOR", "string4", 0, 255),
   Ask("GET_STATUS", "interface", 1, 2), Ask("GET_STATUS", "ep4", 0, 2),
   Ask("GET_CONFIGURATION", "device", 0, 1), Ask("GET_LINE_CODING", "interface", 0, 7),
   Ask("GET_MAX_LUN", "interface", 0, 1), Ask("GET_MAX_LUN", "interface", 2, 1)}
MCWrites ==
  {Ask("SET_LINE_CODING", "interface", 1, 7), Ask("SET_ADDRESS", "device", 1, 0),
   Ask("SET_CONFIGURATION", "device", 1, 0), Ask("SET_FEATURE", "ep4", 0, 0), Ask("CLEAR_FEATURE", "ep4", 0, 0),
   Ask("CLASS_OTHER", "interface", 0, 0)}
MCRequests == MCReads \cup MCWrites
=============================================================================
