----------------------------- MODULE MCUsbBridge -----------------------------
(* Packets of 6 bytes, two of them free, and a budget of two packets: the   *)
(* stream is long enough for three bytes to be dropped.                     *)
EXTENDS UsbBridge
=============================================================================
