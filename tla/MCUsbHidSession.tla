-------------------------- MODULE MCUsbHidSession --------------------------
(* UsbHidSession for TLC: more channels than the table holds.              *)
EXTENDS UsbHidSession
=============================================================================
