------------------------------- MODULE MCU2f -------------------------------
(* U2f for TLC: two device keys and two attestation pairs, so that each    *)
(* can be replaced, and a counter that reaches its last value.             *)
EXTENDS U2f
=============================================================================
