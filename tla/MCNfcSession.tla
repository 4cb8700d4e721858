---------------------------- MODULE MCNfcSession ----------------------------
(* NfcSession for TLC: two requests, so that one can overtake the other.   *)
EXTENDS NfcSession
=============================================================================
