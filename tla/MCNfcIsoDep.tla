---------------------------- MODULE MCNfcIsoDep ----------------------------
(* NfcIsoDep for TLC.  With Bytes <- Distinct no two commands are the same *)
(* byte for byte; with InPairs every second one repeats the one before it. *)
EXTENDS NfcIsoDep

Distinct == [c \in Cmd |-> c]
InPairs  == [c \in Cmd |-> (c + 1) \div 2]
=============================================================================
