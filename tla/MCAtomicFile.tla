---------------------------- MODULE MCAtomicFile ----------------------------
(* AtomicFile for TLC, observed call by call: two values, so that a value  *)
(* can be replaced.                                                        *)
EXTENDS AtomicFileOutcome
=============================================================================
