---------------------------- MODULE MCClientPin ----------------------------
(* ClientPin for TLC: two PINs, so that a guess of the other one is a     *)
(* wrong one, and two relying parties, so that a token can meet the wrong  *)
(* one.                                                                    *)
EXTENDS ClientPin, TLC

\* No action and no invariant tells one PIN or one relying party from another.
Symmetry == Permutations(Pin) \cup Permutations(Rp)
=============================================================================
