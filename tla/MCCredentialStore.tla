------------------------- MODULE MCCredentialStore -------------------------
(* CredentialStore for TLC: an index with room for three entries, two of   *)
(* them or all three taken at the start.                                   *)
EXTENDS CredentialStore

CONSTANTS s1, s2
SessionSymmetry == Permutations({s1, s2})

Account(rp, user, rk, uvreq) == [rp |-> rp, user |-> user, rk |-> rk, uvreq |-> uvreq]

\* Two accounts of the relying party that asks, one of them registered twice
\* and one hidden without verification, and a key for an allow list.
MCAttr == <<Account("a", "x", TRUE, FALSE), Account("a", "y", TRUE, FALSE),
            Account("a", "x", TRUE, TRUE), Account("b", "x", FALSE, FALSE)>>

MCStored == {<<1, 2>>, <<4, 2, 1>>}
=============================================================================
