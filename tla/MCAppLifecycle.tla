--------------------------- MODULE MCAppLifecycle ---------------------------
(* The instance of AppLifecycle for TLC: the full build with every optional *)
(* feature, and one configuration file of each kind the loader tells apart. *)
EXTENDS AppLifecycle

MCBuild == [auto |-> TRUE, dev21 |-> TRUE, packed |-> TRUE]

Written(v) == [sound |-> TRUE, full |-> v = 4, v |-> v, mode |-> "nfc", profile |-> "2.0",
               att |-> "packed", auto |-> TRUE]

\* None, a foreign file, versions 1 to 4, an unknown version, and files that
\* are refused late.
MCLegacy == {None, [Written(4) EXCEPT !.sound = FALSE], Written(1), Written(2), Written(3),
             Written(4), Written(5), [Written(2) EXCEPT !.profile = "2.1"],
             [Written(4) EXCEPT !.att = "bad"], [Written(4) EXCEPT !.full = FALSE],
             [Written(3) EXCEPT !.mode = "bad"]}
=============================================================================
