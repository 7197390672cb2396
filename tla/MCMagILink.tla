----------------------------- MODULE MCMagILink -----------------------------
(* Instances of MagILink for TLC.                                          *)
EXTENDS MagILink

(* Two units, each with a burst longer than a packet, at ports of their own*)
Pair == {"a", "b"}
TwoPorts == [s \in Pair |-> IF s = "a" THEN 0 ELSE 1]
Bursts == [s \in Pair |-> IF s = "a" THEN 3 ELSE 1]

=============================================================================
