------------------------------ MODULE MCMagLink ------------------------------
(***************************************************************************)
(* Instances of MagLink for TLC: header lengths and traffic patterns.      *)
(***************************************************************************)
EXTENDS MagLink

(* Packets of one and of two beats on both classes.                        *)
OneOrTwo == [c \in Class |-> {0, 1}]

(* Class 1 also offers a packet no credit can ever pay for (three beats).  *)
OversizeForward == [c \in Class |-> IF c = 0 THEN {0, 1} ELSE {0, 2}]

(* One end sends on both classes.                                          *)
BothClasses == {<<0, 0>>, <<0, 1>>}

(* Both ends send, each on the class that stops at the other.              *)
Duplex == {<<0, 0>>, <<1, 0>>}

=============================================================================
