----------------------------- MODULE MCDispatch -----------------------------
(* Instances of Dispatch for TLC.                                          *)
EXTENDS Dispatch, TLC

I(n, l) == [type |-> "INST", txn |-> n, last |-> l]
D(n, l) == [type |-> "DATA", txn |-> n, last |-> l]

(* Slots 0-2 and 3-4 hold programs of three and two instructions, slot 5   *)
(* an instruction by itself, slots 6-7 a burst of data.                    *)
StageMix == 0 :> I(1, FALSE) @@ 1 :> I(2, FALSE) @@ 2 :> I(3, TRUE)
         @@ 3 :> I(4, FALSE) @@ 4 :> I(5, TRUE)
         @@ 5 :> I(6, TRUE)
         @@ 6 :> D(7, FALSE) @@ 7 :> D(8, TRUE)

K(u, b, n) == [dst |-> u, base |-> b, len |-> n]

KicksLong == {K(1, 0, 3), K(1, 3, 2)}
(* Two units, a program for each and a burst of data for one.              *)
KicksMix == {K(1, 0, 3), K(2, 3, 2), K(1, 6, 2)}

=============================================================================
