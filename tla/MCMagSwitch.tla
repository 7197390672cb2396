---------------------------- MODULE MCMagSwitch ----------------------------
(* Instances of MagSwitch for TLC.                                         *)
EXTENDS MagSwitch

(* Two meshes send to 3, one of them through the other, while 3 answers    *)
(* through mesh 2: every link but one carries something, and the merge     *)
(* onto link 1 of mesh 1 has both a local and a forwarded packet.          *)
Crossing == {<<0, 3>>, <<1, 3>>, <<3, 0>>}

LongShort == <<1, 0>>

=============================================================================
