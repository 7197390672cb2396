------------------------------ MODULE MCNocMesh ------------------------------
(* Instances of NocMesh for TLC.                                           *)
EXTENDS NocMesh

(* Two by two: an endpoint above the grid and a local one send to a gateway*)
(* at its west side, which answers the local one.                          *)
FlowsGateway == {<<<<1, 0>>, <<0, 2>>>>, <<<<2, 1>>, <<0, 2>>>>, <<<<0, 2>>, <<2, 1>>>>}

=============================================================================
