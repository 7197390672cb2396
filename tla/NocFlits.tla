------------------------------ MODULE NocFlits ------------------------------
(***************************************************************************)
(* The flits that the control plane exchanges over the NoC: instructions   *)
(* and CU_CTRL requests from the orchestrator, completion signals and      *)
(* CU_CTRL replies back, and data on its way to a unit's receive queue     *)
(* (src/src/kohakunoc/noc_pkt.vh).  A payload is reduced to its            *)
(* transaction id; peer is the unit at the other end of the journey.       *)
(***************************************************************************)
EXTENDS Integers, Sequences, FiniteSets

CONSTANT Unit   \* the compute units, by their {y, x} index
ASSUME UnitAssumption == Unit \subseteq Nat /\ Unit # {} /\ IsFiniteSet(Unit)

FlitType == {"NONE", "INST", "SIGNAL", "CTRL", "DATA"}

(* The code of a completion signal; in a CU_CTRL reply, the busy bit read.  *)
Code == {"NONE", "INST_COMPLETE", "BATCH_COMPLETE", "DATA_RECEIVED", "FAULT",
         "BUSY", "IDLE"}

Flit == [type : FlitType, peer : Unit \cup {0}, txn : Nat, last : BOOLEAN,
         code : Code]

NoFlit == [type |-> "NONE", peer |-> 0, txn |-> 0, last |-> FALSE,
           code |-> "NONE"]

IsFlit(f)   == f.type # "NONE"
IsSignal(f) == f.type = "SIGNAL"

=============================================================================
