-------------------------------- MODULE CuBase --------------------------------
(***************************************************************************)
(* The part every compute unit has: its instruction queue, one instruction *)
(* in flight, the queue of completions, the CU_CTRL reply and the transmit *)
(* register they share (src/src/kohakunoc/noc_cu_base.v).                  *)
(*                                                                         *)
(* CuClock(u, ...) is one clock edge of unit u.  The unit's datapath is    *)
(* the environment: it decides when it accepts an instruction, retires it  *)
(* and draws from the receive queue.                                       *)
(***************************************************************************)
EXTENDS NocFlits

CONSTANTS INST_DEPTH, RECV_DEPTH, SIG_DEPTH

ASSUME CuAssumption ==
  {INST_DEPTH, RECV_DEPTH, SIG_DEPTH} \subseteq Nat \ {0}

VARIABLES
  instq, inst_pop,   \* the instruction FIFO; its read enable, a cycle late
  in_flight, rep,    \* an instruction is executing, and whom to answer
  recvq,             \* flits for the datapath
  sigq,              \* completions not yet in the transmit register
  ctrl_pend, ctrl_val,  \* a CU_CTRL reply is owed, and the status it carries
  cu_out,            \* noc_out: the transmit register
  owed               \* the datapath has a burst to acknowledge

cuVars == <<instq, inst_pop, in_flight, rep, recvq, sigq, ctrl_pend, ctrl_val,
            cu_out, owed>>

NoRep == [txn |-> 0, last |-> FALSE]

CuInit ==
  /\ instq = [u \in Unit |-> <<>>]
  /\ inst_pop = [u \in Unit |-> FALSE]
  /\ in_flight = [u \in Unit |-> FALSE]
  /\ rep = [u \in Unit |-> NoRep]
  /\ recvq = [u \in Unit |-> <<>>]
  /\ sigq = [u \in Unit |-> <<>>]
  /\ ctrl_pend = [u \in Unit |-> FALSE]
  /\ ctrl_val = [u \in Unit |-> "IDLE"]
  /\ cu_out = [u \in Unit |-> NoFlit]
  /\ owed = [u \in Unit |-> FALSE]

-----------------------------------------------------------------------------
(* Either queue full stops every flit, CU_CTRL included: busy must not     *)
(* depend on a flit that may not be valid.                                 *)
CuInBusy(u) == Len(instq[u]) >= INST_DEPTH \/ Len(recvq[u]) >= RECV_DEPTH

Accepted(u, x) == IsFlit(x) /\ ~CuInBusy(u)

(* An instruction is offered when none is in flight and its completion has *)
(* room: an instruction executed but unreportable loses its credit.        *)
InstValidFull(u) == instq[u] # <<>> /\ ~in_flight[u]   \* mutant of InstValid
InstValid(u) ==
  instq[u] # <<>> /\ ~in_flight[u] /\ Len(sigq[u]) < SIG_DEPTH

(* What the datapath does in a cycle: accepts the instruction offered,      *)
(* retires the one in flight, with a fault or not, draws a received flit.   *)
(* It has nothing to retire in the cycle in which it accepts, and draws     *)
(* nothing while a burst it must acknowledge is waiting for the link.       *)
Datapath == [acc : BOOLEAN, fin : BOOLEAN, flt : BOOLEAN, rdy : BOOLEAN]

DatapathCan(u, d) ==
  /\ d.acc => InstValid(u)
  /\ d.fin => in_flight[u]
  /\ d.flt => d.fin
  /\ d.rdy => recvq[u] # <<>> /\ ~owed[u]

(* Arbitration for the transmit register: completions, then the CU_CTRL    *)
(* reply, then the datapath.  busy is noc_out_busy in this cycle.          *)
TxFree(u, busy)    == ~IsFlit(cu_out[u]) \/ ~busy
SigSent(u, busy)   == sigq[u] # <<>> /\ TxFree(u, busy)
CtrlSent(u, busy)  == ctrl_pend[u] /\ TxFree(u, busy) /\ sigq[u] = <<>>
SendReady(u, busy) == TxFree(u, busy) /\ sigq[u] = <<>> /\ ~ctrl_pend[u]

Signal(u, txn, code) == [type |-> "SIGNAL", peer |-> u, txn |-> txn,
                         last |-> TRUE, code |-> code]
CtrlReply(u, val) == [type |-> "CTRL", peer |-> u, txn |-> 0,
                      last |-> TRUE, code |-> val]

RetCode(u, flt) == IF flt THEN "FAULT"
                   ELSE IF rep[u].last THEN "BATCH_COMPLETE"
                   ELSE "INST_COMPLETE"

(* Both queues: an accepted flit goes in by its type, CU_CTRL into neither. *)
Queues(u, x, d) ==
  /\ instq' = [instq EXCEPT ![u] =
                 (IF inst_pop[u] /\ @ # <<>> THEN Tail(@) ELSE @) \o
                 (IF Accepted(u, x) /\ x.type = "INST" THEN <<x>> ELSE <<>>)]
  /\ recvq' = [recvq EXCEPT ![u] =
                 (IF d.rdy THEN Tail(@) ELSE @) \o
                 (IF Accepted(u, x) /\ x.type \notin {"INST", "CTRL"}
                  THEN <<x>> ELSE <<>>)]

(* An instruction leaves the queue the cycle after it is accepted.         *)
Issue(u, d) ==
  /\ inst_pop' = [inst_pop EXCEPT ![u] = d.acc]
  /\ rep' = [rep EXCEPT ![u] =
               IF d.acc THEN [txn |-> Head(instq[u]).txn,
                              last |-> Head(instq[u]).last] ELSE @]
  /\ in_flight' = [in_flight EXCEPT ![u] =
                     IF d.fin THEN FALSE ELSE IF d.acc THEN TRUE ELSE @]

Completions(u, busy, d) ==
  sigq' = [sigq EXCEPT ![u] =
    LET rest == IF SigSent(u, busy) THEN Tail(@) ELSE @
    IN  IF d.fin /\ in_flight[u] /\ Len(@) < SIG_DEPTH
        THEN Append(rest, Signal(u, rep[u].txn, RetCode(u, d.flt)))
        ELSE rest]

(* What a CU_STATUS read reports: the completions still here included.     *)
CuBusyIssued(u) == instq[u] # <<>> \/ sigq[u] # <<>>   \* mutant of CuBusy
CuBusy(u) == in_flight[u] \/ instq[u] # <<>> \/ sigq[u] # <<>>

(* One reply is owed at a time: a request that finds one pending is        *)
(* accepted and forgotten.                                                 *)
CtrlBlock(u, x, busy) ==
  LET hit == Accepted(u, x) /\ x.type = "CTRL"
  IN  IF hit /\ ~ctrl_pend[u]
      THEN /\ ctrl_pend' = [ctrl_pend EXCEPT ![u] = TRUE]
           /\ ctrl_val' = [ctrl_val EXCEPT ![u] =
                             IF CuBusy(u) THEN "BUSY" ELSE "IDLE"]
      ELSE /\ ctrl_pend' = [ctrl_pend EXCEPT ![u] = @ /\ ~CtrlSent(u, busy)]
           /\ UNCHANGED ctrl_val

TxOutput(u, busy, d) ==
  /\ cu_out' = [cu_out EXCEPT ![u] =
       IF SigSent(u, busy) THEN Head(sigq[u])
       ELSE IF CtrlSent(u, busy) THEN CtrlReply(u, ctrl_val[u])
       ELSE IF owed[u] /\ SendReady(u, busy)
            THEN Signal(u, 0, "DATA_RECEIVED")
       ELSE IF busy THEN @ ELSE NoFlit]
  /\ owed' = [owed EXCEPT ![u] =
       \/ @ /\ ~SendReady(u, busy)
       \/ d.rdy /\ Head(recvq[u]).type = "DATA" /\ Head(recvq[u]).last]

CuClock(u, x, busy, d) ==
  /\ DatapathCan(u, d)
  /\ Queues(u, x, d)
  /\ Issue(u, d)
  /\ Completions(u, busy, d)
  /\ CtrlBlock(u, x, busy)
  /\ TxOutput(u, busy, d)

-----------------------------------------------------------------------------
CuTypeOK ==
  /\ instq \in [Unit -> Seq(Flit)] /\ \A u \in Unit : Len(instq[u]) <= INST_DEPTH
  /\ recvq \in [Unit -> Seq(Flit)] /\ \A u \in Unit : Len(recvq[u]) <= RECV_DEPTH
  /\ sigq \in [Unit -> Seq(Flit)] /\ \A u \in Unit : Len(sigq[u]) <= SIG_DEPTH
  /\ {inst_pop, in_flight, ctrl_pend, owed} \subseteq [Unit -> BOOLEAN]
  /\ rep \in [Unit -> [txn : Nat, last : BOOLEAN]]
  /\ ctrl_val \in [Unit -> {"BUSY", "IDLE"}]
  /\ cu_out \in [Unit -> Flit]

=============================================================================
