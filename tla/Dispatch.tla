------------------------------ MODULE Dispatch ------------------------------
(***************************************************************************)
(* The control plane: the orchestrator, the compute units, the NoC between *)
(* them and the host that drives it (src/src/ktpu/hw/device.py,            *)
(* src/src/ktpu/hw/kernel.py).                                             *)
(*                                                                         *)
(* Each party is clocked on its own here: a clock edge of one against any  *)
(* number of the others' stands for every latency of the mesh, and for     *)
(* every alignment of the cycles in which the parties act on each other.   *)
(***************************************************************************)
EXTENDS Orchestrator, CuBase, FiniteSets, Totals

CONSTANTS
  NET,        \* flits the mesh holds, per unit and direction
  SEED,       \* the credit the host seeds a round with
  Kicks,      \* the programs the host may kick: [dst, base, len]
  MaxKicks,   \* bound: programs in a round
  MaxRounds,  \* bound: rounds
  MaxReads,   \* bound: CU_CTRL reads
  MaxFaults   \* bound: instructions that fault

Slots(k) == k.base .. k.base + k.len - 1

(* A program holds each burst it begins up to the burst's last flit.       *)
WholeBursts(k) ==
  \A i \in Slots(k) : Stage[i].type = "DATA" =>
    \E j \in Slots(k) : j >= i /\ Stage[j].type = "DATA" /\ Stage[j].last

ASSUME DispatchAssumption ==
  /\ NET \in Nat \ {0}
  /\ SEED \in 1 .. INST_DEPTH   \* control-registers.md: at most inst_depth,
  /\ SEED < W16                 \* in a register of 16 bits
  /\ \A k \in Kicks : /\ k.dst \in Unit /\ k.len \in Nat \ {0}
                      /\ k.base \in Nat /\ k.base + k.len <= STAGE_FLITS
                      /\ WholeBursts(k)
  /\ {MaxKicks, MaxRounds, MaxReads, MaxFaults} \subseteq Nat

VARIABLES
  down, up,   \* flits in the mesh, to and from each unit
  hst,        \* where the host is in its program
  job,        \* the kick it is writing; for a CU_CTRL read, the unit
  total,      \* completions this round must bring
  kicks, rounds, reads, faults   \* counted against their bounds

netVars  == <<down, up>>
hostVars == <<hst, job, total, kicks, rounds, reads>>
vars == <<orcVars, cuVars, netVars, hostVars, faults>>

NoJob == [dst |-> 0, base |-> 0, len |-> 0]

Init ==
  /\ OrcInit /\ CuInit
  /\ down = [u \in Unit |-> <<>>] /\ up = [u \in Unit |-> <<>>]
  /\ hst = "CLEAR" /\ job = NoJob /\ total = 0
  /\ kicks = 0 /\ rounds = 0 /\ reads = 0 /\ faults = 0

-----------------------------------------------------------------------------
(***************************************************************************)
(* Where a flit may be between the dispatcher and the agent's input.       *)
(***************************************************************************)
(* What a flit stands for at either end of its journey: an instruction and *)
(* its report; a burst, by its last flit, and its acknowledgement; a read  *)
(* of the status and its reply.                                            *)
Kind(f) ==
  CASE f.type = "INST" \/ (IsSignal(f) /\ f.code # "DATA_RECEIVED") -> "job"
    [] (f.type = "DATA" /\ f.last) \/ (IsSignal(f) /\ f.code = "DATA_RECEIVED") -> "burst"
    [] f.type = "CTRL" -> "read"
    [] OTHER -> "none"

IsInst(f) == f.type = "INST"
Flits(f) == IF IsFlit(f) THEN <<f>> ELSE <<>>

(* Sent to u and not yet in its queues, oldest first.                      *)
OnTheWay(u) ==
  down[u] \o Flits(orc_out) \o tx \o (IF disp_push THEN <<DispFlit>> ELSE <<>>)

(* In the queue of u: its head stays there for the cycle after its accept. *)
Queued(u) == IF inst_pop[u] THEN Tail(instq[u]) ELSE instq[u]

(* What u owes: an acknowledgement, a reply, a report.                     *)
Owing(u) ==
  (IF owed[u] THEN <<Signal(u, 0, "DATA_RECEIVED")>> ELSE <<>>)
    \o (IF ctrl_pend[u] THEN <<CtrlReply(u, ctrl_val[u])>> ELSE <<>>)
    \o (IF in_flight[u] THEN <<Signal(u, rep[u].txn, "INST_COMPLETE")>> ELSE <<>>)

(* All between the dispatcher and the agent's input that concerns u.       *)
Line(u) ==
  up[u] \o Flits(cu_out[u]) \o sigq[u] \o Owing(u) \o Queued(u) \o recvq[u]
    \o OnTheWay(u)

CountOf(fs, u, K) ==
  Cardinality({i \in DOMAIN fs : fs[i].peer = u /\ Kind(fs[i]) \in K})

-----------------------------------------------------------------------------
(***************************************************************************)
(* The host's command list for a round (control() in kernel.py): clear     *)
(* SIG_DONE, seed the credit, kick each program once the one before has    *)
(* been streamed, then wait for as many completions as there were flits.   *)
(***************************************************************************)
Offer ==
  CASE hst = "CLEAR" -> [reg |-> "SIG_DONE",  val |-> 0]
    [] hst = "SEED"  -> [reg |-> "PROG_CRED", val |-> SEED]
    [] hst = "DST"   -> [reg |-> "PROG_DST",  val |-> job.dst]
    [] hst = "BASE"  -> [reg |-> "PROG_BASE", val |-> job.base]
    [] hst = "LEN"   -> [reg |-> "PROG_LEN",  val |-> job.len]
    [] hst = "KICK"  -> [reg |-> "PROG_KICK", val |-> 1]
    [] hst = "READ"  -> [reg |-> "TX_KICK",   val |-> job.dst]
    [] hst = "POP"   -> [reg |-> "RX_POP",    val |-> 1]
    [] OTHER -> NoWrite

AfterWrite ==
  CASE hst = "CLEAR" -> "SEED"  [] hst = "SEED" -> "READY"
    [] hst = "DST"   -> "BASE"  [] hst = "BASE" -> "LEN"
    [] hst = "LEN"   -> "KICK"  [] hst = "KICK" -> "READY"
    [] hst = "READ"  -> "REPLY" [] hst = "POP"  -> "READY"
    [] OTHER -> hst

(* Signals a program brings: one per instruction, one per burst.           *)
Signals(k) == Cardinality({i \in Slots(k) : Stage[i].type = "INST"
                                            \/ Stage[i].last})

(* A register is read between writes: each write waits for its response.   *)
Polls == wstate = "IDLE"

\* Mutant of PickKick: the kick is written without waiting for run == 0.
PickKickBlind ==
  /\ hst = "READY" /\ Polls
  /\ kicks < MaxKicks
  /\ \E k \in Kicks : job' = k /\ total' = total + Signals(k)
  /\ hst' = "DST"
  /\ kicks' = kicks + 1
  /\ UNCHANGED <<orcVars, cuVars, netVars, rounds, reads, faults>>

(* kick(): polls PROG_STAT until run == 0, then writes the registers.      *)
PickKick ==
  /\ hst = "READY" /\ Polls
  /\ ~prog_run
  /\ kicks < MaxKicks
  /\ \E k \in Kicks : job' = k /\ total' = total + Signals(k)
  /\ hst' = "DST"
  /\ kicks' = kicks + 1
  /\ UNCHANGED <<orcVars, cuVars, netVars, rounds, reads, faults>>

(* ctrl_read(): a CU_CTRL request through the mailbox, for any unit.  It    *)
(* looks at no status first: the agent ignores TX_KICK while a program     *)
(* runs or the transmit FIFO is full, and loses the request to a flit that *)
(* is pushed ahead of it in the cycle between.                             *)
PickRead ==
  /\ hst = "READY" /\ Polls
  /\ reads < MaxReads
  /\ \E u \in Unit : job' = [NoJob EXCEPT !.dst = u]
  /\ hst' = "READ"
  /\ reads' = reads + 1
  /\ UNCHANGED <<orcVars, cuVars, netVars, total, kicks, rounds, faults>>

GotReply ==
  /\ hst = "REPLY" /\ Polls
  /\ rx # <<>>
  /\ hst' = "POP"
  /\ UNCHANGED <<orcVars, cuVars, netVars, job, total, kicks, rounds, reads,
                 faults>>

(* The driver's time-out is of seconds: it ends a read that was dropped,   *)
(* and never one whose request or reply is still on its way.               *)
ReadTimesOut ==
  /\ hst = "REPLY" /\ Polls
  /\ rx = <<>>
  /\ \A u \in Unit : CountOf(Line(u), u, {"read"}) = 0
  /\ hst' = "READY"
  /\ UNCHANGED <<orcVars, cuVars, netVars, job, total, kicks, rounds, reads,
                 faults>>

StartWait ==
  /\ hst = "READY" /\ Polls
  /\ kicks > 0
  /\ hst' = "AWAIT" /\ job' = NoJob
  /\ UNCHANGED <<orcVars, cuVars, netVars, total, kicks, rounds, reads, faults>>

(* await_all(): polls SIG_DONE until it EQUALS the number of completions.  *)
RoundDone ==
  /\ hst = "AWAIT" /\ Polls
  /\ sig_done_count = total
  /\ rounds' = rounds + 1
  /\ hst' = IF rounds + 1 < MaxRounds THEN "CLEAR" ELSE "DONE"
  /\ total' = 0 /\ kicks' = 0
  /\ UNCHANGED <<orcVars, cuVars, netVars, job, reads, faults>>

HostWaits ==
  PickKick \/ PickRead \/ GotReply \/ ReadTimesOut \/ StartWait \/ RoundDone

-----------------------------------------------------------------------------
(***************************************************************************)
(* Clock edges, and the links: a flit moves in a cycle in which its sender *)
(* holds it and the receiver is not busy.                                  *)
(***************************************************************************)
Presented(ch) == {NoFlit} \cup {Head(ch[u]) : u \in {v \in Unit : ch[v] # <<>>}}

DownBusy == IsFlit(orc_out) /\ Len(down[orc_out.peer]) >= NET

OrcEdge(w) ==
  \E x \in Presented(up) :
    /\ OrcClock(w, x, DownBusy)
    /\ up' = IF IsFlit(x) /\ ~OrcInBusy(x)
             THEN [up EXCEPT ![x.peer] = Tail(@)] ELSE up
    /\ down' = IF OrcSends(DownBusy)
               THEN [down EXCEPT ![orc_out.peer] = Append(@, orc_out)] ELSE down
    /\ UNCHANGED <<cuVars, faults>>

OrcStep ==
  \/ OrcEdge(NoWrite) /\ UNCHANGED hostVars
  \/ /\ wstate = "IDLE"
     /\ Offer # NoWrite
     /\ OrcEdge(Offer)
     /\ hst' = AfterWrite
     /\ UNCHANGED <<job, total, kicks, rounds, reads>>

UpBusy(u) == Len(up[u]) >= NET

CuEdge(u, x, d) ==
  /\ d.flt => faults < MaxFaults
  /\ CuClock(u, x, UpBusy(u), d)
  /\ down' = IF Accepted(u, x) THEN [down EXCEPT ![u] = Tail(@)] ELSE down
  /\ up' = IF IsFlit(cu_out[u]) /\ ~UpBusy(u)
           THEN [up EXCEPT ![u] = Append(@, cu_out[u])] ELSE up
  /\ faults' = IF d.flt THEN faults + 1 ELSE faults
  /\ UNCHANGED <<orcVars, hostVars>>

Arriving(u) == {NoFlit} \cup (IF down[u] = <<>> THEN {} ELSE {Head(down[u])})

CuStep(u) == \E x \in Arriving(u), d \in Datapath : CuEdge(u, x, d)

Next == HostWaits \/ OrcStep \/ \E u \in Unit : CuStep(u)

Spec == Init /\ [][Next]_vars

-----------------------------------------------------------------------------
(***************************************************************************)
(* Fairness: every register is clocked and every link moves; the host goes *)
(* on polling; a datapath retires what it accepted, in bounded time        *)
(* (compute-unit-port.md, section 4).  A wedged datapath is one for which  *)
(* only the base's own clock is fair.                                      *)
(***************************************************************************)
ClockFairness == WF_vars(HostWaits) /\ WF_vars(OrcStep)

LiveSpec == Spec /\ ClockFairness /\ \A u \in Unit : WF_vars(CuStep(u))

Still == [acc |-> FALSE, fin |-> FALSE, flt |-> FALSE, rdy |-> FALSE]
-----------------------------------------------------------------------------
(***************************************************************************)
(* Properties.                                                             *)
(***************************************************************************)
TypeOK ==
  /\ OrcTypeOK /\ CuTypeOK
  /\ {down, up} \subseteq [Unit -> Seq(Flit)]
  /\ \A u \in Unit : Len(down[u]) <= NET /\ Len(up[u]) <= NET
  /\ hst \in {"CLEAR", "SEED", "READY", "DST", "BASE", "LEN", "KICK", "READ",
              "REPLY", "POP", "AWAIT", "DONE"}
  /\ {total, kicks, rounds, reads, faults} \subseteq Nat

OutstandingAt(u) == CountOf(Line(u), u, {"job"})
Outstanding == Total([u \in Unit |-> OutstandingAt(u)])

(* The transaction id of a job of u, and those of the jobs of u in a queue.*)
JobTxn(f, u) == IF f.peer = u /\ Kind(f) = "job" THEN <<f.txn>> ELSE <<>>

JobTxns(fs, u) ==
  Picked([i \in DOMAIN fs |-> fs[i].txn],
         {i \in DOMAIN fs : fs[i].peer = u /\ Kind(fs[i]) = "job"})

(* The jobs on the line of u, oldest first, place by place.                *)
Dispatched(u) ==
  JobTxns(up[u], u) \o JobTxn(cu_out[u], u) \o JobTxns(sigq[u], u)
    \o (IF in_flight[u] THEN <<rep[u].txn>> ELSE <<>>)
    \o JobTxns(Queued(u), u) \o JobTxns(down[u], u)
    \o JobTxn(orc_out, u) \o JobTxns(tx, u)
    \o (IF disp_push THEN JobTxn(DispFlit, u) ELSE <<>>)

(* Those of the instructions staged in n slots from a on.                  *)
InstTxns(a, n) ==
  Picked([i \in 1 .. n |-> Stage[a + i - 1].txn],
         {i \in 1 .. n : IsInst(Stage[a + i - 1])})

(* Those of the running program that are not yet cut into flits.           *)
Unsent(u) ==
  IF prog_run /\ prog_dst = u THEN InstTxns(prog_rd, prog_left) ELSE <<>>

(* All that was kicked at u and not yet reported.                          *)
Unreported(u) == Dispatched(u) \o Unsent(u)

(* The credit a round was seeded with covers every instruction between the *)
(* dispatcher and its report, over all units: a completion that coincides  *)
(* with a push, or a charge made a cycle after the check, gains nothing.   *)
(* The flit being pushed is charged at the end of this cycle.              *)
Uncharged == IF disp_push /\ IsInst(prog_flit) THEN 1 ELSE 0
CreditCovers == prog_credit + Outstanding <= SEED + Uncharged

(* The rule of control-registers.md 2.4: no more instructions are sent to  *)
(* a unit than its queue holds, so no instruction waits in the mesh.       *)
QueueRoom ==
  \A u \in Unit :
    Len(instq[u]) + CountOf(OnTheWay(u), u, {"job"}) <= INST_DEPTH

(* A completion always finds room in its queue, however long the link is   *)
(* busy: exec_done writes it without looking (noc_cu_base.v line 198).     *)
CompletionRoom == \A u \in Unit : in_flight[u] => Len(sigq[u]) < SIG_DEPTH

(* A dispatched flit, pushed a cycle after the transmit FIFO was seen not  *)
(* full, is not lost (lines 164-188).  A mailbox flit may be.              *)
PushRoom == disp_push => ~TxFull

(* No queue between the staging RAM and the signal counter is ever written *)
(* when it is full: credit and one look a cycle ahead are all that keeps   *)
(* the dispatcher, the units and their completions within their queues.    *)
QueuesHold == TypeOK /\ QueueRoom /\ CompletionRoom /\ PushRoom

(* When the host's one poll says so, the round is over everywhere: nothing *)
(* is queued, executing or unreported at any unit, and the staging RAM may *)
(* be written again.                                                       *)
RoundOver ==
  hst = "AWAIT" /\ Polls /\ sig_done_count = total =>
    ~prog_run /\ Outstanding = 0 /\ \A u \in Unit : recvq[u] = <<>> /\ ~owed[u]

(* A unit that answers that it is idle has no instruction or completion    *)
(* left anywhere: the request travelled behind the instructions, and the   *)
(* answer behind the completions (noc_cu_base.v lines 188-193, 312-313).   *)
IdleReplyTrue ==
  hst = "REPLY" /\ rx # <<>> /\ Head(rx).code = "IDLE" =>
    OutstandingAt(Head(rx).peer) = 0

(* Every kicked program is streamed, executed and reported.                *)
HostFinishes == <>(hst = "DONE")

(***************************************************************************)
(* Dispatch implements Jobs.  A program is kicked from the cycle in which  *)
(* the dispatcher takes it.                                                *)
(***************************************************************************)
Programs == {InstTxns(k.base, k.len) : k \in Kicks}

Pending == [u \in Unit |-> Unreported(u)]

Abstract == INSTANCE Jobs WITH Program <- Programs, jobs <- Pending

(* Instructions of a program reach the unit it was kicked at, in order,    *)
(* and each is reported once; nothing is dropped by the five queues        *)
(* between the staging RAM and the signal counter.                         *)
ImplementsJobs == Abstract!JSpec

=============================================================================
