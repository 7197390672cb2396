------------------------------- MODULE PlanRun -------------------------------
(***************************************************************************)
(* A planned matrix product executed: the driver refuses or plans what is  *)
(* asked, uploads the operands, and runs the rounds; the clusters fill,    *)
(* sweep and drain at their own pace.  What comes back must be the product *)
(* and what is said of the run must be true.                               *)
(*                                                                         *)
(* The arithmetic is symbolic: an L1 entry is the group and block it holds *)
(* and a value the list of the products that were added.  One step fills a *)
(* run of entries; a sweep takes its operands when it ends, which any fill *)
(* since its start may have changed.                                       *)
(***************************************************************************)
EXTENDS Bench
LOCAL INSTANCE TLC
LOCAL INSTANCE SequencesExt
LOCAL INSTANCE FiniteSetsExt

CONSTANT Asks  \* what is asked: shapes, machines, packings, formats and faults

VARIABLES
  ask,    \* what is asked in this run
  plan,   \* what the planner made of it
  phase,  \* "ask", "load", "run", "done" or "refused"
  round,  \* the round, and the next command of its program
  pc,
  disp,   \* the dispatcher: its registers, and whether it streams
  sig,    \* completions since the counter was cleared
  mem,    \* the memory of the card, in words
  cu,     \* the clusters, by node
  hung,   \* the cluster that stopped answering, if one did
  lost,   \* the memory words a write to which was lost
  log     \* what the bench printed

vars == <<ask, plan, phase, round, pc, disp, sig, mem, cu, hung, lost, log>>

NoPlan == [cmds |-> <<>>]

(* The problem built, and for each round the commands of its program and   *)
(* the flits it stages, by slot.                                           *)
PlanOf(prob, progs) ==
    [prob |-> prob, cmds |-> [r \in DOMAIN progs |-> progs[r].cmds],
     staged |-> [r \in DOMAIN progs |->
         [s \in {progs[r].setup[i].slot : i \in DOMAIN progs[r].setup} |->
             LET writes == {i \in DOMAIN progs[r].setup : progs[r].setup[i].slot = s}
             IN  progs[r].setup[Max(writes)].flit]]]

PlanTiled(a) ==
    IF Check(a) # {} THEN NoPlan
    ELSE LET prob == Build(a)
         IN  IF Addressable(prob.kern) THEN PlanOf(prob, Programs(prob.kern)) ELSE NoPlan

(* The untiled program: a band of columns of B and of the result for each. *)
PlanUntiled(a) ==
    LET used == DispatchTo(a.ncl, a.use, a.packing, a.split)
        t    == UntiledTile(a.m, a.k, a.n, a.use)
        at   == MemoryPlan(a, a.preq)
        layouts == [c \in 1..a.use |->
            [a |-> at.a, b |-> at.b + (c - 1) * t.gn * t.nk * Hw.fp, c |-> at.c + (c - 1) * t.gm * t.gn]]
    IN  PlanOf([kern |-> [tile |-> t, layout |-> at, preq |-> a.preq], disp |-> used,
                m |-> a.m, k |-> a.k, n |-> a.n],
               <<Untiled(t, used.clusters, layouts, a.how = "together")>>)

PlanFor(a) == IF a.how = "tiled" THEN PlanTiled(a) ELSE PlanUntiled(a)

Unwritten == [op |-> "?"]
Result(val) == [op |-> "C", val |-> val]

NewCluster ==
    [q |-> <<>>, sweep |-> <<>>, wait |-> FALSE, out |-> <<>>, left |-> 0,
     a |-> [e \in 0..(2 * Hw.field - 1) |-> Unwritten],
     b |-> [e \in 0..(2 * Hw.field - 1) |-> Unwritten],
     tile |-> [i \in {} |-> <<>>], fetched |-> [a |-> 0, b |-> 0], done |-> 0]

Idle == [node |-> <<0, 0>>, slot |-> 0, count |-> 0, run |-> 0]

Init ==
    /\ ask \in Asks
    /\ plan = PlanFor(ask)
    /\ phase = "ask" /\ round = 0 /\ pc = 0 /\ disp = Idle /\ sig = 0
    /\ mem = [w \in {} |-> Unwritten]
    /\ cu = [c \in {} |-> NewCluster]
    /\ hung = <<>> /\ lost = {} /\ log = <<>>

---------------------------------------------------------------------------
(* The driver and the bench.                                               *)

Refuse ==
    /\ phase = "ask"
    /\ plan = NoPlan
    /\ phase' = "refused"
    /\ UNCHANGED <<ask, plan, round, pc, disp, sig, mem, cu, hung, lost, log>>

UploadOperands ==
    /\ phase = "ask"
    /\ plan # NoPlan
    /\ \E up \in {Upload(plan.prob)} :
         mem' = Landed(up, up.regions[2]) @@ Landed(up, up.regions[1])
                   @@ [w \in 0..(Hw.words - 1) |-> Unwritten]
    /\ cu' = [c \in ToSet(plan.prob.disp.clusters) |-> NewCluster]
    /\ phase' = "load" /\ round' = 1
    /\ UNCHANGED <<ask, plan, pc, disp, sig, hung, lost, log>>

(* The flits of the round into the staging RAM, its program, and go.       *)
LoadRound ==
    /\ phase = "load"
    /\ phase' = "run" /\ pc' = 1
    /\ UNCHANGED <<ask, plan, round, disp, sig, mem, cu, hung, lost, log>>

Command == plan.cmds[round][pc]

WriteReg(reg, data) ==
    /\ sig' = IF reg.name = "SIG_DONE" THEN 0 ELSE sig
    /\ disp' = CASE reg.name = "PROG_DST"  -> [disp EXCEPT !.node = data.node]
                 [] reg.name = "PROG_BASE" -> [disp EXCEPT !.slot = data.slot]
                 [] reg.name = "PROG_LEN"  -> [disp EXCEPT !.count = data.count]
                 [] reg.name = "PROG_KICK" -> IF disp.count = 0 THEN disp ELSE [disp EXCEPT !.run = 1]
                 [] OTHER -> disp

Write ==
    /\ phase = "run"
    /\ Command.op = "WR"
    /\ WriteReg(Command.reg, Command.data)
    /\ pc' = pc + 1
    /\ UNCHANGED <<ask, plan, phase, round, mem, cu, hung, lost, log>>

RegValue(reg) ==
    CASE reg.name = "PROG_STAT" -> [run |-> disp.run]
      [] reg.name = "SIG_DONE"  -> [count |-> sig % Hw.wrap]
      [] reg.name = "NODE_STATUS" ->
             LET n == cu[<<reg.x, reg.y>>].done
             IN  [count |-> n % Hw.wrap, valid |-> IF n > 0 THEN 1 ELSE 0]

Await ==
    /\ phase = "run"
    /\ Command.op = "POLL"
    /\ Matches(RegValue(Command.reg), Command.data)
    /\ pc' = pc + 1
    /\ UNCHANGED <<ask, plan, phase, round, disp, sig, mem, cu, hung, lost, log>>

EndRound ==
    /\ phase = "run"
    /\ Command.op = "DONE"
    /\ IF round < Len(plan.cmds)
       THEN phase' = "load" /\ round' = round + 1 /\ UNCHANGED log
       ELSE phase' = "done" /\ log' = Append(log, [kind |-> "ORCH-OK"]) /\ UNCHANGED round
    /\ UNCHANGED <<ask, plan, pc, disp, sig, mem, cu, hung, lost>>

(* The dispatcher sends the flits of the program it was kicked for.        *)
Stream ==
    /\ disp.run = 1
    /\ disp' = [disp EXCEPT !.run = 0]
    /\ cu' = [cu EXCEPT ![disp.node].q = @ \o [i \in 1..disp.count |->
                 plan.staged[round][disp.slot + i - 1]]]
    /\ UNCHANGED <<ask, plan, phase, round, pc, sig, mem, hung, lost, log>>

---------------------------------------------------------------------------
(* A cluster.                                                              *)

Next1(v) == IF v = 0 THEN 1 ELSE v  \* a count or an extent of zero is one
Works(c) == hung # <<c>>
HeadIs(c, op) == Works(c) /\ cu[c].q # <<>> /\ Head(cu[c].q).op = op

(* The entries of L1 a fill writes, and a sweep reads.                     *)
EntryAt(f, i) == f.fbank * Hw.field + ((f.eoff + i) % Hw.field)
Filled(f) == {EntryAt(f, i) : i \in 0..(Next1(f.n) - 1)}
ReadA(f, g, kb) == f.abank * Hw.field + ((f.aoff + g * Next1(f.nk) + kb) % Hw.field)
ReadB(f, h, kb) == f.bbank * Hw.field + ((f.boff + h * Next1(f.nk) + kb) % Hw.field)
Read(f, sel) ==
    IF sel = "A" THEN {ReadA(f, g, kb) : g \in 0..(Next1(f.gm) - 1), kb \in 0..(Next1(f.nk) - 1)}
                 ELSE {ReadB(f, h, kb) : h \in 0..(Next1(f.gn) - 1), kb \in 0..(Next1(f.nk) - 1)}

Collides(c, f) == \E i \in DOMAIN cu[c].sweep : Filled(f) \cap Read(cu[c].sweep[i], f.sel) # {}

(* The entry at a word of memory: all its parts, in the format named.      *)
Fetched(word, preq) ==
    LET first == mem[word]
    IN  IF first.op \in {"A", "B"} /\ \A j \in 0..(EntryWords(preq) - 1) :
               mem[word + j] = [op |-> first.op, g |-> first.g, kb |-> first.kb, part |-> j, mx |-> preq]
        THEN [op |-> first.op, g |-> first.g, kb |-> first.kb]
        ELSE Unwritten

Retired(c, r) == cu' = [cu EXCEPT ![c] = [r EXCEPT !.q = Tail(@), !.done = @ + 1]]

Fill(c) ==
    /\ HeadIs(c, "FILL")
    /\ LET f == Head(cu[c].q)
           Into(l1) == [e \in DOMAIN l1 |->
               IF \E i \in 0..(Next1(f.n) - 1) : EntryAt(f, i) = e
               THEN LET i == CHOOSE i \in 0..(Next1(f.n) - 1) : EntryAt(f, i) = e
                    IN  Fetched(f.addr + i * EntryWords(f.preq), f.preq)
               ELSE l1[e]]
       IN  /\ IF f.sel = "A"
              THEN Retired(c, [cu[c] EXCEPT !.a = Into(@), !.fetched.a = @ + Next1(f.n)])
              ELSE Retired(c, [cu[c] EXCEPT !.b = Into(@), !.fetched.b = @ + Next1(f.n)])
           /\ log' = IF Collides(c, f) THEN Append(log, [kind |-> "ERROR"]) ELSE log
    /\ sig' = sig + 1
    /\ UNCHANGED <<ask, plan, phase, round, pc, disp, mem, hung, lost>>

(* A sweep is retired when it starts.  One that hands its results out      *)
(* waits for those of the one before to have left.                         *)
StartSweep(c) ==
    /\ HeadIs(c, "GEMM")
    /\ cu[c].sweep = <<>>
    /\ LET f == Head(cu[c].q)
       IN  /\ f.emit => cu[c].out = <<>>
           /\ Retired(c, [cu[c] EXCEPT !.sweep = <<f>>, !.left = IF f.emit THEN 0 ELSE @])
    /\ sig' = sig + 1
    /\ UNCHANGED <<ask, plan, phase, round, pc, disp, mem, hung, lost, log>>

Products(c, f, i) ==
    [j \in 1..Next1(f.nk) |-> <<cu[c].a[ReadA(f, i \div Next1(f.gn), j - 1)],
                                cu[c].b[ReadB(f, i % Next1(f.gn), j - 1)]>>]

EndSweep(c) ==
    /\ Works(c)
    /\ cu[c].sweep # <<>>
    /\ LET f   == Head(cu[c].sweep)
           own == 0..(Next1(f.gm) * Next1(f.gn) - 1)
           new == [i \in own \cup DOMAIN cu[c].tile |->
                      IF i \notin own THEN cu[c].tile[i]
                      ELSE (IF f.acc THEN cu[c].tile[i] ELSE <<>>) \o Products(c, f, i)]
       IN  cu' = [cu EXCEPT ![c].sweep = <<>>, ![c].tile = new,
                            ![c].out = IF f.emit
                                       THEN @ \o [i \in 1..Cardinality(own) |->
                                                     <<f.addr + i - 1, Result(new[i - 1])>>]
                                       ELSE @]
    /\ UNCHANGED <<ask, plan, phase, round, pc, disp, sig, mem, hung, lost, log>>

(* A drain that is no mere barrier reads the tile, once no sweep runs.     *)
StartDrain(c) ==
    /\ HeadIs(c, "DRAIN")
    /\ LET f == Head(cu[c].q)
       IN  /\ ~f.fuse /\ ~cu[c].wait
           /\ cu[c].sweep = <<>>
           /\ cu' = [cu EXCEPT ![c].wait = TRUE, ![c].left = 0,
                     ![c].out = [i \in 1..Next1(f.n) |-> <<f.addr + i - 1, Result(cu[c].tile[i - 1])>>]]
    /\ UNCHANGED <<ask, plan, phase, round, pc, disp, sig, mem, hung, lost, log>>

EndDrain(c) ==
    /\ HeadIs(c, "DRAIN")
    /\ LET f == Head(cu[c].q)
       IN  /\ f.fuse \/ cu[c].wait
           /\ cu[c].left >= Next1(f.n) /\ cu[c].out = <<>>
    /\ Retired(c, [cu[c] EXCEPT !.wait = FALSE])
    /\ sig' = sig + 1
    /\ UNCHANGED <<ask, plan, phase, round, pc, disp, mem, hung, lost, log>>

(* A burst of results leaves.                                              *)
WriteBack(c) ==
    /\ Works(c)
    /\ cu[c].out # <<>>
    /\ LET n == Least(Hw.burst, Len(cu[c].out))
           burst == SubSeq(cu[c].out, 1, n)
       IN  /\ mem' = [w \in DOMAIN mem |->
                         IF w \notin lost /\ \E i \in 1..n : burst[i][1] = w
                         THEN burst[CHOOSE i \in 1..n : burst[i][1] = w][2] ELSE mem[w]]
           /\ cu' = [cu EXCEPT ![c].out = SubSeq(@, n + 1, Len(@)), ![c].left = @ + n]
    /\ UNCHANGED <<ask, plan, phase, round, pc, disp, sig, hung, lost, log>>

ClusterStep(c) ==
    \/ Fill(c) \/ StartSweep(c) \/ EndSweep(c) \/ StartDrain(c) \/ EndDrain(c) \/ WriteBack(c)

---------------------------------------------------------------------------
(* What may go wrong: a cluster stops, the writes to a word of the result  *)
(* are lost.                                                               *)
Hang(c) ==
    /\ ask.fault = "hang" /\ hung = <<>> /\ phase = "run"
    /\ hung' = <<c>>
    /\ UNCHANGED <<ask, plan, phase, round, pc, disp, sig, mem, cu, lost, log>>

LoseWrites ==
    /\ ask.fault = "lose" /\ lost = {} /\ phase = "load" /\ round = 1
    /\ \E i \in 0..(Groups(plan.prob.m) * Groups(plan.prob.n) - 1) :
         lost' = {plan.prob.kern.layout.c + i}
    /\ UNCHANGED <<ask, plan, phase, round, pc, disp, sig, mem, cu, hung, log>>

(* The bench gives a round up when nothing moves any more.                 *)
Quiet(c) == ~Works(c) \/ (cu[c].q = <<>> /\ cu[c].sweep = <<>> /\ cu[c].out = <<>>)
GiveUp ==
    /\ phase = "run"
    /\ Command.op = "POLL"
    /\ ~Matches(RegValue(Command.reg), Command.data)
    /\ disp.run = 0 /\ \A c \in DOMAIN cu : Quiet(c)
    /\ log' = log \o <<[kind |-> "ROUND-FAIL", round |-> round, pc |-> pc],
                       [kind |-> "after", retired |-> pc - 1, commands |-> Len(plan.cmds[round])]>>
    /\ phase' = "done"
    /\ UNCHANGED <<ask, plan, round, pc, disp, sig, mem, cu, hung, lost>>

Step == Refuse \/ UploadOperands \/ LoadRound \/ Write \/ Await \/ EndRound \/ Stream \/ GiveUp
Next == Step \/ LoseWrites \/ \E c \in DOMAIN cu : ClusterStep(c) \/ Hang(c)

Spec == Init /\ [][Next]_vars /\ WF_vars(Step \/ \E c \in DOMAIN cu : ClusterStep(c))

---------------------------------------------------------------------------
Answer == DecodeResult(mem, plan.prob)

Product(g, h) ==
    [kb \in 1..Blocks(plan.prob.k) |-> <<[op |-> "A", g |-> g, kb |-> kb - 1],
                                    [op |-> "B", g |-> h, kb |-> kb - 1]>>]
Right(gh) == Answer[gh] = Result(Product(gh[1], gh[2]))

(* What the front end is given: the values stand for those of the product. *)
Value(gh) == ((gh[1] * 5 + gh[2] * 3) % 7) - 3
Given ==
    Payload(plan.prob, [gh \in DOMAIN Answer |-> IF Right(gh) THEN Value(gh) ELSE 0],
            [gh \in DOMAIN Answer |-> IF Right(gh) THEN 0 ELSE FAR], log)

(* When a round is over, and the next takes its place in the staging RAM   *)
(* and the command RAM, every instruction it dispatched has been retired   *)
(* and every result written; at most the first sweep of the next pass of a *)
(* cluster still runs, which hands nothing out (control: await_all; the    *)
(* barrier of S_DWAIT in mx_cluster_cu.v).                                 *)
RoundOver ==
    phase \in {"load", "done"} /\ hung = <<>> =>
        /\ disp.run = 0
        /\ \A c \in DOMAIN cu :
              /\ cu[c].q = <<>> /\ cu[c].out = <<>>
              /\ \A i \in DOMAIN cu[c].sweep : ~cu[c].sweep[i].emit

(* Without a fault the run ends with every element of the product: all the *)
(* blocks of K of its row and its column, each once -- over the tiling,    *)
(* the packing of the operands, the banks of L1, the prefetch, the cut     *)
(* into rounds and the walk over the result (kernel.py plan, bench.py).    *)
ProductWhole ==
    phase = "done" /\ ask.fault = "none" =>
        /\ Finished(log)
        /\ \A gh \in DOMAIN Answer : Right(gh)

(* A run ends with the whole product, one round after the other.           *)
ResultWhole == RoundOver /\ ProductWhole

(* No fill writes an entry that the running sweep may still read: there is *)
(* no interlock, the planner owns the banks (matmul.py, _flit; the check   *)
(* at the end of mx_cluster_mgr.v).                                        *)
SweepUndisturbed ==
    \A c \in DOMAIN cu : HeadIs(c, "FILL") => ~Collides(c, Head(cu[c].q))

(* The verdict passes a run exactly when the whole answer is right, also   *)
(* after a fault; a run that was given up says at which command            *)
(* (sim.py, _telemetry, _verdict and the ladder).                          *)
VerdictRight ==
    phase = "done" /\ ask.how = "tiled" =>
        \E said \in {Given} :
            /\ said.verdict.pass <=> Finished(log) /\ \A gh \in DOMAIN Answer : Right(gh)
            /\ ~Finished(log) =>
                   said.telemetry.fail = <<[round |-> round, pc |-> pc]>> /\ said.telemetry.where # <<>>

(* What is reported of the schedule is what the machine did: the entries   *)
(* the first cluster fetched, none twice where B stays; each tile of the   *)
(* result in one pass; the regions apart; the preview's counts; and a      *)
(* picture shows the worst error there is (sim.py, _l1, _tiling,           *)
(* _memory_map, _heat, _worst; bench.py, preview).                         *)
ScheduleRight ==
    phase = "done" /\ hung = <<>> /\ ask.how = "tiled" =>
        \E said \in {Given} : \E pre \in {Preview(ask)} :
            LET first == cu[plan.prob.kern.clusters[1]]
                tiling == said.tiling
                m == said.memory
                Whole == (0..(Groups(plan.prob.m) - 1)) \X (0..(Groups(plan.prob.n) - 1))
            IN  /\ said.l1.a.fetched = first.fetched.a /\ said.l1.b.fetched = first.fetched.b
                /\ plan.prob.kern.l1.bResident => said.l1.b.fetched = said.l1.b.unique
                /\ \A gh \in Whole : Cardinality({i \in DOMAIN tiling :
                       /\ gh[1] \in tiling[i].row0..(tiling[i].row1 - 1)
                       /\ gh[2] \in tiling[i].col0..(tiling[i].col1 - 1)}) = 1
                /\ m.a.start + m.a.words <= m.b.start /\ m.b.start + m.b.words <= m.c.start
                /\ m.c.start + m.c.words <= Hw.words
                /\ pre.rounds = round
                /\ pre.flits = FoldSet(LAMBDA c, n : cu[c].done + n, 0, DOMAIN cu)
                /\ pre.live = Cardinality({c \in DOMAIN cu : cu[c].done > 0})
                /\ said.worst[1] = Max({said.relErr.data[x] : x \in DOMAIN said.relErr.data})
                /\ ~\E gh \in Whole : Right(gh) /\ Magnitude(Value(gh)) >
                       Max({Magnitude(said.got.data[x]) : x \in DOMAIN said.got.data})

(* Clusters that need not share a memory port do not (bench.py, dispatch:  *)
(* spread).                                                                *)
PortsSpread ==
    phase = "done" /\ ask.packing = "spread" =>
        Cardinality(plan.prob.disp.ports) = Least(ask.use, MeshGrid(ask.ncl, ask.split)[3])

(* Whatever is said of a run, of its answer or of how it was done, is so.  *)
ReportTrue == VerdictRight /\ ScheduleRight /\ PortsSpread
=============================================================================
