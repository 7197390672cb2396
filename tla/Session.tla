------------------------------- MODULE Session -------------------------------
(***************************************************************************)
(* A session of the host with one card: hw/fpga.py, hw/runtime.py,         *)
(* hw/chain.py and hw/vector.py over hw/device.py, on a PCIe or a JTAG     *)
(* transport (hw/xdma.py, hw/jtag.py), with the memory of hw/memplan.py.   *)
(*                                                                         *)
(* One thread runs a method at a time.  A method is the sequence of        *)
(* accesses it makes; todo is what is left of the current one, and a THEN  *)
(* in it stands for the accesses that follow from what was read before.    *)
(***************************************************************************)
EXTENDS Machine, Arena
LOCAL INSTANCE SequencesExt
LOCAL INSTANCE FiniteSetsExt
LOCAL INSTANCE TLC

(* The sessions: script, the calls in order; board, what the board file    *)
(* says; late, waits that may give up before the machine is quiet; faults, *)
(* transfers that may fail or fall short; lag, the beats by which the data *)
(* of a JTAG write lag its address, with realign and scratch as asked for. *)
(* Of Hw: chunk, the words of one transfer; tries, attempts at it; shifts, *)
(* the largest lag measured; tags, the range of a question's tag; align.   *)
CONSTANT Sessions
ASSUME SessionsAssumption ==
  /\ Hw.align \in Nat \ {0}
  /\ \A s \in Sessions :
       /\ s.board.words \in Nat /\ Len(s.script) \in Nat
       /\ \A i \in 1..Len(s.script) : s.script[i].m = "alloc" => s.script[i].n \in Int

VARIABLES
  ask,    \* the session
  done,   \* calls finished
  todo,   \* accesses left of the current call
  got,    \* what it has read
  host,   \* what the driver keeps from call to call
  said,   \* what the last call answered
  ghost   \* what the calls so far should have done

hostVars == <<ask, done, todo, got, host, said, ghost>>
vars == <<machine, hostVars>>

Call == ask.script[done + 1]
Pcie == ask.lag < 0
Declared == ask.board.clusters \o ask.board.vectors

NoAnswer == [ok |-> TRUE, why |-> "none", m |-> "none", value |-> <<>>]
NoTrack  == [alias |-> <<>>, valid |-> {}, value |-> <<>>]

Init ==
  /\ MachineInit
  /\ ask \in Sessions
  /\ done = 0 /\ todo = <<[op |-> "OPEN"]>> /\ got = <<>> /\ said = NoAnswer
  /\ host = [heap |-> NewHeap(ask.board.words), bufs |-> <<>>, tag |-> 0, asked |-> 0,
             known |-> <<>>, shift |-> 0, stale |-> <<>>, track |-> NoTrack, prog |-> 0,
             late |-> ask.late, faults |-> ask.faults, heard |-> [sent |-> 0, got |-> 0]]
  /\ ghost = [mem |-> [w \in 0 .. Hw.words - 1 |-> Never],
              l1 |-> [n \in Nodes |-> Never], broken |-> FALSE]

---------------------------------------------------------------------------
(* The accesses.  A value read is kept under a key.                        *)
Key(what, node) == [what |-> what, node |-> node]
Here == <<0, 0>>
Read(reg, key)     == <<[op |-> "READ", reg |-> reg, key |-> key]>>
Put(word, data)    == <<[op |-> "PUT", word |-> word, data |-> data, moved |-> 0, tries |-> 0]>>
Get(word, n, key)  == <<[op |-> "GET", word |-> word, data |-> [i \in 1..n |-> Never], key |-> key,
                         moved |-> 0, tries |-> 0]>>
Then(what, arg)    == <<[op |-> "THEN", what |-> what, arg |-> arg]>>
Refuse(why)        == <<[op |-> "FAIL", why |-> why]>>
End(value)         == <<[op |-> "END", value |-> value]>>

(* Session.ctrl_read: empty the mailbox, ask, take the reply.  The steps   *)
(* of one group are given up together.                                     *)
Ask(node, idx, key, group) ==
    <<[op |-> "DRAIN", group |-> group], [op |-> "SEND", node |-> node, idx |-> idx, group |-> group],
      [op |-> "TAKE", node |-> node, key |-> key, group |-> group]>>

(* Program.execute: upload what is staged, then the commands.              *)
Execute(p) ==
    LET whole == SelectSeq(p.setup, LAMBDA w : w.word = FLIT_WORDS - 1)
    IN  <<[op |-> "UPLOAD"]>>
        \o [i \in 1..Len(whole) |-> [op |-> "STAGE", slot |-> whole[i].slot, flit |-> whole[i].flit]]
        \o SelectSeq(p.cmds, LAMBDA c : c.op # "DONE")

(* Session.reset: clear the completion counter, wait for an idle           *)
(* dispatcher.                                                             *)
Reset == Poll(ClearDone(NewProgram), Reg("PROG_STAT"), [run |-> 0]).cmds

Concat(S(_), n) == FoldLeft(LAMBDA q, i : q \o S(i), <<>>, [i \in 1..n |-> i])

---------------------------------------------------------------------------
(* A product of n words: from a to c, a round of use units at a time.      *)
Flit(op, a, b) == [op |-> op, a |-> a, b |-> b, of |-> 0]
Passes(a, c, n, use, r) ==
    LET first == (r - 1) * use
    IN  [u \in 1 .. Min({use, n - first}) |->
            [cluster |-> ask.board.clusters[u],
             flits   |-> <<Flit("FILL", a + first + u - 1, 0), Flit("GEMM", 0, 0),
                           Flit("DRAIN", 0, c + first + u - 1)>>]]
Rounds(n, use) == (n + use - 1) \div use

(* Session.check, in what it measures here.                                *)
RunFits(n, use) == use \in 1..Len(ask.board.clusters) /\ 2 * n <= ask.board.words

(* The counters and the status of every declared unit; what a unit is, is  *)
(* asked once.                                                             *)
Rows(tag) ==
    Concat(LAMBDA i : LET node == Declared[i]
                          g    == Key(tag, node)
                      IN  (IF node \in DOMAIN host.known THEN <<>>
                           ELSE Ask(node, "CAPS", Key("kind", node), g))
                          \o Ask(node, "COUNTERS", Key(tag \o "-busy", node), g)
                          \o Ask(node, "DBG", Key(tag \o "-dbg", node), g)
                          \o Ask(node, "STATUS", Key(tag \o "-status", node), g),
           Len(Declared))

(* A round of a run waits for each unit, against its count before it.      *)
StrictRound(c, r) ==
    LET ps == Passes(0, c.n, c.n, c.use, r)
    IN  Concat(LAMBDA u : Read(NodeStatus(ps[u].cluster), Key("base", ps[u].cluster)), Len(ps))
        \o Then("round", r)

RunSteps(c) ==
    IF ~RunFits(c.n, c.use) THEN Refuse("refused")
    ELSE (IF c.profile THEN Rows("was") ELSE <<>>)
         \o Read(Reg("CAPS"), Key("caps", Here)) \o Then("handshake", 0)
         \o Reset \o Put(0, c.image)
         \o Concat(LAMBDA r : StrictRound(c, r), Rounds(c.n, c.use))
         \o Get(c.n, c.n, Key("data", Here))
         \o (IF c.profile THEN Then("again", 0) ELSE <<>>) \o Then("answer", 0)

(* Device.launch and chain.gemm: every round waits on the shared counter.  *)
SharedRounds(a, c, n, use) ==
    Concat(LAMBDA r : Execute(RoundProgram(Passes(a, c, n, use, r))), Rounds(n, use))
GemmSteps(c) ==
    IF ~RunFits(c.n, c.use) THEN Refuse("refused")
    ELSE Reset \o SharedRounds(c.a, c.c, c.n, c.use) \o End(<<>>)
LaunchSteps(c) ==
    IF \E i \in {c.a, c.b, c.c} : host.bufs[i].freed THEN Refuse("refused")
    ELSE SharedRounds(host.bufs[c.a].at, host.bufs[c.c].at, c.n, Len(ask.board.clusters))
         \o Reset \o End(<<>>)

(* vector.run_kernel, a staging window at a time: its own count is read    *)
(* first, and the node's status after it.                                  *)
KernelSteps(node, flits) ==
    Read(NodeStatus(node), Key("base", node)) \o Then("kernel", [node |-> node, flits |-> flits])
    \o Read(NodeStatus(node), Key("status", node)) \o Then("fault", node)
MapFlits(c) ==
    (IF c.loaded THEN <<Flit("IMEM", c.add, 0)>> ELSE <<>>)
    \o <<Flit("DESC", c.src, c.dst), Flit(IF c.peer THEN "RUN_PEER" ELSE "RUN", 0, 0)>>
MapSteps(c) ==
    LET flits == MapFlits(c)
        w     == ask.board.stage
    IN  Concat(LAMBDA i : KernelSteps(c.node, SubSeq(flits, (i - 1) * w + 1, Min({i * w, Len(flits)}))),
               (Len(flits) + w - 1) \div w) \o End(<<>>)

(* Session.push_l1: a descriptor and a flit for each word.                 *)
PushFlits(c) == <<Flit("BURST", Len(c.data), c.buf)>>
                \o [i \in 1..Len(c.data) |-> Flit("DATA", c.data[i], 0)]
PushSteps(c) ==
    IF Len(c.data) + 1 > ask.board.stage THEN Refuse("refused")
    ELSE Read(NodeStatus(c.node), Key("base", c.node)) \o Then("push", 0) \o End(<<>>)

---------------------------------------------------------------------------
(* Session.sweep asks every coordinate, Session.check_nodes the declared.  *)
Coordinate(i) == <<(i - 1) % Hw.grid[1], (i - 1) \div Hw.grid[1]>>
Asking(node) == Ask(node, "CAPS", Key("caps", node), Key("caps", node))
SweepSteps == Concat(LAMBDA i : Asking(Coordinate(i)), Hw.grid[1] * Hw.grid[2]) \o Then("swept", 0)
CheckSteps == Concat(LAMBDA i : Asking(Declared[i]), Len(Declared)) \o Then("checked", 0)

(* Buffers.  An allocation is whole bursts, and zeroed: a word that was    *)
(* never written cannot be read.                                           *)
Zero == 1
ZeroOf(at, n) == Put(at, [i \in 1..n |-> Zero])
Freed(c) == host.bufs[c.buf].freed
Room(c, n) == ~Freed(c) /\ n <= host.bufs[c.buf].n
CopyInSteps(c) == IF ~Room(c, Len(c.data)) THEN Refuse("refused")
                  ELSE Put(host.bufs[c.buf].at, c.data) \o End(<<>>)
CopyOutSteps(c) == IF ~Room(c, c.n) THEN Refuse("refused")
                   ELSE Get(host.bufs[c.buf].at, c.n, Key("data", Here)) \o Then("answer", 0)

(* A network planned as a whole: its weights and inputs go to the words    *)
(* solve gave them, then the steps run in the order the runner issues      *)
(* them.  A step stands here for whatever kernels it is made of.           *)
PlanSteps(c) ==
    IF Refusal(c.plan) # "none" THEN Refuse("refused")
    ELSE Then("solved", 0) \o Then("load", 0) \o Concat(LAMBDA i : Then("issue", c.order[i]), Len(c.order))
         \o Then("outputs", 0)

StepsOf(c) ==
    CASE c.m = "run"     -> RunSteps(c)
      [] c.m = "gemm"    -> GemmSteps(c)
      [] c.m = "launch"  -> LaunchSteps(c)
      [] c.m = "vmap"    -> MapSteps(c)
      [] c.m = "push"    -> PushSteps(c)
      [] c.m = "sweep"   -> SweepSteps
      [] c.m = "check"   -> CheckSteps
      [] c.m = "put"     -> Put(c.word, c.data) \o End(<<>>)
      [] c.m = "get"     -> Get(c.word, c.n, Key("data", Here)) \o Then("answer", 0)
      [] c.m = "copyin"  -> CopyInSteps(c)
      [] c.m = "copyout" -> CopyOutSteps(c)
      [] c.m = "plan"    -> PlanSteps(c)

---------------------------------------------------------------------------
(* What follows from what was read: more accesses, or an answer.           *)
CountOf(node) == got[Key("base", node)].count

(* A row of the counters: the difference of two readings, modulo their     *)
(* range; a unit that did not answer both has none.  A vector core's       *)
(* compute cycles are of its last run and are taken as they are.           *)
Delta(now, was) == (now - was) % Hw.cycles
Lost(node) == Key("was", node) \in DOMAIN got \/ Key("now", node) \in DOMAIN got
Row(node) ==
    IF Lost(node) THEN [node |-> node, delta |-> FALSE, busy |-> 0, compute |-> 0, worked |-> 0]
    ELSE LET was  == got[Key("was-busy", node)]
             now  == got[Key("now-busy", node)]
             dbg0 == got[Key("was-dbg", node)]
             dbg1 == got[Key("now-dbg", node)]
         IN  [node |-> node, delta |-> TRUE, busy |-> Delta(now.busy, was.busy),
              compute |-> IF dbg1.cumulative THEN Delta(dbg1.compute, dbg0.compute) ELSE dbg1.compute,
              worked |-> now.worked - was.worked]

Answered(node) == Key("caps", node) \in DOMAIN got /\ "kind" \in DOMAIN got[Key("caps", node)]
DeclaredSet == {Declared[i] : i \in 1..Len(Declared)}
Inventory ==
    LET answered == {n \in {Coordinate(i) : i \in 1..(Hw.grid[1] * Hw.grid[2])} : Answered(n)}
    IN  [answered |-> answered, undeclared |-> answered \ DeclaredSet,
         missing |-> DeclaredSet \ answered]
Expects(node) == IF node \in {ask.board.clusters[i] : i \in 1..Len(ask.board.clusters)}
                 THEN "MG" ELSE "VC"
ComplainsOfKind(node) ==   \* mutant of Complains: the version is not compared
    ~Answered(node) \/ got[Key("caps", node)].kind # Expects(node)
Complains(node) ==
    \/ ~Answered(node)
    \/ got[Key("caps", node)].kind # Expects(node)
    \/ got[Key("caps", node)].version # ask.board.version

(* The units' own counts when a push, a kernel or a round begins.          *)
RoundSteps(r) ==
    LET ps   == Passes(0, Call.n, Call.n, Call.use, r)
        base == [u \in RangeOf(Units(ps)) |-> CountOf(u)]
    IN  Execute(ControlStrict(ps, Staged(ps), base))
Loading(node, flits) == Staged(<<[cluster |-> node, flits |-> flits]>>)
KernelProgram(node, flits) ==
    AwaitNodeAt(Kick(SeedCredits(Loading(node, flits), Hw.depth), node, 0, Len(flits)),
                node, CountOf(node) + Len(flits))
Pushing(c, credit) ==
    LET flits == PushFlits(c)
    IN  AwaitSignal(Kick(SeedCredits(Loading(c.node, flits), credit), c.node, 0, Len(flits)),
                    c.node, "DATA", CountOf(c.node) + 1, c.buf)
PushProgram(c) == Pushing(c, Len(PushFlits(c)))

(* A planned step reads its operands where solve put them, if the tracker  *)
(* lets it, and what it writes is told to the tracker.                     *)
PlanStep(i) == Call.plan.steps[i]
Where(name) == host.track.word[name]
Size(name) == Tensor(Call.plan, name).n
Fill(name, v) == Put(Where(name), [i \in 1..Size(name) |-> v])
Fetch(names) == Concat(LAMBDA j : Get(Where(names[j]), Size(names[j]), Key("tensor", <<names[j]>>)),
                       Len(names))
Fetched(name) == got[Key("tensor", <<name>>)]
Product(i) == 10 * i + FoldSeq(LAMBDA name, n : n + Fetched(name)[1], 0, PlanStep(i).reads)
Track(names, v) ==
    [host.track EXCEPT !.valid = FoldSeq(LAMBDA n, s : Wrote(host.track.alias, s, n), @, names),
                       !.value = [n \in RangeOf(names) |-> v] @@ @]
Initial == NamesOf(Call.plan, LAMBDA n : Early(Call.plan, n))
Solved ==
    LET p  == Solve(Call.plan)
    IN  [alias |-> Aliases(Call.plan, p.word), word |-> p.word,
         valid |-> RangeOf(Initial), value |-> [n \in RangeOf(Initial) |-> 5]]
Outputs == NamesOf(Call.plan, LAMBDA n : Tensor(Call.plan, n).kind = "output")

More(what, arg) ==
    CASE what = "handshake" -> IF got[Key("caps", Here)].grid = ask.board.grid THEN <<>> ELSE Refuse("refused")
      [] what = "round"  -> RoundSteps(arg)
      [] what = "again"  -> Rows("now")
      [] what = "kernel" -> Execute(KernelProgram(arg.node, arg.flits))
      [] what = "fault"  -> IF got[Key("status", arg)].code = "FAULT" THEN Refuse("fault") ELSE <<>>
      [] what = "push"   -> Execute(PushProgram(Call))
      [] what = "swept"  -> End(Inventory)
      [] what = "checked" -> End([complaints |-> {n \in DeclaredSet : Complains(n)}])
      [] what = "answer" -> End([data |-> got[Key("data", Here)],
                                 rows |-> IF Call.m = "run" /\ Call.profile
                                          THEN [i \in 1..Len(Declared) |-> Row(Declared[i])] ELSE <<>>])
      [] what = "solved" -> <<>>
      [] what = "load"   -> Concat(LAMBDA j : Fill(Initial[j], 5), Len(Initial))
      [] what = "issue"  -> IF \A n \in RangeOf(PlanStep(arg).reads) :
                                   MayRead(host.track.alias, host.track.valid, n)
                            THEN Fetch(PlanStep(arg).reads) \o Then("compute", arg)
                            ELSE Refuse("tracker")
      [] what = "compute" -> Concat(LAMBDA j : Fill(PlanStep(arg).writes[j], Product(arg)),
                                    Len(PlanStep(arg).writes))
      [] what = "outputs" -> IF \A n \in RangeOf(Outputs) :
                                   MayRead(host.track.alias, host.track.valid, n)
                             THEN Fetch(Outputs) \o Then("deliver", 0) ELSE Refuse("tracker")
      [] what = "deliver" -> End(<<>>)

Kept(what, arg) ==
    CASE what = "solved"  -> [host EXCEPT !.track = Solved]
      [] what = "compute" -> [host EXCEPT !.track = Track(PlanStep(arg).writes, Product(arg))]
      [] OTHER -> host

---------------------------------------------------------------------------
(* What a call should do to memory, if it is done and nothing else is.     *)
Assign(m, at, data) ==
    [w \in DOMAIN m |-> IF at <= w /\ w < at + Len(data) THEN data[w - at + 1] ELSE m[w]]
Product1(m, a, n) == [i \in 1..n |-> Work(m[a + i - 1])]
Effect(c, m) ==
    CASE c.m = "run"    -> LET in == Assign(m, 0, c.image) IN Assign(in, c.n, Product1(in, 0, c.n))
      [] c.m = "gemm"   -> Assign(m, c.c, Product1(m, c.a, c.n))
      [] c.m = "launch" -> Assign(m, host.bufs[c.c].at, Product1(m, host.bufs[c.a].at, c.n))
      [] c.m = "vmap"   -> Assign(m, c.dst, <<c.add + (IF c.src = FromL1 THEN ghost.l1[c.node] ELSE m[c.src])>>)
      [] c.m = "put"    -> Assign(m, c.word, c.data)
      [] c.m = "copyin" -> Assign(m, host.bufs[c.buf].at, c.data)
      [] c.m = "alloc"  -> Assign(m, Last(host.bufs).at, [i \in 1..Last(host.bufs).n |-> Zero])
      [] c.m = "plan"   -> mem
      [] OTHER -> m

Finish(ok, why, value) ==
  /\ said' = [ok |-> ok, why |-> why, m |-> Call.m, value |-> value]
  /\ done' = done + 1 /\ todo' = <<>> /\ got' = <<>>
  /\ ghost' = [ghost EXCEPT !.mem = IF ok THEN Effect(Call, @) ELSE @,
                            !.l1 = IF ok /\ Call.m = "push" THEN [@ EXCEPT ![Call.node] = Call.data[1]] ELSE @,
                            !.broken = @ \/ (~ok /\ why \notin {"refused", "fault", "ecc"})]
  /\ UNCHANGED <<machine, ask>>

Next1 == Head(todo)
Doing(op) == todo # <<>> /\ Next1.op = op
Step == todo' = Tail(todo)
Still == UNCHANGED <<ask, done, said, ghost>>

Calls(ms) == todo = <<>> /\ done < Len(ask.script) /\ Call.m \in ms

Begin ==
  /\ Calls({"run", "gemm", "launch", "vmap", "push", "sweep", "check", "put", "get",
            "copyin", "copyout", "plan"})
  /\ todo' = StepsOf(Call)
  /\ UNCHANGED <<machine, got, host>> /\ Still

(* Device.alloc and Device.free: the heap first, then the card.  A caller  *)
(* has no buffer but those it was given.                                   *)
Allocate ==
  /\ Calls({"alloc"})
  /\ LET n  == RoundUp(Call.n, Hw.align)
         at == Take(host.heap.arena, n).at
     IN  IF Call.n <= 0 \/ ~HeapHas(host.heap, n)
         THEN todo' = Refuse("refused") /\ UNCHANGED host
         ELSE /\ todo' = ZeroOf(at, n) \o End(<<>>)
              /\ host' = [host EXCEPT !.heap = HeapTake(@, n),
                                      !.bufs = Append(@, [at |-> at, n |-> n, freed |-> FALSE])]
  /\ UNCHANGED <<machine, got>> /\ Still
Release ==
  /\ Calls({"free"}) /\ Call.buf \in DOMAIN host.bufs
  /\ IF Freed(Call)
     THEN todo' = Refuse("refused") /\ UNCHANGED host
     ELSE /\ todo' = End(<<>>)
          /\ host' = [host EXCEPT !.heap = HeapGive(@, host.bufs[Call.buf].at),
                                  !.bufs[Call.buf].freed = TRUE]
  /\ UNCHANGED <<machine, got>> /\ Still

Expand ==
  /\ Doing("THEN")
  /\ todo' = More(Next1.what, Next1.arg) \o Tail(todo)
  /\ host' = Kept(Next1.what, Next1.arg)
  /\ UNCHANGED <<machine, got>> /\ Still

Ending  == Doing("END") /\ Finish(TRUE, "none", Next1.value) /\ UNCHANGED host
Failing == Doing("FAIL") /\ Finish(FALSE, Next1.why, <<>>) /\ UNCHANGED host

---------------------------------------------------------------------------
(* Registers and the staging memory.                                       *)
Upload ==
  /\ Doing("UPLOAD") /\ Step
  /\ host' = [host EXCEPT !.prog = @ + 1]
  /\ UNCHANGED <<machine, got>> /\ Still
Stage ==
  /\ Doing("STAGE") /\ Step
  /\ stage' = [stage EXCEPT ![Next1.slot] = [Next1.flit EXCEPT !.of = host.prog]]
  /\ UNCHANGED <<mem, agent, unit, got, host>> /\ Still
Write ==
  /\ Doing("WR") /\ Step
  /\ agent' = RegWrite(Next1.reg, Next1.data, host.prog)
  /\ UNCHANGED <<mem, stage, unit, got, host>> /\ Still
Await ==
  /\ Doing("POLL") /\ Matches(RegValue(Next1.reg), Next1.data) /\ Step
  /\ UNCHANGED <<machine, got, host>> /\ Still
ReadReg ==
  /\ Doing("READ") /\ Step
  /\ got' = (Next1.key :> RegValue(Next1.reg)) @@ got
  /\ UNCHANGED <<machine, host>> /\ Still

(* The mailbox.  A tag is never zero.                                      *)
NextTag(tag) == IF tag + 1 = Hw.tags THEN 1 ELSE tag + 1
Drain ==
  /\ Doing("DRAIN")
  /\ IF agent.rx = <<>> THEN Step /\ UNCHANGED agent
     ELSE agent' = [agent EXCEPT !.rx = Tail(@)] /\ UNCHANGED todo
  /\ UNCHANGED <<mem, stage, unit, got, host>> /\ Still
Send ==
  /\ Doing("SEND") /\ Step
  /\ Question(Next1.node, Next1.idx, NextTag(host.tag), host.asked + 1)
  /\ host' = [host EXCEPT !.tag = NextTag(@), !.asked = @ + 1]
  /\ UNCHANGED got /\ Still

(* A question without its answer: the rest of its group is not asked.      *)
SkipGroup == todo' = LET rest == {i \in 1..Len(todo) : ~("group" \in DOMAIN todo[i]) \/ todo[i].group # Next1.group}
                     IN  SubSeq(todo, Min(rest), Len(todo))
Unanswered ==
  /\ SkipGroup
  /\ got' = (Next1.group :> [none |-> 0]) @@ got

Accepts(reply) == reply.op = "RESPONSE" /\ reply.src = Next1.node /\ reply.txn = host.tag
TakeReply ==
  /\ Doing("TAKE") /\ agent.rx # <<>>
  /\ LET reply == Head(agent.rx)
     IN  IF Accepts(reply)
         THEN /\ Step
              /\ got' = (Next1.key :> reply.value) @@ got
              /\ host' = [host EXCEPT !.heard = [sent |-> host.asked, got |-> reply.id],
                            !.known = IF Next1.key.what = "kind"
                                      THEN (Next1.node :> reply.value) @@ @ ELSE @]
         ELSE Unanswered /\ UNCHANGED host
  /\ agent' = [agent EXCEPT !.rx = Tail(@)]
  /\ UNCHANGED <<mem, stage, unit>> /\ Still

(* A wait is given up when nothing will end it, or, late times, before.    *)
Unmet == \/ Doing("POLL") /\ ~Matches(RegValue(Next1.reg), Next1.data)
         \/ Doing("TAKE") /\ agent.rx = <<>>
Patience == Quiet \/ host.late > 0
Waited == host' = [host EXCEPT !.late = IF Quiet THEN @ ELSE @ - 1]
NoReply ==
  /\ Doing("TAKE") /\ Unmet /\ Patience /\ Unanswered /\ Waited
  /\ UNCHANGED machine /\ Still
NoMatch ==
  /\ Doing("POLL") /\ Unmet /\ Patience /\ Waited
  /\ Finish(FALSE, IF Quiet THEN "silent" ELSE "late", <<>>)

---------------------------------------------------------------------------
(* A block over PCIe: chunk by chunk, each from where the last one ended.  *)
(* A transfer may fall short or fail, and is tried again so many times.    *)
Block == (Doing("PUT") \/ Doing("GET")) /\ Pcie
Want == Min({Len(Next1.data) - Next1.moved, Hw.chunk})
From == Next1.word + Next1.moved
AdvanceByWant(n) == Next1.moved + Want   \* mutant of Advance: not by what was moved
Advance(n) == Next1.moved + n
Chunk(n) == [j \in DOMAIN Next1.data |->
                IF Next1.op = "GET" /\ j \in Next1.moved + 1 .. Next1.moved + n
                THEN mem[Next1.word + j - 1] ELSE Next1.data[j]]
Readable(n) == Next1.op = "PUT" \/ \A j \in 0 .. n - 1 : mem[From + j] # Never
Transfer(n) ==
  /\ Readable(n)
  /\ n = Want \/ host.faults > 0
  /\ LET moved == Advance(n)
     IN  IF moved < Len(Next1.data)
         THEN /\ todo' = <<[Next1 EXCEPT !.moved = moved, !.tries = 0, !.data = Chunk(n)]>> \o Tail(todo)
              /\ UNCHANGED got
         ELSE /\ Step
              /\ got' = IF Next1.op = "GET" THEN (Next1.key :> Chunk(n)) @@ got ELSE got
  /\ mem' = IF Next1.op = "GET" THEN mem
            ELSE Assign(mem, From, SubSeq(Next1.data, Next1.moved + 1, Next1.moved + n))
  /\ host' = [host EXCEPT !.faults = IF n = Want THEN @ ELSE @ - 1]
  /\ UNCHANGED <<stage, agent, unit>> /\ Still
Retry ==
  /\ Block /\ host.faults > 0 /\ Next1.tries + 1 < Hw.tries
  /\ todo' = <<[Next1 EXCEPT !.tries = @ + 1]>> \o Tail(todo)
  /\ host' = [host EXCEPT !.faults = @ - 1]
  /\ UNCHANGED <<machine, got>> /\ Still
TransferFails ==
  /\ Block /\ host.faults > 0
  /\ Finish(FALSE, "transfer", <<>>) /\ UNCHANGED host
Unreadable ==
  /\ Block /\ ~Readable(Want)
  /\ Finish(FALSE, "ecc", <<>>) /\ UNCHANGED host

(* A block over JTAG: the words of a write meet the addresses of a later   *)
(* one when the write path holds stale words.                              *)
Burst(m, stale, at, words) ==
    LET all == stale \o words
    IN  [mem |-> Assign(m, at, SubSeq(all, 1, Len(words))),
         stale |-> SubSeq(all, Len(words) + 1, Len(all))]
Probe == 90
(* The first d words go out against the scratch words, so that they are    *)
(* what the addresses of the block meet.                                   *)
Shifted(m, stale, at, words, d) ==
    LET head == SubSeq(words, 1, Min({d, Len(words)}))
        one  == Burst(m, stale, ask.scratch, head)
    IN  Burst(one.mem, one.stale, at, SubSeq(words, d + 1, Len(words)) \o [i \in 1..d |-> Probe])

(* The preflight: a pattern, twice; the lag is the one offset that         *)
(* explains what is read back.                                             *)
Pattern == [i \in 1 .. 2 * Hw.shifts |-> Probe + i]
Slice(m, at, n) == [i \in 1..n |-> m[at + i - 1]]
Preflight ==
    LET stale == [i \in 1..ask.lag |-> Probe]
        once  == Burst(mem, stale, ask.scratch, Pattern)
    IN  Burst(once.mem, once.stale, ask.scratch, Pattern)
Measured(m) ==
    LET back == Slice(m, ask.scratch, Len(Pattern))
    IN  Min({d \in 0 .. Hw.shifts - 1 :
               SubSeq(back, d + 1, Len(back)) = SubSeq(Pattern, 1, Len(back) - d)})

Open ==
  /\ Doing("OPEN")
  /\ IF Pcie THEN Step /\ UNCHANGED <<machine, host, done, said>>
     ELSE LET p == Preflight
              d == Measured(p.mem)
              r == Shifted(p.mem, p.stale, ask.scratch, Pattern, d)
          IN  /\ Step
              /\ UNCHANGED <<stage, agent, unit>>
              /\ IF d = 0 THEN /\ mem' = p.mem /\ host' = [host EXCEPT !.stale = p.stale]
                               /\ UNCHANGED <<done, said>>
                 ELSE IF ask.realign /\ Slice(r.mem, ask.scratch, Len(Pattern)) = Pattern
                 THEN /\ mem' = r.mem /\ host' = [host EXCEPT !.stale = r.stale, !.shift = d]
                      /\ UNCHANGED <<done, said>>
                 ELSE /\ mem' = p.mem /\ done' = Len(ask.script)
                      /\ said' = [NoAnswer EXCEPT !.ok = FALSE, !.why = "skewed"]
                      /\ UNCHANGED host
  /\ ghost' = [ghost EXCEPT !.mem = mem']
  /\ UNCHANGED <<got, ask>>

JtagWrite ==
  /\ Doing("PUT") /\ ~Pcie
  /\ LET b == IF host.shift = 0 THEN Burst(mem, host.stale, Next1.word, Next1.data)
              ELSE Shifted(mem, host.stale, Next1.word, Next1.data, host.shift)
         landed == host.shift = 0 \/ b.mem[Next1.word] = Next1.data[1]
     IN  /\ mem' = b.mem /\ host' = [host EXCEPT !.stale = b.stale]
         /\ todo' = IF landed THEN Tail(todo) ELSE Refuse("shifted")
  /\ UNCHANGED <<stage, agent, unit, got>> /\ Still
JtagRead ==
  /\ Doing("GET") /\ ~Pcie /\ Step
  /\ got' = (Next1.key :> Slice(mem, Next1.word, Len(Next1.data))) @@ got
  /\ UNCHANGED <<machine, host>> /\ Still

---------------------------------------------------------------------------
HostNext ==
  \/ Open \/ Begin \/ Allocate \/ Release \/ Expand \/ Ending \/ Failing
  \/ Upload \/ Stage \/ Write \/ Await \/ ReadReg
  \/ Drain \/ Send \/ TakeReply \/ NoReply \/ NoMatch
  \/ Block /\ \E n \in 1..Want : Transfer(n)
  \/ Retry \/ TransferFails \/ Unreadable \/ JtagWrite \/ JtagRead

(* The session is closed.                                                  *)
Closed == todo = <<>> /\ done = Len(ask.script) /\ Quiet /\ UNCHANGED vars

Next == HostNext \/ (MachineNext /\ UNCHANGED hostVars) \/ Closed
Spec == Init /\ [][Next]_vars

---------------------------------------------------------------------------
(* What the dispatcher streams was staged by the program that kicked it:   *)
(* the next upload never reaches staging memory that is still being read.  *)
StageIntact ==
  \A n \in Nodes : \A q \in {unit[n].inst, unit[n].data} :
      \A i \in 1..Len(q) : q[i].of[1] = q[i].of[2]

(* No call waits for what cannot come, but a push to a buffer that the     *)
(* unit does not have, and none reads a word that was never written.       *)
Unhindered == /\ said.why = "silent" => said.m = "push" /\ ask.script[done].buf # 0
              /\ said.why = "ecc" => ghost.broken

(* Between calls, memory is what the calls so far do one after the other,  *)
(* and what a call answered is what memory should have held.  A call that  *)
(* was given up takes the first from the calls after it, but not the       *)
(* answer from a run.                                                      *)
LastCall == ask.script[done]
Shown(c) == CASE c.m = "run" -> Slice(ghost.mem, c.n, c.n)
              [] c.m = "get" -> Slice(ghost.mem, c.word, c.n)
              [] c.m = "copyout" -> Slice(ghost.mem, host.bufs[c.buf].at, c.n)
MemoryWhole ==
  todo = <<>> =>
      /\ ~ghost.broken => \A w \in DOMAIN mem : ask.scratch > w => mem[w] = ghost.mem[w]
      /\ said.ok /\ (said.m = "run" \/ (~ghost.broken /\ said.m \in {"get", "copyout"})) =>
             said.value.data = Shown(LastCall)

(* A call gets the answer that its own arguments and the memory it was     *)
(* given have, whatever was called before it: staging memory is not        *)
(* written while it is read, and no call waits for ever.                   *)
AnswerWhole == StageIntact /\ Unhindered /\ MemoryWhole

(* A reply that is accepted answers this very question.                    *)
ReplyTrue == host.heard.sent = host.heard.got

(* A sweep names nothing that is not there, and, unless a reply came too   *)
(* late, misses nothing; a check without complaints means that every unit  *)
(* of the board file is there, of its kind and version.                    *)
InventoryTrue ==
  /\ said.ok /\ said.m = "sweep" =>
       /\ said.value.answered \subseteq Nodes
       /\ host.late = ask.late => said.value.answered = Nodes
       /\ said.value.undeclared \cap DeclaredSet = {}
  /\ said.ok /\ said.m = "check" =>
       LET matches == {n \in DeclaredSet : n \in Nodes /\ Hw.nodes[n] =
                         [kind |-> Expects(n), version |-> ask.board.version]}
       IN  /\ DeclaredSet \ said.value.complaints \subseteq matches
           /\ host.late = ask.late => said.value.complaints = DeclaredSet \ matches

(* A difference of counters is the work between the two readings.          *)
DeltaTrue ==
  said.ok /\ said.m = "run" =>
      \A i \in 1..Len(said.value.rows) :
          LET r == said.value.rows[i]
          IN  r.delta => r.busy = r.worked % Hw.cycles /\ r.compute \in 0 .. r.busy

(* What is read back from the control plane is so: a register of a unit,   *)
(* the inventory of a sweep or a check, the counters of a run.             *)
ReadingsTrue == ReplyTrue /\ InventoryTrue /\ DeltaTrue

(* A buffer that is not freed has a span of its own.                       *)
BuffersOwn ==
  \A i \in DOMAIN host.bufs : ~host.bufs[i].freed =>
      /\ Span(host.bufs[i].at, host.bufs[i].n) \in host.heap.live
      /\ \A j \in DOMAIN host.bufs : ~host.bufs[j].freed /\ j # i => host.bufs[j].at # host.bufs[i].at

(* The allocator's words are in use or free, once each and merged, and     *)
(* those in use are the buffers'.                                          *)
ArenaWhole == HeapWhole(host.heap) /\ BuffersOwn

(* Two tensors of a solved plan that live at the same time share no word,  *)
(* and the check of a placement, which compares neighbours only, misses no *)
(* overlap, wherever a tensor were put.                                    *)
Overlap(plan, word, i) ==
  \E a, b \in LiveAt(plan, i) :
      a # b /\ Words(SpanOf(plan, word, a)) \cap Words(SpanOf(plan, word, b)) # {}
PlacementSound ==
  Doing("THEN") /\ Next1.what = "load" =>
      LET plan  == Call.plan
          word  == host.track.word
          p     == Solve(plan)
          Times == 0 .. Len(plan.steps) + 1
      IN  /\ \A i \in Times : ~Overlap(plan, word, i)
          /\ \A n \in Names(plan) : word[n] + Tensor(plan, n).n <= p.words
          /\ ~Complaints(plan, p).over
          /\ \A n \in Names(plan) : \A at \in 0 .. plan.words :
                 LET moved == [p EXCEPT !.word[n] = at]
                 IN  Complaints(plan, moved).overlap = {i \in Times : Overlap(plan, moved.word, i)}

(* A planned step that the tracker lets through reads what was last        *)
(* written to each of its operands, whatever the order of the steps.       *)
ChainTrue ==
  Doing("THEN") /\ Next1.what \in {"compute", "deliver"} =>
      \A n \in (IF Next1.what = "compute" THEN RangeOf(PlanStep(Next1.arg).reads) ELSE RangeOf(Outputs)) :
          Fetched(n) = [i \in 1..Size(n) |-> host.track.value[n]]
=============================================================================
