---------------------------- MODULE DeviceProgram ----------------------------
(***************************************************************************)
(* The control program of the machine (device.Program): what the host      *)
(* uploads before it starts, and the commands that dispatch, wait and      *)
(* halt.  A register is a name and a node; what a register holds is a      *)
(* record of its fields, and a poll waits for some of the fields.          *)
(***************************************************************************)
EXTENDS Integers, Sequences
LOCAL INSTANCE SequencesExt

CONSTANT Hw  \* the machine; here Hw.depth, the instruction FIFO of a unit,
             \* and Hw.wrap, the range of a completion counter

FLIT_WORDS == 5

Reg(name) == [name |-> name, x |-> 0, y |-> 0]
NodeStatus(node) == [name |-> "NODE_STATUS", x |-> node[1], y |-> node[2]]

NewProgram == [cmds |-> <<>>, setup |-> <<>>, shadow |-> <<>>]

(* The words of one instruction flit, one after the other in the window.   *)
StageFlit(p, slot, flit) ==
    [p EXCEPT !.setup = @ \o [w \in 1..FLIT_WORDS |->
        [slot |-> slot, word |-> w - 1, flit |-> flit]]]

Holds(p, reg, data) == \E i \in 1..Len(p.shadow) : p.shadow[i] = [reg |-> reg, data |-> data]
Remember(p, reg, data) ==
    Append(SelectSeq(p.shadow, LAMBDA s : s.reg # reg), [reg |-> reg, data |-> data])

Wr(p, reg, data) ==
    [p EXCEPT !.cmds = Append(@, [op |-> "WR", reg |-> reg, data |-> data]),
              !.shadow = Remember(p, reg, data)]

(* A register that the machine reads and never changes is written only     *)
(* when it does not hold the value already.                                *)
WrSetup(p, reg, data) == IF Holds(p, reg, data) THEN p ELSE Wr(p, reg, data)

Poll(p, reg, want) == [p EXCEPT !.cmds = Append(@, [op |-> "POLL", reg |-> reg, data |-> want])]
Done(p, code) == [p EXCEPT !.cmds = Append(@, [op |-> "DONE", reg |-> Reg("CODE"), data |-> code])]

(* The fields a poll names have the values it names.                       *)
Matches(value, want) == \A f \in DOMAIN want : value[f] = want[f]

Kick(p, node, base, nflits) ==
    LET idle == Poll(p, Reg("PROG_STAT"), [run |-> 0])
        dst  == WrSetup(idle, Reg("PROG_DST"), [node |-> node])
        at   == WrSetup(dst, Reg("PROG_BASE"), [slot |-> base])
        len  == WrSetup(at, Reg("PROG_LEN"), [count |-> nflits])
    IN  Wr(len, Reg("PROG_KICK"), [on |-> 1])

SeedCredits(p, n) == Wr(p, Reg("PROG_CRED"), [count |-> n])
ClearDone(p) == Wr(p, Reg("SIG_DONE"), [count |-> 0])

AwaitNodeAt(p, node, count) ==
    Poll(p, NodeStatus(node), [count |-> count % Hw.wrap, valid |-> 1])

(* The last signal too is the one waited for.                              *)
AwaitSignal(p, node, code, count, arg) ==
    Poll(p, NodeStatus(node),
         [count |-> count % Hw.wrap, valid |-> 1, code |-> code, arg |-> arg])

(* The register is compared with the count in full.                        *)
AwaitAll(p, total) == Poll(p, Reg("SIG_DONE"), [count |-> total])

Dispatch(p, node, nflits) ==
    AwaitNodeAt(Kick(SeedCredits(p, Hw.depth), node, 0, nflits), node, nflits)

---------------------------------------------------------------------------
(* The passes of a round: a pass has the unit it is for and its flits.     *)

(* Where the flits of pass i start when the passes are packed end to end.  *)
Slot(passes, i) == FoldLeft(LAMBDA n, p : n + Len(p.flits), 0, SubSeq(passes, 1, i - 1))

(* What unit u is asked to do by passes.                                   *)
FlitsFor(passes, u) ==
    FoldLeft(LAMBDA n, p : IF p.cluster = u THEN n + Len(p.flits) ELSE n, 0, passes)

KickAll(prog, passes) ==
    FoldLeft(LAMBDA p, i : Kick(p, passes[i].cluster, Slot(passes, i), Len(passes[i].flits)),
             prog, [i \in 1..Len(passes) |-> i])

(* The units of passes in the order of their first pass.                   *)
Units(passes) ==
    FoldLeft(LAMBDA us, p : IF Contains(us, p.cluster) THEN us ELSE Append(us, p.cluster),
             <<>>, passes)

(* One poll for the machine.                                               *)
Control(passes, prog) ==
    LET kicked == KickAll(SeedCredits(ClearDone(prog), Hw.depth), passes)
    IN  Done(AwaitAll(kicked, Slot(passes, Len(passes) + 1)), "C0DE")

(* One poll for each unit, against its own count before the round.         *)
ControlStrict(passes, prog, baseline) ==
    LET kicked == KickAll(SeedCredits(prog, Hw.depth), passes)
        waits  == FoldLeft(LAMBDA p, u : AwaitNodeAt(p, u, baseline[u] + FlitsFor(passes, u)),
                           kicked, Units(passes))
    IN  Done(waits, "C0DE")

(* The flits of the passes, staged in the slots the control kicks.         *)
Staged(passes) ==
    FoldLeft(LAMBDA p, i :
                 FoldLeft(LAMBDA q, j : StageFlit(q, Slot(passes, i) + j - 1, passes[i].flits[j]),
                          p, [j \in 1..Len(passes[i].flits) |-> j]),
             NewProgram, [i \in 1..Len(passes) |-> i])

RoundProgram(passes) == Control(passes, Staged(passes))
=============================================================================
