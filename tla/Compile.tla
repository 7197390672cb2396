------------------------------- MODULE Compile -------------------------------
(***************************************************************************)
(* A kernel from the graph its author traced to its result: the graph is    *)
(* rewritten, lowered and turned into a program, the host binds the inputs, *)
(* and the nodes execute.  The nodes of one band run at their own pace; a   *)
(* band starts when the band before it is done, since nothing in the stream *)
(* of a node orders it with the other nodes.                                *)
(***************************************************************************)
EXTENDS Lower, MeshInterp
LOCAL INSTANCE FiniteSetsExt
LOCAL INSTANCE Functions
LOCAL INSTANCE SequencesExt
LOCAL INSTANCE TLC

CONSTANTS
    Kernels,      \* graphs the author may return
    Machines,     \* machine descriptions
    Options,      \* options of lower()
    Formulas      \* kernels of the library: the graph g, its inputs, and what its
                  \* author says it computes from them

VARIABLES
    g,       \* the graph as the author wrote it
    t, opt,  \* the machine and the options chosen
    phase,   \* how far it got: "traced", "absorb", "order", "lower", "place", "layout",
             \* "emit", "ready", "run", "done", or "refused", "unbound", "fault"
    graph,   \* the graph as the rewrites leave it
    low,     \* lower(): what is to be lowered, the shared blockings and its state
    sched,
    prog,
    band,    \* the band that runs
    pc,      \* of every node of the band: its next instruction, and in a loop
             \* the chunk and the position in the body
    core,    \* of every node: L1, tile and registers
    mem      \* the image, by region

graphs == <<g, t, opt, graph>>
plans  == <<low, sched, prog>>
nodes  == <<band, pc, core, mem>>
vars   == <<graphs, phase, plans, nodes>>

(* The inputs hold numbers that differ from place to place.                 *)
InputValue(i, k) == ((7 * i + 3 * k + k * k) % 11) + 1

Names(h) == {h.node[v].attrs.name : v \in {u \in ToSet(h.order) : h.node[u].kind = "input"}}
ShapeOf(h, name) == (CHOOSE o \in ToSet(h.node) : o.kind = "input" /\ o.attrs.name = name).shape
Data(h) == [name \in Names(h) |->
              Stored([k \in 1 .. Numel(ShapeOf(h, name)) |-> InputValue(name, k)])]
Shapes(h) == [name \in Names(h) |-> ShapeOf(h, name)]

Init ==
    /\ g \in Kernels \cup {f.g : f \in Formulas}
    /\ t \in Machines
    /\ opt \in Options
    /\ phase = "traced"
    /\ graph = g
    /\ low = Unset /\ sched = Unset /\ prog = Unset
    /\ band = 0 /\ pc = <<>> /\ core = <<>> /\ mem = <<>>

-----------------------------------------------------------------------------
(* lower(): the rewrites, repeated where one pass is not enough, the order  *)
(* of fusion, and then one operation after the other.                       *)
SplitReductions ==
    /\ phase = "traced"
    /\ g \in Kernels
    /\ IF opt.split
       THEN \E k \in {SplitWide(graph, t.vlmax)} :
              IF k = graph THEN phase' = "absorb" /\ UNCHANGED graph
              ELSE graph' = k /\ UNCHANGED phase
       ELSE phase' = "absorb" /\ UNCHANGED graph
    /\ UNCHANGED <<g, t, opt, plans, nodes>>

AbsorbScales ==
    /\ phase = "absorb"
    /\ graph' = IF opt.absorb THEN Absorb(graph, opt.factor) ELSE graph
    /\ phase' = "order"
    /\ UNCHANGED <<g, t, opt, plans, nodes>>

OrderForFusion ==
    /\ phase = "order"
    /\ \E view \in {ViewsOf(graph)} :
         low' = [todo |-> FuseOrder(graph, view, opt.reorder), s |-> Start(graph, view),
                 shared |-> SharedABlocking(graph, view, t)]
    /\ phase' = "lower"
    /\ UNCHANGED <<graphs, sched, prog, nodes>>

Refuse == phase' = "refused" /\ UNCHANGED <<graphs, plans, nodes>>

LowerNext ==
    /\ phase = "lower"
    /\ low.todo # <<>>
    /\ \E made \in {LowerOne(graph, t, opt, low.shared, low.s, Head(low.todo))} :
          \/ made = {} /\ Refuse
          \/ /\ \E s \in made : low' = [low EXCEPT !.s = s, !.todo = Tail(@)]
             /\ UNCHANGED <<phase, graphs, sched, prog, nodes>>

EndSchedule ==
    /\ phase = "lower"
    /\ low.todo = <<>>
    /\ \E made \in {{x \in UNION {Outputs(graph, s) : s \in Flush(graph, t, opt, low.s)} : Verify(x)}} :
          \/ made = {} /\ Refuse
          \/ /\ sched' \in made
             /\ phase' = "place"
             /\ UNCHANGED <<graphs, low, prog, nodes>>

-----------------------------------------------------------------------------
(* codegen(): the problem is as large as the result.                        *)
Rows(s) == IF Len(s) = 0 THEN 1 ELSE Numel(s) \div Last(s)
Cols(s) == IF Len(s) = 0 THEN 1 ELSE Last(s)

PlaceRegions ==
    /\ phase = "place"
    /\ prog' = Placed(sched, t)
    /\ phase' = "layout"
    /\ UNCHANGED <<graphs, low, sched, nodes>>

LayOutRegions ==
    /\ phase = "layout"
    /\ \E s \in {graph.node[graph.outputs[1]].shape} :
       \E made \in {LaidOut(prog, sched, Rows(s), Cols(s), t)} :
          \/ made = {} /\ Refuse
          \/ /\ prog' \in made
             /\ phase' = "emit"
             /\ UNCHANGED <<graphs, low, sched, nodes>>

EmitBand ==
    /\ phase = "emit"
    /\ Len(prog.code) < Len(sched.bands)
    /\ \E made \in {Emitted(prog, sched, sched.bands[Len(prog.code) + 1], t)} :
          \/ made = {} /\ Refuse
          \/ /\ prog' \in made
             /\ UNCHANGED <<phase, graphs, low, sched, nodes>>

EndProgram ==
    /\ phase = "emit"
    /\ Len(prog.code) = Len(sched.bands)
    /\ phase' = "ready"
    /\ UNCHANGED <<graphs, plans, nodes>>

-----------------------------------------------------------------------------
Nodes == UNION {DOMAIN prog.code[b] : b \in DOMAIN prog.code}

Beginning == [at |-> 1, ch |-> 0, i |-> 1]

BindInputs ==
    /\ phase = "ready"
    /\ \E images \in {Bound(prog, Data(g), Shapes(g), t)} :
          \/ /\ images = {}
             /\ phase' = "unbound"
             /\ UNCHANGED <<band, pc, core, mem>>
          \/ /\ mem' \in images
             /\ phase' = "run"
             /\ band' = 1
             /\ core' = [x \in Nodes |-> Core]
             /\ pc' = [x \in DOMAIN prog.code[1] |-> Beginning]
    /\ UNCHANGED <<graphs, plans>>

Code(x) == prog.code[band][x]

Running(x) == pc[x].at <= Len(Code(x))

(* The instruction a node is at, in a loop one of the body.                 *)
Current(x) == LET i == Code(x)[pc[x].at] IN IF i.op = "VLOOP" THEN i.body[pc[x].i] ELSE i

After(x) ==
    LET i == Code(x)[pc[x].at]
    IN  CASE i.op = "VLOOP" /\ pc[x].i < Len(i.body) -> [pc[x] EXCEPT !.i = @ + 1]
          [] i.op = "VLOOP" /\ pc[x].i = Len(i.body) /\ pc[x].ch + 1 < i.count ->
               [pc[x] EXCEPT !.i = 1, !.ch = @ + 1]
          [] OTHER -> [Beginning EXCEPT !.at = pc[x].at + 1]

Effect(i, x) ==
    IF i.op \in {"VLD", "VST", "VALU", "VRED"} THEN _vector(i, core[x], prog, mem, t, pc[x].ch)
    ELSE _step(i, core[x], prog, mem, t)

(* A node takes its next instruction, in a loop the next one of the body,   *)
(* chunk after chunk.  An address outside of the memory map ends the run.   *)
Execute(x) ==
    /\ phase = "run"
    /\ Running(x)
    /\ \E i \in {Current(x)} :
       \E ok \in {~Addressed(i) \/ Mapped(prog.map, i.word)} :
       \E done \in {IF ok THEN Effect(i, x) ELSE [core |-> core[x], mem |-> mem]} :
           /\ core' = [core EXCEPT ![x] = done.core]
           /\ mem' = done.mem
           /\ pc' = [pc EXCEPT ![x] = After(x)]
           /\ phase' = IF ok THEN phase ELSE "fault"
    /\ UNCHANGED <<graphs, plans, band>>

NextBand ==
    /\ phase = "run"
    /\ \A x \in DOMAIN pc : ~Running(x)
    /\ IF band < Len(prog.code)
       THEN /\ band' = band + 1
            /\ pc' = [x \in DOMAIN prog.code[band + 1] |-> Beginning]
            /\ UNCHANGED phase
       ELSE /\ phase' = "done"
            /\ UNCHANGED <<band, pc>>
    /\ UNCHANGED <<graphs, plans, core, mem>>

Next ==
    \/ SplitReductions \/ AbsorbScales \/ OrderForFusion \/ LowerNext \/ EndSchedule
    \/ PlaceRegions \/ LayOutRegions \/ EmitBand \/ EndProgram
    \/ BindInputs \/ NextBand \/ \E x \in DOMAIN pc : Execute(x)

Spec == Init /\ [][Next]_vars

-----------------------------------------------------------------------------
Want(v) == Run(g, Data(g))[v]

Got(v) == Result(prog, mem, prog.reg[v], t)

(* What a program leaves in the region of every value it returns is what    *)
(* the graph means, however the nodes were interleaved: nothing that        *)
(* lowering, tiling, folding, reordering, register and lane assignment or   *)
(* the layouts of memory do changes the meaning.                            *)
ComputesMeaning ==
    phase = "done" =>
        \A i \in DOMAIN g.outputs : Got(sched.outputs[i]) = Want(g.outputs[i])

(* A kernel of the library means the formula it is named for: attention in  *)
(* blocks with a running maximum is softmax attention, whatever the blocks, *)
(* the groups of heads and the causal cut, a convolution by taps over       *)
(* windows of a padded input is the convolution, and a grouped or split     *)
(* computation the whole one.                                               *)
KernelsMean ==
    phase = "traced" =>
        \A f \in Formulas : f.g = g =>
            \A env \in {Run(g, f.inputs)} :
                /\ Len(g.outputs) = Len(f.want)
                /\ \A i \in DOMAIN f.want : env[g.outputs[i]] = f.want[i]

(* A cluster may still sweep the operands of a GEMM when its next FILL      *)
(* lands, and nothing interlocks the two: a FILL never writes an entry the  *)
(* sweep reads.                                                             *)
FillsClearOfSweep ==
    phase = "run" =>
        \A x \in DOMAIN pc :
            LET i == Code(x)[pc[x].at]
            IN  Running(x) /\ i.op = "FILL" =>
                    EntriesAt(i.at, i.n) \cap core[x].sweep[i.sel] = {}

(* What the host bound and what an earlier band left is never written again,*)
(* a band writes only what it computes, and no node leaves the memory map.  *)
Owned(r) ==
    LET made == {o.out : o \in ToSet(sched.bands[band].ops)}
    IN  \E v \in made \cap DOMAIN prog.reg : prog.reg[v] = r

OthersKept ==
    [][phase = "run" => /\ phase' # "fault"
                        /\ \A r \in DOMAIN mem : mem'[r] # mem[r] => Owned(r)]_vars
=============================================================================
