-------------------------------- MODULE Lower --------------------------------
(***************************************************************************)
(* From a graph to a schedule (passes/lower.py).  Every matrix product is a *)
(* band of its own; runs of elementwise work of one span are fused into one *)
(* vector band, which walks the tiles of the product before it when it reads*)
(* nothing else of that size.  An operator whose code may raise is the set  *)
(* of its results, empty where it raises.                                   *)
(***************************************************************************)
EXTENDS ViewPass, Sched, GraphIR
LOCAL INSTANCE FiniteSetsExt
LOCAL INSTANCE SequencesExt
LOCAL INSTANCE Functions
LOCAL INSTANCE TLC

-----------------------------------------------------------------------------
(* The two rewrites of a graph before it is lowered: a reduction wider than *)
(* a pass is cut in two (passes/reduce.py), and a constant factor before an *)
(* exp2 is absorbed into the scale above it (passes/scalefold.py).          *)

(* Chunk totals of squares are summed, not squared again.                   *)
SECONDSame(kind) == kind

SECOND(kind) == IF kind = "sumsq" THEN "sum" ELSE kind

(* The largest divisor of span that fits a pass, or 0.                      *)
ChunkWidth(span, vlmax) ==
    LET ds == {d \in 2 .. (IF span < vlmax THEN span ELSE vlmax) : span % d = 0}
    IN  IF ds = {} THEN 0 ELSE Max(ds)

(* The operations h has more than g, moved to the place of old.             *)
_splice(g, h, old) ==
    LET at == SelectInSeq(g.order, LAMBDA v : v = old)
        added == SubSeq(h.order, Len(g.order) + 1, Len(h.order))
    IN  [h EXCEPT !.order = SubSeq(g.order, 1, at - 1) \o added
                            \o SubSeq(g.order, at, Len(g.order))]

(* Every reader of old, and the result, takes fresh instead; old is gone.   *)
Replace(g, old, fresh) ==
    LET New(v) == IF v = old THEN fresh ELSE v
        Over(s) == [i \in DOMAIN s |-> New(s[i])]
    IN  [node |-> [v \in DOMAIN g.node |->
                     IF v = old THEN g.node[v] ELSE [g.node[v] EXCEPT !.ins = Over(@)]],
         order |-> SelectSeq(g.order, LAMBDA v : v # old),
         outputs |-> Over(g.outputs)]

(* A reduction of the last axes wider than a pass becomes a reshape and two *)
(* reductions of the last axis.  Axes that are no suffix stay as they are.  *)
Cut(g, r, vlmax) ==
    LET o == g.node[r]
        s == g.node[o.ins[1]].shape
        outer == SubSeq(s, 1, Len(s) - Cardinality(o.attrs.axes))
        span == Numel(SubSeq(s, Len(outer) + 1, Len(s)))
        inner == IF span > vlmax THEN ChunkWidth(span, vlmax) ELSE 0
        wide == /\ o.kind \in REDUCTION
                /\ o.attrs.axes = Len(outer) + 1 .. Len(s)
                /\ inner # 0
        one == CHOOSE h \in Reshape(g, o.ins[1], outer \o <<span \div inner, inner>>) : TRUE
        two == CHOOSE h \in Reduce(one, o.kind, Len(one.node), {Len(outer) + 2}, FALSE) : TRUE
        three == CHOOSE h \in Reduce(two, SECOND(o.kind), Len(two.node), {Len(outer) + 1}, FALSE) : TRUE
        four == IF three.node[Len(three.node)].shape = o.shape THEN three
                ELSE CHOOSE h \in Reshape(three, Len(three.node), o.shape) : TRUE
    IN  IF wide THEN Replace(_splice(g, four, r), r, Len(four.node)) ELSE g

(* One pass over all reductions; the totals of a very wide one are          *)
(* themselves too many, so passes repeat until one changes nothing.         *)
SplitWide(g, vlmax) ==
    IF vlmax < 2 THEN g ELSE FoldLeft(LAMBDA h, v : Cut(h, v, vlmax), g, g.order)

-----------------------------------------------------------------------------
(* Operations whose output scales by a positive factor when every input     *)
(* does.                                                                    *)
COVARIANT == {"add", "sub", "neg", "max", "min", "rmax", "rmin", "sum"}

(* The constant operand of an operation, as a set of at most one value.     *)
_const_operand(g, v) ==
    LET ins == g.node[v].ins
        at == SelectInSeq(ins, LAMBDA x : g.node[x].kind = "const")
    IN  IF at = 0 THEN {} ELSE {ins[at]}

Readers(g, v) == {u \in ToSet(g.order) : v \in ToSet(g.node[u].ins)}

IsScale(g, v) == g.node[v].kind = "mul" /\ _const_operand(g, v) # {}

(* What must scale with src: back through covariant operations down to the  *)
(* multiplications by a constant, the anchors.                              *)
_cone(g, src) ==
    LET Back(vs) == vs \cup UNION {ToSet(g.node[v].ins) :
                                     v \in {u \in vs : g.node[u].kind \in COVARIANT}}
        reach[n \in 0 .. Len(g.order)] == IF n = 0 THEN {src} ELSE Back(reach[n - 1])
        seen == reach[Len(g.order)]
        anchors == {v \in seen : IsScale(g, v)}
    IN  [scaled |-> seen, anchors |-> anchors,
         ok |-> \A v \in seen \ anchors : g.node[v].kind \in COVARIANT]

(* The multiplications by the factor that feed an exp2 and can go, as       *)
(* (mul, source) pairs, and the anchors that take the factor.               *)
Plan(g, factor) ==
    LET Rest(v) == {x \in ToSet(g.node[v].ins) : x \notin _const_operand(g, v)}
        muls == {v \in ToSet(g.order) :
                   /\ IsScale(g, v)
                   /\ \E c \in _const_operand(g, v) : g.node[c].attrs.value = factor
                   /\ Cardinality(Rest(v)) = 1
                   /\ \E r \in Readers(g, v) : g.node[r].kind = "exp2"}
        Source(v) == CHOOSE x \in Rest(v) : TRUE
        anchors == UNION {_cone(g, Source(v)).anchors : v \in muls}
        scaled == UNION {_cone(g, Source(v)).scaled : v \in muls}
        values == {g.node[c].attrs.value : c \in UNION {_const_operand(g, a) : a \in anchors}}
        refused ==
            \/ \E v \in muls : v \in ToSet(g.outputs) \/ ~_cone(g, Source(v)).ok
            \/ Cardinality(values) # 1
            \/ \E v \in scaled :
                 \/ v \in ToSet(g.outputs)
                 \/ \E r \in Readers(g, v) : r \notin scaled \cup anchors \cup muls
        folded == SelectSeq(g.order, LAMBDA v : v \in muls)
    IN  IF refused THEN [folds |-> <<>>, anchors |-> {}]
        ELSE [folds |-> [i \in DOMAIN folded |-> <<folded[i], Source(folded[i])>>],
              anchors |-> anchors]

(* Every anchor gets a constant of its own, first in the program, and the   *)
(* readers of a folded multiplication read its source.                      *)
Absorb(g, factor) ==
    LET plan == Plan(g, factor)
        Grow(h, a) ==
            LET c == CHOOSE x \in _const_operand(h, a) : TRUE
                more == CHOOSE i \in Const(h, h.node[c].attrs.value * factor, h.node[c].dt) : TRUE
                fresh == Len(more.node)
            IN  [more EXCEPT !.order = <<fresh>> \o h.order,
                             !.node[a].ins = [i \in DOMAIN @ |-> IF @[i] = c THEN fresh ELSE @[i]]]
        grown == FoldLeft(Grow, g, Ascending(plan.anchors))
    IN  FoldLeft(LAMBDA h, f : [Replace(h, f[1], f[2]) EXCEPT !.outputs = h.outputs],
                 grown, plan.folds)

-----------------------------------------------------------------------------

EngineFor(kind) ==
    CASE kind \in SOURCE \cup VIEW -> "none"
      [] kind = "matmul" -> "matmul"
      [] OTHER -> "vector"

(* A reduction is as wide as what it reads.                                 *)
OpSpan(g, v) == IF g.node[v].kind \in REDUCTION THEN Size(g, g.node[v].ins[1]) ELSE Size(g, v)

(* Of every value what through_views() finds, and its root.                 *)
ViewsOf(g) == [v \in DOMAIN g.node |-> [root |-> Root(g, v)] @@ ThroughViews(g, v)]

(* The name by which a band reads v: of a window the view itself, otherwise *)
(* the root.                                                                *)
Named(view, v) == IF view[v].stride # 1 THEN v ELSE view[v].root

(* Left operands that several products read get the smallest blocking of    *)
(* theirs, since a region holds one layout.                                 *)
SharedABlocking(g, view, t) ==
    LET mms == {v \in ToSet(g.order) : g.node[v].kind = "matmul" /\ view[g.node[v].ins[1]].ok}
        A(v) == g.node[v].ins[1]
        Choice(v) ==
            LET sa == g.node[A(v)].shape
                sb == g.node[g.node[v].ins[2]].shape
            IN  (CHOOSE c \in ChooseTile(sa[Len(sa) - 1], Last(sa), Last(sb), t) : TRUE).tile
        Key(v) == Named(view, A(v))
        shared == {Key(v) : v \in {u \in mms : \E w \in mms \ {u} : Key(w) = Key(u)}}
    IN  [a \in shared |-> [m |-> Min({Choice(v).m : v \in {u \in mms : Key(u) = a}}),
                           k |-> Min({Choice(v).k : v \in {u \in mms : Key(u) = a}})]]

(* The shape of the largest value the operations touch, the first of those. *)
WidestShape(g, ops) ==
    LET seen == SelectSeq(FlattenSeq([i \in DOMAIN ops |-> Append(ops[i].ins, ops[i].out)]),
                          LAMBDA v : v \in DOMAIN g.node)
    IN  IF seen = <<>> THEN <<>>
        ELSE FoldLeft(LAMBDA s, v : IF Size(g, v) > Numel(s) THEN g.node[v].shape ELSE s,
                      g.node[seen[1]].shape, seen)

MMElems(band) == band.ops[1].attrs.m * band.ops[1].attrs.n

(* What every value is that the operations read and none of them makes.     *)
Externals(g, view, ops, origin) ==
    LET made == {ops[i].out : i \in DOMAIN ops}
        reads == UNION {ToSet(ops[i].ins) : i \in DOMAIN ops} \ made
        Src(v) == view[v].root
        What(v) ==
            IF v \notin ToSet(g.order) THEN {[what |-> "value", which |-> origin[v]]}
            ELSE LET o == g.node[Src(v)]
                 IN  CASE o.kind = "const" -> {[what |-> "const", which |-> o.attrs.value]}
                       [] o.kind = "input" -> {[what |-> "input", which |-> o.attrs.name]}
                       [] o.kind \notin SOURCE /\ Src(v) \in DOMAIN origin ->
                            {[what |-> IF o.kind = "matmul" THEN "band" ELSE "value",
                              which |-> origin[Src(v)]]}
                       [] OTHER -> {}
    IN  IF \E v \in reads : What(v) = {} THEN {}
        ELSE {[v \in reads |-> CHOOSE w \in What(v) : TRUE]}

-----------------------------------------------------------------------------
(* Elementwise work between two products, reordered so that operations of   *)
(* one span are adjacent: of the operations whose operands are made, the    *)
(* first of the span of the one before it, else the first; after a product, *)
(* one that reads it starts.                                                *)
GroupBySpan(g, view, seg, after) ==
    LET Deps(v) == {view[x].root : x \in ToSet(g.node[v].ins)} \cap ToSet(seg)
        Prefer(order, v) ==
            IF order = <<>> THEN after \in ToSet(g.node[v].ins)
            ELSE OpSpan(g, v) = OpSpan(g, Last(order))
        Step(order, k) ==
            LET ready == SelectSeq(seg, LAMBDA v : v \notin ToSet(order) /\ Deps(v) \subseteq ToSet(order))
                liked == SelectSeq(ready, LAMBDA v : Prefer(order, v))
            IN  Append(order, IF liked # <<>> THEN liked[1] ELSE ready[1])
    IN  IF Len(seg) < 3 THEN seg ELSE FoldLeft(Step, <<>>, seg)

(* Products are barriers.                                                   *)
FuseOrder(g, view, enable) ==
    LET ops == SelectSeq(g.order, LAMBDA v : EngineFor(g.node[v].kind) # "none")
        Step(acc, v) ==
            IF g.node[v].kind = "matmul"
            THEN [out |-> acc.out \o GroupBySpan(g, view, acc.seg, acc.after) \o <<v>>, seg |-> <<>>, after |-> v]
            ELSE [acc EXCEPT !.seg = Append(@, v)]
        end == FoldLeft(Step, [out |-> <<>>, seg |-> <<>>, after |-> 0], ops)
    IN  IF enable THEN end.out \o GroupBySpan(g, view, end.seg, end.after) ELSE ops

-----------------------------------------------------------------------------
(* The state of lower(): the schedule so far, the vector run being gathered *)
(* with what it reads, the product before it, and which band made a value.  *)
Start(g, view) ==
    [view |-> view, sched |-> Schedule, pending |-> <<>>, span |-> 0, mm |-> Unset, out |-> 0, chain |-> {},
     origin |-> <<>>, elems |-> <<>>, windows |-> <<>>, next |-> Max({0} \cup ToSet(g.order)) + 1]

IsReduction(o) == o.kind \in REDUCTION

CeilDiv(a, b) == (a + b - 1) \div b

(* The run becomes a band: over the tiles of the product when it folds into *)
(* it, over rows when it reduces, over spans of vector_tile otherwise.      *)
Flush(g, t, opt, s) ==
    LET reds == SelectSeq(s.pending, IsReduction)
        foldable == /\ opt.fold
                    /\ s.mm # Unset
                    /\ s.out \in s.chain
                    /\ s.mm.grid.sk = 1
                    /\ s.span = MMElems(s.mm)
                    /\ reds = <<>>
        cols == AtLeast(1, reds[1].attrs.red)
        rows == AtLeast(1, s.span \div cols)
        inst == AtLeast(1, AtMost(t.vector_cores, rows))
        place == CASE foldable -> EpilogueGrid(s.mm, t)
                   [] ~foldable /\ reds # <<>> ->
                        [grid |-> Grid(inst, 1, 1), tile |-> Tile(CeilDiv(rows, inst), cols, 1)]
                   [] OTHER ->
                        [grid |-> Grid(AtLeast(1, CeilDiv(s.span, opt.vector_tile)), 1, 1),
                         tile |-> Tile(AtMost(opt.vector_tile, s.span), 1, 1)]
        used == {v \in DOMAIN s.windows : \E i \in DOMAIN s.pending : v \in ToSet(s.pending[i].ins)}
        With(ext) ==
            LET sched == Add(s.sched,
                             [Band("vector", place.grid, place.tile, s.pending) EXCEPT
                                !.consumes = IF foldable THEN s.mm.name ELSE Unset,
                                !.ext = ext, !.elems = s.elems,
                                !.windows = Restrict(s.windows, used),
                                !.shape = WidestShape(g, s.pending)])
                made == [v \in {s.pending[i].out : i \in DOMAIN s.pending} |-> Last(sched.bands).name]
            IN  [s EXCEPT !.sched = sched, !.origin = made @@ @, !.pending = <<>>, !.span = 0,
                          !.elems = <<>>, !.windows = <<>>, !.mm = Unset, !.out = 0]
    IN  CASE s.pending = <<>> -> {s}
          [] s.pending # <<>> /\ ~foldable /\ reds # <<>> /\ cols > t.vlmax -> {}
          [] OTHER -> {With(ext) : ext \in Externals(g, s.view, s.pending, s.origin)}

(* A drained tile is not in the order a FILL reads, so a left operand that  *)
(* a product made, or a window of what a band made, is laid out again by a  *)
(* band that multiplies by one.                                             *)
Relay(g, t, opt, s, a, ra) ==
    LET fresh == s.next
        one == s.next + 1
        n == Size(g, a)
        band == [Band("vector", Grid(AtLeast(1, CeilDiv(n, opt.vector_tile)), 1, 1),
                      Tile(AtMost(opt.vector_tile, n), 1, 1),
                      <<SchedOp("mul", Unset, <<ra.root, one>>, fresh,
                                <<ra.off, 0>>, <<ra.stride, 1>>, <<ra.run, 1>>)>>) EXCEPT
                   !.ext = ra.root :> [what |-> "value", which |-> s.origin[ra.root]]
                           @@ one :> [what |-> "const", which |-> 1],
                   !.elems = ra.root :> Size(g, ra.root) @@ fresh :> n,
                   !.shape = g.node[a].shape, !.name = <<"relay", fresh>>]
    IN  [s EXCEPT !.sched = Add(@, band), !.next = @ + 2, !.origin = fresh :> band.name @@ @]

LowerMatMul(g, t, opt, shared, s, v) ==
    LET o == g.node[v]
        a == o.ins[1]
        b == o.ins[2]
        ra == s.view[a]
        rb == s.view[b]
        sa == g.node[a].shape
        m == sa[Len(sa) - 1]
        k == Last(sa)
        n == Last(g.node[b].shape)
        made == DOMAIN s.origin
        refused == \/ ~ra.ok
                   \/ ~rb.ok
                   \/ rb.root \in made
                   \/ ra.root \in made /\ (ra.stride = DEEP \/ ra.pads # Unset)
        relay == ra.root \in made /\ (g.node[ra.root].kind = "matmul" \/ IsWindow(ra))
        A == CASE relay -> s.next [] ~relay /\ IsWindow(ra) -> a [] OTHER -> ra.root
        B == IF IsWindow(rb) THEN b ELSE rb.root
        gathered == (IF IsWindow(ra) /\ ~relay THEN {a} ELSE {}) \cup (IF IsWindow(rb) THEN {b} ELSE {})
        Spec(w) ==
            LET r == s.view[w]
                cols == Last(g.node[w].shape)
            IN  [off |-> r.off, pad |-> r.pads, shape |-> <<Size(g, w) \div cols, cols>>,
                 dims |-> IF r.dims = Unset THEN <<<<Size(g, w), r.stride>>>> ELSE r.dims]
        Gathered(ext) == [w \in DOMAIN ext |-> IF w \in gathered
                            THEN [what |-> "window", which |-> ext[w], spec |-> Spec(w)] ELSE ext[w]]
        s1 == IF relay THEN Relay(g, t, opt, s, a, ra) ELSE s
        mm == SchedOp("matmul", [m |-> m, k |-> k, n |-> n, bflip |-> rb.flipped], <<A, B>>, v,
                      <<IF relay \/ A \in gathered THEN 0 ELSE ra.off,
                        IF B \in gathered THEN 0 ELSE rb.off>>, <<>>, <<>>)
        Tiled(c) == IF A \in DOMAIN shared
                    THEN [c.tile EXCEPT !.m = shared[A].m, !.k = shared[A].k] ELSE c.tile
        Elems == A :> (IF relay THEN Size(g, a) ELSE Size(g, A)) @@ B :> Size(g, B) @@ v :> Size(g, v)
        With(tile, grid, ext) ==
            LET sched == Add(s1.sched, [Band("matmul", grid, tile, <<mm>>) EXCEPT
                                          !.residency = TRUE, !.ext = Gathered(ext),
                                          !.elems = Elems, !.shape = o.shape])
            IN  [s1 EXCEPT !.sched = sched, !.origin = v :> Last(sched.bands).name @@ @,
                           !.mm = Last(sched.bands), !.out = v, !.chain = {}]
    IN  IF refused THEN {}
        ELSE UNION {UNION {{With(Tiled(c), grid, ext) : ext \in Externals(g, s.view, <<mm>>, s1.origin)} :
                             grid \in GridFor(m, n, Tiled(c), 1)} :
                      c \in ChooseTile(m, k, n, t)}

LowerVector(g, t, opt, s0, v) ==
    LET o == g.node[v]
        span == OpSpan(g, v)
        r == [i \in DOMAIN o.ins |-> s0.view[o.ins[i]]]
        ins == [i \in DOMAIN o.ins |-> Named(s0.view, o.ins[i])]
        refused == \E i \in DOMAIN r : ~r[i].ok \/ r[i].pads # Unset \/ r[i].stride = DEEP
        windows == [w \in {o.ins[i] : i \in {j \in DOMAIN r : r[j].stride # 1}} |->
                      [root |-> s0.view[w].root, root_elems |-> Size(g, s0.view[w].root),
                       off |-> s0.view[w].off, stride |-> s0.view[w].stride,
                       run |-> s0.view[w].run]]
        red == IF o.kind \in REDUCTION
               THEN Numel([i \in DOMAIN g.node[o.ins[1]].shape |->
                             IF i \in o.attrs.axes THEN g.node[o.ins[1]].shape[i] ELSE 1])
               ELSE 0
        Seen(s) == [s EXCEPT !.windows = windows @@ @, !.chain = @ \cup ToSet(ins)]
        Narrow(s) == \E i \in DOMAIN s.pending : IsReduction(s.pending[i]) /\ s.pending[i].attrs.red # red
        Gather(s) ==
            [s EXCEPT
               !.pending = Append(@, SchedOp(o.kind, [red |-> red], ins, v,
                                             [i \in DOMAIN r |-> r[i].off],
                                             [i \in DOMAIN r |-> r[i].stride],
                                             [i \in DOMAIN r |-> r[i].run])),
               !.elems = v :> Size(g, v)
                         @@ [w \in {s.windows[x].root : x \in DOMAIN s.windows} |-> Size(g, w)]
                         @@ [x \in ToSet(ins) |-> Size(g, x)] @@ @,
               !.span = span]
        fits == IF s0.pending # <<>> /\ span # s0.span THEN Flush(g, t, opt, s0) ELSE {s0}
        wide == UNION {IF o.kind \in REDUCTION /\ Narrow(s) THEN Flush(g, t, opt, Seen(s)) ELSE {Seen(s)} :
                         s \in fits}
    IN  IF refused THEN {} ELSE {Gather(s) : s \in wide}

(* What is returned must be made by a band; a whole view of it is it.       *)
Outputs(g, s) ==
    LET Result(v) ==
            LET r == s.view[v]
                root == r.root
                same == r.stride = 1 /\ r.off = 0 /\ r.pads = Unset /\ Size(g, root) = Size(g, v)
            IN  IF same /\ root \in DOMAIN s.origin THEN root ELSE v
        bad == \E v \in ToSet(g.outputs) :
                 \/ ~s.view[v].ok
                 \/ s.view[v].root # v /\ {s.view[v].root, v} \cap DOMAIN s.origin = {}
    IN  IF bad THEN {}
        ELSE {[s.sched EXCEPT !.outputs = [i \in DOMAIN g.outputs |-> Result(g.outputs[i])]]}

(* One operation of the loop of lower(): a product ends the run before it.  *)
LowerOne(g, t, opt, shared, s, v) ==
    IF g.node[v].kind = "matmul"
    THEN UNION {LowerMatMul(g, t, opt, shared, f, v) : f \in Flush(g, t, opt, s)}
    ELSE LowerVector(g, t, opt, s, v)
=============================================================================
