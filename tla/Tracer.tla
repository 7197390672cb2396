------------------------------- MODULE Tracer -------------------------------
(***************************************************************************)
(* What a kernel author writes (dsl/tracer.py): Python operators on traced  *)
(* values, each of which appends operations to the graph.  A call is the    *)
(* set of the graphs it may leave, empty when it raises; its value is the   *)
(* last operation.                                                          *)
(***************************************************************************)
EXTENDS GraphIR
LOCAL INSTANCE FiniteSetsExt
LOCAL INSTANCE SequencesExt

(* A view made by the frontend, whose shape the caller has computed: the    *)
(* checks of the graph's own builders are not repeated.                     *)
View(g, x, kind, shape, attrs) == _emit(g, kind, <<x>>, shape, g.node[x].dt, attrs)

(* One (low, high) pair per axis, or one width for every edge.              *)
Every(n) == [every |-> n]
Each(pairs) == [each |-> pairs]

PadWidths(pads, rank) ==
    IF DOMAIN pads = {"every"} THEN {[i \in 1 .. rank |-> <<pads.every, pads.every>>]}
    ELSE {w \in {pads.each} :
            Len(w) = rank /\ \A i \in DOMAIN w : w[i][1] >= 0 /\ w[i][2] >= 0}

PadView(g, x, pads, value) ==
    UNION {View(g, x, "pad",
                [i \in DOMAIN w |-> w[i][1] + g.node[x].shape[i] + w[i][2]],
                [pads |-> w, value |-> value]) : w \in PadWidths(pads, Rank(g, x))}

(* Keys of an index: an integer, a unit-step slice, and the ellipsis, which *)
(* stands for as many whole axes as are missing.                            *)
At(k) == [key |-> "int", at |-> k]
From(lo, hi) == [key |-> "slice", lo |-> lo, hi |-> hi]
Dots == [key |-> "dots"]
Whole == From(0, 1000)

FillEllipsis(keys, rank) ==
    LET dots == {i \in DOMAIN keys : keys[i] = Dots}
        Fill(n) == [i \in 1 .. n |-> Whole]
        i == CHOOSE d \in dots : TRUE
        full == IF dots = {} THEN keys
                ELSE SubSeq(keys, 1, i - 1) \o Fill(rank - (Len(keys) - 1))
                     \o SubSeq(keys, i + 1, Len(keys))
    IN  IF Cardinality(dots) > 1 \/ Len(full) > rank THEN {}
        ELSE {full \o Fill(rank - Len(full))}

(* Python's bounds of a slice: negative ones count from the end, and both   *)
(* are clamped to the axis.                                                 *)
Clamp(b, extent) ==
    LET c == IF b < 0 THEN b + extent ELSE b
    IN  CASE c < 0 -> 0 [] c > extent -> extent [] OTHER -> c

(* One slice over all the axes, where it changes the shape, and a reshape   *)
(* that drops the axes indexed by an integer.                               *)
GetItem(g, x, key) ==
    LET d == g.node[x].shape
        Pos(k, e) == IF k.at < 0 THEN k.at + e ELSE k.at
        Bad(k, e) == k.key = "int" /\ Pos(k, e) \notin 0 .. e - 1
        Lo(k, e) == IF k.key = "int" THEN Pos(k, e) ELSE Clamp(k.lo, e)
        Hi(k, e) == IF k.key = "int" THEN Lo(k, e) + 1
                    ELSE Max({Lo(k, e), Clamp(k.hi, e)})
        Sliced(keys) ==
            LET begin == [i \in DOMAIN d |-> Lo(keys[i], d[i])]
                end == [i \in DOMAIN d |-> Hi(keys[i], d[i])]
                shape == [i \in DOMAIN d |-> end[i] - begin[i]]
            IN  IF shape = d THEN {g}
                ELSE View(g, x, "slice", shape, [begin |-> begin, end |-> end])
        Kept(keys) == SelectSeq([i \in DOMAIN d |-> i], LAMBDA i : keys[i].key # "int")
        Drop(h, keys) ==
            LET v == IF h = g THEN x ELSE Len(h.node)
            IN  IF Len(Kept(keys)) = Len(d) THEN {h}
                ELSE Reshape(h, v, [j \in DOMAIN Kept(keys) |-> h.node[v].shape[Kept(keys)[j]]])
    IN  UNION {UNION {Drop(h, keys) : h \in Sliced(keys)} :
                 keys \in {ks \in FillEllipsis(key, Len(d)) :
                             \A i \in DOMAIN d : ~Bad(ks[i], d[i])}}

Transpose(g, x, a, b) ==
    Permute(g, x, [i \in 1 .. Rank(g, x) |-> CASE i = a -> b [] i = b -> a [] OTHER -> i])

(* An expand that may add leading axes, by a reshape before it.             *)
BroadcastTo(g, x, shape) ==
    LET lead == Len(shape) - Rank(g, x)
    IN  IF lead < 0 THEN {}
        ELSE UNION {Expand(h, Len(h.node), shape) :
                      h \in Reshape(g, x, [i \in 1 .. lead |-> 1] \o g.node[x].shape)}

-----------------------------------------------------------------------------
(* The same, of a trace t: the graph so far, and in t.v the value that the  *)
(* last expression has.  A call is again a set, and Then goes on where the  *)
(* call did not raise.                                                      *)
Then(calls, Rest(_)) == UNION {Rest(t) : t \in calls}

Emit(t, graphs) == {[g |-> h, v |-> Len(h.node)] : h \in graphs}

ShapeAt(t, x) == t.g.node[x].shape

(* One value for every number and format of a trace, however often a kernel *)
(* writes it; a plain number has the format of the value beside it.         *)
_operand(t, c, x) ==
    LET pool == {v \in DOMAIN t.g.node : /\ t.g.node[v].kind = "const"
                                        /\ t.g.node[v].attrs.value = c
                                        /\ t.g.node[v].dt = t.g.node[x].dt}
    IN  IF pool # {} THEN {[t EXCEPT !.v = v] : v \in pool}
        ELSE Emit(t, Const(t.g, c, t.g.node[x].dt))

UnaryOp(t, kind, x) == Emit(t, Elementwise(t.g, kind, <<x>>))
BinaryOp(t, kind, x, y) == Emit(t, Elementwise(t.g, kind, <<x, y>>))
WithScalar(t, kind, x, c) == Then(_operand(t, c, x), LAMBDA k : BinaryOp(k, kind, x, k.v))
ScalarWith(t, kind, c, x) == Then(_operand(t, c, x), LAMBDA k : BinaryOp(k, kind, k.v, x))

_contract(t, x, y) == Emit(t, MatMul(t.g, x, y))
Shaped(t, x, shape) == Emit(t, Reshape(t.g, x, shape))
Turned(t, x) == Emit(t, Transpose(t.g, x, Rank(t.g, x) - 1, Rank(t.g, x)))
Padded(t, x, widths) == Emit(t, PadView(t.g, x, Each(widths), 0))
Converted(t, x, dt) == Emit(t, Cast(t.g, x, dt))
Joined(t, xs, axis) == Emit(t, Concat(t.g, xs, axis))
Item(t, x, key) ==
    {[g |-> h, v |-> IF h = t.g THEN x ELSE Len(h.node)] : h \in GetItem(t.g, x, key)}

(* A reduction of the last axis, which is kept.                             *)
Rowwise(t, kind, x) == Emit(t, Reduce(t.g, kind, x, {Rank(t.g, x)}, TRUE))

(* The sum times the constant 1/n.                                          *)
Mean(t, x, Inv(_)) ==
    Then(Rowwise(t, "sum", x), LAMBDA s :
         WithScalar(s, "mul", s.v, Inv(Last(ShapeAt(s, x)))))

(* x ** n by square and multiply, for n from 1 to MAX_POWER_UNROLL; the     *)
(* value of the trace is the product so far, 0 where there is none.         *)
MAX_POWER_UNROLL == 64
_int_power(t, x, n) ==
    LET bits == CHOOSE b \in 1 .. 7 : 2 ^ (b - 1) <= n /\ n < 2 ^ b
        Multiplied(u, i) ==
            CASE (n \div 2 ^ (i - 1)) % 2 = 0 -> {u}
              [] u.v = 0 -> {[u EXCEPT !.v = u.base]}
              [] OTHER -> {[g |-> p.g, v |-> p.v, base |-> u.base] :
                             p \in BinaryOp(u, "mul", u.v, u.base)}
        Squared(u, i) ==
            IF i = bits THEN {u}
            ELSE {[g |-> p.g, v |-> u.v, base |-> p.v] : p \in BinaryOp(u, "mul", u.base, u.base)}
        ends == FoldLeft(LAMBDA us, i : Then(us, LAMBDA u : Then(Multiplied(u, i), LAMBDA w : Squared(w, i))),
                         {[g |-> t.g, v |-> 0, base |-> x]}, [i \in 1 .. bits |-> i])
    IN  {[g |-> u.g, v |-> u.v] : u \in ends}
Powered(t, x, n) ==
    CASE n \in 1 .. MAX_POWER_UNROLL  -> _int_power(t, x, n)
      [] -n \in 1 .. MAX_POWER_UNROLL -> Then(_int_power(t, x, -n), LAMBDA p : UnaryOp(p, "recip", p.v))

(* trace(): the tensors among the arguments become the inputs 1, 2, ... of  *)
(* the graph; Author is the kernel, which leaves the values it returns.     *)
trace(shapes, dt, Author(_)) ==
    LET ins == FoldLeft(LAMBDA ts, i : Then(ts, LAMBDA t : Emit(t, Input(t.g, shapes[i], dt, i))),
                        {[g |-> Graph, v |-> 0]}, [i \in DOMAIN shapes |-> i])
    IN  {[t.g EXCEPT !.outputs = t.vs] : t \in Then(ins, Author)}
Returned(t) == {[g |-> t.g, vs |-> <<t.v>>]}
=============================================================================
