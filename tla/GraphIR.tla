------------------------------ MODULE GraphIR -------------------------------
(***************************************************************************)
(* The level-1 graph of the ktpu compiler (ir/graph.py), and what a graph   *)
(* means (interp/reference.py).  A graph is a straight line of operations in *)
(* dependency order, each producing one value.  A value is the number of    *)
(* its producer in g.node; g.order is the program, which a rewrite may      *)
(* reorder and cut, and g.outputs is what it returns.                       *)
(*                                                                         *)
(* A builder method is the set of the graphs it may return: empty where the *)
(* code raises ShapeError, the graph with one operation more where it does  *)
(* not.  Axes are numbered from 1.                                          *)
(***************************************************************************)
EXTENDS Integers, Sequences
LOCAL INSTANCE FiniteSetsExt
LOCAL INSTANCE SequencesExt
LOCAL INSTANCE Folds
LOCAL INSTANCE TLC

-----------------------------------------------------------------------------
(* Dense row-major arrays.  A shape is a sequence of extents, an index a    *)
(* sequence of zero-based coordinates, and the contents of an array the     *)
(* sequence of its elements in row-major order.                             *)

(* The numbers of a set in order.                                           *)
Ascending(s) == MapThenFoldSet(LAMBDA x, seq : Append(seq, x), <<>>, LAMBDA x : x, Max, s)

Numel(shape) == FoldLeft(LAMBDA n, d : n * d, 1, shape)

RowMajor(shape) ==
    [i \in DOMAIN shape |-> Numel(SubSeq(shape, i + 1, Len(shape)))]

(* Where the index ix falls under the given strides.                        *)
Dot(ix, strides) ==
    FoldLeft(LAMBDA n, i : n + ix[i] * strides[i], 0, [i \in DOMAIN ix |-> i])

Index(shape, k) ==
    LET s == RowMajor(shape)
    IN  [i \in DOMAIN shape |-> (k \div s[i]) % shape[i]]

(* The array of that shape whose element at index ix is Elt(ix).            *)
Array(shape, Elt(_)) ==
    [k \in 1 .. Numel(shape) |-> Elt(Index(shape, k - 1))]

(* The array itself: a concatenation, unlike a function constructor, has    *)
(* its elements evaluated once.                                             *)
Stored(arr) == arr \o <<>>

Get(arr, shape, ix) == arr[1 + Dot(ix, RowMajor(shape))]

(* The last two axes exchanged.                                             *)
SwapLast(seq) ==
    [i \in DOMAIN seq |->
        CASE i = Len(seq)     -> seq[Len(seq) - 1]
          [] i = Len(seq) - 1 -> seq[Len(seq)]
          [] OTHER            -> seq[i]]

(* The loop nest of (extent, stride) pairs, outermost first, walked from    *)
(* off: the offsets it visits, in order.                                    *)
Walk(off, dims) ==
    LET shape == [i \in DOMAIN dims |-> dims[i][1]]
        strides == [i \in DOMAIN dims |-> dims[i][2]]
    IN  Array(shape, LAMBDA ix : off + Dot(ix, strides))

-----------------------------------------------------------------------------
(* The number formats of the compiler (ir/dtype.py) and the rule by which   *)
(* the operands of an operation agree on one.  A format is the widths of    *)
(* its fields; the arithmetic in it is no concern of the compiler's.        *)

Float(name, exp, man, bias) ==
    [name |-> name, kind |-> "float", exp |-> exp, man |-> man, bias |-> bias]

FP32  == Float("fp32", 8, 23, 127)
FP16  == Float("fp16", 5, 10, 15)
ACC24 == Float("acc24", 7, 16, 63)
E8M15 == Float("e8m15", 8, 15, 127)
MXFP7 == [name |-> "mxfp7", kind |-> "block", exp |-> 0, man |-> 0, bias |-> 0]
INT8  == [name |-> "int8", kind |-> "int", exp |-> 0, man |-> 0, bias |-> 0]

(* A block format encodes values of FP16, whose range its scale spans.      *)
ValueDType(d) == IF d.kind = "block" THEN FP16 ELSE d

MaxExp(d) == 2 ^ d.exp - 2 - d.bias
MinExp(d) == 1 - d.bias

ContainsRangeOf(c, d) ==
    /\ c.kind = "float"
    /\ d.kind = "float"
    /\ MaxExp(c) >= MaxExp(d)
    /\ MinExp(c) <= MinExp(d)

(* The set of the formats the operands may agree on: empty where the code   *)
(* raises, and otherwise the one of greatest (man, exp) that holds the      *)
(* range of every operand.                                                  *)
Converge(dts) ==
    LET vals == {ValueDType(d) : d \in ToSet(dts)}
        kinds == {d.kind : d \in vals}
        holds == {c \in vals : \A d \in vals : ContainsRangeOf(c, d)}
    IN  CASE kinds = {"int"} -> IF \A c, d \in vals : c = d THEN vals ELSE {}
          [] kinds = {"float"} ->
                {c \in holds : \A d \in holds :
                    \/ c.man > d.man
                    \/ c.man = d.man /\ c.exp >= d.exp}
          [] OTHER -> {}

-----------------------------------------------------------------------------

UNARY     == {"neg", "relu", "exp2", "recip", "rsqrt"}
BINARY    == {"add", "sub", "mul", "div", "max", "min"}
REDUCTION == {"sum", "sumsq", "rmax", "rmin"}
VIEW      == {"reshape", "permute", "expand", "slice", "pad", "concat"}
SOURCE    == {"input", "const"}

Graph == [node |-> <<>>, order |-> <<>>, outputs |-> <<>>]

_emit(g, kind, ins, shape, dt, attrs) ==
    {[g EXCEPT !.node = Append(@, [kind |-> kind, ins |-> ins, shape |-> shape, dt |-> dt,
                                   attrs |-> attrs]),
               !.order = Append(@, Len(g.node) + 1)]}

Output(g, v) == [g EXCEPT !.outputs = Append(@, v)]

Size(g, v) == Numel(g.node[v].shape)

Rank(g, x) == Len(g.node[x].shape)

(* Right-aligned broadcasting; the empty set when the extents disagree.     *)
Broadcast(a, b) ==
    LET n == IF Len(a) > Len(b) THEN Len(a) ELSE Len(b)
        At(s, i) == IF i > n - Len(s) THEN s[i - (n - Len(s))] ELSE 1
    IN  IF \A i \in 1 .. n : At(a, i) = At(b, i) \/ 1 \in {At(a, i), At(b, i)}
        THEN {[i \in 1 .. n |-> IF At(a, i) > At(b, i) THEN At(a, i) ELSE At(b, i)]}
        ELSE {}

Input(g, shape, dt, name) ==
    _emit(g, "input", <<>>, shape, dt, [name |-> name])

(* A constant that its format would overflow is refused; the constants of a *)
(* model are integers, so that none rounds to zero.                         *)
Const(g, value, dt) ==
    IF MaxExp(dt) < 30 /\ value > 2 ^ (MaxExp(dt) + 1) - 2 ^ (MaxExp(dt) - dt.man)
    THEN {}
    ELSE _emit(g, "const", <<>>, <<>>, dt, [value |-> value])

Elementwise(g, kind, xs) ==
    LET shapes == FoldLeft(LAMBDA acc, x : UNION {Broadcast(s, g.node[x].shape) : s \in acc},
                           {<<>>}, xs)
    IN  UNION {_emit(g, kind, xs, shape, dt, [none |-> TRUE]) :
                 shape \in shapes, dt \in Converge([i \in DOMAIN xs |-> g.node[xs[i]].dt])}

(* Reduced axes are dropped, or left with extent 1 under keepdim.           *)
Reduce(g, kind, x, axes, keepdim) ==
    LET d == g.node[x].shape
        left == SelectSeq([i \in DOMAIN d |-> i], LAMBDA i : keepdim \/ i \notin axes)
    IN  _emit(g, kind, <<x>>,
              [j \in DOMAIN left |-> IF left[j] \in axes THEN 1 ELSE d[left[j]]],
              g.node[x].dt, [axes |-> axes, keepdim |-> keepdim])

MatMul(g, a, b) ==
    LET sa == g.node[a].shape
        sb == g.node[b].shape
        ra == Len(sa)
        rb == Len(sb)
    IN  IF ra < 2 \/ rb < 2 \/ sa[ra] # sb[rb - 1] THEN {}
        ELSE UNION {_emit(g, "matmul", <<a, b>>, batch \o <<sa[ra - 1], sb[rb]>>, dt,
                          [k |-> sa[ra]]) :
                      batch \in Broadcast(SubSeq(sa, 1, ra - 2), SubSeq(sb, 1, rb - 2)),
                      dt \in Converge(<<g.node[a].dt, g.node[b].dt>>)}

Cast(g, x, dt) == _emit(g, "cast", <<x>>, g.node[x].shape, dt, [none |-> TRUE])

Reshape(g, x, shape) ==
    IF Numel(shape) # Numel(g.node[x].shape) THEN {}
    ELSE _emit(g, "reshape", <<x>>, shape, g.node[x].dt, [none |-> TRUE])

Permute(g, x, order) ==
    IF Len(order) # Rank(g, x) \/ ToSet(order) # 1 .. Rank(g, x) THEN {}
    ELSE _emit(g, "permute", <<x>>, [i \in DOMAIN order |-> g.node[x].shape[order[i]]],
               g.node[x].dt, [order |-> order])

Expand(g, x, shape) ==
    IF \/ Len(shape) # Rank(g, x)
       \/ \E i \in DOMAIN shape : g.node[x].shape[i] \notin {shape[i], 1}
    THEN {}
    ELSE _emit(g, "expand", <<x>>, shape, g.node[x].dt, [none |-> TRUE])

Slice(g, x, begin, end) ==
    LET s == g.node[x].shape
    IN  IF \/ Len(begin) # Len(s)
           \/ Len(end) # Len(s)
           \/ \E i \in DOMAIN s : ~(0 <= begin[i] /\ begin[i] < end[i] /\ end[i] <= s[i])
        THEN {}
        ELSE _emit(g, "slice", <<x>>, [i \in DOMAIN s |-> end[i] - begin[i]], g.node[x].dt,
                   [begin |-> begin, end |-> end])

Concat(g, xs, axis) ==
    LET s == g.node[xs[1]].shape
    IN  IF \E x \in ToSet(xs) :
             \/ Rank(g, x) # Len(s)
             \/ \E i \in DOMAIN s : i # axis /\ g.node[x].shape[i] # s[i]
        THEN {}
        ELSE UNION {_emit(g, "concat", xs,
                          [s EXCEPT ![axis] = FoldLeft(LAMBDA n, x : n + g.node[x].shape[axis], 0, xs)],
                          dt, [axis |-> axis]) :
                      dt \in Converge([i \in DOMAIN xs |-> g.node[xs[i]].dt])}

-----------------------------------------------------------------------------
(***************************************************************************)
(* What a graph means (interp/reference.py): its operations executed on     *)
(* whole arrays, in order, as numpy executes them.  Elements are integers   *)
(* modulo the prime P, so that an element that was read in a wrong place or *)
(* added twice shows in the result.                                         *)
(***************************************************************************)
CONSTANT P
ASSUME PAssumption == P \in Nat \ {0, 1} /\ \A d \in 2 .. P - 1 : P % d # 0

(* A residue stands for a number between -P/2 and P/2.                      *)
Signed(a) == IF 2 * a > P THEN a - P ELSE a

Power[a \in 0 .. P - 1, n \in Nat] ==
    IF n = 0 THEN 1
    ELSE LET h == Power[a, n \div 2]
             sq == (h * h) % P
         IN  IF n % 2 = 0 THEN sq ELSE (sq * a) % P

Reciprocal(a) == Power[a, P - 2]

Arith(kind, a, b) ==
    CASE kind = "add" -> (a + b) % P
      [] kind = "sub" -> (a - b) % P
      [] kind = "mul" -> (a * b) % P
      [] kind = "div" -> (a * Reciprocal(b)) % P
      [] kind = "max" -> IF Signed(a) > Signed(b) THEN a ELSE b
      [] kind = "min" -> IF Signed(a) < Signed(b) THEN a ELSE b

(* A function of one element.  Powers of two turn sums into products and    *)
(* reciprocals invert, as they do for numbers; of a square root only that   *)
(* it is a function matters.                                                *)
Unary(kind, a) ==
    CASE kind = "neg"   -> (-a) % P
      [] kind = "relu"  -> IF Signed(a) < 0 THEN 0 ELSE a
      [] kind = "exp2"  -> Power[2, Signed(a) % (P - 1)]
      [] kind = "recip" -> Reciprocal(a)
      [] kind = "rsqrt" -> (a * a + 5 * a + 1) % P

SumOf(seq) == FoldLeft(LAMBDA n, x : (n + x) % P, 0, seq)

(* What a reduction makes of the elements it folds.                         *)
Fold(kind, seq) ==
    CASE kind = "sum"   -> SumOf(seq)
      [] kind = "sumsq" -> SumOf([i \in DOMAIN seq |-> seq[i] * seq[i]])
      [] kind = "rmax"  -> FoldLeft(LAMBDA n, x : Arith("max", n, x), Head(seq), seq)
      [] kind = "rmin"  -> FoldLeft(LAMBDA n, x : Arith("min", n, x), Head(seq), seq)

(* The element of an array of the given shape under right-aligned           *)
(* broadcasting: leading coordinates are dropped, unit axes have one.       *)
Broadcasted(arr, shape, ix) ==
    LET lead == Len(ix) - Len(shape)
    IN  Get(arr, shape, [i \in DOMAIN shape |-> IF shape[i] = 1 THEN 0 ELSE ix[lead + i]])

(* One case of run() for every kind of operation; env gives the arrays of   *)
(* the values before it, and X(i) is the array of its i-th operand.         *)
Evaluate(g, o, env, inputs) ==
    LET X(i) == env[o.ins[i]]
        S(i) == g.node[o.ins[i]].shape
        n == Len(o.shape)
        Dropped(axes) == SelectSeq([i \in DOMAIN S(1) |-> i], LAMBDA i : i \notin axes)
        (* the index in the reduced array of the index ix of the operand    *)
        Reduced(ix) ==
            IF o.attrs.keepdim
            THEN [i \in DOMAIN ix |-> IF i \in o.attrs.axes THEN 0 ELSE ix[i]]
            ELSE [j \in DOMAIN Dropped(o.attrs.axes) |-> ix[Dropped(o.attrs.axes)[j]]]
    IN  CASE o.kind = "input"   -> inputs[o.attrs.name]
          [] o.kind = "const"   -> <<o.attrs.value % P>>
          [] o.kind = "cast"    -> X(1)
          [] o.kind = "reshape" -> X(1)
          [] o.kind \in UNARY   -> [k \in DOMAIN X(1) |-> Unary(o.kind, X(1)[k])]
          [] o.kind \in BINARY  ->
                Array(o.shape, LAMBDA ix : Arith(o.kind, Broadcasted(X(1), S(1), ix),
                                                         Broadcasted(X(2), S(2), ix)))
          [] o.kind \in REDUCTION ->
                Array(o.shape, LAMBDA out :
                    LET all == Array(S(1), LAMBDA ix : ix)
                        mine == SelectSeq([k \in DOMAIN all |-> k],
                                          LAMBDA k : Reduced(all[k]) = out)
                    IN  Fold(o.kind, [j \in DOMAIN mine |-> X(1)[mine[j]]]))
          [] o.kind = "matmul"  ->
                Array(o.shape, LAMBDA ix :
                    SumOf([k \in 1 .. o.attrs.k |->
                        Broadcasted(X(1), S(1), [ix EXCEPT ![n] = k - 1])
                        * Broadcasted(X(2), S(2), [ix EXCEPT ![n - 1] = k - 1])]))
          [] o.kind = "permute" ->
                Array(o.shape, LAMBDA ix :
                    Get(X(1), S(1), [a \in 1 .. n |->
                        ix[CHOOSE j \in 1 .. n : o.attrs.order[j] = a]]))
          [] o.kind = "expand"  -> Array(o.shape, LAMBDA ix : Broadcasted(X(1), S(1), ix))
          [] o.kind = "slice"   ->
                Array(o.shape, LAMBDA ix :
                    Get(X(1), S(1), [i \in 1 .. n |-> ix[i] + o.attrs.begin[i]]))
          [] o.kind = "pad"     ->
                Array(o.shape, LAMBDA ix :
                    LET jx == [i \in 1 .. n |-> ix[i] - o.attrs.pads[i][1]]
                    IN  IF \A i \in 1 .. n : jx[i] \in 0 .. S(1)[i] - 1
                        THEN Get(X(1), S(1), jx) ELSE o.attrs.value % P)
          [] o.kind = "concat"  ->
                LET ax == o.attrs.axis
                    start == [i \in DOMAIN o.ins |->
                                MapThenSumSet(LAMBDA j : S(j)[ax], 1 .. i - 1)]
                IN  Array(o.shape, LAMBDA ix :
                        LET i == CHOOSE j \in DOMAIN o.ins :
                                    ix[ax] \in start[j] .. start[j] + S(j)[ax] - 1
                        IN  Get(X(i), S(i), [ix EXCEPT ![ax] = @ - start[i]]))

(* The values the program computes, its operations executed in its order.   *)
Run(g, inputs) ==
    FoldLeft(LAMBDA env, v : env @@ (v :> Stored(Evaluate(g, g.node[v], env, inputs))), <<>>, g.order)
=============================================================================
