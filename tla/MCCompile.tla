----------------------------- MODULE MCCompile ------------------------------
(* Small instances of Compile for TLC: kernels of the shapes the examples    *)
(* and the integration tests of the compiler have, on machines of two       *)
(* clusters and two vector cores.                                           *)
EXTENDS Compile, Kernels
LOCAL INSTANCE SequencesExt

(* A kernel is the list of the calls its author makes; the values are       *)
(* numbered in the order of the calls.                                      *)
Call(h, c) ==
    CASE c[1] = "input"  -> Input(h, c[2], FP16, c[3])
      [] c[1] = "const"  -> Const(h, c[2], FP16)
      [] c[1] = "matmul" -> MatMul(h, c[2], c[3])
      [] c[1] = "index"  -> GetItem(h, c[2], c[3])
      [] c[1] \in REDUCTION -> Reduce(h, c[1], c[2], {2}, TRUE)
      [] c[1] \in UNARY     -> Elementwise(h, c[1], <<c[2]>>)
      [] c[1] \in BINARY    -> Elementwise(h, c[1], <<c[2], c[3]>>)

Kernel(calls) ==
    LET Step(hs, c) == UNION {Call(h, c) : h \in hs}
    IN  {Output(h, Len(h.node)) : h \in FoldLeft(Step, {Graph}, calls)}

(* A kernel that returns one value.                                         *)
One(calls) == Then(calls, Returned)

Square(name) == <<"input", <<4, 4>>, name>>

(* relu(x @ w + b) *)
Dense == Kernel(<<Square(1), Square(2), <<"input", <<4>>, 3>>,
                  <<"matmul", 1, 2>>, <<"add", 4, 3>>, <<"relu", 5>>>>)

(* x @ w + y *)
Residual == Kernel(<<<<"input", <<4, 8>>, 1>>, <<"input", <<8, 4>>, 2>>, Square(3),
                     <<"matmul", 1, 2>>, <<"add", 4, 3>>>>)

(* (x @ w1) @ w2 *)
Chain2 == Kernel(<<Square(1), Square(2), Square(3), <<"matmul", 1, 2>>, <<"matmul", 4, 3>>>>)

(* kernels of the library                                                   *)
Softmax == trace(<<<<4, 4>>>>, FP16, LAMBDA T : One(softmax(T, 1)))
Attention(block) ==
    trace(<<<<4, 4>>, <<4, 4>>, <<4, 4>>>>, FP16,
          LAMBDA T : attention(T, 1, 2, 3, 1, block, FALSE, 0, 0, FALSE))
LayerNorm == trace(<<<<4, 4>>, <<4>>, <<4>>>>, FP16, LAMBDA T : One(layernorm(T, 1, 2, 3)))
FeedForward == trace(<<<<4, 4>>, <<4, 4>>, <<4, 4>>>>, FP16, LAMBDA T : One(Expert(T, 1, 2, 3)))
Gated == trace(<<<<4, 4>>, <<4, 8>>>>, FP16, LAMBDA T : One(geglu(T, 1, 2)))

(* the sum of squares of rows wider than a pass *)
Wide == Kernel(<<<<"input", <<4, 8>>, 1>>, <<"sumsq", 1>>>>)

(* x[2:] @ y[:, :4] *)
Cuts == Kernel(<<Square(1), <<"input", <<4, 8>>, 2>>, <<"index", 1, <<From(2, 4), Dots>>>>,
                 <<"index", 2, <<Whole, From(0, 4)>>>>, <<"matmul", 3, 4>>>>)

(* tall @ w: the instances of a cluster share a column of the weights       *)
Tall == Kernel(<<<<"input", <<16, 8>>, 1>>, <<"input", <<8, 4>>, 2>>, <<"matmul", 1, 2>>>>)

(* a result nobody computes, which lower() refuses                          *)
Bare == Kernel(<<Square(1)>>)

(* a reduction depth that the blocks of the tile do not divide              *)
Ragged == Kernel(<<<<"input", <<4, 10>>, 1>>, <<"input", <<10, 4>>, 2>>, <<"matmul", 1, 2>>>>)

-----------------------------------------------------------------------------
(* The kernels of the library beside the formulas they are named for.       *)
Datum(i, shape) == Stored([k \in 1 .. Numel(shape) |-> InputValue(i, k)])
Inputs(shapes) == Stored([i \in DOMAIN shapes |-> Datum(i, shapes[i])])

Sum(n, Term(_)) == SumOf([i \in 1 .. n |-> Term(i - 1)])
Times(a, b) == (a * b) % P
Over(a, b) == Arith("div", a, b)
E(x) == Unary("exp2", Times(LOG2_E, x))
Sigmoid(x) == Over(1, 1 + E((-x) % P))

(* The library kernel Author of arguments of those shapes, all random but the *)
(* last one where fixed says what it holds.                                 *)
Case(shapes, fixed, Author(_), want) ==
    {[g |-> h, inputs |-> IF fixed = <<>> THEN Inputs(shapes)
                          ELSE Stored([Inputs(shapes) EXCEPT ![Len(shapes)] = fixed]),
      want |-> want] : h \in trace(shapes, FP16, Author)}

(* Row r of softmax(scale q k.T + mask) v, in log 2 space; Q, K and V give  *)
(* elements by row and column, and Sees the keys a row may see.             *)
Attends(Q(_, _), K(_, _), V(_, _), keys, chan, Sees(_, _), r, c) ==
    LET w == [j \in 0 .. keys - 1 |->
                IF Sees(r, j) THEN E(Sum(chan, LAMBDA d : Times(Q(r, d), K(j, d)))) ELSE 0]
    IN  Over(Sum(keys, LAMBDA j : Times(w[j], V(j, c))), Sum(keys, LAMBDA j : w[j]))
AllKeys(r, j) == TRUE
UpToRow(r, j) == j <= r

Heads == <<<<2, 4, 2>>, <<1, 4, 2>>, <<1, 4, 2>>, <<4, 3>>>>
HeadIn(i, h, r, c) == InputValue(i, h * 8 + r * 2 + c + 1)
HeadOut(Sees(_, _), h, r, c) ==
    Attends(LAMBDA a, b : HeadIn(1, h, a, b), LAMBDA a, b : HeadIn(2, 0, a, b),
            LAMBDA a, b : HeadIn(3, 0, a, b), 4, 2, Sees, r, c)
Group == SubSeq(Heads, 1, 3)
Triangle == <<1, 0, 1, 1>>
AttentionCases ==
    Case(Heads, <<>>, LAMBDA T : attention(T, 1, 2, 3, 1, 2, FALSE, 0, 4, FALSE),
         <<Array(<<4, 3>>, LAMBDA ix :
             Sum(4, LAMBDA d : Times(HeadOut(AllKeys, d \div 2, ix[1], d % 2),
                                     InputValue(4, d * 3 + ix[2] + 1))))>>)
    \cup Case(Append(Group, <<2, 2>>), Triangle,
              LAMBDA T : attention(T, 1, 2, 3, 1, 2, TRUE, 4, 0, TRUE),
              [n \in 1 .. 4 |-> Array(<<2, 2>>, LAMBDA ix :
                  HeadOut(UpToRow, (n - 1) % 2, ((n - 1) \div 2) * 2 + ix[1], ix[2]))])
    \cup Case(<<<<1, 2, 2, 2>>, <<1, 2, 4, 2>>, <<1, 2, 4, 2>>>>, <<>>,
              LAMBDA T : attention(T, 1, 2, 3, 1, 1, FALSE, 0, 0, FALSE),
              [n \in 1 .. 2 |-> Array(<<2, 2>>, LAMBDA ix :
                  Attends(LAMBDA a, b : InputValue(1, (n - 1) * 4 + a * 2 + b + 1),
                          LAMBDA a, b : HeadIn(2, n - 1, a, b), LAMBDA a, b : HeadIn(3, n - 1, a, b),
                          4, 2, AllKeys, ix[1], ix[2]))])
    \cup Case(<<<<2, 3>>, <<3, 4>>, <<3, 4>>, <<3, 4>>, <<4, 2>>>>, <<>>,
              LAMBDA T :
                  Then(project_heads(T, 1, 2, 2), LAMBDA q :
                  Then(project_heads(q, 1, 3, 2), LAMBDA k :
                  Then(project_heads(k, 1, 4, 2), LAMBDA v :
                       multihead(v, q.vs, k.vs, v.vs, 1, 1, 5)))),
              LET Proj(i, r, c) == Sum(3, LAMBDA d : Times(InputValue(1, r * 3 + d + 1),
                                                           InputValue(i, d * 4 + c + 1)))
                  Out(r, c) == Attends(LAMBDA a, b : Proj(2, a, (c \div 2) * 2 + b),
                                       LAMBDA a, b : Proj(3, a, (c \div 2) * 2 + b),
                                       LAMBDA a, b : Proj(4, a, (c \div 2) * 2 + b),
                                       2, 2, AllKeys, r, c % 2)
              IN  <<Array(<<2, 2>>, LAMBDA ix : Sum(4, LAMBDA c :
                      Times(Out(ix[1], c), InputValue(5, c * 2 + ix[2] + 1))))>>)

(* x of (1, h, 5, 2) with a (kh, 3, 2, 2) filter                            *)
Convolved(h, kh, ho, wo, stride, padding) ==
    Array(<<1, ho, wo, 2>>, LAMBDA ix :
        Sum(kh * 6, LAMBDA n :
            LET y == ix[2] * stride[1] + (n \div 6) - padding[1]
                x == ix[3] * stride[2] + ((n \div 2) % 3) - padding[2]
            IN  IF y \in 0 .. h - 1 /\ x \in 0 .. 4
                THEN Times(InputValue(1, y * 10 + x * 2 + (n % 2) + 1), InputValue(2, n * 2 + ix[4] + 1))
                ELSE 0))
ConvCases ==
    Case(<<<<1, 4, 5, 2>>, <<2, 3, 2, 2>>>>, <<>>, LAMBDA T : One(conv2d(T, 1, 2, <<2, 3>>, <<1, 0>>)),
         <<Convolved(4, 2, 3, 1, <<2, 3>>, <<1, 0>>)>>)
    \cup Case(<<<<1, 5, 2>>, <<3, 2, 2>>>>, <<>>, LAMBDA T : One(conv1d(T, 1, 2, 2, 1)),
              <<Convolved(1, 1, 1, 3, <<1, 2>>, <<0, 1>>)>>)
    \cup Case(<<<<1, 1, 2, 2>>, <<8, 2>>>>, nearest2x_matrix(1, 2),
              LAMBDA T : One(upsample_nearest2x(T, 1, 2)),
              <<Array(<<1, 2, 4, 2>>, LAMBDA ix : InputValue(1, (ix[3] \div 2) * 2 + ix[4] + 1))>>)

(* The normalised row of n numbers X(0), X(1), ..., centred or not.         *)
Normal(X(_), n, centred, c) ==
    LET mean == IF centred THEN Over(Sum(n, X), n) ELSE 0
        D(i) == (X(i) - mean) % P
    IN  Times(D(c), Unary("rsqrt", (Over(Sum(n, LAMBDA i : Times(D(i), D(i))), n) + eps) % P))
Gelu(x) ==
    LET y == (x + GELU_CUBIC * Times(x, Times(x, x))) % P
    IN  Times(Over(x, 2), 1 + Over((E(y) - E((-y) % P)) % P, (E(y) + E((-y) % P)) % P))
Swiglu(i, j, rows, Row(_), r, c) ==     \* silu(x @ w1) @ w2, 2 wide
    Sum(2, LAMBDA d :
        LET h == Sum(2, LAMBDA b : Times(Row(b), InputValue(i, b * 2 + d + 1)))
        IN  Times(Times(h, Sigmoid(h)), InputValue(j, d * 2 + c + 1)))
X1(r, c) == InputValue(1, r * 2 + c + 1)
LibraryCases ==
    Case(<<<<2, 3>>, <<3>>, <<3>>>>, <<>>, LAMBDA T : One(layernorm(T, 1, 2, 3)),
         <<Array(<<2, 3>>, LAMBDA ix :
             (Times(Normal(LAMBDA c : InputValue(1, ix[1] * 3 + c + 1), 3, TRUE, ix[2]),
                    InputValue(2, ix[2] + 1)) + InputValue(3, ix[2] + 1)) % P)>>)
    \cup Case(<<<<2, 3>>, <<3>>>>, <<>>, LAMBDA T : One(rmsnorm(T, 1, 2)),
              <<Array(<<2, 3>>, LAMBDA ix :
                  Times(Normal(LAMBDA c : InputValue(1, ix[1] * 3 + c + 1), 3, FALSE, ix[2]),
                        InputValue(2, ix[2] + 1)))>>)
    \cup Case(<<<<4, 3>>, <<4, 3>>, <<4, 3>>>>, <<>>, LAMBDA T : One(groupnorm(T, 1, 2, 3, 2)),
              <<Array(<<4, 3>>, LAMBDA ix :
                  LET k == ix[1] * 3 + ix[2]
                  IN  (Times(Normal(LAMBDA c : InputValue(1, (k \div 6) * 6 + c + 1), 6, TRUE, k % 6),
                             InputValue(2, k + 1)) + InputValue(3, k + 1)) % P)>>)
    \cup Case(<<<<2, 2>>, <<2, 4>>>>, <<0, 1, 1, 0, 1, 0, 0, 1>>, LAMBDA T : One(geglu(T, 1, 2)),
              LET Proj(r, c) == IF c \in {0, 3} THEN X1(r, 1) ELSE X1(r, 0)
              IN  <<Array(<<2, 2>>, LAMBDA ix :
                      Times(Proj(ix[1], ix[2]), Gelu(Proj(ix[1], ix[2] + 2))))>>)
    \cup Case(<<<<3, 2>>, <<2, 2>>, <<2, 2>>, <<2, 2>>, <<2, 2>>, <<2, 2>>>>, <<>>,
              LAMBDA T : One(moe_grouped(T, 1, <<2, 3, 4>>, <<4, 5, 6>>, <<2, 0, 1>>)),
              <<Array(<<3, 2>>, LAMBDA ix :
                  LET e == IF ix[1] < 2 THEN 0 ELSE 2
                  IN  Swiglu(2 + e, 4 + e, 3, LAMBDA b : X1(ix[1], b), ix[1], ix[2]))>>)
    \cup Case(<<<<3, 2>>, <<2, 2>>, <<2, 2>>, <<2, 2>>, <<2, 2>>, <<2, 2>>>>, <<>>,
              LAMBDA T : One(moe_dense(T, 1, 6, <<2, 3>>, <<4, 5>>)),
              LET Gate(r, e) == E(Sum(2, LAMBDA b : Times(X1(r, b), InputValue(6, b * 2 + e + 1))))
              IN  <<Array(<<3, 2>>, LAMBDA ix :
                      Sum(2, LAMBDA e :
                          Times(Swiglu(2 + e, 4 + e, 3, LAMBDA b : X1(ix[1], b), ix[1], ix[2]),
                                Over(Gate(ix[1], e), (Gate(ix[1], 0) + Gate(ix[1], 1)) % P))))>>)
    \cup Case(<<<<3, 2, 2>>>>, <<>>, LAMBDA T : One(split_k_epilogue(T, 1, FP16)),
              <<Array(<<2, 2>>, LAMBDA ix :
                  Sum(3, LAMBDA s : InputValue(1, s * 4 + ix[1] * 2 + ix[2] + 1)))>>)
    \cup UNION {Case(<<<<3>>>>, <<>>, LAMBDA T : One(Powered(T, 1, n)),
                     <<[k \in 1 .. 3 |-> Over(Power[InputValue(1, k), IF n > 0 THEN n ELSE 0],
                                              Power[InputValue(1, k), IF n < 0 THEN -n ELSE 0])]>>)
                  : n \in {1, 6, 7, -5}}

LibraryKernels ==
    LET Cases == AttentionCases \cup ConvCases \cup LibraryCases
    IN  Cases
-----------------------------------------------------------------------------
FewKernels ==
    LET each == {Dense, Residual, Chain2, Wide, Cuts, Tall, Bare, Ragged,
                 Softmax, Attention(4), Attention(2), LayerNorm, FeedForward, Gated}
    IN  UNION each
Tiny == [clusters |-> 2, tiles |-> 2, l1_a |-> 8, l1_b |-> 8, l1_a_banks |-> 2, lanes |-> 2,
         kblock |-> 2, vector_cores |-> 2, vlmax |-> 4]
FewMachines == {Tiny, [Tiny EXCEPT !.tiles = 4, !.l1_a = 16, !.l1_b = 16]}
Usual == [split |-> TRUE, absorb |-> TRUE, factor |-> 3, fold |-> TRUE, reorder |-> TRUE,
          vector_tile |-> 8]
FewOptions == {Usual, [Usual EXCEPT !.fold = FALSE, !.vector_tile = 4],
               [Usual EXCEPT !.split = FALSE, !.absorb = FALSE, !.reorder = FALSE]}
=============================================================================
