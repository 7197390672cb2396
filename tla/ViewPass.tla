------------------------------ MODULE ViewPass ------------------------------
(***************************************************************************)
(* How the compiler folds views away (passes/lower.py, through_views).  A   *)
(* view moves no data: an operand behind a chain of views is the root of    *)
(* the chain together with an address descriptor                            *)
(*                                                                         *)
(*   off, stride, run   element i is at off + (i \div run) * stride         *)
(*                                          + i % run of the root           *)
(*   flipped            with its last two axes exchanged                    *)
(*   pads               in the frame of the root with a border of zeros     *)
(*   dims               the whole loop nest, as (extent, stride) pairs      *)
(*                                                                         *)
(* A chain that no descriptor covers is refused.                            *)
(***************************************************************************)
EXTENDS GraphIR
LOCAL INSTANCE SequencesExt
LOCAL INSTANCE TLC

TRANSPARENT == {"reshape", "expand"}

DEEP == -1

None == <<>>

Refused == [ok |-> FALSE]

(* Adjacent axes are one run when the outer stride is the inner span; axes  *)
(* of extent 1 disappear.                                                   *)
AdjoinsUnstrided(x, d) == x[2] = d[1]

Adjoins(x, d) == x[2] = d[1] * d[2]

Merge(shape, strides) ==
    FoldRight(LAMBDA x, dims :
                CASE x[1] = 1 -> dims
                  [] x[1] # 1 /\ dims # <<>> /\ Adjoins(x, dims[1]) ->
                        <<<<dims[1][1] * x[1], dims[1][2]>>>> \o Tail(dims)
                  [] OTHER -> <<x>> \o dims,
              Zip(shape, strides), <<>>)

(* Strides for the extents new over the same elements, innermost first,     *)
(* consuming the merged axes: left is what they still hold, the last of     *)
(* them partly consumed.  <<>> where an extent crosses a discontinuity.     *)
ReshapeStrides(shape, strides, new) ==
    LET dims == Merge(shape, strides)
        Next(left) == IF Len(left) > 1 /\ Last(left)[1] = 1 THEN Front(left) ELSE left
        Take(n, acc) ==
            LET left == Next(acc.left)
                e == Last(left)[1]
                s == Last(left)[2]
            IN  CASE ~acc.ok -> acc
                  [] acc.ok /\ n = 1 -> [ok |-> TRUE, left |-> left, out |-> <<e * s>> \o acc.out]
                  [] acc.ok /\ n # 1 /\ e % n # 0 -> [acc EXCEPT !.ok = FALSE]
                  [] OTHER -> [ok |-> TRUE, left |-> Front(left) \o <<<<e \div n, s * n>>>>,
                               out |-> <<s>> \o acc.out]
        end == FoldRight(Take, new,
                         [ok |-> TRUE, left |-> IF dims = <<>> THEN <<<<1, 1>>>> ELSE dims, out |-> <<>>])
    IN  IF end.ok /\ Len(end.left) = 1 /\ end.left[1][1] = 1
        THEN [ok |-> TRUE, strides |-> end.out]
        ELSE Refused

(* The stride and the run an address generator takes of at most two levels. *)
Levels(d) ==
    CASE d = <<>>   -> [stride |-> 1, run |-> 1]
      [] Len(d) = 1 -> [stride |-> d[1][2], run |-> 1]
      [] OTHER      -> [stride |-> d[1][2], run |-> d[2][1]]

(* The descriptor of a row-major walk: contiguous, strided, banded, or too  *)
(* deep for an address generator, preferring the walk that is not flipped.  *)
Window(shape, strides) ==
    LET Dims(flip) == IF flip THEN Merge(SwapLast(shape), SwapLast(strides))
                      ELSE Merge(shape, strides)
        Shallow(flip) ==
            LET d == Dims(flip)
            IN  /\ flip => Len(shape) >= 2
                /\ \/ d = <<>>
                   \/ Len(d) = 1 /\ (d[1][2] = 1 \/ ~flip)
                   \/ Len(d) = 2 /\ d[2][2] = 1
        As(flip) ==
            LET d == Dims(flip)
            IN  [flipped |-> flip, stride |-> Levels(d).stride, run |-> Levels(d).run,
                 dims |-> IF d = <<>> THEN <<<<1, 1>>>> ELSE d]
    IN  CASE Shallow(FALSE) -> As(FALSE)
          [] ~Shallow(FALSE) /\ Shallow(TRUE) -> As(TRUE)
          [] OTHER -> [flipped |-> FALSE, stride |-> DEEP, run |-> 0, dims |-> Dims(FALSE)]

(* The views between v and its root, v first, and the root.                 *)
Chain(g) ==
    LET chain[v \in DOMAIN g.node] ==
            IF g.node[v].kind \in VIEW THEN <<v>> \o chain[g.node[v].ins[1]] ELSE <<>>
    IN  chain

Root(g, v) ==
    LET c == Chain(g)[v] IN IF c = <<>> THEN v ELSE g.node[Last(c)].ins[1]

(* Forward from the root: the shape and strides of the view, its offset and *)
(* the border put around the root.  flat marks a window reshaped across a   *)
(* discontinuity, whose axes no longer line up with its shape.              *)
Replay(g, v) ==
    LET root == g.node[Root(g, v)].shape
        Step(w, acc) ==
            LET o == g.node[w]
                st == ReshapeStrides(acc.shape, acc.strides, o.shape)
                dims == Merge(acc.shape, acc.strides)
            IN  CASE ~acc.ok \/ o.kind = "concat" -> Refused
                  [] acc.ok /\ acc.flat /\ o.kind # "reshape" -> Refused
                  [] o.kind = "reshape" /\ st.ok ->
                        [acc EXCEPT !.shape = o.shape, !.strides = st.strides]
                  [] o.kind = "reshape" /\ ~st.ok ->
                        [acc EXCEPT !.shape = [i \in DOMAIN dims |-> dims[i][1]],
                                    !.strides = [i \in DOMAIN dims |-> dims[i][2]],
                                    !.flat = TRUE]
                  [] o.kind = "permute" ->
                        [acc EXCEPT !.shape = [i \in DOMAIN @ |-> @[o.attrs.order[i]]],
                                    !.strides = [i \in DOMAIN @ |-> @[o.attrs.order[i]]]]
                  [] o.kind = "expand" ->
                        [acc EXCEPT !.strides = [i \in DOMAIN @ |->
                                        IF acc.shape[i] # o.shape[i] THEN 0 ELSE @[i]],
                                    !.shape = o.shape]
                  [] o.kind = "slice" ->
                        [acc EXCEPT !.off = @ + Dot(o.attrs.begin, acc.strides),
                                    !.shape = o.shape]
                  [] o.kind = "pad" /\ \A i \in DOMAIN o.attrs.pads : o.attrs.pads[i] = <<0, 0>> -> acc
                  [] OTHER ->
                        IF acc.pads # None \/ acc.off # 0 \/ acc.strides # RowMajor(acc.shape)
                        THEN Refused
                        ELSE [acc EXCEPT !.pads = o.attrs.pads, !.shape = o.shape,
                                         !.strides = RowMajor(o.shape)]
    IN  FoldRight(Step, Chain(g)[v],
                  [ok |-> TRUE, shape |-> root, strides |-> RowMajor(root), off |-> 0,
                   pads |-> None, flat |-> FALSE])

(* Elements an outer index steps over.                                      *)
Inner(s) == Numel(Tail(s))

(* The short way, from the view down to the root: outer-axis slices, single *)
(* columns of a matrix and exchanges of the last two axes.                  *)
OuterViews(g, v) ==
    LET Step(acc, w) ==
            LET o == g.node[w]
                s == g.node[o.ins[1]].shape
                n == Len(s)
                b == o.attrs.begin
                e == o.attrs.end
                outer == \A i \in 2 .. n : b[i] = 0 /\ e[i] = s[i]
                column == n = 2 /\ b[1] = 0 /\ e[1] = s[1] /\ e[2] - b[2] = 1
            IN  CASE ~acc.ok -> acc
                  [] acc.ok /\ o.kind \in TRANSPARENT -> acc
                  [] acc.ok /\ o.kind = "slice" ->
                        CASE outer -> [acc EXCEPT !.off = @ + b[1] * Inner(s)]
                          [] ~outer /\ column /\ acc.stride = 1 ->
                                [acc EXCEPT !.off = @ + b[2], !.stride = s[2]]
                          [] OTHER -> Refused
                  [] acc.ok /\ o.kind = "permute" ->
                        IF n >= 2 /\ o.attrs.order = SwapLast([i \in 1 .. n |-> i])
                        THEN [acc EXCEPT !.flipped = ~@] ELSE Refused
                  [] OTHER -> Refused
    IN  FoldLeft(Step,
                 [ok |-> TRUE, off |-> 0, flipped |-> FALSE, stride |-> 1, run |-> 1,
                  pads |-> None, dims |-> None],
                 Chain(g)[v])

Described(full) ==
    IF ~full.ok THEN Refused
    ELSE [ok |-> TRUE, off |-> full.off, pads |-> full.pads] @@ Window(full.shape, full.strides)

ThroughViews(g, v) ==
    LET simple == OuterViews(g, v)
    IN  IF simple.ok THEN simple ELSE Described(Replay(g, v))

(* An operand whose descriptor is more than an offset is a window: it is    *)
(* named by the view and not by the root.                                   *)
IsWindow(r) == r.stride # 1 \/ r.pads # None
=============================================================================
