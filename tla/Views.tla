------------------------------- MODULE Views --------------------------------
(***************************************************************************)
(* A kernel author takes views of views of one input, and the compiler is   *)
(* asked at every point for the address descriptor of the last of them.     *)
(* The descriptor is compared with what the graph means.                    *)
(***************************************************************************)
EXTENDS Tracer, ViewPass
LOCAL INSTANCE SequencesExt
LOCAL INSTANCE FiniteSetsExt

CONSTANTS
    Roots,       \* shapes of the input
    Shapes,      \* shapes a reshape, an expand or a broadcast may ask for
    Keys,        \* indices
    Pads,        \* pad widths
    Fills,       \* values a pad may be filled with
    MaxViews     \* bound on the length of a chain

VARIABLE g
vars == <<g>>

Init == \E shape \in Roots : g \in Input(Graph, shape, FP16, "x")

More == Len(g.node) <= MaxViews

ReshapeIt == More /\ \E shape \in Shapes : g' \in Reshape(g, Len(g.node), shape)
TransposeIt ==
    /\ More
    /\ \E a, b \in 1 .. Rank(g, Len(g.node)) : a < b /\ g' \in Transpose(g, Len(g.node), a, b)
ExpandIt == More /\ \E shape \in Shapes : g' \in Expand(g, Len(g.node), shape)
BroadcastIt == More /\ \E shape \in Shapes : g' \in BroadcastTo(g, Len(g.node), shape)
IndexIt ==
    /\ More
    /\ \E key \in Keys : g' \in GetItem(g, Len(g.node), key)
    /\ Numel(g'.node[Len(g'.node)].shape) > 0
PadIt == More /\ \E pads \in Pads, value \in Fills : g' \in PadView(g, Len(g.node), pads, value)
ConcatIt == More /\ \E axis \in 1 .. Rank(g, Len(g.node)) : g' \in Concat(g, <<Len(g.node), Len(g.node)>>, axis)

Next == ReshapeIt \/ TransposeIt \/ ExpandIt \/ BroadcastIt \/ IndexIt \/ PadIt \/ ConcatIt

Spec == Init /\ [][Next]_vars

-----------------------------------------------------------------------------
(* The input holds at every place the number of the place, from 1; 0 is the *)
(* border of zeros.                                                         *)
x == [k \in 1 .. Numel(g.node[1].shape) |-> k]
Meaning(v) == Run(g, [n \in {"x"} |-> x])[v]

(* The host cuts a window out of x (interp/mesh.py, gather): it walks the   *)
(* loop nest over x, with a border of zeros around x where the descriptor   *)
(* asks for one.  numpy takes one pair of widths for every axis, and raises *)
(* where the pairs are neither one nor as many as the axes.                 *)
Gather(off, dims, pads) ==
    LET s == g.node[1].shape
        w == IF Len(pads) = 1 THEN [i \in DOMAIN s |-> pads[1]] ELSE pads
        frame ==
            IF pads = None THEN x
            ELSE Array([i \in DOMAIN s |-> w[i][1] + s[i] + w[i][2]],
                       LAMBDA ix :
                         LET jx == [i \in DOMAIN s |-> ix[i] - w[i][1]]
                         IN  IF \A i \in DOMAIN s : jx[i] \in 0 .. s[i] - 1
                             THEN Get(x, s, jx) ELSE 0)
        at == Walk(off, dims)
    IN  [k \in DOMAIN at |-> IF at[k] + 1 \in DOMAIN frame THEN frame[at[k] + 1] ELSE -1]

(* The elements of v, with the last two axes of its shape exchanged back    *)
(* when the descriptor says that it is flipped.                             *)
Elements(v, flipped) ==
    LET s == g.node[v].shape
    IN  IF ~flipped \/ Len(s) < 2 THEN Meaning(v)
        ELSE Array(SwapLast(s), LAMBDA ix : Get(Meaning(v), s, SwapLast(ix)))

(* The last value, its descriptor, and what the host reads by it.           *)
Top == Len(g.node)
Desc == ThroughViews(g, Top)
Dims(d) == IF d.dims = None THEN <<<<Size(g, Top), d.stride>>>> ELSE d.dims
Read(d) == Gather(d.off, Dims(d), d.pads)
Short == OuterViews(g, Top).ok

-----------------------------------------------------------------------------
(* A window that the short way refuses and the full one describes is cut    *)
(* out of the input, element for element, by its loop nest: the strides     *)
(* survive every reshape, exchange of axes, expansion and slice that came   *)
(* between, over the bordered input if the input was padded first.  The     *)
(* border is one of zeros around the input in its own shape, and a window   *)
(* is flipped only while its axes are still those of the view.              *)
WindowReads ==
    \A d \in {Desc} :
        /\ ~Short
        /\ d.ok
        /\ \A v \in DOMAIN g.node : g.node[v].kind = "pad" =>
                g.node[v].attrs.value = 0 /\ g.node[g.node[v].ins[1]].shape = g.node[1].shape
        /\ d.flipped => Replay(g, Top).shape = g.node[Top].shape
        => Read(d) = Elements(Top, d.flipped)

(* The short way reads the right elements too while it is used as it is     *)
(* meant: for slices of outer axes, then at most one column, then at most   *)
(* one exchange of the last two axes, with reshapes anywhere before it.     *)
OuterReads ==
    LET inner == {v \in DOMAIN g.node : /\ g.node[v].kind = "slice"
                                   /\ \E i \in 2 .. Len(g.node[v].shape) :
                                         g.node[v].shape[i] # g.node[g.node[v].ins[1]].shape[i]}
    IN  \A d \in {OuterViews(g, Top)} :
            /\ d.ok
            /\ \A v \in DOMAIN g.node : g.node[v].kind # "expand" /\ (g.node[v].kind = "permute" => v = Top)
            /\ \A v \in inner, w \in DOMAIN g.node : w > v => g.node[w].kind # "slice"
            => Read(d) = Elements(Top, d.flipped)

(* The three numbers an address generator is given visit what the host's    *)
(* loop nest visits, for every window that is not too deep for them.        *)
EngineWalks ==
    \A d \in {Desc} :
        d.ok /\ d.stride # DEEP =>
            Walk(d.off, Dims(d)) =
                [i \in 1 .. Size(g, Top) |-> d.off + ((i - 1) \div d.run) * d.stride + ((i - 1) % d.run)]

(* Whichever way a chain of views is folded, the descriptor reads the      *)
(* elements that the views mean, on the host and in the engine.            *)
ViewsFold == WindowReads /\ OuterReads /\ EngineWalks
=============================================================================
