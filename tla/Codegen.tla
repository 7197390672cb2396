------------------------------ MODULE Codegen -------------------------------
(***************************************************************************)
(* From a schedule to instructions (codegen/cu.py) over a memory map        *)
(* (ir/program.py): the regions of the image, the way the host lays out     *)
(* every operand, the node of every instance, and for every band the        *)
(* instructions of each node.  A word holds two elements, so addresses are  *)
(* words and offsets within a region elements.  An operator whose code may  *)
(* raise is the set of its results.                                         *)
(***************************************************************************)
EXTENDS Sched, GraphIR
LOCAL INSTANCE FiniteSetsExt
LOCAL INSTANCE SequencesExt
LOCAL INSTANCE TLC
LOCAL INSTANCE Functions

-----------------------------------------------------------------------------
(* What the operands of a vector band are on the machine                    *)
(* (codegen/operands.py): scalar registers for constants and for what was   *)
(* reduced, the chain wire between adjacent operations, the tile of the     *)
(* band and tensors loaded into vector registers.                           *)

CONSTANTS VREGS, SREGS
ASSUME RegisterAssumption == VREGS \in Nat \ {0} /\ SREGS \in Nat

ReducingKinds == {"sum", "sumsq", "rmax", "rmin"}

Slot(kind, idx) == [kind |-> kind, idx |-> idx]

_uses(ops, v) == FoldLeft(LAMBDA n, o : n + Len(SelectSeq(o.ins, LAMBDA x : x = v)), 0, ops)

(* A result stays on the chain wire when the next operation of the same     *)
(* pass is its only reader and nothing later needs it.                      *)
Chained(ops, i, depth, exports) ==
    /\ i < Len(ops)
    /\ i \div depth = (i - 1) \div depth
    /\ _uses(<<ops[i + 1]>>, ops[i].out) = 1
    /\ _uses(ops, ops[i].out) = 1
    /\ ops[i].out \notin exports

(* The value whose tile the band walks: of the product it consumes, else    *)
(* the least that fills the band, 0 for none.                               *)
Source(band) ==
    LET full == GridSize(band.grid) * band.tile.m * band.tile.n
        From(v) == band.ext[v].what = "band" /\ band.ext[v].which = band.consumes
        Whole(v) == /\ band.ext[v].what \in {"band", "input", "value"}
                    /\ (v \in DOMAIN band.elems => band.elems[v] = full)
                    /\ v \notin DOMAIN band.windows
        consumed == {v \in DOMAIN band.ext : From(v)}
        whole == {v \in DOMAIN band.ext : Whole(v)}
    IN  CASE consumed # {} -> CHOOSE v \in consumed : TRUE
          [] consumed = {} /\ whole # {} -> Min(whole)
          [] OTHER -> 0

(* The registers while the operations are bound one by one.  A register is  *)
(* given to a value when it is loaded or made and comes back, to the end of *)
(* the free list, after its last use in the band.                           *)
Alloc(s, v) ==
    IF s.free = <<>> THEN [s EXCEPT !.ok = FALSE]
    ELSE [s EXCEPT !.reg = v :> Head(s.free) @@ @, !.free = Tail(@)]

LastUse(ops, v) == SelectLastInSeq(ops, LAMBDA o : v \in ToSet(o.ins))

Freed(s, v) == [s EXCEPT !.free = Append(@, s.reg[v]),
                         !.reg = [x \in DOMAIN @ \ {v} |-> @[x]]]

Bind(ops, i, depth, exports, s) ==
    LET o == ops[i]
        Live(v) == v \in DOMAIN s.sreg \/ v = s.chain \/ v \in DOMAIN s.reg
        Src(v) == CASE v \in DOMAIN s.sreg -> Slot("sreg", s.sreg[v])
                    [] v \notin DOMAIN s.sreg /\ v = s.chain -> Slot("chain", 0)
                    [] OTHER -> Slot("vreg", s.reg[v])
        reduces == o.kind \in ReducingKinds
        wire == ~reduces /\ Chained(ops, i, depth, exports)
        made == CASE reduces -> [s EXCEPT !.sreg = o.out :> s.nscalar @@ @, !.nscalar = @ + 1,
                                          !.ok = @ /\ s.nscalar < SREGS]
                  [] ~reduces /\ wire -> s
                  [] OTHER -> Alloc(s, o.out)
        dst == CASE reduces -> Slot("sreg", s.nscalar)
                 [] ~reduces /\ wire -> Slot("chain", 0)
                 [] OTHER -> Slot("vreg", IF made.ok THEN made.reg[o.out] ELSE 0)
        bound == [made EXCEPT !.chain = IF wire THEN o.out ELSE 0,
                              !.binds = Append(@, [op |-> o, dst |-> dst,
                                                   srcs |-> [j \in DOMAIN o.ins |-> Src(o.ins[j])]])]
        Release(t, v) == IF v \in DOMAIN t.reg /\ LastUse(ops, v) = i /\ v \notin exports
                         THEN Freed(t, v) ELSE t
    IN  IF ~s.ok \/ \E j \in DOMAIN o.ins : ~Live(o.ins[j]) THEN [s EXCEPT !.ok = FALSE]
        ELSE FoldLeft(Release, bound, o.ins)

(* The set of the plans of a band, empty where the code raises BindError:   *)
(* loads before the body, one bind per operation, and the values exported.  *)
PlanOf(band, depth, exports) ==
    LET ops == SelectSeq(band.ops, LAMBDA o : o.kind # "matmul")
        made == {ops[i].out : i \in DOMAIN ops}
        consts == Ascending({v \in DOMAIN band.ext : band.ext[v].what = "const"})
        reads == Ascending(UNION {ToSet(ops[i].ins) : i \in DOMAIN ops} \ (made \cup ToSet(consts)))
        begin == [ok |-> Len(consts) <= SREGS, free |-> [i \in 1 .. VREGS |-> i - 1], reg |-> <<>>,
                  sreg |-> [v \in ToSet(consts) |-> SelectInSeq(consts, LAMBDA c : c = v) - 1],
                  nscalar |-> Len(consts), chain |-> 0, binds |-> <<>>]
        loaded == FoldLeft(Alloc, begin, reads)
        end == FoldLeft(LAMBDA s, i : Bind(ops, i, depth, exports, s), loaded, [i \in DOMAIN ops |-> i])
        out == SelectSeq(end.binds, LAMBDA b : b.op.out \in exports)
    IN  IF ~loaded.ok \/ ~end.ok \/ \E i \in DOMAIN reads : reads[i] \notin DOMAIN band.ext THEN {}
        ELSE {[source |-> Source(band), binds |-> end.binds,
               consts |-> [i \in DOMAIN consts |-> band.ext[consts[i]].which],
               loads |-> [i \in DOMAIN reads |->
                            [vid |-> reads[i], vd |-> loaded.reg[reads[i]],
                             tile |-> reads[i] = Source(band)]],
               exports |-> [i \in DOMAIN out |-> [vid |-> out[i].op.out, slot |-> out[i].dst]]]}

-----------------------------------------------------------------------------

DRAIN_BURST == 8

(* The bank and the offset of an entry of L1, empty past the second bank.   *)
_split(entry) ==
    IF entry \div L1_OFF_SPAN > 1 THEN {}
    ELSE {[bank |-> entry \div L1_OFF_SPAN, off |-> entry % L1_OFF_SPAN]}

_entries(rows, k, t) == (rows \div t.lanes) * (k \div t.kblock)

CoresFor(engine, t) == IF engine = "matmul" THEN t.clusters ELSE t.vector_cores

Words(elems) == (elems + 1) \div 2

Upto(n, burst) == ((n + burst - 1) \div burst) * burst

MadeBy(sched) ==
    FoldLeft(LAMBDA f, b : [v \in {b.ops[i].out : i \in DOMAIN b.ops} |-> b.name] @@ f, <<>>, sched.bands)

(* The values of every band that outlive it: what another band names, the   *)
(* roots of windows, and the results.                                       *)
ExportsOf(sched) ==
    LET made == MadeBy(sched)
        Reads(b) == DOMAIN b.ext \cup {b.windows[v].root : v \in DOMAIN b.windows}
        wanted == ToSet(sched.outputs)
    IN  [name \in {sched.bands[i].name : i \in DOMAIN sched.bands} |->
            {v \in DOMAIN made : /\ made[v] = name
                                 /\ \/ v \in wanted
                                    \/ \E i \in DOMAIN sched.bands :
                                         sched.bands[i].name # name /\ v \in Reads(sched.bands[i])}]

-----------------------------------------------------------------------------
(* The memory map: a region after the other, for the first request of each  *)
(* value.                                                                   *)
Request(vid, elems, held) == [vid |-> vid, elems |-> elems, words |-> Words(held)]

Regions(requests) ==
    LET firsts == SelectSeq([i \in DOMAIN requests |-> i],
                            LAMBDA i : \A j \in 1 .. i - 1 : requests[j].vid # requests[i].vid)
        Before(i) == FoldLeft(LAMBDA n, j : n + requests[firsts[j]].words, 0, [j \in 1 .. i - 1 |-> j])
    IN  [i \in DOMAIN firsts |-> [word |-> Before(i)] @@ requests[firsts[i]]]

(* Inputs and gathered windows first, then what windows cut from, then what *)
(* bands export; a drained region is padded to the burst of a drain.        *)
Allocate(sched, t) ==
    LET exports == ExportsOf(sched)
        burst == DRAIN_BURST * t.lanes * t.lanes
        Each(b, vs, Sized(_, _)) == LET all == Ascending(vs) IN [i \in DOMAIN all |-> Sized(b, all[i])]
        Over(Of(_)) == FlattenSeq([i \in DOMAIN sched.bands |-> Of(sched.bands[i])])
        Held(b, v) == IF b.engine = "matmul"
                      THEN AtLeast(b.elems[v], b.grid.m * b.tile.m * b.grid.n * b.tile.n)
                      ELSE b.elems[v]
        Inputs(b) == Each(b, {v \in DOMAIN b.ext : b.ext[v].what \in {"input", "window"}},
                          LAMBDA c, v : Request(v, c.elems[v], c.elems[v]))
        Roots(b) == Each(b, {v \in DOMAIN b.windows \cap DOMAIN b.ext : b.ext[v].what = "input"},
                         LAMBDA c, v : Request(c.windows[v].root, c.windows[v].root_elems,
                                               c.windows[v].root_elems))
        Exports(b) == Each(b, exports[b.name],
                           LAMBDA c, v : Request(v, Held(c, v),
                                                 IF c.engine = "matmul" THEN Upto(Held(c, v), burst)
                                                 ELSE Held(c, v)))
    IN  Regions(Over(Inputs) \o Over(Roots) \o Over(Exports))

(* Which region a value is in: a window is in that of its root.             *)
RegionOf(sched, map) ==
    LET own == [v \in {map[i].vid : i \in DOMAIN map} |-> SelectInSeq(map, LAMBDA r : r.vid = v)]
        windows == FoldLeft(LAMBDA f, b : b.windows @@ f, <<>>, sched.bands)
    IN  [v \in DOMAIN windows |-> own[windows[v].root]] @@ own

-----------------------------------------------------------------------------
(* Contiguous blocks of instances over the nodes; a node has a column and a *)
(* row.                                                                     *)
NodeOf(i, cores) == <<1 + ((i % cores) % 4), 1 + ((i % cores) \div 4)>>

Assign(b, t) ==
    LET live == AtLeast(1, AtMost(GridSize(b.grid), CoresFor(b.engine, t)))
    IN  [i \in 1 .. GridSize(b.grid) |-> NodeOf(((i - 1) * live) \div GridSize(b.grid), live)]

(* Which axis an operand of that many elements spreads along.               *)
_bcast(elems, m, n, what, full) ==
    LET computed == what \in {"value", "band"}
    IN  CASE elems = full -> "elem"
          [] elems # full /\ elems = m /\ (computed \/ elems # n) -> "row"
          [] elems # full /\ elems = n /\ ~(elems = m /\ computed) -> "col"
          [] elems \notin {full, m, n} /\ full % elems = 0 -> IF computed THEN "row" ELSE "col"
          [] OTHER -> "elem"

(* The shape a band works on: its own, or that of the program.              *)
WorkM(b, tiling) == IF Len(b.shape) < 2 THEN tiling.m ELSE b.shape[Len(b.shape) - 1]
WorkN(b, tiling) == IF Len(b.shape) < 2 THEN tiling.n ELSE Last(b.shape)

(* Lane topology and depth of the chain.                                    *)
VmodeFor(b) ==
    CASE \E i \in DOMAIN b.ops : b.ops[i].kind \in ReducingKinds -> [mode |-> "TREE", depth |-> 1]
      [] (\A i \in DOMAIN b.ops : b.ops[i].kind \notin ReducingKinds) /\ Len(b.ops) >= 4 ->
            [mode |-> "D4", depth |-> 4]
      [] (\A i \in DOMAIN b.ops : b.ops[i].kind \notin ReducingKinds) /\ Len(b.ops) \in 2 .. 3 ->
            [mode |-> "D2", depth |-> 2]
      [] OTHER -> [mode |-> "FLAT", depth |-> 1]

(* A layout: of an m x n value in gn columns of tm x tn tiles, each in the  *)
(* order of a drain unless it is row major.                                 *)
Geometry(m, n, tm, tn, gn, tiles) ==
    [m |-> m, n |-> n, tm |-> tm, tn |-> tn, gn |-> gn, rowmajor |-> FALSE,
     tiles |-> IF tiles # 0 THEN tiles ELSE ((m + tm - 1) \div tm) * ((n + tn - 1) \div tn)]

RowMajorTiling(m, n) ==
    [m |-> m, n |-> n, tm |-> m, tn |-> n, gn |-> 1, rowmajor |-> TRUE, tiles |-> 1]

(* Every value that lies in tiles: those of the products, and those that    *)
(* vector bands made walking them.                                          *)
Made(sched) ==
    LET Product(f, b) ==
            IF b.engine # "matmul" THEN f
            ELSE b.ops[1].out :> [tm |-> b.tile.m, tn |-> b.tile.n, gn |-> b.grid.n,
                                  tiles |-> b.grid.m * b.grid.n, shape |-> b.shape] @@ f
        products == FoldLeft(Product, <<>>, sched.bands)
        Walks(f, b) ==
            LET src == Source(b)
                roots == {b.windows[v].root : v \in DOMAIN b.windows} \cap DOMAIN f
                w == CHOOSE v \in DOMAIN b.windows : b.windows[v].root \in DOMAIN f
                like == IF src \in DOMAIN f THEN f[src] ELSE f[b.windows[w].root]
                gn == IF src \in DOMAIN f THEN like.gn
                      ELSE AtLeast(1, b.windows[w].run \div like.tn)
                Of(v) == [tm |-> like.tm, tn |-> like.tn, gn |-> gn, shape |-> b.shape,
                          tiles |-> IF src \in DOMAIN f THEN like.tiles
                                    ELSE b.elems[v] \div (like.tm * like.tn)]
            IN  IF b.engine # "vector" \/ (src \notin DOMAIN f /\ roots = {}) THEN f
                ELSE f @@ [v \in {b.ops[i].out : i \in DOMAIN b.ops} |-> Of(v)]
    IN  FoldLeft(Walks, products, sched.bands)

(* The layout of every region whose value fills its tiles.                  *)
Tilings(sched, made, reg) ==
    LET held == FoldLeft(LAMBDA f, b : b.elems @@ f, <<>>, sched.bands)
        Fills(v) == LET s == made[v].shape
                        m == s[Len(s) - 1]
                        n == Last(s)
                    IN  /\ v \in DOMAIN reg
                        /\ Len(s) >= 2
                        /\ m % made[v].tm = 0
                        /\ n % made[v].tn = 0
                        /\ v \in DOMAIN held /\ held[v] = m * n
        filled == {v \in DOMAIN made : Fills(v)}
        Of(v) == Geometry(made[v].shape[Len(made[v].shape) - 1], Last(made[v].shape),
                          made[v].tm, made[v].tn, made[v].gn, made[v].tiles)
    IN  [r \in {reg[v] : v \in filled} |-> Of(CHOOSE v \in filled : reg[v] = r)]

(* How the host lays out the operands of products, and inputs that are read *)
(* element for element beside a drained tile; empty when two bands want     *)
(* different layouts of one region.                                         *)
Packing(sched, made, reg, tiling) ==
    LET Sides(b) ==
            IF b.engine # "matmul" THEN {}
            ELSE {<<reg[b.ops[1].ins[1]],
                    [role |-> "a", rows |-> b.tile.m, k |-> b.tile.k, flip |-> FALSE]>>,
                  <<reg[b.ops[1].ins[2]],
                    [role |-> "b", rows |-> b.tile.n, k |-> b.tile.k, flip |-> b.ops[1].attrs.bflip]>>}
        Drained(b) == SelectSeq(FlattenSeq([i \in DOMAIN b.ops |-> b.ops[i].ins]),
                                LAMBDA v : v \in DOMAIN made)
        Beside(b) ==
            IF b.engine # "vector" \/ Drained(b) = <<>> THEN {}
            ELSE {<<reg[v], [role |-> "tile", tm |-> made[Drained(b)[1]].tm,
                             tn |-> made[Drained(b)[1]].tn, gn |-> made[Drained(b)[1]].gn]>> :
                    v \in {x \in DOMAIN b.ext :
                             /\ b.ext[x].what = "input"
                             /\ _bcast(b.elems[x], WorkM(b, tiling), WorkN(b, tiling), "input",
                                       b.tile.m * b.tile.n * GridSize(b.grid)) = "elem"}}
        specs == UNION {Sides(b) \cup Beside(b) : b \in ToSet(sched.bands)}
    IN  IF \E x, y \in specs : x[1] = y[1] /\ x # y THEN {}
        ELSE {[r \in {x[1] : x \in specs} |-> (CHOOSE x \in specs : x[1] = r)[2]]}

-----------------------------------------------------------------------------
(* A matrix product on every node: for every chunk of K the two FILLs and a *)
(* GEMM, then the DRAIN.  B stays in L1 from one instance to the next of a  *)
(* column while all its chunks fit; the two halves of A alternate.          *)
HalfSame(ch, fits) == IF fits THEN ch ELSE 0

Half(ch, fits) == IF fits THEN ch ELSE ch % 2

Stays(b, b_fits, last, no) == b.residency /\ b_fits /\ last = no

EmitMatMul(b, map, reg, t) ==
    LET o == b.ops[1]
        a == map[reg[o.ins[1]]]
        bb == map[reg[o.ins[2]]]
        c == map[reg[o.out]]
        chunks == AtLeast(1, o.attrs.k \div b.tile.k)
        a_ent == _entries(b.tile.m, b.tile.k, t)
        b_ent == _entries(b.tile.n, b.tile.k, t)
        b_kb == AtLeast(1, (bb.elems \div o.attrs.n) \div b.tile.k)
        b_base == (o.offs[2] \div o.attrs.n) \div b.tile.k
        b_fits == chunks * b_ent <= 2 * L1_OFF_SPAN
        Entry(ch, ent, fits) == _split(Half(ch, fits) * ent)
        node == Assign(b, t)
        inst == Instances(b.grid)
        Fill(sel, word, n, at) == [op |-> "FILL", sel |-> sel, word |-> word, n |-> n, at |-> at]
        Chunk(i, ch, keep) ==
            LET aat == CHOOSE e \in Entry(ch, a_ent, FALSE) : TRUE
                bat == CHOOSE e \in Entry(ch, b_ent, b_fits) : TRUE
                awords == Words(o.offs[1]) + (inst[i].mo * chunks + ch) * Words(b.tile.m * b.tile.k)
                bwords == (inst[i].no * b_kb + b_base + ch) * Words(b.tile.n * b.tile.k)
            IN  <<Fill("a", a.word + awords, a_ent, aat)>>
                \o (IF keep THEN <<>> ELSE <<Fill("b", bb.word + bwords, b_ent, bat)>>)
                \o <<[op |-> "GEMM", gm |-> b.tile.m \div t.lanes, gn |-> b.tile.n \div t.lanes,
                      nk |-> AtLeast(1, b.tile.k \div t.kblock), acc |-> ch > 0,
                      a |-> aat, b |-> bat]>>
        Drain(i) == [op |-> "DRAIN",
                     word |-> c.word + (inst[i].mo * b.grid.n + inst[i].no) * Words(b.tile.m * b.tile.n)]
        Step(s, i) ==
            LET on == IF node[i] \in DOMAIN s.resident THEN s.resident[node[i]] ELSE -1
                keep == Stays(b, b_fits, on, inst[i].no)
                code == FlattenSeq([ch \in 1 .. chunks |-> Chunk(i, ch - 1, keep)]) \o <<Drain(i)>>
            IN  [resident |-> node[i] :> inst[i].no @@ s.resident,
                 code |-> [s.code EXCEPT ![node[i]] = @ \o code]]
        legal == \A ch \in 0 .. chunks - 1 : Entry(ch, a_ent, FALSE) # {} /\ Entry(ch, b_ent, b_fits) # {}
    IN  IF ~legal THEN {}
        ELSE {FoldLeft(Step, [resident |-> <<>>, code |-> [x \in ToSet(node) |-> <<>>]],
                       [i \in DOMAIN inst |-> i]).code}

-----------------------------------------------------------------------------
(* Where every instance of a vector band starts in the output: a consumer   *)
(* walks its producer's tiles in the producer's order.                      *)
VectorSpans(b, producer) ==
    LET elems == b.tile.m * b.tile.n
        f == CHOOSE c \in Correspondence(producer, b) : TRUE
        inst == Instances(b.grid)
        Place(i) ==
            LET tile == (inst[i].mo \div f[1]) * producer.grid.n + (inst[i].no \div f[2])
                part == (inst[i].mo % f[1]) * f[2] + (inst[i].no % f[2])
            IN  (tile * f[1] * f[2] + part) * elems
    IN  [i \in DOMAIN inst |-> IF producer = Unset THEN (i - 1) * elems ELSE Place(i)]

(* Sorted starts as runs of (start, count) one step apart.                  *)
_runs(offsets, step) ==
    FoldLeft(LAMBDA out, off :
                IF out # <<>> /\ Last(out)[1] + Last(out)[2] * step = off
                THEN Front(out) \o <<<<Last(out)[1], Last(out)[2] + 1>>>>
                ELSE Append(out, <<off, 1>>),
             <<>>, offsets)

(* A window of a drained value is one of whole tiles, or of single columns; *)
(* empty when it splits a tile.                                             *)
BandWindow(off, run, stride, tile) ==
    LET Tiles(n) == (n \div tile.tn) * tile.tm * tile.tn
    IN  CASE run = 1 -> {[stride |-> stride, base |-> off, run |-> 1,
                          bm |-> IF tile = Unset THEN 0 ELSE tile.tm,
                          bn |-> IF tile = Unset THEN 0 ELSE tile.tn]}
          [] run # 1 /\ tile = Unset ->
                {[stride |-> stride, base |-> off, run |-> run, bm |-> 0, bn |-> 0]}
          [] OTHER ->
                IF \E x \in {off, run, stride} : x % tile.tn # 0 THEN {}
                ELSE {[stride |-> Tiles(stride), base |-> Tiles(off), run |-> Tiles(run),
                       bm |-> 0, bn |-> 0]}

(* The windows of the operands of a band by value: empty where a window     *)
(* cannot be stated or one value is read through two.                       *)
Strided(b, made) ==
    LET reads == {<<i, j>> \in (DOMAIN b.ops) \X (1 .. 3) :
                    j \in DOMAIN b.ops[i].ins /\ b.ops[i].strides[j] # 1}
        V(r) == b.ops[r[1]].ins[r[2]]
        Tiled(v) == LET root == IF v \in DOMAIN b.windows THEN b.windows[v].root ELSE v
                    IN  IF root \in DOMAIN made THEN made[root] ELSE Unset
        Want(r) == BandWindow(b.ops[r[1]].offs[r[2]], b.ops[r[1]].runs[r[2]],
                              b.ops[r[1]].strides[r[2]], Tiled(V(r)))
        wanted(v) == UNION {Want(r) : r \in {x \in reads : V(x) = v}}
        ok == \A r \in reads : Want(r) # {} /\ Cardinality(wanted(V(r))) = 1
    IN  IF ok THEN {[v \in {V(r) : r \in reads} |-> CHOOSE w \in wanted(v) : TRUE]} ELSE {}

(* One program per node, looping over the chunks of the runs it owns.  The  *)
(* setup a node already has is not issued again, and what a reduction       *)
(* leaves in a scalar register is not taken for a constant.                 *)
Setup(b, t, plan, vl, was) ==
    LET vm == VmodeFor(b)
        nred == Len(SelectSeq(b.ops, LAMBDA o : o.kind \in ReducingKinds))
        sets == SelectSeq([i \in DOMAIN plan.consts |-> i - 1],
                          LAMBDA sd : sd \notin DOMAIN was.s \/ was.s[sd] # plan.consts[sd + 1])
        lost == Len(plan.consts) .. Len(plan.consts) + nred - 1
        all == [sd \in 0 .. Len(plan.consts) - 1 |-> plan.consts[sd + 1]] @@ was.s
    IN  [code |-> (IF was.vl = vl THEN <<>> ELSE <<[op |-> "VSETVL", vl |-> vl]>>)
                  \o (IF was.md = vm THEN <<>> ELSE <<[op |-> "VSETMD", md |-> vm]>>)
                  \o [i \in DOMAIN sets |-> [op |-> "VSETI", sd |-> sets[i], imm |-> plan.consts[sets[i] + 1]]],
         was |-> [vl |-> vl, md |-> vm, s |-> [sd \in DOMAIN all \ lost |-> all[sd]]]]

Fresh == [vl |-> 0, md |-> Unset, s |-> <<>>]

Access(op, word, coff) ==
    [op |-> op, word |-> word, coff |-> coff, bcast |-> "elem", gather |-> "", layout |-> "",
     window |-> Unset, stm |-> 0, stn |-> 0, erows |-> 0, ek |-> 0, tn |-> 0, lrow |-> 1]

(* A value of fewer elements than the band walks advances by fewer.         *)
ShrinkNone(total, held) == 1

Shrink(total, held) == AtLeast(1, total \div AtLeast(1, held))

(* The loads, operations and stores of one chunk.                           *)
Body(b, p, strided, plan, start, vl) ==
    LET made == p.made
        feeds == p.feeds
        elems == b.tile.m * b.tile.n
        total == elems * GridSize(b.grid)
        reduces == VmodeFor(b).mode = "TREE"
        src == IF plan.source \in DOMAIN made THEN made[plan.source] ELSE Unset
        Tiled(x) == IF src = Unset THEN x ELSE [x EXCEPT !.stm = src.tm, !.stn = src.tn]
        Entry(x, vid) == [x EXCEPT !.layout = "entry", !.erows = feeds[vid].m, !.ek = feeds[vid].k]
        Word(vid) == p.map[p.reg[vid]].word
        Held(vid) == IF vid \in DOMAIN b.elems THEN b.elems[vid] ELSE 1
        Bcast(vid) ==
            IF vid \in DOMAIN strided /\ strided[vid].run = 1 THEN "row"
            ELSE _bcast(b.elems[vid], WorkM(b, p.tiling), WorkN(b, p.tiling), b.ext[vid].what, total)
        Whole(l) == IF l.tile THEN Access("VLD", Word(l.vid) + Words(start), 0)
                    ELSE Tiled([Access("VLD", Word(l.vid), start) EXCEPT
                                  !.window = IF l.vid \in DOMAIN strided THEN strided[l.vid] ELSE Unset,
                                  !.bcast = Bcast(l.vid)])
        ByRow(l, x) ==
            LET flat == x.bcast = "elem"
                y == [x EXCEPT !.word = Word(l.vid), !.gather = IF flat THEN "row" ELSE "rowbcast",
                               !.coff = start, !.tn = b.tile.n,
                               !.lrow = AtLeast(1, (GridSize(b.grid) * b.tile.m) \div AtLeast(1, Held(l.vid)))]
            IN  CASE flat /\ l.vid \in DOMAIN feeds -> Entry(y, l.vid)
                  [] flat /\ l.vid \notin DOMAIN feeds /\ src # Unset -> Tiled(y)
                  [] flat /\ l.vid \notin DOMAIN feeds /\ src = Unset /\ made = <<>> ->
                        [y EXCEPT !.layout = "flat"]
                  [] OTHER -> y
        Load(l) == [vd |-> l.vd] @@ (IF reduces THEN ByRow(l, Whole(l)) ELSE Whole(l))
        Op(x) == [op |-> IF x.op.kind \in ReducingKinds THEN "VRED" ELSE "VALU",
                  kind |-> x.op.kind, dst |-> x.dst, srcs |-> x.srcs]
        Store(e) ==
            LET scalar == e.slot.kind = "sreg"
                st == Access("VST", Word(e.vid) + Words(start \div Shrink(total, b.elems[e.vid])), 0)
                row == IF reduces /\ ~scalar
                       THEN LET y == [st EXCEPT !.word = Word(e.vid), !.gather = "row", !.coff = start,
                                                !.tn = b.tile.n]
                            IN  CASE src # Unset -> Tiled(y)
                                  [] src = Unset /\ made = <<>> -> [y EXCEPT !.layout = "flat"]
                                  [] OTHER -> y
                       ELSE st
                out == IF e.vid \in DOMAIN feeds /\ ~scalar
                       THEN Entry([row EXCEPT !.word = Word(e.vid), !.coff = start], e.vid) ELSE row
            IN  [vs |-> e.slot, n |-> IF scalar THEN 1 ELSE vl] @@ out
    IN  [i \in DOMAIN plan.loads |-> Load(plan.loads[i])]
        \o [i \in DOMAIN plan.binds |-> Op(plan.binds[i])]
        \o [i \in DOMAIN plan.exports |-> Store(plan.exports[i])]

(* The instructions of a vector band by node, and what each node then holds.*)
EmitVector(b, p, t, producer) ==
    LET elems == b.tile.m * b.tile.n
        reduces == VmodeFor(b).mode = "TREE"
        vl == AtMost(t.vlmax, IF reduces THEN b.tile.n ELSE elems)
        spans == VectorSpans(b, producer)
        node == Assign(b, t)
        Was(x) == IF x \in DOMAIN p.held THEN p.held[x] ELSE Fresh
        Runs(x) == _runs(Ascending({spans[i] : i \in {j \in DOMAIN node : node[j] = x}}), elems)
        Loop(run, plan, strided) ==
            [op |-> "VLOOP", count |-> AtLeast(1, (elems + vl - 1) \div vl) * run[2],
             body |-> Body(b, p, strided, plan, run[1], vl)]
        Code(x, plan, strided) ==
            Setup(b, t, plan, vl, Was(x)).code
            \o [r \in DOMAIN Runs(x) |-> Loop(Runs(x)[r], plan, strided)]
    IN  {[code |-> [x \in ToSet(node) |-> Code(x, plan, strided)],
          held |-> [x \in ToSet(node) |-> Setup(b, t, plan, vl, Was(x)).was] @@ p.held] :
            plan \in PlanOf(b, VmodeFor(b).depth, p.exports[b.name]), strided \in Strided(b, p.made)}

-----------------------------------------------------------------------------
(* codegen() on the schedule of an m x k x n problem: the memory map, the   *)
(* layouts, and the code band by band.                                      *)
Placed(sched, t) ==
    LET map == Allocate(sched, t)
    IN  [outputs |-> sched.outputs, exports |-> ExportsOf(sched), map |-> map,
         reg |-> RegionOf(sched, map), code |-> <<>>, held |-> <<>>]

BandNamed(sched, name) ==
    LET i == SelectInSeq(sched.bands, LAMBDA b : b.name = name)
    IN  IF i = 0 THEN Unset ELSE sched.bands[i]

TilingFor(sched, m, n) ==
    LET mms == SelectSeq(sched.bands, LAMBDA b : b.engine = "matmul")
        last == BandNamed(sched, Last(sched.bands).consumes)
        main == IF last # Unset THEN last ELSE Last(mms)
    IN  IF mms = <<>> THEN RowMajorTiling(m, n)
        ELSE Geometry(m, n, main.tile.m, main.tile.n, main.grid.n, main.grid.m * main.grid.n)

Feeds(sched) ==
    LET Of(f, b) == IF b.engine # "matmul" THEN f
                    ELSE b.ops[1].ins[1] :> [m |-> b.tile.m, k |-> b.tile.k] @@ f
    IN  FoldLeft(Of, <<>>, sched.bands)

LaidOut(p, sched, m, n, t) ==
    LET reads == UNION {{<<b, v>> : v \in DOMAIN b.ext} : b \in ToSet(sched.bands)}
        Ext(r) == r[1].ext[r[2]]
        Of(what) == {r \in reads : Ext(r).what = what}
        Unplanned(b) == b.engine = "vector" /\ PlanOf(b, VmodeFor(b).depth, p.exports[b.name]) = {}
        refused == \/ \E b \in ToSet(sched.bands) : CoresFor(b.engine, t) < 1 \/ Unplanned(b)
                   \/ ~(ToSet(sched.outputs) \subseteq DOMAIN MadeBy(sched))
                   \/ \E r \in Of("window") : Ext(r).which.what # "input"
        With(made, tiling) ==
            {p @@ [made |-> made, tiling |-> tiling, packing |-> packing, feeds |-> Feeds(sched),
                   tilings |-> Tilings(sched, made, p.reg),
                   inputs |-> {<<Ext(r).which, p.reg[r[2]]>> : r \in Of("input")},
                   windows |-> {<<Ext(r).which.which, p.reg[r[2]], Ext(r).spec>> : r \in Of("window")}] :
               packing \in Packing(sched, made, p.reg, tiling)}
    IN  IF refused THEN {}
        ELSE UNION {With(made, tiling) : made \in {Made(sched)}, tiling \in {TilingFor(sched, m, n)}}

Emitted(p, sched, b, t) ==
    IF b.engine = "matmul"
    THEN {[p EXCEPT !.code = Append(@, c)] : c \in EmitMatMul(b, p.map, p.reg, t)}
    ELSE {[p EXCEPT !.code = Append(@, e.code), !.held = e.held] :
            e \in EmitVector(b, p, t, BandNamed(sched, b.consumes))}
=============================================================================
