----------------------------- MODULE MeshInterp -----------------------------
(***************************************************************************)
(* What the instructions of a program do (interp/mesh.py): the layouts in   *)
(* which operands lie in memory, what the host puts there, and one step of  *)
(* a cluster or of a vector core.  Memory is an array of elements for every *)
(* region, as long as the region has elements, and slices are cut off at    *)
(* its end, as numpy cuts them.                                             *)
(***************************************************************************)
EXTENDS Codegen
LOCAL INSTANCE FiniteSetsExt
LOCAL INSTANCE Functions
LOCAL INSTANCE SequencesExt
LOCAL INSTANCE TLC

CONSTANT BySpan     \* a GEMM reads the L1 spans it names, as a cluster does
ASSUME BySpanAssumption == BySpan \in BOOLEAN

(* Where the element at row r and column c of an operand of k columns is in *)
(* the order of L1 entries: lanes rows by kblock columns each, K fastest;   *)
(* and the way back.                                                        *)
EntryOrder(k, t, r, c) ==
    LET nk == AtLeast(1, k \div t.kblock)
    IN  (((r \div t.lanes) * nk + (c \div t.kblock)) * t.lanes + (r % t.lanes)) * t.kblock + (c % t.kblock)

EntryRow(k, t, e) ==
    LET nk == AtLeast(1, k \div t.kblock)
    IN  (e \div (nk * t.lanes * t.kblock)) * t.lanes + ((e \div t.kblock) % t.lanes)
EntryCol(k, t, e) ==
    LET nk == AtLeast(1, k \div t.kblock)
    IN  ((e \div (t.lanes * t.kblock)) % nk) * t.kblock + (e % t.kblock)

(* Row and column of the element e of a drained tile, and the way back.     *)
SubtileRow(tn, t, e) == ((e \div (t.lanes * t.lanes)) \div (tn \div t.lanes)) * t.lanes
                        + ((e % (t.lanes * t.lanes)) \div t.lanes)
SubtileCol(tn, t, e) == ((e \div (t.lanes * t.lanes)) % (tn \div t.lanes)) * t.lanes + (e % t.lanes)
SubtileAt(tn, t, r, c) == ((r \div t.lanes) * (tn \div t.lanes) + (c \div t.lanes)) * t.lanes * t.lanes
                          + (r % t.lanes) * t.lanes + (c % t.lanes)

RowIn(tl, t, e) == IF tl.rowmajor THEN e \div tl.tn ELSE SubtileRow(tl.tn, t, e)
ColIn(tl, t, e) == IF tl.rowmajor THEN e % tl.tn ELSE SubtileCol(tl.tn, t, e)
PlaceIn(tl, t, r, c) == IF tl.rowmajor THEN r * tl.tn + c ELSE SubtileAt(tl.tn, t, r, c)

(* A rows x k operand in blocks of tile x chunk, each in entry order: the   *)
(* set of the contents, empty where the blocks do not divide it.            *)
PackOperand(x, rows, k, tile, chunk, t) ==
    LET size == tile * chunk
        Of(at) == LET block == at \div size
                      in == at % size
                      r == (block \div (k \div chunk)) * tile + EntryRow(chunk, t, in)
                      c == (block % (k \div chunk)) * chunk + EntryCol(chunk, t, in)
                  IN  x[1 + r * k + c]
    IN  IF \/ rows % tile # 0 \/ k % chunk # 0
           \/ tile % t.lanes # 0 \/ chunk % t.kblock # 0
        THEN {}
        ELSE {[at \in 1 .. rows * k |-> Of(at - 1)]}

UnpackOperand(flat, rows, k, t) ==
    [r \in 0 .. rows - 1 |-> Stored([c \in 1 .. k |-> flat[1 + EntryOrder(k, t, r, c - 1)]])]

(* An m x n array the way a drain leaves it, tile after tile.               *)
PackTile(x, m, n, spec, t) ==
    [e \in 1 .. m * n |->
        LET tile == (e - 1) \div (spec.tm * spec.tn)
            in == (e - 1) % (spec.tm * spec.tn)
            r == (tile \div spec.gn) * spec.tm + SubtileRow(spec.tn, t, in)
            c == (tile % spec.gn) * spec.tn + SubtileCol(spec.tn, t, in)
        IN  x[1 + r * n + c]]

(* The host puts an array into a region in the layout its packing asks for; *)
(* B is stored transposed unless the graph transposed it already.  An array *)
(* of several slabs is packed slab by slab.                                 *)
PutIn(x, shape, spec, t) ==
    LET rank == Len(shape)
        rows == Numel(shape) \div Last(shape)
        cols == Last(shape)
        flip == spec.role = "b" /\ ~spec.flip
        T(y, r, c) == [e \in 1 .. r * c |-> y[1 + ((e - 1) % r) * c + ((e - 1) \div r)]]
        One(y, r, c) == IF flip THEN PackOperand(T(y, r, c), c, r, spec.rows, spec.k, t)
                        ELSE PackOperand(y, r, c, spec.rows, spec.k, t)
        slab == shape[rank - 1] * cols
        slabs == rank > 2 /\ shape[rank - 1] % spec.rows = 0
        Slab(i) == One(SubSeq(x, (i - 1) * slab + 1, i * slab), shape[rank - 1], cols)
    IN  CASE spec.role = "tile" -> {PackTile(x, rows, cols, spec, t)}
          [] spec.role # "tile" /\ slabs ->
                IF Slab(1) = {} THEN {}
                ELSE {FlattenSeq([i \in 1 .. Len(x) \div slab |-> CHOOSE p \in Slab(i) : TRUE])}
          [] OTHER -> One(x, rows, cols)

(* A window cut out of an input, with a border of zeros where it has one.   *)
CutWindow(x, shape, w) ==
    LET pad == IF Len(w.pad) = 1 THEN [i \in DOMAIN shape |-> w.pad[1]] ELSE w.pad
        frame ==
            IF w.pad = Unset THEN x
            ELSE Array([i \in DOMAIN shape |-> pad[i][1] + shape[i] + pad[i][2]],
                       LAMBDA ix :
                         LET jx == [i \in DOMAIN shape |-> ix[i] - pad[i][1]]
                         IN  IF \A i \in DOMAIN shape : jx[i] \in 0 .. shape[i] - 1
                             THEN Get(x, shape, jx) ELSE 0)
        at == Walk(w.off, w.dims)
    IN  [i \in DOMAIN at |-> frame[at[i] + 1]]

(* Memory after every input was bound: the set of the images, empty where   *)
(* an operand does not divide into its blocks.                              *)
Zeros(map) == [r \in DOMAIN map |-> [i \in 1 .. AtLeast(1, map[r].elems) |-> 0]]

Load(mem, r, data) == [mem EXCEPT ![r] = data \o SubSeq(@, Len(data) + 1, Len(@))]

Bound(prog, inputs, shapes, t) ==
    LET Laid(r, x, shape) ==
            IF r \in DOMAIN prog.packing THEN PutIn(x, shape, prog.packing[r], t) ELSE {x}
        Put(r, xs, shape, mems) ==
            UNION {{Load(m, r, d) : m \in mems, d \in Laid(r, x, shape)} : x \in xs}
        Whole(i, mems) == Put(i[2], {inputs[i[1]]}, shapes[i[1]], mems)
        Cut(w, mems) ==
            Put(w[2], {Stored(CutWindow(inputs[w[1]], shapes[w[1]], w[3]))}, w[3].shape, mems)
    IN  FoldSet(Cut, FoldSet(Whole, {Zeros(prog.map)}, prog.inputs), prog.windows)

-----------------------------------------------------------------------------
(* The region of a word and the element in it.                              *)
Locate(map, word) ==
    LET r == CHOOSE i \in DOMAIN map : map[i].word <= word /\ word < map[i].word + map[i].words
    IN  [region |-> r, off |-> 2 * (word - map[r].word)]

Addressed(i) == i.op \in {"FILL", "DRAIN", "VLD", "VST"}

Mapped(map, word) == \E i \in DOMAIN map : map[i].word <= word /\ word < map[i].word + map[i].words

TilingOf(prog, r) == IF r \in DOMAIN prog.tilings THEN prog.tilings[r] ELSE prog.tiling

(* The elements of a region from off on, at most n of them.                 *)
Cutout(mem, off, n) == SubSeq(mem, off + 1, AtMost(Len(mem), off + n))

(* The L1 of a side: two banks of entries, of lanes x kblock elements each. *)
(* An entry index does not carry from the offset into the bank.             *)
EntryAt(at, j) == at.bank * L1_OFF_SPAN + ((at.off + j) % L1_OFF_SPAN)
EntriesAt(at, n) == {EntryAt(at, j) : j \in 0 .. n - 1}
NoEntries == [j \in 0 .. 2 * L1_OFF_SPAN - 1 |-> Unset]

Filled(l1, i, src, off, t) ==
    LET size == t.lanes * t.kblock
        Entry(j) == Cutout(src, off + j * size, size)
    IN  [s \in DOMAIN l1 |->
            LET mine == {j \in 0 .. i.n - 1 : EntryAt(i.at, j) = s}
            IN  IF mine = {} THEN l1[s] ELSE Entry(Max(mine))]

Swept(l1, at, n) == FlattenSeq([j \in 1 .. n |-> l1[EntryAt(at, j - 1)]])

(* An idle node: nothing in L1, no sweep, no tile, no registers.            *)
Core == [a |-> Unset, b |-> Unset, l1 |-> [a |-> NoEntries, b |-> NoEntries],
         sweep |-> [a |-> {}, b |-> {}], tile |-> Unset, vl |-> 0, sreg |-> <<>>,
         vreg |-> <<>>, chain |-> Unset]

(* A FILL notes where it read and, in a cluster, brings the entries.        *)
Fill(i, core, mem, at, t) ==
    LET src == mem[at.region]
        noted == IF i.sel = "a" THEN [core EXCEPT !.a = at] ELSE [core EXCEPT !.b = at]
    IN  IF BySpan THEN [core EXCEPT !.l1[i.sel] = Filled(@, i, src, at.off, t)] ELSE noted

(* A product of the two operands, in the order of a drained tile, added to  *)
(* the tile unless the chunk is the first.  The interpreter takes what the  *)
(* last FILL of each side read, a cluster the spans the instruction names.  *)
_gemm(i, core, mem, t) ==
    LET rows == i.gm * t.lanes
        cols == i.gn * t.lanes
        k == i.nk * t.kblock
        flatA == IF BySpan THEN Swept(core.l1.a, i.a, i.gm * i.nk)
                 ELSE Cutout(mem[core.a.region], core.a.off, rows * k)
        flatB == IF BySpan THEN Swept(core.l1.b, i.b, i.gn * i.nk)
                 ELSE Cutout(mem[core.b.region], core.b.off, cols * k)
        a == UnpackOperand(flatA, rows, k, t)
        b == UnpackOperand(flatB, cols, k, t)
        Elt(r, c) == SumOf([x \in 1 .. k |-> a[r][x] * b[c][x]])
        flat == [e \in 1 .. rows * cols |-> Elt(SubtileRow(cols, t, e - 1), SubtileCol(cols, t, e - 1))]
    IN  IF i.acc THEN [e \in DOMAIN flat |-> (core.tile[e] + flat[e]) % P] ELSE flat

(* The rest of the opcodes that are not in a vector loop.                   *)
_step(i, core, prog, mem, t) ==
    LET at == Locate(prog.map, i.word)
    IN  CASE i.op = "FILL" -> [core |-> Fill(i, core, mem, at, t), mem |-> mem]
          [] i.op = "GEMM" ->
                [core |-> [core EXCEPT !.tile = _gemm(i, core, mem, t),
                                       !.sweep = [a |-> EntriesAt(i.a, i.gm * i.nk),
                                                  b |-> EntriesAt(i.b, i.gn * i.nk)]],
                 mem |-> mem]
          [] i.op = "DRAIN" ->
                [core |-> [core EXCEPT !.sweep = [a |-> {}, b |-> {}]],
                 mem |-> [mem EXCEPT ![at.region] =
                            [e \in DOMAIN @ |-> IF e - at.off \in DOMAIN core.tile
                                                THEN core.tile[e - at.off] ELSE @[e]]]]
          [] i.op = "VSETVL" -> [core |-> [core EXCEPT !.vl = i.vl], mem |-> mem]
          [] i.op = "VSETI" -> [core |-> [core EXCEPT !.sreg = i.sd :> <<i.imm % P>> @@ @], mem |-> mem]
          [] i.op = "VSETMD" -> [core |-> core, mem |-> mem]

-----------------------------------------------------------------------------
(* The vector a load brings, of the chunk ch of a loop.                     *)
_load(i, core, prog, mem, t, ch) ==
    LET at == Locate(prog.map, i.word)
        src == mem[at.region]
        vl == core.vl
        cur == ch * vl
        own == TilingOf(prog, at.region)
        size == AtLeast(1, Len(src))
        row == (i.coff \div i.tn) + ch
        Sub(tm, tn) == [tm |-> tm, tn |-> tn, rowmajor |-> FALSE]
        By(tl) == IF i.stm = 0 \/ (i.stm = tl.tm /\ i.stn = tl.tn) THEN tl ELSE Sub(i.stm, i.stn)
        Only(n, Elt(_)) == [e \in 1 .. n |-> src[1 + Elt(e - 1)]]
        tiled == By(own)
        pos == i.coff + cur
        walk == By(prog.tiling)
        gn == IF i.stm = 0 \/ (i.stm = prog.tiling.tm /\ i.stn = prog.tiling.tn) THEN prog.tiling.gn ELSE 1
        Along(e) ==
            LET tile == (pos + e) \div (walk.tm * walk.tn)
                in == (pos + e) % (walk.tm * walk.tn)
                idx == IF i.bcast = "col" THEN ColIn(walk, t, in) + (tile % gn) * walk.tn
                       ELSE RowIn(walk, t, in) + (tile \div gn) * walk.tm
            IN  CASE i.window = Unset -> idx
                  [] i.window # Unset /\ i.window.bm # 0 ->
                        SubtileAt(i.window.bn, t, idx % i.window.bm, i.window.base)
                  [] OTHER -> idx * i.window.stride + i.window.base
        Stepped(e) == i.window.base + ((pos + e) \div i.window.run) * i.window.stride
                      + ((pos + e) % i.window.run)
    IN  CASE i.gather = "rowbcast" ->
                [e \in 1 .. vl |-> src[1 + at.off + ((row \div i.lrow) % size)]]
          [] i.gather = "row" /\ i.layout = "flat" ->
                Cutout(src, at.off + row * i.tn, AtMost(vl, i.tn))
          [] i.gather = "row" /\ i.layout = "entry" ->
                Only(AtMost(vl, i.ek),
                     LAMBDA e : at.off + (row \div i.erows) * i.erows * i.ek
                                + EntryOrder(i.ek, t, row % i.erows, e))
          [] i.gather = "row" /\ i.layout = "" ->
                Only(AtMost(vl, tiled.tn),
                     LAMBDA e : at.off + (row \div tiled.tm) * tiled.tm * tiled.tn
                                + PlaceIn(tiled, t, row % tiled.tm, e))
          [] i.gather = "" /\ i.bcast = "elem" /\ i.window = Unset ->
                Cutout(src, at.off + pos, vl)
          [] i.gather = "" /\ i.bcast = "elem" /\ i.window # Unset ->
                Only(vl, LAMBDA e : at.off + Stepped(e))
          [] OTHER -> Only(vl, LAMBDA e : at.off + (Along(e) % size))

(* What an operation of a chunk makes; a scalar spreads over the vector.    *)
_apply(kind, srcs) ==
    LET n == Max({Len(srcs[j]) : j \in DOMAIN srcs})
        Lane(s, e) == IF Len(s) = 1 THEN s[1] ELSE s[e]
    IN  CASE kind \in REDUCTION -> <<Fold(kind, srcs[1])>>
          [] kind \in UNARY -> [e \in 1 .. n |-> Unary(kind, Lane(srcs[1], e))]
          [] kind \in BINARY -> [e \in 1 .. n |-> Arith(kind, Lane(srcs[1], e), Lane(srcs[2], e))]

(* Where the elements of a store go, of the chunk ch of a loop.             *)
StoredAt(i, prog, t, ch, vl, e) ==
    LET at == Locate(prog.map, i.word)
        tl == TilingOf(prog, at.region)
        row == (i.coff \div i.tn) + ch
        same == i.stm = 0 \/ (i.stm = tl.tm /\ i.stn = tl.tn)
        tm == IF same THEN tl.tm ELSE i.stm
        tn == IF same THEN tl.tn ELSE i.stn
        pos == i.coff + ch * vl + e
        tile == pos \div (tl.tm * tl.tn)
        r == (tile \div AtLeast(1, tl.gn)) * tl.tm + RowIn(tl, t, pos % (tl.tm * tl.tn))
        c == (tile % AtLeast(1, tl.gn)) * tl.tn + ColIn(tl, t, pos % (tl.tm * tl.tn))
        blocks == AtLeast(1, tl.n \div i.ek)
    IN  at.off +
        CASE i.gather = "row" /\ i.layout = "flat" -> row * i.tn + e
          [] i.gather = "row" /\ i.layout = "entry" ->
                (row \div i.erows) * i.erows * i.ek + EntryOrder(i.ek, t, row % i.erows, e)
          [] i.gather = "row" /\ i.layout = "" ->
                (row \div tm) * tm * tn
                + (IF same THEN PlaceIn(tl, t, row % tm, e) ELSE SubtileAt(tn, t, row % tm, e))
          [] i.gather = "" /\ i.layout = "entry" ->
                ((r \div i.erows) * blocks + (c \div i.ek)) * i.erows * i.ek
                + EntryOrder(i.ek, t, r % i.erows, c % i.ek)
          [] OTHER -> (IF i.n < vl THEN ch * i.n ELSE ch * vl) + e

(* One instruction of the body of a vector loop.                            *)
_vector(i, core, prog, mem, t, ch) ==
    LET Src(s) == CASE s.kind = "chain" -> core.chain
                    [] s.kind = "sreg" -> core.sreg[s.idx]
                    [] s.kind = "vreg" -> core.vreg[s.idx]
        out == _apply(i.kind, [j \in DOMAIN i.srcs |-> Src(i.srcs[j])])
        to == Locate(prog.map, i.word).region
        held == Src(i.vs)
        n == AtMost(i.n, AtLeast(1, Len(held)))
        places == [e \in 1 .. n |-> 1 + StoredAt(i, prog, t, ch, core.vl, e - 1)]
        Winner(x) == Max({e \in 1 .. n : places[e] = x})
    IN  CASE i.op = "VLD" ->
                [core |-> [core EXCEPT !.vreg = i.vd :> _load(i, core, prog, mem, t, ch) @@ @], mem |-> mem]
          [] i.op \in {"VALU", "VRED"} ->
                [mem |-> mem,
                 core |-> CASE i.dst.kind = "chain" -> [core EXCEPT !.chain = out]
                            [] i.dst.kind = "sreg" -> [core EXCEPT !.sreg = i.dst.idx :> out @@ @]
                            [] i.dst.kind = "vreg" -> [core EXCEPT !.vreg = i.dst.idx :> out @@ @]]
          [] i.op = "VST" ->
                [core |-> core,
                 mem |-> [mem EXCEPT ![to] =
                            [x \in DOMAIN @ |-> IF \E e \in 1 .. n : places[e] = x
                                                THEN held[Winner(x)] ELSE @[x]]]]

(* A region as an m x n array: the inverse of its layout.                   *)
Result(prog, mem, r, t) ==
    LET tl == TilingOf(prog, r)
        Place(row, col) == ((row \div tl.tm) * tl.gn + (col \div tl.tn)) * tl.tm * tl.tn
                         + PlaceIn(tl, t, row % tl.tm, col % tl.tn)
    IN  [e \in 1 .. tl.m * tl.n |-> mem[r][1 + Place((e - 1) \div tl.n, (e - 1) % tl.n)]]
=============================================================================
