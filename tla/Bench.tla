-------------------------------- MODULE Bench --------------------------------
(***************************************************************************)
(* A matrix product as a problem for the machine (bench.py, tensor.py):    *)
(* the mesh, which of its clusters are used, where the operands go, what   *)
(* is refused, what a preview says, and the walk over the result.          *)
(***************************************************************************)
EXTENDS DeviceProgram
LOCAL INSTANCE TLC
LOCAL INSTANCE SequencesExt
LOCAL INSTANCE FiniteSetsExt

-----------------------------------------------------------------------------
(* The planner (kernel.py): the tile of the output a cluster holds at a    *)
(* time, who computes which tile, the instructions of a pass, and the cut  *)
(* of the passes into rounds.  Matrices are counted in groups of lanes and *)
(* blocks of K: memory words, not bytes.                                   *)

(* Of the machine, besides: Hw.lanes and Hw.kblock, the elements of a      *)
(* group and of a block; Hw.fp and Hw.mx, the words of an L1 entry in the  *)
(* two formats; Hw.field, the range of an offset, a count or an extent in  *)
(* an instruction (8 bits); Hw.ncmd, the commands of a program;            *)
(* Hw.precision, the resolution of the ranking of tiles.                   *)
FILL_MAX_ENTRIES == Hw.field - 1
L1_OFF_SPAN == Hw.field

Least(a, b) == IF a < b THEN a ELSE b
CeilDiv(a, b) == (a + b - 1) \div b
RoundUp(v, q) == CeilDiv(v, q) * q

EntryWords(preq) == IF preq THEN Hw.mx ELSE Hw.fp

---------------------------------------------------------------------------
(* The tile of a pass: gm by gn groups of the output, nk blocks of K.      *)

TileM(t) == t.gm * Hw.lanes
TileN(t) == t.gn * Hw.lanes
TileK(t) == t.nk * Hw.kblock

Sizes(tiles) == {s \in {2 ^ e : e \in 0..11} : s <= tiles}

(* The entries of one chunk of an operand: a bank of L1, and no more than  *)
(* an offset can name.                                                     *)
BankEntries(l1, banks) == Least(l1 \div banks, L1_OFF_SPAN)

Candidates(caps, blocks) ==
    LET Depth(gm, gn) == Least(Least(BankEntries(caps.l1a, caps.banks) \div gm,
                                     BankEntries(caps.l1b, caps.banks) \div gn), blocks)
    IN  {t \in {[gm |-> gm, gn |-> gn, nk |-> Depth(gm, gn)] :
                    gm \in Sizes(caps.tiles), gn \in Sizes(caps.tiles)} :
             t.gm * t.gn <= caps.tiles /\ t.nk >= 1}

(* 2 gm gn / (gm + gn), times the part of the padded problem that is the   *)
(* problem, rounded.                                                       *)
Score(t, m, k, n) ==
    LET padded == (t.gm + t.gn) * RoundUp(m, TileM(t)) * RoundUp(k, TileK(t)) * RoundUp(n, TileN(t))
    IN  (4 * Hw.precision * t.gm * t.gn * m * k * n + padded) \div (2 * padded)

Lower(a, b) == \E i \in 1..Len(a) : a[i] < b[i] /\ \A j \in 1..(i - 1) : a[j] = b[j]

(* The highest rank; of equals the first in the order of gm and gn.        *)
ChooseTile(caps, blocks, m, k, n) ==
    LET Rank(t) == <<Score(t, m, k, n), t.nk, -(IF t.gm > t.gn THEN t.gm - t.gn ELSE t.gn - t.gm),
                     -t.gm, -t.gn>>
        all == Candidates(caps, blocks)
    IN  CHOOSE t \in all : ~\E u \in all : Lower(Rank(t), Rank(u))

---------------------------------------------------------------------------
(* The output tiles <<mo, no>> of each cluster: the tiles in the order of  *)
(* the columns, in contiguous shares, one more for the first.              *)
Grid(mTiles, nTiles, ncl) ==
    LET tiles == [t \in 1..(mTiles * nTiles) |->
                     [mo |-> (t - 1) % mTiles, no |-> (t - 1) \div mTiles]]
        base  == Len(tiles) \div ncl
        extra == Len(tiles) % ncl
        From(ci) == base * ci + Least(ci, extra)
    IN  [ci \in 1..ncl |-> SubSeq(tiles, From(ci - 1) + 1, From(ci))]

(* How L1 is divided: chunks of A alternate between two banks, B stays for *)
(* a column of tiles when all its chunks fit.                              *)
L1Plan(caps, tile, chunks) ==
    LET ca == tile.gm * tile.nk
        cb == tile.gn * tile.nk
        resident == chunks * cb <= caps.l1b
    IN  [chunkA |-> ca, chunkB |-> cb, chunks |-> chunks, bResident |-> resident,
         aEntries |-> caps.l1a, bEntries |-> caps.l1b,
         banksA |-> IF 2 * ca <= caps.l1a THEN 2 ELSE 1,
         banksB |-> IF ~resident /\ 2 * cb <= caps.l1b THEN 2 ELSE 1,
         fused  |-> chunks > 1 \/ tile.nk > 1]

ABankAlways(l1, i) == 0
ABank(l1, i) == (i % l1.banksA) * l1.chunkA
BBank(l1, i, ko) == IF l1.bResident THEN ko * l1.chunkB ELSE (i % l1.banksB) * l1.chunkB

(* An entry of L1 as a bank and an offset; the instruction has one bit for *)
(* the bank.                                                               *)
Bank(entry) == entry \div L1_OFF_SPAN
Offset(entry) == entry % L1_OFF_SPAN

(* One instruction: a value is cut to the field it is written in.          *)
Flit(fields) ==
    LET f == fields @@ [addr |-> 0, n |-> 0, sel |-> "A", gm |-> 0, gn |-> 0, nk |-> 1,
                        acc |-> FALSE, last |-> FALSE, preq |-> FALSE, emit |-> FALSE,
                        fuse |-> FALSE, eoff |-> 0, aoff |-> 0, boff |-> 0,
                        abank |-> 0, bbank |-> 0, fbank |-> 0]
        Cut(v) == v % Hw.field
    IN  [f EXCEPT !.gm = Cut(@), !.gn = Cut(@), !.nk = Cut(@),
                  !.eoff = Cut(@), !.aoff = Cut(@), !.boff = Cut(@),
                  !.abank = @ % 2, !.bbank = @ % 2, !.fbank = @ % 2]

EmitFillOver(sel, word, n, entry, preq) ==
    [i \in 1..CeilDiv(n, FILL_MAX_ENTRIES) |->
        LET at == (i - 1) * FILL_MAX_ENTRIES
        IN  Flit([op |-> "FILL", sel |-> sel, preq |-> preq,
                  addr |-> word + at * EntryWords(preq), n |-> Least(n - at, FILL_MAX_ENTRIES),
                  eoff |-> Offset(entry), fbank |-> Bank(entry)])]

(* The fills of one run of n entries, cut where the count would not fit.   *)
EmitFill(sel, word, n, entry, preq) ==
    [i \in 1..CeilDiv(n, FILL_MAX_ENTRIES) |->
        LET at == (i - 1) * FILL_MAX_ENTRIES
        IN  Flit([op |-> "FILL", sel |-> sel, preq |-> preq,
                  addr |-> word + at * EntryWords(preq), n |-> Least(n - at, FILL_MAX_ENTRIES),
                  eoff |-> Offset(entry) + at, fbank |-> Bank(entry)])]

---------------------------------------------------------------------------
(* A problem w to plan: the tile, the memory map, the formats, the tiles   *)
(* of the grid and the division of L1.                                     *)

(* Where tile (mo, no) of the result goes, whoever computes it.            *)
CWord(w, t) == w.layout.c + (t.mo * w.nTiles + t.no) * w.tile.gm * w.tile.gn

(* The fills of chunk ko of A for sweep i of the cluster, and of B.        *)
FillA(w, t, i, ko) ==
    EmitFill("A", w.layout.a + (t.mo * w.l1.chunks + ko) * w.l1.chunkA * EntryWords(w.preq.a),
             w.l1.chunkA, ABank(w.l1, i), w.preq.a)
FillB(w, t, i, ko) ==
    EmitFill("B", w.layout.b + (t.no * w.l1.chunks + ko) * w.l1.chunkB * EntryWords(w.preq.b),
             w.l1.chunkB, BBank(w.l1, i, ko), w.preq.b)

(* The last sweep of a pass hands the results out, where it can.           *)
Sweep(w, t, i, ko) ==
    LET emit == w.l1.fused /\ ko = w.l1.chunks - 1
        a    == ABank(w.l1, i)
        b    == BBank(w.l1, i, ko)
    IN  Flit([op |-> "GEMM", addr |-> IF emit THEN CWord(w, t) ELSE 0, emit |-> emit,
              gm |-> w.tile.gm, gn |-> w.tile.gn, nk |-> w.tile.nk, acc |-> ko > 0,
              aoff |-> Offset(a), abank |-> Bank(a), boff |-> Offset(b), bbank |-> Bank(b)])

Drain(w, t) ==
    Flit([op |-> "DRAIN", addr |-> CWord(w, t), n |-> w.tile.gm * w.tile.gn,
          last |-> TRUE, fuse |-> w.l1.fused])

(* One chunk of K of the pass: its operands, and the sweep over them.      *)
Chunk(w, t, i, ko) ==
    FillA(w, t, i, ko) \o (IF w.l1.bResident THEN <<>> ELSE FillB(w, t, i, ko))
        \o <<Sweep(w, t, i, ko)>>

ColumnAlways(w, own, p) ==
    IF w.l1.bResident
    THEN FlattenSeq([ko \in 1..w.l1.chunks |-> FillB(w, own[p], 0, ko - 1)])
    ELSE <<>>

(* The column of B, where it stays, when the tile before was of another.   *)
Column(w, own, p) ==
    IF w.l1.bResident /\ (p = 1 \/ own[p - 1].no # own[p].no)
    THEN FlattenSeq([ko \in 1..w.l1.chunks |-> FillB(w, own[p], 0, ko - 1)])
    ELSE <<>>

(* The p-th pass of a cluster that owns the tiles own: the sweeps of the   *)
(* cluster are numbered on from pass to pass.                              *)
PassOf(w, cluster, own, p) ==
    LET column == Column(w, own, p)
        chunks == FlattenSeq([c \in 1..w.l1.chunks |->
                      Chunk(w, own[p], (p - 1) * w.l1.chunks + c - 1, c - 1)])
        fills  == CeilDiv(w.l1.chunkA, FILL_MAX_ENTRIES)
    IN  [cluster |-> cluster, mo |-> own[p].mo, no |-> own[p].no,
         flits |-> column \o chunks \o <<Drain(w, own[p])>>, firstA |-> Len(column) + 1,
         prefetch |-> fills + (IF w.l1.bResident /\ w.l1.chunks > 1 THEN 1 ELSE 0), lent |-> 0]

(* The head of the next pass goes before the barrier that ends the pass,   *)
(* where the two are of one column.                                        *)
Moved(p) == SubSeq(p.flits, p.firstA, p.firstA + p.prefetch - 1)
Kept(p) == SubSeq(p.flits, 1, p.firstA - 1)
           \o SubSeq(p.flits, p.firstA + p.prefetch, Len(p.flits))
Prefetch(l1, row) ==
    LET Joined(i) == l1.banksA > 1 /\ i \in 1..(Len(row) - 1) /\ row[i].no = row[i + 1].no
        Own(i)  == IF Joined(i - 1) THEN Kept(row[i]) ELSE row[i].flits
        Next(i) == IF Joined(i) THEN Moved(row[i + 1]) ELSE <<>>
    IN  [i \in 1..Len(row) |->
            [row[i] EXCEPT !.flits = Front(Own(i)) \o Next(i) \o <<Last(Own(i))>>,
                           !.lent = Len(Next(i))]]

Listed(seq) == seq \o <<>>  \* TLC evaluates the elements here, and once

(* One pass of each cluster in turn, then what the longer ones have left.  *)
RoundRobin(rows) ==
    LET full == Min({Len(rows[c]) : c \in DOMAIN rows})
        turn == [i \in 1..(full * Len(rows)) |->
                    rows[1 + ((i - 1) % Len(rows))][1 + ((i - 1) \div Len(rows))]]
    IN  turn \o FlattenSeq([c \in DOMAIN rows |-> SubSeq(rows[c], full + 1, Len(rows[c]))])

(* The passes that fit the staging window, the command RAM and the credit. *)
Fits(passes, stage) ==
    /\ Slot(passes, Len(passes) + 1) <= stage
    /\ Len(passes) <= Hw.depth - 1
    /\ Len(Control(passes, NewProgram).cmds) <= Hw.ncmd

CutRounds(passes, stage) ==
    LET Add(rounds, p) ==
            IF rounds # <<>> /\ Fits(Append(Last(rounds), p), stage)
            THEN [rounds EXCEPT ![Len(rounds)] = Append(@, p)]
            ELSE Append(rounds, <<p>>)
    IN  FoldLeft(Add, <<>>, passes)

(* The kernel of an m by k by n problem, padded to whole tiles.            *)
PlanKernel(m, k, n, clusters, layout, tile, caps, preq) ==
    LET chunks == (k \div Hw.kblock) \div tile.nk
        w == [tile |-> tile, layout |-> layout, preq |-> preq, nTiles |-> n \div TileN(tile),
              l1 |-> L1Plan(caps, tile, chunks)]
        owned == Grid(m \div TileM(tile), w.nTiles, Len(clusters))
        Own(c) == Listed([p \in 1..Len(owned[c]) |-> PassOf(w, clusters[c], owned[c], p)])
        rows   == Listed([c \in 1..Len(clusters) |-> Listed(Prefetch(w.l1, Own(c)))])
    IN  [tile |-> tile, m |-> m, k |-> k, n |-> n, clusters |-> clusters, layout |-> layout,
         preq |-> preq, l1 |-> w.l1, rounds |-> CutRounds(RoundRobin(rows), caps.stage)]

Passes(kern) == FlattenSeq(kern.rounds)

(* The instruction has one bit for the bank: the planner refuses a plan    *)
(* that needs a third.                                                     *)
Addressable(kern) ==
    LET banks == {ABank(kern.l1, i) : i \in 0..1} \cup
                 {BBank(kern.l1, i, ko) : i \in 0..1, ko \in 0..(kern.l1.chunks - 1)}
    IN  \A e \in banks : Bank(e) <= 1

---------------------------------------------------------------------------
(* The smallest whole program (matmul.py, build): one tile and one pass of *)
(* four instructions for each cluster, in slots of its own.                *)
FLITS_PER_CLUSTER == 4
ClusterProgram(t, layout) ==
    <<Flit([op |-> "FILL", sel |-> "A", addr |-> layout.a, n |-> t.gm * t.nk]),
      Flit([op |-> "FILL", sel |-> "B", addr |-> layout.b, n |-> t.gn * t.nk]),
      Flit([op |-> "GEMM", gm |-> t.gm, gn |-> t.gn, nk |-> t.nk]),
      Flit([op |-> "DRAIN", addr |-> layout.c, n |-> t.gm * t.gn, last |-> TRUE])>>

UntiledTile(m, k, n, ncl) ==
    [gm |-> CeilDiv(m, Hw.lanes), gn |-> CeilDiv(n \div ncl, Hw.lanes), nk |-> CeilDiv(k, Hw.kblock)]

(* All clusters started, then one wait; or each waited for in its turn.    *)
Untiled(t, clusters, layouts, concurrent) ==
    LET passes == [c \in 1..Len(clusters) |->
                      [cluster |-> clusters[c], flits |-> ClusterProgram(t, layouts[c])]]
        Turn(p, c) == Dispatch(FoldLeft(LAMBDA q, j : StageFlit(q, j - 1, passes[c].flits[j]),
                                        p, [j \in 1..FLITS_PER_CLUSTER |-> j]),
                               clusters[c], FLITS_PER_CLUSTER)
    IN  IF concurrent THEN RoundProgram(passes)
        ELSE Done(FoldLeft(Turn, NewProgram, [c \in 1..Len(clusters) |-> c]), "C0DE")

(* One program for each round.                                             *)
Programs(kern) == [r \in DOMAIN kern.rounds |-> RoundProgram(kern.rounds[r])]

-----------------------------------------------------------------------------

(* Of the machine, besides: Hw.words and Hw.hostWords, the memory of the   *)
(* card and of the upload; Hw.burst, the words of a write burst;           *)
(* Hw.maxRows, the memory ports, and Hw.maxCols.                           *)

(* <<columns, clusters of a row, rows>> of a mesh of ncl clusters.         *)
MeshGrid(ncl, split) ==
    LET rows == Least(Hw.maxRows, ncl)
        per  == CeilDiv(ncl, rows)
    IN  <<IF split THEN 2 * per ELSE per, per, CeilDiv(ncl, per)>>

ClusterCounts(split) ==
    IF split THEN {n \in 1..(2 * Hw.maxRows) : MeshGrid(n, TRUE)[3] <= Hw.maxRows}
             ELSE {n \in 1..(Hw.maxRows * Hw.maxCols) : MeshGrid(n, FALSE)[1] <= Hw.maxCols}

(* Cluster i, from 0: the node instructions go to, and its row, which has  *)
(* the memory port.  A split cluster is two nodes; its manager is dispatched to. *)
Place(i, ncl, split) ==
    LET per  == MeshGrid(ncl, split)[2]
        slot == i % per
        row  == 1 + (i \div per)
    IN  [cu |-> <<IF split THEN 2 * slot + 1 ELSE slot + 1, row>>, row |-> row, port |-> <<0, row>>]
Mesh(ncl, split) == [i \in 0..(ncl - 1) |-> Place(i, ncl, split)]

(* The first cluster of each row before the second of any; or the first.   *)
Picked(mesh, use, packing) ==
    LET Depth(i) == Cardinality({j \in DOMAIN mesh : j < i /\ mesh[j].row = mesh[i].row})
        Before(i, j) == Lower(<<Depth(i), mesh[i].row>>, <<Depth(j), mesh[j].row>>)
    IN  {i \in DOMAIN mesh : Cardinality({j \in DOMAIN mesh :
            IF packing = "packed" THEN j < i ELSE Before(j, i)}) < use}

(* The nodes a program is for, in the order of the mesh, and their ports.  *)
DispatchTo(ncl, use, packing, split) ==
    LET mesh == Mesh(ncl, split)
        pick == SetToSortSeq(Picked(mesh, use, packing), <)
    IN  [clusters |-> [c \in 1..use |-> mesh[pick[c]].cu],
         ports |-> {mesh[pick[c]].port : c \in 1..use}]

---------------------------------------------------------------------------
(* A shape is m, k and n.  An ask adds the mesh, how many clusters to use  *)
(* and how packed, the formats of the operands in memory, and what a       *)
(* cluster of that machine holds.                                          *)

TileFor(ask) ==
    ChooseTile(ask.caps, IF ask.k < Hw.kblock THEN 1 ELSE ask.k \div Hw.kblock, ask.m, ask.k, ask.n)

PaddedShape(ask, t) == [m |-> RoundUp(ask.m, TileM(t)), k |-> RoundUp(ask.k, TileK(t)),
                        n |-> RoundUp(ask.n, TileN(t))]

Groups(lanes) == lanes \div Hw.lanes
Blocks(k) == k \div Hw.kblock

(* The words of a host image: always of the format the host has.           *)
HostWords(s) == (Groups(s.m) + Groups(s.n)) * Blocks(s.k) * Hw.fp

(* One image of A, of B and of C, and where they end.                      *)
MemoryPlan(s, preq) ==
    LET b == Groups(s.m) * Blocks(s.k) * EntryWords(preq.a)
        c == RoundUp(b + Groups(s.n) * Blocks(s.k) * EntryWords(preq.b), Hw.burst)
    IN  [a |-> 0, b |-> b, c |-> c, end |-> c + RoundUp(Groups(s.m) * Groups(s.n), Hw.burst)]

(* What stops a shape.                                                     *)
Check(ask) ==
    IF ask.ncl \notin ClusterCounts(FALSE) THEN {"mesh"}
    ELSE IF ask.use \notin 1..ask.ncl THEN {"use"}
    ELSE IF ask.packing \notin {"spread", "packed"} THEN {"packing"}
    ELSE IF ask.m < Hw.lanes \/ ask.n < Hw.lanes \/ ask.k < Hw.kblock THEN {"minimum"}
    ELSE LET s == PaddedShape(ask, TileFor(ask))
         IN  {r \in {"memory", "host"} :
                 \/ r = "memory" /\ MemoryPlan(s, ask.preq).end > Hw.words
                 \/ r = "host" /\ HostWords(s) > Hw.hostWords}

(* The problem, tiled and cut into rounds.                                 *)
Build(ask) ==
    LET tile == TileFor(ask)
        s    == PaddedShape(ask, tile)
        disp == DispatchTo(ask.ncl, ask.use, ask.packing, ask.split)
    IN  [kern |-> PlanKernel(s.m, s.k, s.n, disp.clusters, MemoryPlan(s, ask.preq),
                             tile, ask.caps, ask.preq),
         disp |-> disp, m |-> s.m, k |-> s.k, n |-> s.n]

(* What the front end shows before a run: counts of the plan itself.       *)
Preview(ask) ==
    LET why == Check(ask)
    IN  IF why \cap {"mesh", "use", "packing", "minimum"} # {}
        THEN [why |-> why, passes |-> 0, rounds |-> 0, flits |-> 0, live |-> 0]
        ELSE LET kern == Build(ask).kern
                 all  == Passes(kern)
             IN  [why |-> why, passes |-> Len(all), rounds |-> Len(kern.rounds),
                  flits |-> Slot(all, Len(all) + 1),
                  live |-> Cardinality({all[i].cluster : i \in DOMAIN all})]

---------------------------------------------------------------------------
(* A padded operand as words, the entries of one tile and chunk together:  *)
(* word i, from 0, is part i % fp of an entry.                             *)
Operand(op, groups, blocks, gt, bc) ==
    [i \in 0..(groups * blocks * Hw.fp - 1) |->
        LET e     == i \div Hw.fp
            run   == e \div (gt * bc)             \* which tile and chunk
            in    == e % (gt * bc)
            tile  == run \div (blocks \div bc)
            chunk == run % (blocks \div bc)
        IN  [op |-> op, g |-> tile * gt + (in \div bc), kb |-> chunk * bc + (in % bc),
             part |-> i % Hw.fp, mx |-> FALSE]]

(* The host stream and the regions of memory it becomes.                   *)
Upload(prob) ==
    LET t == prob.kern.tile
        a == Operand("A", Groups(prob.m), Blocks(prob.k), t.gm, t.nk)
        b == Operand("B", Groups(prob.n), Blocks(prob.k), t.gn, t.nk)
        la == Cardinality(DOMAIN a)
        lb == Cardinality(DOMAIN b)
    IN  [words |-> [i \in 0..(la + lb - 1) |-> IF i < la THEN a[i] ELSE b[i - la]],
         regions |-> <<[src |-> 0, dst |-> prob.kern.layout.a, len |-> la, quant |-> prob.kern.preq.a],
                       [src |-> la, dst |-> prob.kern.layout.b, len |-> lb, quant |-> prob.kern.preq.b]>>]

(* What a region leaves in memory: as it came, or quantised, in less space. *)
Landed(up, r) ==
    IF r.quant
    THEN [i \in r.dst..(r.dst + ((r.len * Hw.mx) \div Hw.fp) - 1) |->
             [up.words[r.src + ((i - r.dst) \div Hw.mx) * Hw.fp]
                 EXCEPT !.part = (i - r.dst) % Hw.mx, !.mx = TRUE]]
    ELSE [i \in r.dst..(r.dst + r.len - 1) |-> up.words[r.src + i - r.dst]]

(* The results by groups: the words are by tile, and row major in a tile.  *)
DecodeResult(words, prob) ==
    LET t == prob.kern.tile
        At(g, h) == (((g \div t.gm) * (prob.n \div TileN(t))) + (h \div t.gn)) * t.gm * t.gn
                    + (g % t.gm) * t.gn + (h % t.gn)
    IN  [gh \in (0..(Groups(prob.m) - 1)) \X (0..(Groups(prob.n) - 1)) |->
            words[prob.kern.layout.c + At(gh[1], gh[2])]]

-----------------------------------------------------------------------------
(* What the front ends are told of a run (the second half of sim.py, and   *)
(* the ladder of formats.py): the tiling and L1 off the program, the       *)
(* pictures and the tables of the error, and the verdict.  An error is a   *)
(* relative one, in per cent; FAR is that of an element nobody computed.   *)

(* Of the machine, besides: Hw.ladder, the rows and columns of the result  *)
(* the ladder is computed on; Hw.cells, the cells of a picture; Hw.rowsOf, *)
(* the rows of the table of the worst.                                     *)
FAR == 100
COST == 1     \* what the format of the machine costs against the exact result

Magnitude(v) == IF v < 0 THEN -v ELSE v
(* The k-th smallest value of f.                                           *)
Nth(f, k) ==
    CHOOSE v \in {f[x] : x \in DOMAIN f} :
        /\ Cardinality({x \in DOMAIN f : f[x] < v}) < k
        /\ k <= Cardinality({x \in DOMAIN f : f[x] <= v})

(* Twice the median: of an even number the two in the middle.              *)
P50(f) ==
    LET n == Cardinality(DOMAIN f)
    IN  Nth(f, (n + 1) \div 2) + Nth(f, (n + 2) \div 2)

Stats(rel) ==
    [p50 |-> P50(rel), max |-> Max({rel[x] : x \in DOMAIN rel}),
     over10 |-> Cardinality({x \in DOMAIN rel : rel[x] > 10}), n |-> Cardinality(DOMAIN rel)]

(* The answer beside the columns of the formats, on a corner of it.        *)
Ladder(rel) ==
    LET corner == {x \in DOMAIN rel : x[1] < Hw.ladder /\ x[2] < Hw.ladder}
        to     == Stats([x \in corner |-> rel[x]])
    IN  [distance |-> to.p50, cost |-> 2 * COST, excess |-> to.over10]

LadderChecks(lad) == {[name |-> "detach", gates |-> TRUE, pass |-> lad.distance < lad.cost],
                      [name |-> "excess", gates |-> TRUE, pass |-> lad.excess <= 0]}

(* The line says where the round stopped; the one after it what had retired. *)
Telemetry(log) ==
    LET Read(t, line) ==
            CASE line.kind = "ROUND-FAIL" -> [t EXCEPT !.fail = <<[round |-> line.round, pc |-> line.pc]>>]
              [] line.kind = "after" /\ t.fail # <<>> ->
                     [t EXCEPT !.where = <<[retired |-> line.retired, commands |-> line.commands]>>]
              [] line.kind = "ERROR" -> [t EXCEPT !.errors = @ + 1]
              [] OTHER -> t
    IN  FoldLeft(Read, [fail |-> <<>>, where |-> <<>>, errors |-> 0], log)

Finished(log) == \E i \in DOMAIN log : log[i].kind = "ORCH-OK"

(* Only the checks that gate decide.                                       *)
Verdict(ok, stats, tel, lad) ==
    LET checks == {[name |-> "finished", gates |-> TRUE, pass |-> ok],
                   [name |-> "answered", gates |-> TRUE, pass |-> stats.n # 0],
                   [name |-> "over10", gates |-> FALSE, pass |-> TRUE]}
                  \cup LadderChecks(lad)
                  \cup {c \in {[name |-> "assertions", gates |-> TRUE, pass |-> FALSE]} : tel.errors > 0}
    IN  [pass |-> \A c \in checks : c.gates => c.pass, checks |-> checks]

---------------------------------------------------------------------------
(* The pictures and the table.                                             *)

(* The smallest power of two with no more cells than a picture may have.   *)
HeatBlock(rows, cols) ==
    CHOOSE b \in {2 ^ e : e \in 0..6} :
        /\ CeilDiv(rows, b) * CeilDiv(cols, b) <= Hw.cells
        /\ b = 1 \/ CeilDiv(rows, b \div 2) * CeilDiv(cols, b \div 2) > Hw.cells

(* A block shows its largest value, or the one of largest magnitude; what  *)
(* is missing at the edge counts as zero.                                  *)
Heat(mat, rows, cols, how) ==
    LET b == HeatBlock(rows, cols)
        At(i, j) == IF i < rows /\ j < cols THEN mat[<<i, j>>] ELSE 0
        Block(r, c) == {At(i, j) : i \in (r * b)..(r * b + b - 1), j \in (c * b)..(c * b + b - 1)}
        Shown(vs) == IF how = "absmax"
                     THEN IF Max(vs) >= -Min(vs) THEN Max(vs) ELSE Min(vs)
                     ELSE Max(vs)
    IN  [block |-> b,
         data |-> [rc \in (0..(CeilDiv(rows, b) - 1)) \X (0..(CeilDiv(cols, b) - 1)) |->
                      Shown(Block(rc[1], rc[2]))]]

(* The largest errors, the worst first.                                    *)
Worst(rel) ==
    LET n == Cardinality(DOMAIN rel)
    IN  [i \in 1..Least(Hw.rowsOf, n) |-> Nth(rel, n + 1 - i)]

---------------------------------------------------------------------------
(* The schedule, off the program.                                          *)

(* The flits lent to a pass stand before its barrier.                      *)
Lent(p, i) == Len(p.flits) - p.lent <= i /\ i < Len(p.flits)

TilingReport(prob) ==
    LET kern == prob.kern
        all  == Passes(kern)
        RoundOf(i) == CHOOSE r \in DOMAIN kern.rounds :
                          LET before == FlattenSeq(SubSeq(kern.rounds, 1, r - 1))
                          IN  Len(before) < i /\ i <= Len(before) + Len(kern.rounds[r])
    IN  [i \in DOMAIN all |->
            [round |-> RoundOf(i), cluster |-> all[i].cluster,
             row0 |-> all[i].mo * kern.tile.gm,
             row1 |-> Least((all[i].mo + 1) * kern.tile.gm, Groups(prob.m)),
             col0 |-> all[i].no * kern.tile.gn,
             col1 |-> Least((all[i].no + 1) * kern.tile.gn, Groups(prob.n)),
             own |-> {j \in DOMAIN all[i].flits : ~Lent(all[i], j)}]]

(* The entries the first cluster fetches, against those its tiles need.    *)
L1Report(prob) ==
    LET kern == prob.kern
        mine == SelectSeq(Passes(kern), LAMBDA p : p.cluster = kern.clusters[1])
        Fetched(sel) == FoldLeft(LAMBDA n, p : FoldLeft(LAMBDA s, f :
                            IF f.op = "FILL" /\ f.sel = sel THEN s + f.n ELSE s, n, p.flits), 0, mine)
        mTiles == Cardinality({mine[i].mo : i \in DOMAIN mine})
        bands  == Cardinality({mine[i].no : i \in DOMAIN mine})
    IN  [a |-> [fetched |-> Fetched("A"), unique |-> mTiles * kern.l1.chunks * kern.l1.chunkA],
         b |-> [fetched |-> Fetched("B"), unique |-> bands * kern.l1.chunks * kern.l1.chunkB]]

(* The regions of the memory image.                                        *)
MemoryMap(prob) ==
    LET lay == prob.kern.layout
        Region(start, words) == [start |-> start, words |-> words]
    IN  [a |-> Region(lay.a, Groups(prob.m) * Blocks(prob.k) * EntryWords(prob.kern.preq.a)),
         b |-> Region(lay.b, Groups(prob.n) * Blocks(prob.k) * EntryWords(prob.kern.preq.b)),
         c |-> Region(lay.c, Groups(prob.m) * Groups(prob.n))]

(* Everything a front end is given: rel is the error of each element, got  *)
(* its value.                                                              *)
Payload(prob, got, rel, log) ==
    LET rows == Groups(prob.m)
        cols == Groups(prob.n)
        tel  == Telemetry(log)
    IN  [tiling |-> TilingReport(prob), l1 |-> L1Report(prob), memory |-> MemoryMap(prob),
         got |-> Heat(got, rows, cols, "absmax"), relErr |-> Heat(rel, rows, cols, "max"),
         worst |-> Worst(rel), telemetry |-> tel,
         verdict |-> Verdict(Finished(log), Stats(rel), tel, Ladder(rel))]
=============================================================================
