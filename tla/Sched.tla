-------------------------------- MODULE Sched --------------------------------
(***************************************************************************)
(* The schedule (ir/sched.py): bands of operations, each on one engine,     *)
(* with a tile and a grid of instances that covers the output with tiles.   *)
(* The number of a value stands for the value.  Unset is a field not set.   *)
(***************************************************************************)
EXTENDS Integers, Sequences
LOCAL INSTANCE FiniteSetsExt
LOCAL INSTANCE SequencesExt

CONSTANT L1_OFF_SPAN      \* entries the offset field of an instruction reaches
ASSUME SpanAssumption == L1_OFF_SPAN \in Nat \ {0}

Unset == <<>>

Tile(m, n, k) == [m |-> m, n |-> n, k |-> k]
Grid(m, n, sk) == [m |-> m, n |-> n, sk |-> sk]

GridSize(g) == g.m * g.n * g.sk

(* The instances in the order of the product of their ranges.               *)
Instances(g) ==
    [i \in 1 .. GridSize(g) |->
        [mo |-> (i - 1) \div (g.n * g.sk), no |-> ((i - 1) \div g.sk) % g.n, ko |-> (i - 1) % g.sk]]

(* Tiles overshoot the output by less than a tile: a gap would leave what   *)
(* was there, and an instance beyond the output would have no work.         *)
Covers(g, m, n, tile) ==
    /\ g.m * tile.m >= m
    /\ g.n * tile.n >= n
    /\ (g.m - 1) * tile.m < m
    /\ (g.n - 1) * tile.n < n

SchedOp(kind, attrs, ins, out, offs, strides, runs) ==
    [kind |-> kind, attrs |-> attrs, ins |-> ins, out |-> out,
     offs |-> offs, strides |-> strides, runs |-> runs]

Band(engine, grid, tile, ops) ==
    [engine |-> engine, grid |-> grid, tile |-> tile, ops |-> ops, residency |-> FALSE,
     reduces |-> Unset, consumes |-> Unset, ext |-> <<>>, elems |-> <<>>, windows |-> <<>>,
     shape |-> <<>>, name |-> Unset]

(* How many instances of a consumer share a tile of its producer: the set   *)
(* of the (rows, columns) factors, empty when the grids do not correspond.  *)
Correspondence(p, c) ==
    LET sm == c.grid.m \div p.grid.m
        sn == c.grid.n \div p.grid.n
    IN  IF /\ c.grid.sk = 1
           /\ c.grid.m % p.grid.m = 0
           /\ c.grid.n % p.grid.n = 0
           /\ c.tile.m * sm = p.tile.m
           /\ c.tile.n * sn = p.tile.n
        THEN {<<sm, sn>>} ELSE {}

Schedule == [bands |-> <<>>, outputs |-> <<>>]

Add(sched, band) ==
    [sched EXCEPT !.bands = Append(@, IF band.name # Unset THEN band
                                      ELSE [band EXCEPT !.name = <<"b", Len(sched.bands)>>])]

(* What verify() demands: names are distinct, partial sums are reduced on   *)
(* the vector core, and a band that consumes a resident tile comes after    *)
(* the matmul that leaves it and walks its tiles.                           *)
Verify(sched) ==
    LET bands == sched.bands
        Named(name) == {i \in DOMAIN bands : bands[i].name = name}
    IN  /\ IsInjective([i \in DOMAIN bands |-> bands[i].name])
        /\ \A i \in DOMAIN bands :
             LET b == bands[i]
                 reducers == {r \in DOMAIN bands : bands[r].reduces = b.name}
             IN  /\ b.engine = "matmul" /\ b.grid.sk > 1 =>
                        /\ reducers # {}
                        /\ \A r \in reducers : bands[r].engine = "vector"
                 /\ b.reduces # Unset => Named(b.reduces) # {}
                 /\ b.consumes # Unset =>
                        \E j \in Named(b.consumes) :
                            /\ j < i
                            /\ bands[j].engine = "matmul"
                            /\ b.engine = "vector"
                            /\ bands[j].grid.sk = 1
                            /\ Correspondence(bands[j], b) # {}

-----------------------------------------------------------------------------
(* The tile of a matrix product and the grid over it (passes/tile.py), on a *)
(* machine description (target.py): tiles, L1 entries and cores it has.     *)

Block(t, gm, gn) == <<gm * t.lanes, gn * t.lanes>>

_ceil_to(v, q) == ((v + q - 1) \div q) * q

AtLeast(lo, v) == IF v > lo THEN v ELSE lo
AtMost(hi, v) == IF v < hi THEN v ELSE hi

(* Powers of two of sub-tiles that fit the accumulator, each with as many   *)
(* blocks of K as a bank of L1 holds for both sides.  The score is the      *)
(* arithmetic intensity times the useful share of the padded problem, in    *)
(* units of 1/4096.                                                         *)
Candidate(m, k, n, t, gm, gn) ==
    LET bank_a == AtMost(L1_OFF_SPAN, t.l1_a \div t.l1_a_banks)
        bank_b == AtMost(L1_OFF_SPAN, t.l1_b \div t.l1_a_banks)
        nk == AtMost(AtLeast(1, k \div t.kblock), AtMost(bank_b \div gn, bank_a \div gm))
        tile == Tile(Block(t, gm, gn)[1], Block(t, gm, gn)[2], nk * t.kblock)
        useful == m * k * n
        padded == _ceil_to(m, tile.m) * _ceil_to(k, tile.k) * _ceil_to(n, tile.n)
    IN  [gm |-> gm, gn |-> gn, nk |-> nk, tile |-> tile,
         score |-> IF nk < 1 THEN 0
                   ELSE (4 * gm * gn * useful * 4096 + (gm + gn) * padded)
                        \div (2 * (gm + gn) * padded)]

(* The set of the tile chosen, empty when none fits.  Of equal scores the   *)
(* one of more K blocks wins, then the squarer, then the first tried.       *)
ChooseTile(m, k, n, t) ==
    LET sizes == {2 ^ e : e \in 0 .. 11} \cap 1 .. t.tiles
        cands == {c \in {Candidate(m, k, n, t, gm, gn) : gm, gn \in sizes} :
                    c.gm * c.gn <= t.tiles /\ c.nk >= 1}
        Skew(c) == AtLeast(c.gm - c.gn, c.gn - c.gm)
        Key(c) == <<c.score, c.nk, -Skew(c), -c.gm, -c.gn>>
        Beats(c, d) == \E i \in 1 .. 5 : /\ Key(c)[i] > Key(d)[i]
                                         /\ \A j \in 1 .. i - 1 : Key(c)[j] = Key(d)[j]
    IN  {c \in cands : \A d \in cands \ {c} : Beats(c, d)}

(* The grid that covers an m x n output, empty where none does.             *)
GridFor(m, n, tile, sk) ==
    LET g == Grid(_ceil_to(m, tile.m) \div tile.m, _ceil_to(n, tile.n) \div tile.n, sk)
    IN  IF Covers(g, m, n, tile) THEN {g} ELSE {}

(* A consumer of resident tiles splits every tile by rows until it fills    *)
(* the vector cores, while a slice still fills the machine.                 *)
EpilogueGrid(p, t) ==
    LET Splits(sm) ==
            LET rows == p.tile.m \div (sm * 2)
            IN  /\ GridSize(p.grid) * sm * 2 <= AtLeast(1, t.vector_cores)
                /\ p.tile.m % (sm * 2) = 0
                /\ rows % t.lanes = 0
                /\ rows * p.tile.n >= t.vlmax
        sm == CHOOSE s \in {2 ^ e : e \in 0 .. 11} :
                ~Splits(s) /\ \A r \in {2 ^ e : e \in 0 .. 11} : r < s => Splits(r)
    IN  [grid |-> Grid(p.grid.m * sm, p.grid.n, 1), tile |-> Tile(p.tile.m \div sm, p.tile.n, 1)]
=============================================================================
