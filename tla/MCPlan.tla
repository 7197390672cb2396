-------------------------------- MODULE MCPlan --------------------------------
EXTENDS PlanRun
LOCAL INSTANCE TLC

SmallHw == [lanes |-> 2, kblock |-> 2, fp |-> 2, mx |-> 1, burst |-> 2, field |-> 8,
            words |-> 128, hostWords |-> 96, ncmd |-> 20, depth |-> 4, wrap |-> 256,
            maxRows |-> 2, maxCols |-> 2, ladder |-> 8, cells |-> 4, rowsOf |-> 3,
            precision |-> 64]

Caps(tiles, l1a, l1b, stage) ==
    [tiles |-> tiles, l1a |-> l1a, l1b |-> l1b, banks |-> 2, stage |-> stage]
Plain == [m |-> 4, k |-> 8, n |-> 4, ncl |-> 1, use |-> 1, packing |-> "spread", split |-> FALSE,
          preq |-> [a |-> FALSE, b |-> FALSE], caps |-> Caps(1, 4, 4, 16), fault |-> "none", how |-> "tiled"]

OneColumn   == [k |-> 4] @@ Plain
NotResident == [k |-> 8, caps |-> Caps(1, 3, 3, 24)] @@ Plain
Barrier     == [k |-> 2, n |-> 8, caps |-> Caps(2, 4, 4, 6)] @@ Plain
Quantised   == [m |-> 3, k |-> 4, preq |-> [a |-> TRUE, b |-> FALSE], split |-> TRUE,
                caps |-> Caps(1, 2, 2, 12)] @@ Plain
LongFill    == [m |-> 8, k |-> 8, n |-> 4, caps |-> Caps(4, 16, 16, 16)] @@ Plain
TwoRows     == [m |-> 4, k |-> 4, n |-> 4, ncl |-> 3, use |-> 2, caps |-> Caps(1, 4, 4, 16)] @@ Plain
TwoPacked   == [packing |-> "packed", k |-> 2] @@ TwoRows
Three       == [m |-> 6, k |-> 4, n |-> 4, ncl |-> 3, use |-> 3, caps |-> Caps(1, 2, 2, 24),
                preq |-> [a |-> FALSE, b |-> TRUE]] @@ Plain
Stops       == [n |-> 2, fault |-> "hang"] @@ TwoRows
Loses       == [k |-> 4, fault |-> "lose"] @@ Plain

Together    == [how |-> "together", ncl |-> 2, use |-> 2, m |-> 4, k |-> 4, n |-> 8] @@ Plain
InTurn      == [how |-> "turns", k |-> 4] @@ Plain

Refused == {[ncl |-> 5] @@ Plain, [use |-> 2] @@ Plain, [packing |-> "none"] @@ Plain,
            [m |-> 1] @@ Plain, [m |-> 16, k |-> 16, n |-> 16] @@ Plain,
            [k |-> 36] @@ Plain, [m |-> 2, k |-> 40, n |-> 2, caps |-> Caps(1, 4, 32, 64)] @@ Plain}

SomeAsks == Refused \cup {OneColumn, NotResident, Barrier, Quantised, LongFill, TwoRows, TwoPacked,
                          Three, Together, InTurn, Stops, Loses}
==============================================================================
