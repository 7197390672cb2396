------------------------------ MODULE MCSession ------------------------------
EXTENDS Session
LOCAL INSTANCE TLC

Unit(kind, version) == [kind |-> kind, version |-> version]
SmallHw == [nodes |-> <<1, 1>> :> Unit("MG", 3) @@ <<2, 1>> :> Unit("MG", 3)
                      @@ <<1, 2>> :> Unit("VC", 3) @@ <<2, 2>> :> Unit("VC", 3),
            agent |-> <<0, 1>>, grid |-> <<3, 3>>, depth |-> 2, wrap |-> 16, stage |-> 6, rx |-> 2,
            words |-> 20, cycles |-> 32, chunk |-> 2, tries |-> 3, shifts |-> 3, tags |-> 32, align |-> 2]

Board(clusters, vectors, version, st) ==
    [clusters |-> clusters, vectors |-> vectors, version |-> version, stage |-> st,
     grid |-> <<3, 3>>, words |-> 14]
Usual == Board(<<<<1, 1>>, <<2, 1>>>>, <<<<1, 2>>, <<2, 2>>>>, 3, 6)
One   == Board(<<<<1, 1>>>>, <<>>, 3, 6)
Old   == [Usual EXCEPT !.version = 2]
Wrong == Board(<<<<1, 1>>, <<0, 2>>>>, <<<<2, 1>>>>, 3, 6)
Other == [Usual EXCEPT !.grid = <<4, 3>>]
Tight == [Usual EXCEPT !.stage = 2]

Pci(board, script) == [script |-> script, board |-> board, late |-> 0, faults |-> 0, lag |-> -1,
                       realign |-> FALSE, scratch |-> 14]
Jtag(lag, realign, script) ==
    [Pci(Usual, script) EXCEPT !.lag = lag, !.realign = realign]

RunOf(n, use, profile) == [m |-> "run", n |-> n, use |-> use, profile |-> profile,
                           image |-> [i \in 1..n |-> 10 * i]]
PutAt(word, data) == [m |-> "put", word |-> word, data |-> data]
GetAt(word, n) == [m |-> "get", word |-> word, n |-> n]
Gemm(a, c, n, use) == [m |-> "gemm", a |-> a, c |-> c, n |-> n, use |-> use]
Vmap(node, src, dst, peer) == [m |-> "vmap", node |-> node, src |-> src, dst |-> dst, add |-> 3,
                               peer |-> peer, loaded |-> TRUE]
Push(node, data) == [m |-> "push", node |-> node, data |-> data, buf |-> 0]
Alloc(n) == [m |-> "alloc", n |-> n]
Free(b) == [m |-> "free", buf |-> b]
CopyIn(b, data) == [m |-> "copyin", buf |-> b, data |-> data]
CopyOut(b, n) == [m |-> "copyout", buf |-> b, n |-> n]
Launch(a, b, c, n) == [m |-> "launch", a |-> a, b |-> b, c |-> c, n |-> n]
Sweep == [m |-> "sweep"]
Check == [m |-> "check"]

RunTwice  == Pci(Usual, <<RunOf(2, 1, FALSE), RunOf(3, 2, TRUE), GetAt(3, 2)>>)
PeerRun   == Pci(Usual, <<PutAt(8, <<5>>), Vmap(<<1, 2>>, 8, 9, TRUE), RunOf(3, 2, FALSE)>>)
Chained   == Pci(Usual, <<PutAt(0, <<4, 5>>), Gemm(0, 4, 2, 2), Vmap(<<1, 2>>, 4, 8, FALSE), GetAt(8, 1)>>)
Windows   == Pci(Tight, <<PutAt(0, <<4>>), Vmap(<<2, 2>>, 0, 1, FALSE), GetAt(1, 1)>>)
Unloaded  == Pci(Usual, <<PutAt(0, <<4>>), [Vmap(<<1, 2>>, 0, 1, FALSE) EXCEPT !.loaded = FALSE]>>)
Pushed    == Pci(Usual, <<Push(<<1, 2>>, <<7, 8>>), Vmap(<<1, 2>>, FromL1, 1, FALSE), GetAt(1, 1)>>)
PushWrong == Pci(Usual, <<PutAt(8, <<5>>), [Push(<<1, 2>>, <<7>>) EXCEPT !.buf = 1], Vmap(<<1, 2>>, FromL1, 9, FALSE),
                          Vmap(<<1, 2>>, 8, 9, FALSE), GetAt(9, 1)>>)
PushLong  == Pci(Usual, <<Push(<<1, 2>>, <<7, 8, 9, 9, 9, 9>>)>>)
Buffers   == Pci(Usual, <<Alloc(3), Alloc(2), Alloc(1), Free(2), Free(1), Alloc(5), CopyOut(4, 2),
                          CopyIn(4, <<6, 7>>), Launch(4, 3, 3, 2), CopyOut(3, 2), Free(3), Free(4), Alloc(14)>>)
Fragments == Pci(Usual, <<Alloc(2), Alloc(1), Alloc(2), Alloc(2), Alloc(2), Free(1), Free(3), Free(2), Alloc(0),
                          Free(5), Alloc(4), Alloc(3), Free(4), Alloc(1)>>)
Misused   == Pci(Usual, <<Alloc(2), Alloc(12), Alloc(1), Free(1), Free(1), CopyOut(1, 1), CopyIn(2, <<1, 1>>),
                          Launch(2, 1, 2, 1), RunOf(8, 2, FALSE), RunOf(1, 3, FALSE), Gemm(0, 1, 8, 1)>>)
Strange   == Pci(Wrong, <<Sweep, Check>>)
Outdated  == Pci(Old, <<Check>>)
Foreign   == Pci(Other, <<RunOf(1, 1, FALSE)>>)
LateSweep == [Pci(Usual, <<Sweep>>) EXCEPT !.late = 1]
LateCheck == [Pci(Usual, <<Check, Check>>) EXCEPT !.late = 1]
LateRun   == [Pci(One, <<RunOf(1, 1, TRUE)>>) EXCEPT !.late = 1]
LateKernel == [Pci(Usual, <<PutAt(8, <<5>>), Vmap(<<1, 2>>, 8, 9, FALSE), RunOf(3, 2, FALSE)>>)
                  EXCEPT !.late = 1]
LatePush  == [Pci(Usual, <<Push(<<1, 2>>, <<7, 8>>), RunOf(2, 2, FALSE)>>) EXCEPT !.late = 1]
Falters   == [Pci(Usual, <<PutAt(0, <<3, 4, 5>>), GetAt(0, 3)>>) EXCEPT !.faults = 3]
Straight  == Jtag(0, FALSE, <<PutAt(0, <<3, 4, 5>>), GetAt(0, 3)>>)
Skewed    == Jtag(1, FALSE, <<PutAt(0, <<3, 4, 5>>)>>)
Realigned == Jtag(2, TRUE, <<PutAt(0, <<3, 4, 5>>), PutAt(3, <<6, 7>>), GetAt(0, 5), PutAt(5, <<8>>)>>)

T(name, n, kind) == [name |-> name, n |-> n, kind |-> kind, layout |-> "flat"]
S(reads, writes) == [reads |-> reads, writes |-> writes, wants |-> {}]
Network == [words |-> 10, reuse |-> TRUE,
            tensors |-> <<T("w", 2, "weight"), T("x", 2, "input"), T("h", 3, "act"), T("g", 2, "act"),
                          T("y", 2, "output")>>,
            steps |-> <<S(<<"x", "w">>, <<"h">>), S(<<"h">>, <<"g">>), S(<<"g", "w">>, <<"y">>)>>]
Reused  == [words |-> 9, reuse |-> TRUE,
            tensors |-> <<T("x", 2, "input"), T("h", 2, "act"), T("q", 1, "act"), T("g", 2, "act"),
                          T("p", 1, "act"), T("y", 2, "output")>>,
            steps |-> <<S(<<"x">>, <<"h", "q">>), S(<<"h", "q">>, <<"g">>), S(<<"g">>, <<"h">>),
                        S(<<"h", "g">>, <<"p", "y">>), S(<<"p">>, <<"y">>)>>]
Apart   == [Network EXCEPT !.reuse = FALSE, !.words = 11]
Planned(plan, order) == Pci(Usual, <<[m |-> "plan", plan |-> plan, order |-> order]>>)
Badly   == {[Network EXCEPT !.words = 6], [Network EXCEPT !.steps[1].reads = <<"g">>],
            [Network EXCEPT !.steps[1].wants = {[name |-> "x", layout |-> "tile"]}],
            [Network EXCEPT !.tensors = Append(@, T("z", 2, "act"))]}
Orders == {<<1, 2, 3>>, <<2, 1, 3>>, <<1, 3, 2>>, <<1, 2, 1, 3>>, <<1, 2, 2, 3>>}
Issues == {o \in [1..5 -> 1..5] : o[1] = 1 /\ Cardinality({o[i] : i \in 1..5}) = 5}

SomeSessions ==
    {RunTwice, PeerRun, Chained, Windows, Unloaded, Pushed, PushWrong, PushLong, Buffers, Fragments, Misused, Strange, Outdated,
     Foreign, LateSweep, LateCheck, LateRun, LateKernel, LatePush, Falters, Straight, Skewed, Realigned, Planned(Apart, <<1, 2, 3>>)}
    \cup {Planned(Network, order) : order \in Orders} \cup {Planned(Reused, order) : order \in Issues}
    \cup {Planned(plan, <<1>>) : plan \in Badly}
==============================================================================
