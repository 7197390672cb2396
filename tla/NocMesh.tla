------------------------------ MODULE NocMesh ------------------------------
(***************************************************************************)
(* A mesh of routers and the endpoints around it                           *)
(* (src/src/kohakunoc/noc_router.v, noc_inport.v, noc_outport.v).          *)
(*                                                                         *)
(* A flit passes, in each router, an input FIFO, the input's holding slot  *)
(* and an output register.  A clock edge moves many flits one place; here  *)
(* each move is a step of its own.  Any clock edge is such a sequence      *)
(* (what leaves the output registers, then what is granted, then what is   *)
(* loaded), because a FIFO full before the edge refuses although it is     *)
(* popped at the edge.  The round robin pointer of an output advances in   *)
(* every cycle, used or not: which request it favours when one is granted  *)
(* is left open.                                                           *)
(***************************************************************************)
EXTENDS Integers, Sequences

-----------------------------------------------------------------------------
(* Where a router sends a flit (src/src/kohakunoc/noc_inport.v), which     *)
(* turns its output ports do not listen for (noc_router.v), and how ports  *)
(* are wired to each other and to the endpoints of a generated mesh        *)
(* (src/scripts/py/gen_mesh.py).                                           *)
(*                                                                         *)
(* Routers occupy a rectangle.  An endpoint sits on a router's local port, *)
(* or just outside the rectangle, where it has the coordinate the missing  *)
(* neighbour would have had.                                               *)

CONSTANTS GRID_LO, GRID_X_HI, GRID_Y_HI

ASSUME GridAssumption ==
  /\ GRID_LO \in Nat \ {0} /\ GRID_X_HI \in Nat /\ GRID_Y_HI \in Nat
  /\ GRID_LO <= GRID_X_HI /\ GRID_LO <= GRID_Y_HI

Router == (GRID_LO .. GRID_X_HI) \X (GRID_LO .. GRID_Y_HI)
Dir    == {"N", "E", "S", "W", "L"}
Port   == Router \X Dir      \* an input and an output of each of these

(* A coordinate with an endpoint or a router: the corners have neither.    *)
Coord ==
  {c \in (GRID_LO - 1 .. GRID_X_HI + 1) \X (GRID_LO - 1 .. GRID_Y_HI + 1) :
     c[1] \in GRID_LO .. GRID_X_HI \/ c[2] \in GRID_LO .. GRID_Y_HI}

Opposite(d) == CASE d = "N" -> "S" [] d = "S" -> "N" [] d = "E" -> "W"
                 [] d = "W" -> "E" [] d = "L" -> "L"

(* What is on the other side of port p: a router, or an endpoint.          *)
Beyond(p) ==
  LET x == p[1][1]
      y == p[1][2]
  IN  CASE p[2] = "N" -> <<x, y - 1>> [] p[2] = "S" -> <<x, y + 1>>
        [] p[2] = "E" -> <<x + 1, y>> [] p[2] = "W" -> <<x - 1, y>>
        [] p[2] = "L" -> p[1]

Link(p) == p[2] # "L" /\ Beyond(p) \in Router
Far(p)  == <<Beyond(p), Opposite(p[2])>>   \* the input that output p drives

Clamp1(v, lo, hi) == IF v < lo THEN lo ELSE IF v > hi THEN hi ELSE v
Clamp(c) == <<Clamp1(c[1], GRID_LO, GRID_X_HI), Clamp1(c[2], GRID_LO, GRID_Y_HI)>>

\* Mutant of Route: the destination is not clamped into the grid.
RouteUnclamped(r, dst) ==
  IF dst[1] < r[1] THEN "W" ELSE IF dst[1] > r[1] THEN "E"
  ELSE IF dst[2] < r[2] THEN "N" ELSE IF dst[2] > r[2] THEN "S" ELSE "L"

(***************************************************************************)
(* Dimension order on the clamped destination, x first; the outward hop to *)
(* an endpoint beside the grid only from the router it hangs off.          *)
(***************************************************************************)
Route(r, dst) ==
  LET c  == Clamp(dst)
      at == c = r
  IN  IF c[1] < r[1] \/ (at /\ dst[1] < r[1]) THEN "W"
      ELSE IF c[1] > r[1] \/ (at /\ dst[1] > r[1]) THEN "E"
      ELSE IF c[2] < r[2] \/ (at /\ dst[2] < r[2]) THEN "N"
      ELSE IF c[2] > r[2] \/ (at /\ dst[2] > r[2]) THEN "S"
      ELSE "L"

(* An endpoint's flits enter by the side its flits leave by.               *)
Attach(e) == <<Clamp(e), Route(Clamp(e), e)>>

\* Mutant of Kill: the turns from the y links die in the boundary column too.
KillColumn(p) ==
  CASE p[2] = "N" -> IF Link(p) THEN {"N", "W", "E"} ELSE {}
    [] p[2] = "S" -> IF Link(p) THEN {"S", "W", "E"} ELSE {}
    [] p[2] = "W" -> IF Link(p) THEN {"W"} ELSE {}
    [] p[2] = "E" -> IF Link(p) THEN {"E"} ELSE {}
    [] p[2] = "L" -> {}

(* The turns masked off: what a flit from a neighbouring router has no     *)
(* reason to ask for, it having been routed there.                         *)
Kill(p) ==
  LET Rtr(d) == Link(<<p[1], d>>)
  IN  CASE p[2] = "N" -> IF Rtr("N") THEN {"N"} \cup {d \in {"W", "E"} : Rtr(d)} ELSE {}
        [] p[2] = "S" -> IF Rtr("S") THEN {"S"} \cup {d \in {"W", "E"} : Rtr(d)} ELSE {}
        [] p[2] = "W" -> IF Rtr("W") THEN {"W"} ELSE {}
        [] p[2] = "E" -> IF Rtr("E") THEN {"E"} ELSE {}
        [] p[2] = "L" -> {}

(***************************************************************************)
(* Why that is so, and why nothing waits in a circle: what is known of the *)
(* destination t of a flit that input i had from a neighbour, and an order *)
(* of the inputs that every route ascends.                                 *)
(***************************************************************************)
Entered(i, t) ==
  LET c == Clamp(t)
      r == i[1]
  IN  Link(i) => CASE i[2] = "W" -> c[1] >= r[1]
                   [] i[2] = "E" -> c[1] <= r[1]
                   [] i[2] = "N" -> c[1] = r[1] /\ c[2] >= r[2]
                   [] i[2] = "S" -> c[1] = r[1] /\ c[2] <= r[2]

Rank(i) ==
  IF ~Link(i) THEN 0
  ELSE CASE i[2] = "W" -> i[1][1] - GRID_LO
         [] i[2] = "E" -> GRID_X_HI - i[1][1]
         [] i[2] = "N" -> GRID_X_HI - GRID_LO + i[1][2] - GRID_LO
         [] i[2] = "S" -> GRID_X_HI - GRID_LO + GRID_Y_HI - i[1][2]

-----------------------------------------------------------------------------

CONSTANTS
  FIFO_DEPTH,
  Flow,        \* pairs of endpoints: who sends to whom
  MaxFlits     \* bound: flits sent on each flow

ASSUME MeshAssumption ==
  /\ FIFO_DEPTH \in Nat \ {0}
  /\ Flow \subseteq Coord \X Coord
  /\ MaxFlits \in Nat

VARIABLES
  fifo,   \* fifo[p]: the input FIFO of port p
  hold,   \* hold[p]: its holding slot
  out,    \* out[p]: the output register of port p
  sent, got   \* flits of each flow sent, and delivered to its destination

vars == <<fifo, hold, out, sent, got>>

NoFlit == [flow |-> <<>>, n |-> 0]
Flit   == [flow : Flow, n : 1 .. MaxFlits]
Dst(f) == f.flow[2]

Init ==
  /\ fifo = [p \in Port |-> <<>>]
  /\ hold = [p \in Port |-> NoFlit]
  /\ out  = [p \in Port |-> NoFlit]
  /\ sent = [w \in Flow |-> 0]
  /\ got  = [w \in Flow |-> 0]

-----------------------------------------------------------------------------
Busy(p) == Len(fifo[p]) >= FIFO_DEPTH

(* An endpoint sends: it holds the flit until the port is not busy.        *)
Inject(w) ==
  LET p == Attach(w[1])
  IN  /\ sent[w] < MaxFlits
      /\ ~Busy(p)
      /\ fifo' = [fifo EXCEPT ![p] = Append(@, [flow |-> w, n |-> sent[w] + 1])]
      /\ sent' = [sent EXCEPT ![w] = @ + 1]
      /\ UNCHANGED <<hold, out, got>>

(* The head of an input FIFO moves to the free holding slot.               *)
CanLoad(p) == fifo[p] # <<>> /\ hold[p] = NoFlit

Load(p) ==
  /\ CanLoad(p)
  /\ hold' = [hold EXCEPT ![p] = Head(fifo[p])]
  /\ fifo' = [fifo EXCEPT ![p] = Tail(@)]
  /\ UNCHANGED <<out, sent, got>>

(* Input i of the same router as output p asks for p, and is listened to.  *)
Inputs(p) == {<<p[1], d>> : d \in Dir}

Requests(i, p) ==
  /\ hold[i] # NoFlit
  /\ Route(i[1], Dst(hold[i])) = p[2]
Granted(i, p) == Requests(i, p) /\ p[2] \notin Kill(i) /\ out[p] = NoFlit

GrantKeep(i, p) ==   \* mutant of Grant: the holding slot is not freed
  /\ Granted(i, p)
  /\ out' = [out EXCEPT ![p] = hold[i]]
  /\ UNCHANGED <<fifo, hold, sent, got>>

Grant(i, p) ==
  /\ Granted(i, p)
  /\ out'  = [out EXCEPT ![p] = hold[i]]
  /\ hold' = [hold EXCEPT ![i] = NoFlit]
  /\ UNCHANGED <<fifo, sent, got>>

(* A flit stays in its output register until a cycle in which the receiver *)
(* is not busy.                                                            *)
CanSend(p) == out[p] # NoFlit /\ Link(p) /\ ~Busy(Far(p))

Send(p) ==
  /\ CanSend(p)
  /\ fifo' = [fifo EXCEPT ![Far(p)] = Append(@, out[p])]
  /\ out'  = [out EXCEPT ![p] = NoFlit]
  /\ UNCHANGED <<hold, sent, got>>

CanDeliver(p) == out[p] # NoFlit /\ ~Link(p)

Deliver(p) ==
  /\ CanDeliver(p)
  /\ out' = [out EXCEPT ![p] = NoFlit]
  /\ got' = IF Dst(out[p]) = Beyond(p)
            THEN [got EXCEPT ![out[p].flow] = @ + 1] ELSE got
  /\ UNCHANGED <<fifo, hold, sent>>

Next ==
  \/ \E w \in Flow : Inject(w)
  \/ \E p \in Port : \/ Load(p) \/ Send(p) \/ Deliver(p)
                    \/ \E i \in Inputs(p) : Grant(i, p)

Spec == Init /\ [][Next]_vars

(***************************************************************************)
(* Fairness: something moves in the mesh when something can, registers     *)
(* being clocked and endpoints taking what they are sent.  Traffic is      *)
(* finite here, so nothing more is needed; with endless traffic an input   *)
(* is not even sure of its turn (README).                                  *)
(***************************************************************************)
LiveSpec == Spec /\ WF_vars(Next)

-----------------------------------------------------------------------------
TypeOK ==
  /\ fifo \in [Port -> Seq(Flit)]
  /\ \A p \in Port : Len(fifo[p]) <= FIFO_DEPTH
  /\ {hold, out} \subseteq [Port -> Flit \cup {NoFlit}]
  /\ sent \in [Flow -> 0 .. MaxFlits] /\ got \in [Flow -> Nat]

(* What the routing of a flit has established by the place it is in.       *)
AllEntered(p, fs) == \A k \in DOMAIN fs : Entered(p, Dst(fs[k]))

Routed ==
  \A p \in Port :
    /\ AllEntered(p, fifo[p])
    /\ hold[p] # NoFlit => Entered(p, Dst(hold[p]))
    /\ out[p] # NoFlit => Route(p[1], Dst(out[p])) = p[2]

(* The inductive invariant behind the theorems of NocMeshTheorems.         *)
MInv == TypeOK /\ Routed

(* No flit is held that asks for a turn its router has masked: it would    *)
(* never be granted, and the fabric would wedge behind it (the assertion   *)
(* of noc_router.v lines 280-305).                                         *)
TurnsLegal ==
  \A i \in Port : hold[i] # NoFlit => Route(i[1], Dst(hold[i])) \notin Kill(i)

(* What leaves the mesh leaves it at its destination.                      *)
HomeOnly == \A p \in Port : CanDeliver(p) => Beyond(p) = Dst(out[p])

(* While there is a flit in the mesh, one can move: no cycle of full FIFOs,*)
(* whatever the depth of the FIFOs (docs/arch/noc/routing.md).             *)
Occupied == \E p \in Port : fifo[p] # <<>> \/ hold[p] # NoFlit \/ out[p] # NoFlit
Movable ==
  \/ \E p \in Port : CanLoad(p) \/ CanSend(p) \/ CanDeliver(p)
  \/ \E p \in Port : \E i \in Inputs(p) : Granted(i, p)
NoDeadlock == Occupied => Movable

(* Everything sent arrives.                                                *)
Delivered == <>(\A w \in Flow : got[w] = MaxFlits)

(***************************************************************************)
(* The flits of a flow, on their way.  A slot is a register or a place in  *)
(* a FIFO, numbered from where flits leave the router.                     *)
(***************************************************************************)
Slot == Port \X (0 .. FIFO_DEPTH + 1)

At(l) ==
  LET p == l[1]
      k == l[2]
  IN  IF k = 0 THEN out[p]
      ELSE IF k = 1 THEN hold[p]
      ELSE IF k - 1 <= Len(fifo[p]) THEN fifo[p][k - 1]
      ELSE NoFlit

Here(w) == {l \in Slot : At(l).flow = w}

(* The hops from router r to the one that endpoint t hangs off.            *)
Gap(a, b) == IF a < b THEN b - a ELSE a - b
ToGo(r, t) == Gap(r[1], Clamp(t)[1]) + Gap(r[2], Clamp(t)[2])

(* A flit bound for t is nearer to it in slot l than in m, with nothing    *)
(* but slots of one line of registers between them in a router.            *)
Ahead(t, l, m) ==
  \/ ToGo(l[1][1], t) < ToGo(m[1][1], t)
  \/ l[1][1] = m[1][1] /\ l[2] < m[2] /\ (l[2] = 0 \/ l[1] = m[1])

(* Delivery is lossless, without duplicates and in order for each pair of  *)
(* endpoints (tests/noc/noc_mesh_tb.v): the flits sent and not yet got are *)
(* in the mesh, each in one slot, an older one ahead of a younger.  The    *)
(* memory gateway reassembles writes by counting flits.                    *)
Intact(w) ==
  /\ got[w] <= sent[w]
  /\ {At(l).n : l \in Here(w)} = got[w] + 1 .. sent[w]
  /\ \A l, m \in Here(w) :
       l # m => \/ At(l).n < At(m).n /\ Ahead(w[2], l, m)
                \/ At(m).n < At(l).n /\ Ahead(w[2], m, l)

FlowIntact == \A w \in Flow : Intact(w)

(* The inputs a flit of flow w passes: along the row of the router it      *)
(* enters by, then along the column of its destination's.                  *)
Passes(w, i) ==
  LET s == Clamp(w[1])
      c == Clamp(w[2])
      x == i[1][1]
      y == i[1][2]
  IN  \/ i = Attach(w[1])
      \/ i[2] = "W" /\ y = s[2] /\ s[1] < x /\ x <= c[1]
      \/ i[2] = "E" /\ y = s[2] /\ s[1] > x /\ x >= c[1]
      \/ i[2] = "N" /\ x = c[1] /\ s[2] < y /\ y <= c[2]
      \/ i[2] = "S" /\ x = c[1] /\ s[2] > y /\ y >= c[2]

OnWay(w, l) ==
  \E i \in Port : i[1] = l[1][1] /\ Passes(w, i) /\ (l[2] > 0 => i = l[1])

OnTheWay == \A w \in Flow : \A l \in Here(w) : OnWay(w, l)

(* The inductive invariant behind it.                                      *)
FInv == MInv /\ OnTheWay /\ FlowIntact

=============================================================================
