--------------------------- MODULE NocMeshTheorems ---------------------------
(***************************************************************************)
(* The mesh, for every size, FIFO depth and traffic: no flit asks for a    *)
(* turn its router has masked, none leaves at the wrong endpoint, and the  *)
(* FIFOs cannot fill in a circle.                                          *)
(***************************************************************************)
EXTENDS NocMesh, WellFoundedInduction, TLAPS

-----------------------------------------------------------------------------
(***************************************************************************)
(* Routing.                                                                *)
(***************************************************************************)

(* A coordinate is a pair of numbers, not both outside the grid.           *)
LEMMA CoordParts ==
  ASSUME NEW c \in Coord
  PROVE  /\ c = <<c[1], c[2]>>
         /\ c[1] \in GRID_LO - 1 .. GRID_X_HI + 1
         /\ c[2] \in GRID_LO - 1 .. GRID_Y_HI + 1
         /\ c[1] \in GRID_LO .. GRID_X_HI \/ c[2] \in GRID_LO .. GRID_Y_HI
  BY DEF Coord

(* A router is a pair of numbers, both in the grid.                        *)
LEMMA RouterParts ==
  ASSUME NEW r \in Router
  PROVE  r = <<r[1], r[2]>> /\ r[1] \in GRID_LO .. GRID_X_HI /\ r[2] \in GRID_LO .. GRID_Y_HI
  BY DEF Router

(* A clamped coordinate is a router.                                       *)
LEMMA ClampInGrid ==
  ASSUME NEW t \in Coord
  PROVE  /\ Clamp(t) \in Router
         /\ Clamp(t) = <<Clamp(t)[1], Clamp(t)[2]>>
         /\ Clamp(t)[1] = Clamp1(t[1], GRID_LO, GRID_X_HI)
         /\ Clamp(t)[2] = Clamp1(t[2], GRID_LO, GRID_Y_HI)
  BY CoordParts, GridAssumption DEF Clamp, Clamp1, Router

(* A route is one of the five directions.                                  *)
LEMMA RouteDir ==
  ASSUME NEW r, NEW t PROVE Route(r, t) \in Dir
  BY DEF Route, Dir

(* A flit that leaves the grid leaves it where it is bound for.            *)
LEMMA RouteHome ==
  ASSUME NEW r \in Router, NEW t \in Coord, NEW p, p = <<r, Route(r, t)>>,
         ~Link(p)
  PROVE  Beyond(p) = t
  BY RouterParts, CoordParts, ClampInGrid, GridAssumption
     DEF Link, Beyond, Route, Router, Clamp1

(* Which ports have a router on the other side, and which input it is.     *)
LEMMA LinkMeans ==
  ASSUME NEW p \in Port
  PROVE  Link(p) <=> \/ p[2] = "N" /\ p[1][2] > GRID_LO
                     \/ p[2] = "S" /\ p[1][2] < GRID_Y_HI
                     \/ p[2] = "W" /\ p[1][1] > GRID_LO
                     \/ p[2] = "E" /\ p[1][1] < GRID_X_HI
  BY RouterParts, GridAssumption DEF Link, Beyond, Router, Port, Dir

(* The neighbour's input faces the output that drives it.                  *)
LEMMA FarMeans ==
  ASSUME NEW p \in Port, Link(p)
  PROVE  /\ Far(p) \in Port /\ Link(Far(p))
         /\ p[2] = "N" => /\ Far(p)[1] = <<p[1][1], p[1][2] - 1>>
                          /\ Far(p)[2] = "S"
         /\ p[2] = "S" => /\ Far(p)[1] = <<p[1][1], p[1][2] + 1>>
                          /\ Far(p)[2] = "N"
         /\ p[2] = "W" => /\ Far(p)[1] = <<p[1][1] - 1, p[1][2]>>
                          /\ Far(p)[2] = "E"
         /\ p[2] = "E" => /\ Far(p)[1] = <<p[1][1] + 1, p[1][2]>>
                          /\ Far(p)[2] = "W"
<1>1. Far(p) \in Port
  BY RouterParts, GridAssumption DEF Link, Far, Opposite, Beyond, Port, Dir
<1>2. /\ p[2] = "N" => /\ Far(p)[1] = <<p[1][1], p[1][2] - 1>>
                       /\ Far(p)[2] = "S"
      /\ p[2] = "S" => /\ Far(p)[1] = <<p[1][1], p[1][2] + 1>>
                       /\ Far(p)[2] = "N"
      /\ p[2] = "W" => /\ Far(p)[1] = <<p[1][1] - 1, p[1][2]>>
                       /\ Far(p)[2] = "E"
      /\ p[2] = "E" => /\ Far(p)[1] = <<p[1][1] + 1, p[1][2]>>
                       /\ Far(p)[2] = "W"
  BY DEF Far, Opposite, Beyond
<1>3. p[2] \in {"N", "S", "W", "E"}
  BY DEF Link, Port, Dir
<1>4. p[1] \in Router /\ p[1][1] \in Int /\ p[1][2] \in Int
  BY RouterParts, GridAssumption DEF Port
<1>5. Link(Far(p))
  BY <1>1, <1>2, <1>3, <1>4, LinkMeans, RouterParts, GridAssumption
<1> QED
  BY <1>1, <1>2, <1>5

(* What a route says of the destination, in numbers.                       *)
LEMMA RouteMeans ==
  ASSUME NEW r \in Router, NEW t \in Coord, NEW c, c = Clamp(t)
  PROVE  /\ {c[1], c[2], r[1], r[2]} \subseteq Int
         /\ Route(r, t) = "W" => c[1] < r[1] \/ (c = r /\ r[1] = GRID_LO)
         /\ Route(r, t) = "E" => c[1] > r[1] \/ (c = r /\ r[1] = GRID_X_HI)
         /\ Route(r, t) = "N" => /\ c[1] = r[1]
                                 /\ c[2] < r[2] \/ (c = r /\ r[2] = GRID_LO)
         /\ Route(r, t) = "S" => /\ c[1] = r[1]
                                 /\ c[2] > r[2] \/ (c = r /\ r[2] = GRID_Y_HI)
  BY RouterParts, CoordParts, ClampInGrid, GridAssumption DEF Route, Clamp1

(* What Entered says, side by side.                                        *)
LEMMA EnteredMeans ==
  ASSUME NEW i \in Port, NEW t, NEW c, c = Clamp(t)
  PROVE  Entered(i, t) <=>
           (Link(i) => /\ i[2] = "W" => c[1] >= i[1][1]
                       /\ i[2] = "E" => c[1] <= i[1][1]
                       /\ i[2] = "N" => c[1] = i[1][1] /\ c[2] >= i[1][2]
                       /\ i[2] = "S" => c[1] = i[1][1] /\ c[2] <= i[1][2])
<1>1. Link(i) => i[2] \in {"W", "E", "N", "S"}
  BY LinkMeans
<1>2. CASE i[2] = "W"
  BY <1>2 DEF Entered
<1>3. CASE i[2] = "E"
  BY <1>3 DEF Entered
<1>4. CASE i[2] = "N"
  BY <1>4 DEF Entered
<1>5. CASE i[2] = "S"
  BY <1>5 DEF Entered
<1> QED
  BY <1>1, <1>2, <1>3, <1>4, <1>5 DEF Entered

(* A route taken to a neighbour establishes what the neighbour relies on.  *)
LEMMA RouteEntered ==
  ASSUME NEW r \in Router, NEW t \in Coord, NEW p, p = <<r, Route(r, t)>>,
         Link(p)
  PROVE  Far(p) \in Port /\ Entered(Far(p), t)
<1> DEFINE c == Clamp(t)
           q == Far(p)
<1>1. p \in Port /\ p[1] = r /\ p[2] = Route(r, t)
  BY RouteDir DEF Port
<1>2. q \in Port
  BY <1>1, FarMeans
<1>3. /\ c[1] \in Int /\ c[2] \in Int /\ r[1] \in Int /\ r[2] \in Int
      /\ GRID_LO \in Int /\ GRID_X_HI \in Int /\ GRID_Y_HI \in Int
  BY RouteMeans, GridAssumption
<1>4. CASE p[2] = "N"
  <2>1. c[1] = r[1] /\ (c[2] < r[2] \/ r[2] = GRID_LO) /\ r[2] > GRID_LO
    BY <1>1, <1>4, RouteMeans, LinkMeans, ZenonT(60)
  <2>2. q[2] = "S" /\ q[1][1] = r[1] /\ q[1][2] = r[2] - 1
    BY <1>1, <1>4, FarMeans
  <2> QED
    BY <1>2, <1>3, <2>1, <2>2, EnteredMeans
<1>5. CASE p[2] = "S"
  <2>1. c[1] = r[1] /\ (c[2] > r[2] \/ r[2] = GRID_Y_HI) /\ r[2] < GRID_Y_HI
    BY <1>1, <1>5, RouteMeans, LinkMeans, ZenonT(60)
  <2>2. q[2] = "N" /\ q[1][1] = r[1] /\ q[1][2] = r[2] + 1
    BY <1>1, <1>5, FarMeans
  <2> QED
    BY <1>2, <1>3, <2>1, <2>2, EnteredMeans
<1>6. CASE p[2] = "W"
  <2>1. (c[1] < r[1] \/ r[1] = GRID_LO) /\ r[1] > GRID_LO
    BY <1>1, <1>6, RouteMeans, LinkMeans
  <2>2. q[2] = "E" /\ q[1][1] = r[1] - 1
    BY <1>1, <1>6, FarMeans
  <2> QED
    BY <1>2, <1>3, <2>1, <2>2, EnteredMeans
<1>7. CASE p[2] = "E"
  <2>1. (c[1] > r[1] \/ r[1] = GRID_X_HI) /\ r[1] < GRID_X_HI
    BY <1>1, <1>7, RouteMeans, LinkMeans
  <2>2. q[2] = "W" /\ q[1][1] = r[1] + 1
    BY <1>1, <1>7, FarMeans
  <2> QED
    BY <1>2, <1>3, <2>1, <2>2, EnteredMeans
<1> QED
  BY <1>1, <1>2, <1>4, <1>5, <1>6, <1>7, LinkMeans

(* ... and that is enough for no masked turn to be asked for.              *)
LEMMA RouteNotKilled ==
  ASSUME NEW i \in Port, NEW t \in Coord, Entered(i, t)
  PROVE  Route(i[1], t) \notin Kill(i)
<1> DEFINE c == Clamp(t)
           o == <<i[1], Route(i[1], t)>>
<1>1. i[1] \in Router /\ i[2] \in Dir /\ i = <<i[1], i[2]>>
  BY DEF Port
<1>2. \A d \in Dir : <<i[1], d>> \in Port
  BY <1>1 DEF Port
<1>3. c = <<c[1], c[2]>> /\ i[1] = <<i[1][1], i[1][2]>>
  BY <1>1, ClampInGrid, RouterParts
<1> HIDE DEF c
<1>4. CASE i[2] = "N"
  BY <1>1, <1>2, <1>3, <1>4, LinkMeans, RouteMeans, GridAssumption DEF Entered, Kill, Dir, c
<1>5. CASE i[2] = "S"
  BY <1>1, <1>2, <1>3, <1>5, LinkMeans, RouteMeans, GridAssumption DEF Entered, Kill, Dir, c
<1>6. CASE i[2] = "W"
  BY <1>1, <1>2, <1>3, <1>6, LinkMeans, RouteMeans, GridAssumption DEF Entered, Kill, Dir, c
<1>7. CASE i[2] = "E"
  BY <1>1, <1>2, <1>3, <1>7, LinkMeans, RouteMeans, GridAssumption DEF Entered, Kill, Dir, c
<1>8. CASE i[2] = "L"
  BY <1>8 DEF Kill
<1> QED
  BY <1>1, <1>4, <1>5, <1>6, <1>7, <1>8 DEF Dir

(* An endpoint sends into a port that no router drives.                    *)
LEMMA AttachPort ==
  ASSUME NEW e \in Coord
  PROVE  Attach(e) \in Port /\ ~Link(Attach(e))
  BY RouterParts, CoordParts, ClampInGrid, GridAssumption
     DEF Attach, Link, Beyond, Route, Router, Clamp1, Port, Dir

(* Every hop from router to router ascends.                                *)
LEMMA RouteAscends ==
  ASSUME NEW i \in Port, NEW t \in Coord, Entered(i, t),
         NEW p, p = <<i[1], Route(i[1], t)>>, Link(p)
  PROVE  Rank(i) < Rank(Far(p))
<1> DEFINE c == Clamp(t)
           q == Far(p)
           x == i[1][1]
           y == i[1][2]
<1>1. p \in Port /\ p[1] = i[1] /\ p[2] = Route(i[1], t)
  BY RouteDir DEF Port
<1>2. q \in Port /\ Link(q)
  BY <1>1, FarMeans
<1>3. /\ i[1] \in Router /\ i[2] \in Dir
      /\ x \in GRID_LO .. GRID_X_HI /\ y \in GRID_LO .. GRID_Y_HI
      /\ c[1] \in Int /\ c[2] \in Int
  BY RouterParts, RouteMeans DEF Port
<1>4. /\ GRID_LO \in Int /\ GRID_X_HI \in Int /\ GRID_Y_HI \in Int
      /\ GRID_LO <= GRID_X_HI /\ GRID_LO <= GRID_Y_HI
  BY GridAssumption
<1>5. Rank(i) = IF ~Link(i) THEN 0
                ELSE IF i[2] = "W" THEN x - GRID_LO
                ELSE IF i[2] = "E" THEN GRID_X_HI - x
                ELSE IF i[2] = "N" THEN GRID_X_HI - GRID_LO + y - GRID_LO
                ELSE GRID_X_HI - GRID_LO + GRID_Y_HI - y
  BY LinkMeans DEF Rank
<1>6. Link(i) => /\ i[2] = "W" => c[1] >= x
                 /\ i[2] = "E" => c[1] <= x
                 /\ i[2] = "N" => c[1] = x /\ c[2] >= y
                 /\ i[2] = "S" => c[1] = x /\ c[2] <= y
                 /\ i[2] \in {"W", "E", "N", "S"}
  BY LinkMeans DEF Entered
<1>7. CASE p[2] = "N"
  <2>1. c[1] = x /\ (c[2] < y \/ y = GRID_LO) /\ y > GRID_LO
    BY <1>1, <1>3, <1>7, RouteMeans, LinkMeans, ZenonT(60)
  <2>2. q[2] = "S" /\ q[1][2] = y - 1
    BY <1>1, <1>7, FarMeans
  <2>3. Rank(q) = GRID_X_HI - GRID_LO + GRID_Y_HI - (y - 1)
    BY <1>2, <2>2 DEF Rank
  <2> QED
    BY <1>3, <1>4, <1>5, <1>6, <2>1, <2>3
<1>8. CASE p[2] = "S"
  <2>1. c[1] = x /\ (c[2] > y \/ y = GRID_Y_HI) /\ y < GRID_Y_HI
    BY <1>1, <1>3, <1>8, RouteMeans, LinkMeans, ZenonT(60)
  <2>2. q[2] = "N" /\ q[1][2] = y + 1
    BY <1>1, <1>8, FarMeans
  <2>3. Rank(q) = GRID_X_HI - GRID_LO + (y + 1) - GRID_LO
    BY <1>2, <2>2 DEF Rank
  <2> QED
    BY <1>3, <1>4, <1>5, <1>6, <2>1, <2>3
<1>9. CASE p[2] = "W"
  <2>1. (c[1] < x \/ x = GRID_LO) /\ x > GRID_LO
    BY <1>1, <1>3, <1>9, RouteMeans, LinkMeans
  <2>2. q[2] = "E" /\ q[1][1] = x - 1
    BY <1>1, <1>9, FarMeans
  <2>3. Rank(q) = GRID_X_HI - (x - 1)
    BY <1>2, <2>2 DEF Rank
  <2> QED
    BY <1>3, <1>4, <1>5, <1>6, <2>1, <2>3
<1>10. CASE p[2] = "E"
  <2>1. (c[1] > x \/ x = GRID_X_HI) /\ x < GRID_X_HI
    BY <1>1, <1>3, <1>10, RouteMeans, LinkMeans
  <2>2. q[2] = "W" /\ q[1][1] = x + 1
    BY <1>1, <1>10, FarMeans
  <2>3. Rank(q) = q[1][1] - GRID_LO
    BY <1>2, <2>2 DEF Rank
  <2> QED
    BY <1>3, <1>4, <1>5, <1>6, <2>1, <2>2, <2>3
<1> QED
  BY <1>1, <1>7, <1>8, <1>9, <1>10, LinkMeans

-----------------------------------------------------------------------------
(***************************************************************************)
(* The invariant.                                                          *)
(***************************************************************************)

(* A flit knows a destination, and is not the empty slot.                  *)
LEMMA FlitTypes ==
  ASSUME NEW f \in Flit
  PROVE  Dst(f) \in Coord /\ f # NoFlit
<1>1. f.flow \in Flow /\ f.n \in 1 .. MaxFlits
  BY DEF Flit
<1>2. NoFlit.n = 0
  BY DEF NoFlit
<1> QED
  BY <1>1, <1>2, MeshAssumption DEF Dst

(* An empty mesh satisfies the invariant.                                  *)
LEMMA InitMInv ==
  Init => MInv
<1> SUFFICES ASSUME Init PROVE MInv
  OBVIOUS
<1>1. TypeOK
  BY MeshAssumption DEF Init, TypeOK
<1>2. Routed
  BY DEF Init, Routed, AllEntered
<1> QED
  BY <1>1, <1>2 DEF MInv

(* A FIFO that is not full keeps its bound and what is known of its flits. *)
LEMMA PushKeeps ==
  ASSUME MInv, NEW p \in Port, ~Busy(p), NEW f \in Flit, Entered(p, Dst(f)),
         fifo' = [fifo EXCEPT ![p] = Append(@, f)]
  PROVE  /\ fifo' \in [Port -> Seq(Flit)]
         /\ \A i \in Port : Len(fifo'[i]) <= FIFO_DEPTH /\ AllEntered(i, fifo'[i])
<1>1. fifo \in [Port -> Seq(Flit)] /\ fifo[p] \in Seq(Flit)
  BY DEF MInv, TypeOK
<1>2. fifo' \in [Port -> Seq(Flit)]
  BY <1>1
<1>3. Len(fifo[p]) \in Nat /\ Len(fifo[p]) < FIFO_DEPTH
  BY <1>1, MeshAssumption DEF Busy
<1>4. \A i \in Port : Len(fifo[i]) <= FIFO_DEPTH /\ AllEntered(i, fifo[i])
  BY DEF MInv, TypeOK, Routed
<1>5. ASSUME NEW i \in Port PROVE Len(fifo'[i]) <= FIFO_DEPTH /\ AllEntered(i, fifo'[i])
  <2>1. CASE i # p
    BY <1>1, <1>4, <2>1
  <2>2. CASE i = p
    <3>1. fifo'[p] = Append(fifo[p], f)
      BY <1>1
    <3>2. Len(fifo'[p]) = Len(fifo[p]) + 1
      BY <1>1, <3>1
    <3>3. AllEntered(p, fifo'[p])
      BY <1>1, <1>4, <3>1 DEF AllEntered
    <3> QED
      BY <1>3, <2>2, <3>2, <3>3, MeshAssumption
  <2> QED
    BY <2>1, <2>2
<1> QED
  BY <1>2, <1>5

(* ... which each step keeps: a flit enters,                               *)
LEMMA InjectMInv ==
  ASSUME MInv, NEW w \in Flow, Inject(w)
  PROVE  MInv'
<1> DEFINE p == Attach(w[1])
           f == [flow |-> w, n |-> sent[w] + 1]
<1>1. w[1] \in Coord /\ w[2] \in Coord /\ p \in Port /\ ~Link(p)
  BY AttachPort, MeshAssumption
<1>2. sent[w] + 1 \in 1 .. MaxFlits /\ sent \in [Flow -> 0 .. MaxFlits]
  BY MeshAssumption DEF Inject, MInv, TypeOK
<1>3. f \in Flit
  BY <1>2 DEF Flit
<1>4. Entered(p, Dst(f))
  BY <1>1 DEF Entered
<1>5. /\ ~Busy(p) /\ fifo' = [fifo EXCEPT ![p] = Append(@, f)]
      /\ sent' = [sent EXCEPT ![w] = @ + 1]
      /\ UNCHANGED <<hold, out, got>>
  BY DEF Inject
<1>6. sent' \in [Flow -> 0 .. MaxFlits]
  BY <1>2, <1>5
<1> HIDE DEF p, f
<1>7. /\ fifo' \in [Port -> Seq(Flit)]
      /\ \A i \in Port : Len(fifo'[i]) <= FIFO_DEPTH /\ AllEntered(i, fifo'[i])
  BY <1>1, <1>3, <1>4, <1>5, PushKeeps
<1> QED
  BY <1>5, <1>6, <1>7 DEF MInv, TypeOK, Routed

(* moves to the holding slot,                                              *)
LEMMA LoadMInv ==
  ASSUME MInv, NEW p \in Port, Load(p)
  PROVE  MInv'
<1>1. /\ fifo \in [Port -> Seq(Flit)] /\ fifo[p] \in Seq(Flit) /\ fifo[p] # <<>>
      /\ {hold, out} \subseteq [Port -> Flit \cup {NoFlit}]
  BY DEF MInv, TypeOK, Load, CanLoad
<1>2. /\ Head(fifo[p]) \in Flit /\ Head(fifo[p]) = fifo[p][1]
      /\ Tail(fifo[p]) \in Seq(Flit) /\ Len(Tail(fifo[p])) = Len(fifo[p]) - 1
      /\ Len(fifo[p]) \in Nat /\ 1 \in DOMAIN fifo[p]
      /\ \A k \in DOMAIN Tail(fifo[p]) :
           Tail(fifo[p])[k] = fifo[p][k + 1] /\ k + 1 \in DOMAIN fifo[p]
  BY <1>1
<1>3. /\ hold' = [hold EXCEPT ![p] = Head(fifo[p])]
      /\ fifo' = [fifo EXCEPT ![p] = Tail(@)]
      /\ UNCHANGED <<out, sent, got>>
  BY DEF Load
<1>4. TypeOK'
  <2>1. fifo' \in [Port -> Seq(Flit)] /\ hold' \in [Port -> Flit \cup {NoFlit}]
    BY <1>1, <1>2, <1>3
  <2>2. \A i \in Port : Len(fifo'[i]) <= FIFO_DEPTH
    BY <1>1, <1>2, <1>3, MeshAssumption DEF MInv, TypeOK
  <2> QED
    BY <1>3, <2>1, <2>2 DEF MInv, TypeOK
<1>5. Routed'
  <2>1. AllEntered(p, Tail(fifo[p])) /\ Entered(p, Dst(Head(fifo[p])))
    BY <1>2 DEF MInv, Routed, AllEntered
  <2>2. \A i \in Port : AllEntered(i, fifo'[i])
    BY <1>1, <1>3, <2>1 DEF MInv, Routed
  <2>3. \A i \in Port : hold'[i] # NoFlit => Entered(i, Dst(hold'[i]))
    BY <1>1, <1>3, <2>1 DEF MInv, Routed
  <2> QED
    BY <1>3, <2>2, <2>3 DEF MInv, Routed
<1> QED
  BY <1>4, <1>5 DEF MInv

(* to the output register,                                                 *)
LEMMA GrantMInv ==
  ASSUME MInv, NEW p \in Port, NEW i \in Inputs(p), Grant(i, p)
  PROVE  MInv'
<1>1. i \in Port /\ i[1] = p[1]
  BY DEF Inputs, Port
<1>2. /\ {hold, out} \subseteq [Port -> Flit \cup {NoFlit}]
      /\ hold[i] # NoFlit /\ Route(p[1], Dst(hold[i])) = p[2]
      /\ out' = [out EXCEPT ![p] = hold[i]]
      /\ hold' = [hold EXCEPT ![i] = NoFlit]
      /\ UNCHANGED <<fifo, sent, got>>
  BY <1>1 DEF MInv, TypeOK, Grant, Granted, Requests
<1>3. TypeOK'
  <2>1. {hold', out'} \subseteq [Port -> Flit \cup {NoFlit}]
    BY <1>1, <1>2
  <2> QED
    BY <1>2, <2>1 DEF MInv, TypeOK
<1>4. Routed'
  <2>1. \A q \in Port : hold'[q] # NoFlit => Entered(q, Dst(hold'[q]))
    BY <1>1, <1>2 DEF MInv, Routed
  <2>2. \A q \in Port : out'[q] # NoFlit => Route(q[1], Dst(out'[q])) = q[2]
    BY <1>1, <1>2 DEF MInv, Routed
  <2> QED
    BY <1>2, <2>1, <2>2 DEF MInv, Routed
<1> QED
  BY <1>3, <1>4 DEF MInv

(* to the next router,                                                     *)
LEMMA SendMInv ==
  ASSUME MInv, NEW p \in Port, Send(p)
  PROVE  MInv'
<1>1. /\ out \in [Port -> Flit \cup {NoFlit}] /\ hold \in [Port -> Flit \cup {NoFlit}]
      /\ out[p] # NoFlit /\ Link(p) /\ ~Busy(Far(p))
      /\ fifo' = [fifo EXCEPT ![Far(p)] = Append(@, out[p])]
      /\ out' = [out EXCEPT ![p] = NoFlit]
      /\ UNCHANGED <<hold, sent, got>>
  BY DEF MInv, TypeOK, Send, CanSend
<1>2. out[p] \in Flit /\ Dst(out[p]) \in Coord
  BY <1>1, FlitTypes
<1>3. p[1] \in Router /\ p = <<p[1], Route(p[1], Dst(out[p]))>>
  BY <1>1 DEF MInv, Routed, Port
<1>4. Far(p) \in Port /\ Entered(Far(p), Dst(out[p]))
  BY <1>1, <1>2, <1>3, RouteEntered
<1>5. /\ fifo' \in [Port -> Seq(Flit)]
      /\ \A i \in Port : Len(fifo'[i]) <= FIFO_DEPTH /\ AllEntered(i, fifo'[i])
  BY <1>1, <1>2, <1>4, PushKeeps
<1>6. out' \in [Port -> Flit \cup {NoFlit}]
  BY <1>1
<1>7. \A q \in Port : out'[q] # NoFlit => Route(q[1], Dst(out'[q])) = q[2]
  BY <1>1 DEF MInv, Routed
<1> QED
  BY <1>1, <1>5, <1>6, <1>7 DEF MInv, TypeOK, Routed

(* and out of the mesh.                                                    *)
LEMMA DeliverMInv ==
  ASSUME MInv, NEW p \in Port, Deliver(p)
  PROVE  MInv'
<1>1. /\ out \in [Port -> Flit \cup {NoFlit}] /\ hold \in [Port -> Flit \cup {NoFlit}]
      /\ out[p] # NoFlit /\ got \in [Flow -> Nat]
      /\ out' = [out EXCEPT ![p] = NoFlit]
      /\ UNCHANGED <<fifo, hold, sent>>
  BY DEF MInv, TypeOK, Deliver, CanDeliver
<1>2. out[p].flow \in Flow
  BY <1>1 DEF Flit
<1>3. got' \in [Flow -> Nat]
  BY <1>1, <1>2 DEF Deliver
<1>4. out' \in [Port -> Flit \cup {NoFlit}]
  BY <1>1
<1>5. \A q \in Port : out'[q] # NoFlit => Route(q[1], Dst(out'[q])) = q[2]
  BY <1>1 DEF MInv, Routed
<1> QED
  BY <1>1, <1>3, <1>4, <1>5 DEF MInv, TypeOK, Routed

(* Types, and what routing has established of every flit, are kept.        *)
THEOREM MeshInvariant == Spec => []MInv
<1>1. MInv /\ [Next]_vars => MInv'
  <2> SUFFICES ASSUME MInv, [Next]_vars PROVE MInv'
    OBVIOUS
  <2>1. ASSUME NEW w \in Flow, Inject(w) PROVE MInv'
    BY <2>1, InjectMInv
  <2>2. ASSUME NEW p \in Port, Load(p) PROVE MInv'
    BY <2>2, LoadMInv
  <2>3. ASSUME NEW p \in Port, Send(p) PROVE MInv'
    BY <2>3, SendMInv
  <2>4. ASSUME NEW p \in Port, Deliver(p) PROVE MInv'
    BY <2>4, DeliverMInv
  <2>5. ASSUME NEW p \in Port, NEW i \in Inputs(p), Grant(i, p) PROVE MInv'
    BY <2>5, GrantMInv
  <2>6. CASE UNCHANGED vars
    BY <2>6 DEF MInv, TypeOK, Routed, vars
  <2> QED
    BY <2>1, <2>2, <2>3, <2>4, <2>5, <2>6 DEF Next
<1> QED
  BY <1>1, InitMInv, PTL DEF Spec

-----------------------------------------------------------------------------
(***************************************************************************)
(* What follows from it.                                                   *)
(***************************************************************************)

(* A FIFO that is written only while it is not full never overflows, and   *)
(* every register keeps its type.                                          *)
THEOREM MeshTypeOK == Spec => []TypeOK
<1>1. MInv => TypeOK
  BY DEF MInv
<1> QED
  BY <1>1, MeshInvariant, PTL

(* No flit is ever held that asks for a masked turn (the assertion of      *)
(* noc_router.v lines 280-305).                                            *)
THEOREM MeshTurnsLegal == Spec => []TurnsLegal
<1>1. MInv => TurnsLegal
  <2> SUFFICES ASSUME MInv, NEW i \in Port, hold[i] # NoFlit
               PROVE  Route(i[1], Dst(hold[i])) \notin Kill(i)
    BY DEF TurnsLegal
  <2>1. hold[i] \in Flit /\ Entered(i, Dst(hold[i]))
    BY DEF MInv, TypeOK, Routed
  <2> QED
    BY <2>1, FlitTypes, RouteNotKilled
<1> QED
  BY <1>1, MeshInvariant, PTL

(* What an endpoint is handed is addressed to it.                          *)
THEOREM MeshHomeOnly == Spec => []HomeOnly
<1>1. MInv => HomeOnly
  <2> SUFFICES ASSUME MInv, NEW p \in Port, CanDeliver(p)
               PROVE  Beyond(p) = Dst(out[p])
    BY DEF HomeOnly
  <2>1. /\ out[p] # NoFlit /\ out[p] \in Flit /\ ~Link(p)
        /\ p[1] \in Router /\ p = <<p[1], Route(p[1], Dst(out[p]))>>
    BY DEF MInv, TypeOK, Routed, CanDeliver, Port
  <2> QED
    BY <2>1, FlitTypes, RouteHome
<1> QED
  BY <1>1, MeshInvariant, PTL

(* A set of numbers has a least element.                                   *)
LEMMA NatMin ==
  ASSUME NEW S, S \subseteq Nat, S # {}
  PROVE  \E m \in S : \A k \in S : m <= k
<1> DEFINE R == {ss \in Nat \X Nat : ss[1] < ss[2]}
<1>1. IsWellFoundedOn(R, Nat)
  BY NatLessThanWellFounded DEF OpToRel
<1>2. PICK x \in S : \A y \in S : ~ (<<y, x>> \in R)
  <2> HIDE DEF R
  <2> QED
    BY <1>1, WFMin
<1>3. ASSUME NEW y \in S PROVE x <= y
  <2>1. <<y, x>> \in Nat \X Nat /\ <<y, x>> \notin R
    BY <1>2
  <2>2. ~(y < x)
    BY <2>1
  <2> QED
    BY <2>1, <2>2
<1> QED
  BY <1>3

Top == 2 * GRID_X_HI + GRID_Y_HI   \* no rank exceeds it

(* Ranks are numbers, the same bound for all.                              *)
LEMMA RankBound ==
  ASSUME NEW i \in Port
  PROVE  Top - Rank(i) \in Nat /\ Rank(i) \in Int
<1>1. /\ i[1][1] \in GRID_LO .. GRID_X_HI /\ i[1][2] \in GRID_LO .. GRID_Y_HI
  BY RouterParts DEF Port
<1>2. CASE ~Link(i)
  BY <1>2, GridAssumption DEF Rank, Top
<1>3. CASE Link(i) /\ i[2] = "W"
  BY <1>1, <1>3, GridAssumption DEF Rank, Top
<1>4. CASE Link(i) /\ i[2] = "E"
  BY <1>1, <1>4, GridAssumption DEF Rank, Top
<1>5. CASE Link(i) /\ i[2] = "N"
  BY <1>1, <1>5, GridAssumption DEF Rank, Top
<1>6. CASE Link(i) /\ i[2] = "S"
  BY <1>1, <1>6, GridAssumption DEF Rank, Top
<1> QED
  BY <1>2, <1>3, <1>4, <1>5, <1>6, LinkMeans

(* A nonempty set of inputs has one of highest rank.                       *)
LEMMA HighestInput ==
  ASSUME NEW T, T \subseteq Port, T # {}
  PROVE  \E i \in T : \A j \in T : ~(Rank(i) < Rank(j))
<1> DEFINE S == {Top - Rank(j) : j \in T}
<1>1. S \subseteq Nat /\ S # {}
  BY RankBound
<1>2. \A j \in T : Top - Rank(j) \in S
  OBVIOUS
<1>3. PICK i \in T : \A k \in S : Top - Rank(i) <= k
  <2>1. PICK m \in S : \A k \in S : m <= k
    <3> HIDE DEF S
    <3> QED
      BY <1>1, NatMin
  <2> QED
    BY <2>1
<1>4. Top \in Int
  BY GridAssumption DEF Top
<1> HIDE DEF S
<1>5. ASSUME NEW j \in T PROVE ~(Rank(i) < Rank(j))
  <2>1. Top - Rank(i) <= Top - Rank(j)
    BY <1>2, <1>3
  <2>2. Rank(i) \in Int /\ Rank(j) \in Int
    BY RankBound
  <2> QED
    BY <1>4, <2>1, <2>2
<1> QED
  BY <1>5

(* Whatever the depth of its FIFOs, a mesh that holds a flit can move one: *)
(* of the inputs that hold something, the one of highest rank waits for no *)
(* other.                                                                  *)
THEOREM MeshNoDeadlock == Spec => []NoDeadlock
<1>1. MInv => NoDeadlock
  <2> SUFFICES ASSUME MInv, Occupied, ~Movable PROVE FALSE
    BY DEF NoDeadlock
  <2> DEFINE T == {i \in Port : fifo[i] # <<>> \/ hold[i] # NoFlit}
  <2>1. ASSUME NEW p \in Port, out[p] # NoFlit
        PROVE  Link(p) /\ Busy(Far(p)) /\ Far(p) \in Port
    <3>1. Link(p) /\ Busy(Far(p))
      BY <2>1 DEF Movable, CanDeliver, CanSend
    <3> QED
      BY <3>1, FarMeans
  <2>2. ASSUME NEW q \in Port, Busy(q) PROVE q \in T
    <3>1. fifo[q] \in Seq(Flit) /\ Len(fifo[q]) >= FIFO_DEPTH
      BY <2>2 DEF MInv, TypeOK, Busy
    <3> QED
      BY <3>1, MeshAssumption
  <2>3. T # {}
    BY <2>1, <2>2 DEF Occupied
  <2>4. PICK i \in T : \A j \in T : ~(Rank(i) < Rank(j))
    <3>1. T \subseteq Port
      OBVIOUS
    <3> HIDE DEF T
    <3> QED
      BY <2>3, <3>1, HighestInput
  <2>5. i \in Port /\ hold[i] # NoFlit
    BY DEF Movable, CanLoad
  <2>6. hold[i] \in Flit /\ Dst(hold[i]) \in Coord /\ Entered(i, Dst(hold[i]))
    BY <2>5, FlitTypes DEF MInv, TypeOK, Routed
  <2> DEFINE p == <<i[1], Route(i[1], Dst(hold[i]))>>
  <2>7. p \in Port /\ i \in Inputs(p) /\ Requests(i, p)
    BY <2>5, RouteDir DEF Port, Inputs, Requests
  <2>8. p[2] \notin Kill(i)
    BY <2>5, <2>6, RouteNotKilled
  <2>9. out[p] # NoFlit
    BY <2>7, <2>8 DEF Movable, Granted
  <2>10. Link(p) /\ Far(p) \in T
    BY <2>1, <2>2, <2>7, <2>9
  <2>11. Rank(i) < Rank(Far(p))
    BY <2>5, <2>6, <2>10, RouteAscends
  <2> QED
    BY <2>4, <2>10, <2>11
<1> QED
  BY <1>1, MeshInvariant, PTL

-----------------------------------------------------------------------------
(***************************************************************************)
(* The way of a flow through the mesh.                                     *)
(***************************************************************************)
(* The ends of a flow, the routers they hang off and the hops between.     *)
LEMMA Ends ==
  ASSUME NEW w \in Flow, NEW s, s = Clamp(w[1]), NEW c, c = Clamp(w[2])
  PROVE  /\ w[1] \in Coord /\ w[2] \in Coord /\ w # <<>>
         /\ s \in Router /\ c \in Router
         /\ s = <<s[1], s[2]>> /\ c = <<c[1], c[2]>>
         /\ {s[1], s[2], c[1], c[2]} \subseteq Int
         /\ Attach(w[1]) \in Port /\ Attach(w[1])[1] = s
<1>1. w[1] \in Coord /\ w[2] \in Coord /\ w # <<>>
  BY MeshAssumption
<1>2. s \in Router /\ c \in Router
  BY <1>1, ClampInGrid
<1>3. /\ s = <<s[1], s[2]>> /\ c = <<c[1], c[2]>>
      /\ {s[1], s[2], c[1], c[2]} \subseteq Int
  BY <1>2, RouterParts, GridAssumption
<1>4. Attach(w[1]) \in Port /\ Attach(w[1])[1] = s
  BY <1>1, AttachPort DEF Attach
<1> QED
  BY <1>1, <1>2, <1>3, <1>4

(* The hops to go, coordinate by coordinate.                               *)
LEMMA ToGoMeans ==
  ASSUME NEW r \in Router, NEW t \in Coord, NEW c, c = Clamp(t)
  PROVE  /\ r[1] \in Int /\ r[2] \in Int /\ c[1] \in Int /\ c[2] \in Int
         /\ ToGo(r, t) = (IF r[1] < c[1] THEN c[1] - r[1] ELSE r[1] - c[1])
                         + (IF r[2] < c[2] THEN c[2] - r[2] ELSE r[2] - c[2])
         /\ ToGo(r, t) \in Nat
<1>1. r[1] \in Int /\ r[2] \in Int /\ c[1] \in Int /\ c[2] \in Int
  BY RouteMeans
<1>2. ToGo(r, t) = (IF r[1] < c[1] THEN c[1] - r[1] ELSE r[1] - c[1])
                   + (IF r[2] < c[2] THEN c[2] - r[2] ELSE r[2] - c[2])
  BY DEF ToGo, Gap
<1> QED
  BY <1>1, <1>2

(* Where an input on the way of a flow is, and how far from the end.       *)
LEMMA PassMeans ==
  ASSUME NEW w \in Flow, NEW i \in Port, Passes(w, i),
         NEW s, s = Clamp(w[1]), NEW c, c = Clamp(w[2]),
         NEW x, x = i[1][1], NEW y, y = i[1][2]
  PROVE  /\ i = <<<<x, y>>, i[2]>> /\ x \in Int /\ y \in Int
         /\ \/ i = Attach(w[1]) /\ x = s[1] /\ y = s[2]
            \/ i[2] = "W" /\ y = s[2] /\ s[1] < x /\ x <= c[1]
            \/ i[2] = "E" /\ y = s[2] /\ s[1] > x /\ x >= c[1]
            \/ i[2] = "N" /\ x = c[1] /\ s[2] < y /\ y <= c[2]
            \/ i[2] = "S" /\ x = c[1] /\ s[2] > y /\ y >= c[2]
         /\ ToGo(i[1], w[2]) = (IF x < c[1] THEN c[1] - x ELSE x - c[1])
                               + (IF y < c[2] THEN c[2] - y ELSE y - c[2])
<1>1. i[1] \in Router /\ i = <<i[1], i[2]>>
  BY DEF Port
<1>2. i[1] = <<x, y>> /\ x \in Int /\ y \in Int
  BY <1>1, RouterParts, GridAssumption
<1>3. w[2] \in Coord /\ Attach(w[1])[1] = s
  BY Ends
<1>4. ToGo(i[1], w[2]) = (IF x < c[1] THEN c[1] - x ELSE x - c[1])
                         + (IF y < c[2] THEN c[2] - y ELSE y - c[2])
  BY <1>1, <1>3, ToGoMeans
<1> QED
  BY <1>1, <1>2, <1>3, <1>4 DEF Passes

(* Flits of one flow that are as far from its end are at one input.        *)
LEMMA PassOne ==
  ASSUME NEW w \in Flow, NEW i \in Port, NEW j \in Port,
         Passes(w, i), Passes(w, j), ToGo(i[1], w[2]) = ToGo(j[1], w[2])
  PROVE  i = j
<1> DEFINE s == Clamp(w[1])
           c == Clamp(w[2])
           x == i[1][1]
           y == i[1][2]
           u == j[1][1]
           v == j[1][2]
           Gone(a, b, d, k) ==
             \/ k = Attach(w[1]) /\ a = s[1] /\ b = s[2]
             \/ d = "W" /\ b = s[2] /\ s[1] < a /\ a <= c[1]
             \/ d = "E" /\ b = s[2] /\ s[1] > a /\ a >= c[1]
             \/ d = "N" /\ a = c[1] /\ s[2] < b /\ b <= c[2]
             \/ d = "S" /\ a = c[1] /\ s[2] > b /\ b >= c[2]
           Far2(a, b) == (IF a < c[1] THEN c[1] - a ELSE a - c[1])
                         + (IF b < c[2] THEN c[2] - b ELSE b - c[2])
<1>1. /\ i = <<<<x, y>>, i[2]>> /\ x \in Int /\ y \in Int
      /\ Gone(x, y, i[2], i) /\ ToGo(i[1], w[2]) = Far2(x, y)
  BY PassMeans
<1>2. /\ j = <<<<u, v>>, j[2]>> /\ u \in Int /\ v \in Int
      /\ Gone(u, v, j[2], j) /\ ToGo(j[1], w[2]) = Far2(u, v)
  BY PassMeans
<1>3. {s[1], s[2], c[1], c[2]} \subseteq Int
  BY Ends
<1>4. Far2(x, y) = Far2(u, v)
  BY <1>1, <1>2
<1> HIDE DEF s, c, x, y, u, v
<1>5. \/ i = Attach(w[1]) /\ j = Attach(w[1])
      \/ x = u /\ y = v /\ i[2] = j[2]
  BY <1>1, <1>2, <1>3, <1>4, SMTT(40)
<1> QED
  BY <1>1, <1>2, <1>5

(* The next input on the way is one hop nearer.                            *)
LEMMA PassNext ==
  ASSUME NEW w \in Flow, NEW i \in Port, Passes(w, i),
         NEW p, p = <<i[1], Route(i[1], w[2])>>, Link(p)
  PROVE  /\ p \in Port /\ Far(p) \in Port /\ Passes(w, Far(p))
         /\ ToGo(Far(p)[1], w[2]) = ToGo(i[1], w[2]) - 1
<1> DEFINE s == Clamp(w[1])
           c == Clamp(w[2])
           x == i[1][1]
           y == i[1][2]
           q == Far(p)
           Far2(a, b) == (IF a < c[1] THEN c[1] - a ELSE a - c[1])
                         + (IF b < c[2] THEN c[2] - b ELSE b - c[2])
<1>1. i[1] \in Router /\ p \in Port /\ p[1] = i[1] /\ p[2] = Route(i[1], w[2])
  BY RouteDir DEF Port
<1>2. /\ w[2] \in Coord /\ {s[1], s[2], c[1], c[2]} \subseteq Int /\ c = <<c[1], c[2]>>
      /\ i[1] = <<x, y>>
  BY <1>1, Ends, RouterParts
<1>3. /\ x \in Int /\ y \in Int
      /\ \/ x = s[1] /\ y = s[2]
         \/ y = s[2] /\ s[1] < x /\ x <= c[1]
         \/ y = s[2] /\ s[1] > x /\ x >= c[1]
         \/ x = c[1] /\ s[2] < y /\ y <= c[2]
         \/ x = c[1] /\ s[2] > y /\ y >= c[2]
      /\ ToGo(i[1], w[2]) = Far2(x, y)
  BY PassMeans
<1>4. q \in Port /\ q[1] \in Router
  BY <1>1, FarMeans DEF Port
<1>5. ToGo(q[1], w[2]) = Far2(q[1][1], q[1][2])
  BY <1>2, <1>4, ToGoMeans
<1>6. /\ p[2] = "N" => q[1] = <<x, y - 1>> /\ q[2] = "S" /\ y > GRID_LO
      /\ p[2] = "S" => q[1] = <<x, y + 1>> /\ q[2] = "N" /\ y < GRID_Y_HI
      /\ p[2] = "W" => q[1] = <<x - 1, y>> /\ q[2] = "E" /\ x > GRID_LO
      /\ p[2] = "E" => q[1] = <<x + 1, y>> /\ q[2] = "W" /\ x < GRID_X_HI
      /\ p[2] \in {"N", "S", "W", "E"}
  BY <1>1, FarMeans, LinkMeans
<1>7. /\ p[2] = "W" => c[1] < x \/ (c = i[1] /\ x = GRID_LO)
      /\ p[2] = "E" => c[1] > x \/ (c = i[1] /\ x = GRID_X_HI)
      /\ p[2] = "N" => /\ c[1] = x
                       /\ c[2] < y \/ (c = i[1] /\ y = GRID_LO)
      /\ p[2] = "S" => /\ c[1] = x
                       /\ c[2] > y \/ (c = i[1] /\ y = GRID_Y_HI)
  BY <1>1, <1>2, RouteMeans
<1>8. GRID_LO \in Int /\ GRID_X_HI \in Int /\ GRID_Y_HI \in Int
  BY GridAssumption
<1> HIDE DEF s, c, x, y, q
<1>9. \/ p[2] = "W" /\ c[1] < x
      \/ p[2] = "E" /\ c[1] > x
      \/ p[2] = "N" /\ c[1] = x /\ c[2] < y
      \/ p[2] = "S" /\ c[1] = x /\ c[2] > y
  BY <1>3, <1>6, <1>7, <1>8
<1>10. Far2(q[1][1], q[1][2]) = Far2(x, y) - 1
  BY <1>2, <1>3, <1>6, <1>9
<1>11. \/ q[2] = "W" /\ q[1][2] = s[2] /\ s[1] < q[1][1] /\ q[1][1] <= c[1]
       \/ q[2] = "E" /\ q[1][2] = s[2] /\ s[1] > q[1][1] /\ q[1][1] >= c[1]
       \/ q[2] = "N" /\ q[1][1] = c[1] /\ s[2] < q[1][2] /\ q[1][2] <= c[2]
       \/ q[2] = "S" /\ q[1][1] = c[1] /\ s[2] > q[1][2] /\ q[1][2] >= c[2]
  BY <1>2, <1>3, <1>6, <1>9
<1>12. Passes(w, q)
  BY <1>11 DEF Passes, s, c
<1> QED
  BY <1>1, <1>3, <1>4, <1>5, <1>10, <1>12 DEF q

(* A flit that leaves the mesh has no hop to go.                           *)
LEMMA PassEnd ==
  ASSUME NEW r \in Router, NEW t \in Coord, NEW p, p = <<r, Route(r, t)>>, ~Link(p)
  PROVE  ToGo(r, t) = 0
<1> DEFINE c == Clamp(t)
<1>1. p \in Port /\ p[1] = r /\ p[2] = Route(r, t) /\ Route(r, t) \in Dir
  BY RouteDir DEF Port
<1>2. c \in Router /\ c = <<c[1], c[2]>> /\ r = <<r[1], r[2]>>
  BY ClampInGrid, RouterParts
<1>3. /\ r[1] \in GRID_LO .. GRID_X_HI /\ r[2] \in GRID_LO .. GRID_Y_HI
      /\ c[1] \in GRID_LO .. GRID_X_HI /\ c[2] \in GRID_LO .. GRID_Y_HI
  BY <1>2, RouterParts
<1>4. Route(r, t) = "L" => c[1] = r[1] /\ c[2] = r[2]
  <2> SUFFICES ASSUME Route(r, t) = "L" PROVE c[1] = r[1] /\ c[2] = r[2]
    OBVIOUS
  <2>1. ~(c[1] < r[1]) /\ ~(c[1] > r[1]) /\ ~(c[2] < r[2]) /\ ~(c[2] > r[2])
    BY DEF Route
  <2> HIDE DEF c
  <2> QED
    BY <2>1, <1>3, GridAssumption
<1>5. c[1] = r[1] /\ c[2] = r[2]
  BY <1>1, <1>3, <1>4, LinkMeans, RouteMeans, GridAssumption DEF Dir
<1> QED
  BY <1>5, ToGoMeans

(* A flit is farthest from the end where it enters.                        *)
LEMMA PassFirst ==
  ASSUME NEW w \in Flow, NEW i \in Port, Passes(w, i)
  PROVE  /\ ToGo(i[1], w[2]) <= ToGo(Attach(w[1])[1], w[2])
         /\ Passes(w, Attach(w[1]))
<1> DEFINE s == Clamp(w[1])
           c == Clamp(w[2])
           x == i[1][1]
           y == i[1][2]
           Far2(a, b) == (IF a < c[1] THEN c[1] - a ELSE a - c[1])
                         + (IF b < c[2] THEN c[2] - b ELSE b - c[2])
<1>1. /\ {s[1], s[2], c[1], c[2]} \subseteq Int /\ s \in Router /\ w[2] \in Coord
      /\ Attach(w[1])[1] = s
  BY Ends
<1>2. ToGo(s, w[2]) = Far2(s[1], s[2])
  BY <1>1, ToGoMeans
<1>3. /\ x \in Int /\ y \in Int
      /\ \/ x = s[1] /\ y = s[2]
         \/ y = s[2] /\ s[1] < x /\ x <= c[1]
         \/ y = s[2] /\ s[1] > x /\ x >= c[1]
         \/ x = c[1] /\ s[2] < y /\ y <= c[2]
         \/ x = c[1] /\ s[2] > y /\ y >= c[2]
      /\ ToGo(i[1], w[2]) = Far2(x, y)
  BY PassMeans
<1> HIDE DEF s, c, x, y
<1>4. Far2(x, y) <= Far2(s[1], s[2])
  BY <1>1, <1>3
<1> QED
  BY <1>1, <1>2, <1>3, <1>4 DEF Passes

(***************************************************************************)
(* What the slots hold.                                                    *)
(***************************************************************************)
(* A slot is a register or a place in a FIFO.                              *)
LEMMA SlotHolds ==
  ASSUME MInv, NEW l \in Slot
  PROVE  /\ l = <<l[1], l[2]>> /\ l[1] \in Port /\ l[2] \in 0 .. FIFO_DEPTH + 1
         /\ l[1][1] \in Router
         /\ At(l) \in Flit \cup {NoFlit}
         /\ fifo[l[1]] \in Seq(Flit) /\ Len(fifo[l[1]]) \in 0 .. FIFO_DEPTH
         /\ l[2] = 0 => At(l) = out[l[1]]
         /\ l[2] = 1 => At(l) = hold[l[1]]
         /\ l[2] > 1 /\ l[2] - 1 \in 1 .. Len(fifo[l[1]]) => At(l) = fifo[l[1]][l[2] - 1]
         /\ l[2] > 1 /\ l[2] - 1 \notin 1 .. Len(fifo[l[1]]) => At(l) = NoFlit
<1>1. l = <<l[1], l[2]>> /\ l[1] \in Port /\ l[2] \in 0 .. FIFO_DEPTH + 1
  BY DEF Slot
<1>2. l[1][1] \in Router
  BY <1>1 DEF Port
<1>3. /\ fifo[l[1]] \in Seq(Flit) /\ Len(fifo[l[1]]) \in 0 .. FIFO_DEPTH
      /\ out[l[1]] \in Flit \cup {NoFlit} /\ hold[l[1]] \in Flit \cup {NoFlit}
  <2>1. /\ fifo[l[1]] \in Seq(Flit) /\ Len(fifo[l[1]]) <= FIFO_DEPTH
        /\ out[l[1]] \in Flit \cup {NoFlit} /\ hold[l[1]] \in Flit \cup {NoFlit}
    BY <1>1 DEF MInv, TypeOK
  <2>2. Len(fifo[l[1]]) \in Nat
    BY <2>1
  <2> QED
    BY <2>1, <2>2, MeshAssumption
<1>4. /\ l[2] = 0 => At(l) = out[l[1]]
      /\ l[2] = 1 => At(l) = hold[l[1]]
      /\ l[2] > 1 /\ l[2] - 1 \in 1 .. Len(fifo[l[1]]) => At(l) = fifo[l[1]][l[2] - 1]
      /\ l[2] > 1 /\ l[2] - 1 \notin 1 .. Len(fifo[l[1]]) => At(l) = NoFlit
  BY <1>1, <1>3, MeshAssumption DEF At
<1>5. l[2] > 1 /\ l[2] - 1 \in 1 .. Len(fifo[l[1]]) => fifo[l[1]][l[2] - 1] \in Flit
  BY <1>3
<1>6. l[2] = 0 \/ l[2] = 1 \/ l[2] > 1
  BY <1>1, MeshAssumption
<1>7. At(l) \in Flit \cup {NoFlit}
  BY <1>3, <1>4, <1>5, <1>6
<1> QED
  BY <1>1, <1>2, <1>3, <1>4, <1>7

(* A flow is not that of an empty slot.                                    *)
LEMMA HereMeans ==
  ASSUME MInv, NEW w \in Flow, NEW l
  PROVE  /\ l \in Here(w) <=> l \in Slot /\ At(l) \in Flit /\ At(l).flow = w
         /\ l \in Here(w) => /\ l \in Slot /\ At(l).n \in Nat \ {0} /\ Dst(At(l)) = w[2]
                             /\ l[2] > 1 => l[2] - 1 \in 1 .. Len(fifo[l[1]])
                             /\ l[2] = 0 => Route(l[1][1], w[2]) = l[1][2]
<1>1. NoFlit.flow # w
  BY Ends DEF NoFlit
<1>2. l \in Here(w) <=> l \in Slot /\ At(l) \in Flit /\ At(l).flow = w
  <2>1. l \in Slot => At(l) \in Flit \/ At(l) = NoFlit
    BY SlotHolds
  <2> QED
    BY <1>1, <2>1 DEF Here
<1>3. ASSUME l \in Here(w)
      PROVE  /\ l \in Slot /\ At(l).n \in Nat \ {0} /\ Dst(At(l)) = w[2]
             /\ l[2] > 1 => l[2] - 1 \in 1 .. Len(fifo[l[1]])
             /\ l[2] = 0 => Route(l[1][1], w[2]) = l[1][2]
  <2>1. l \in Slot /\ At(l) \in Flit /\ At(l).flow = w
    BY <1>2, <1>3
  <2>2. At(l).n \in Nat \ {0} /\ Dst(At(l)) = w[2] /\ At(l) # NoFlit
    BY <2>1, FlitTypes, MeshAssumption DEF Flit, Dst
  <2>3. l[2] > 1 => l[2] - 1 \in 1 .. Len(fifo[l[1]])
    BY <2>1, <2>2, SlotHolds
  <2>4. l[2] = 0 => out[l[1]] = At(l) /\ l[1] \in Port
    BY <2>1, SlotHolds
  <2>5. l[2] = 0 => Route(l[1][1], w[2]) = l[1][2]
    BY <2>2, <2>4 DEF MInv, Routed
  <2> QED
    BY <2>1, <2>2, <2>3, <2>5
<1> QED
  BY <1>2, <1>3

(* A step that moves flits of a flow from slots g[l] to slots l, and keeps *)
(* their order, keeps the flow intact and on its way.                      *)
LEMMA Moved ==
  ASSUME FInv, NEW w \in Flow, NEW g,
         \A l \in Here(w)' : g[l] \in Here(w) /\ At(l)' = At(g[l]),
         \A m \in Here(w) : \E l \in Here(w)' : g[l] = m,
         \A l, m \in Here(w)' : g[l] = g[m] => l = m,
         \A l, m \in Here(w)' : l # m /\ Ahead(w[2], g[l], g[m]) => Ahead(w[2], l, m),
         \A l \in Here(w)' : OnWay(w, g[l]) => OnWay(w, l),
         got'[w] = got[w], sent'[w] = sent[w]
  PROVE  Intact(w)' /\ \A l \in Here(w)' : OnWay(w, l)
<1>1. Intact(w) /\ \A l \in Here(w) : OnWay(w, l)
  BY DEF FInv, FlowIntact, OnTheWay
<1>2. \A l \in Here(w)' : OnWay(w, l)
  BY <1>1
<1>3. got'[w] <= sent'[w]
  BY <1>1 DEF Intact
<1>4. {At(l)'.n : l \in Here(w)'} = got'[w] + 1 .. sent'[w]
  <2>1. {At(l)'.n : l \in Here(w)'} = {At(l).n : l \in Here(w)}
    OBVIOUS
  <2> QED
    BY <1>1, <2>1 DEF Intact
<1>5. ASSUME NEW l \in Here(w)', NEW m \in Here(w)', l # m
      PROVE  \/ At(l)'.n < At(m)'.n /\ Ahead(w[2], l, m)
             \/ At(m)'.n < At(l)'.n /\ Ahead(w[2], m, l)
  <2>1. /\ g[l] \in Here(w) /\ At(l)' = At(g[l])
        /\ g[m] \in Here(w) /\ At(m)' = At(g[m]) /\ g[l] # g[m]
    BY <1>5
  <2>2. \/ At(g[l]).n < At(g[m]).n /\ Ahead(w[2], g[l], g[m])
        \/ At(g[m]).n < At(g[l]).n /\ Ahead(w[2], g[m], g[l])
    BY <1>1, <2>1 DEF Intact
  <2> QED
    BY <1>5, <2>1, <2>2
<1> QED
  BY <1>2, <1>4, <1>5, <1>3 DEF Intact

(* A flow none of whose slots change is kept.                              *)
LEMMA Unmoved ==
  ASSUME FInv, NEW w \in Flow,
         \A l \in Slot : l \in Here(w) \/ l \in Here(w)' => At(l)' = At(l),
         got'[w] = got[w], sent'[w] = sent[w]
  PROVE  Intact(w)' /\ \A l \in Here(w)' : OnWay(w, l)
<1> DEFINE g == [l \in Slot |-> l]
<1>1. Here(w)' = Here(w) /\ \A l \in Here(w) : l \in Slot /\ At(l)' = At(l)
  BY DEF Here
<1>2. \A l \in Here(w) : g[l] = l
  BY <1>1
<1> HIDE DEF g
<1> QED
  BY <1>1, <1>2, Moved

(* What is ahead of what, from the hops to go.                             *)
LEMMA AheadMeans ==
  ASSUME NEW t \in Coord, NEW l \in Slot, NEW m \in Slot
  PROVE  /\ ToGo(l[1][1], t) \in Nat /\ ToGo(m[1][1], t) \in Nat
         /\ l[2] \in Nat /\ m[2] \in Nat
         /\ Ahead(t, l, m) => ToGo(l[1][1], t) <= ToGo(m[1][1], t)
<1>1. l[1][1] \in Router /\ m[1][1] \in Router /\ l[2] \in Nat /\ m[2] \in Nat
  BY MeshAssumption DEF Slot, Port
<1>2. ToGo(l[1][1], t) \in Nat /\ ToGo(m[1][1], t) \in Nat
  BY <1>1, ToGoMeans
<1> QED
  BY <1>1, <1>2 DEF Ahead

(* A flit that is no farther from the end than an input on its way is      *)
(* ahead of the last slot of that input, if it is another.                 *)
LEMMA BehindAll ==
  ASSUME FInv, NEW w \in Flow, NEW q \in Port, Passes(w, q),
         NEW e \in Slot, e = <<q, Len(fifo[q]) + 2>>,
         NEW l \in Here(w), ToGo(l[1][1], w[2]) <= ToGo(q[1], w[2])
  PROVE  Ahead(w[2], l, e)
<1>1. MInv /\ l \in Slot /\ OnWay(w, l) /\ w[2] \in Coord
  BY HereMeans, Ends DEF FInv, OnTheWay
<1>2. /\ e[1] = q /\ e[2] = Len(fifo[q]) + 2 /\ fifo[q] \in Seq(Flit)
      /\ Len(fifo[q]) \in Nat
  BY <1>1, SlotHolds, MeshAssumption
<1>3. /\ ToGo(l[1][1], w[2]) \in Nat /\ ToGo(q[1], w[2]) \in Nat /\ l[2] \in Nat
  BY <1>1, <1>2, AheadMeans
<1>4. CASE ToGo(l[1][1], w[2]) < ToGo(q[1], w[2])
  BY <1>2, <1>4 DEF Ahead
<1>5. CASE ToGo(l[1][1], w[2]) = ToGo(q[1], w[2])
  <2>1. PICK i \in Port : i[1] = l[1][1] /\ Passes(w, i) /\ (l[2] > 0 => i = l[1])
    BY <1>1 DEF OnWay
  <2>2. i = q
    BY <1>5, <2>1, PassOne
  <2>3. l[1][1] = e[1][1] /\ (l[2] = 0 \/ l[1] = e[1])
    BY <1>2, <1>3, <2>1, <2>2
  <2>4. l[2] < e[2]
    <3>1. CASE l[2] > 1
      <4>1. l[1] = q
        BY <1>3, <2>1, <2>2, <3>1
      <4>2. l[2] - 1 \in 1 .. Len(fifo[q])
        BY <1>1, <3>1, <4>1, HereMeans
      <4> QED
        BY <1>2, <1>3, <4>2
    <3>2. CASE l[2] <= 1
      BY <1>2, <1>3, <3>2
    <3> QED
      BY <1>3, <3>1, <3>2
  <2> QED
    BY <2>3, <2>4 DEF Ahead
<1> QED
  BY <1>3, <1>4, <1>5

-----------------------------------------------------------------------------
(***************************************************************************)
(* The flows stay intact and on their way, step by step.                   *)
(***************************************************************************)
(* What a step leaves of flow w.                                           *)
Kept(w) == Intact(w)' /\ \A l \in Here(w)' : OnWay(w, l)

(* The flits of an input move up one slot.                                 *)
LEMMA LoadKeeps ==
  ASSUME FInv, MInv', NEW p \in Port, Load(p), NEW w \in Flow
  PROVE  Kept(w)
<1> DEFINE g == [l \in Slot |-> IF l[1] = p /\ l[2] > 0 THEN <<p, l[2] + 1>> ELSE l]
<1>1. /\ MInv /\ fifo \in [Port -> Seq(Flit)] /\ hold \in [Port -> Flit \cup {NoFlit}]
      /\ fifo[p] # <<>> /\ hold[p] = NoFlit
      /\ hold' = [hold EXCEPT ![p] = Head(fifo[p])]
      /\ fifo' = [fifo EXCEPT ![p] = Tail(fifo[p])]
      /\ UNCHANGED <<out, sent, got>>
  BY DEF FInv, MInv, TypeOK, Load, CanLoad
<1>2. /\ fifo[p] \in Seq(Flit) /\ Len(fifo[p]) \in 1 .. FIFO_DEPTH
      /\ Head(fifo[p]) = fifo[p][1] /\ Tail(fifo[p]) \in Seq(Flit)
      /\ Len(Tail(fifo[p])) = Len(fifo[p]) - 1
      /\ \A k \in 1 .. Len(fifo[p]) - 1 : Tail(fifo[p])[k] = fifo[p][k + 1]
  <2>1. fifo[p] \in Seq(Flit) /\ fifo[p] # <<>> /\ Len(fifo[p]) <= FIFO_DEPTH
    BY <1>1 DEF MInv, TypeOK
  <2> QED
    BY <2>1, MeshAssumption
<1>3. /\ fifo'[p] = Tail(fifo[p]) /\ hold'[p] = Head(fifo[p]) /\ out' = out
      /\ \A q \in Port : q # p => fifo'[q] = fifo[q] /\ hold'[q] = hold[q]
  BY <1>1
<1>4. ASSUME NEW l \in Slot, l[1] # p \/ l[2] = 0
      PROVE  g[l] = l /\ At(l)' = At(l)
  <2>1. g[l] = l
    BY <1>4
  <2>2. l[1] \in Port
    BY DEF Slot
  <2>3. At(l)' = At(l)
    BY <1>3, <1>4, <2>2 DEF At
  <2> QED
    BY <2>1, <2>3
<1>5. ASSUME NEW l \in Slot, l[1] = p, l[2] > 0, l[2] <= Len(fifo[p])
      PROVE  /\ g[l] = <<p, l[2] + 1>> /\ g[l] \in Slot
             /\ At(l)' = fifo[p][l[2]] /\ At(g[l]) = fifo[p][l[2]]
  <2>1. g[l] = <<p, l[2] + 1>> /\ l[2] \in 1 .. FIFO_DEPTH + 1
    BY <1>5, MeshAssumption DEF Slot
  <2>2. g[l] \in Slot
    BY <1>2, <1>5, <2>1, MeshAssumption DEF Slot
  <2>3. At(g[l]) = fifo[p][l[2]]
    BY <1>2, <1>5, <2>1, <2>2 DEF At
  <2>4. CASE l[2] = 1
    <3>1. At(l)' = hold'[p]
      BY <1>5, <2>4 DEF At
    <3> QED
      BY <1>2, <1>3, <2>1, <2>2, <2>3, <2>4, <3>1
  <2>5. CASE l[2] > 1
    <3>1. l[2] - 1 \in 1 .. Len(fifo[p]) - 1 /\ l[2] - 1 + 1 = l[2] /\ l[2] # 0 /\ l[2] # 1
      BY <1>2, <1>5, <2>1, <2>5
    <3>2. l[2] - 1 <= Len(fifo'[p])
      BY <1>2, <1>3, <3>1
    <3>3. At(l)' = fifo'[p][l[2] - 1]
      BY <1>5, <3>1, <3>2 DEF At
    <3>4. fifo'[p][l[2] - 1] = fifo[p][l[2]]
      BY <1>2, <1>3, <3>1
    <3> QED
      BY <2>1, <2>2, <2>3, <3>3, <3>4
  <2> QED
    BY <1>5, <2>1, <2>4, <2>5
<1>6. ASSUME NEW l \in Slot, l[1] = p, l[2] > Len(fifo[p])
      PROVE  At(l)' = NoFlit
  <2>1. l[2] > 1 /\ l[2] \in Nat
    BY <1>2, <1>6, MeshAssumption DEF Slot
  <2>2. ~(l[2] - 1 <= Len(fifo'[p]))
    BY <1>2, <1>3, <1>6, <2>1
  <2> QED
    BY <1>6, <2>1, <2>2 DEF At
<1>7. NoFlit.flow # w
  BY Ends DEF NoFlit
<1>8. ASSUME NEW l \in Here(w)'
      PROVE  /\ l \in Slot /\ g[l] \in Here(w) /\ At(l)' = At(g[l])
             /\ g[l][1] = l[1] /\ l[2] \in Nat
             /\ g[l] = IF l[1] = p /\ l[2] > 0 THEN <<p, l[2] + 1>> ELSE l
  <2>1. l \in Slot /\ At(l)'.flow = w /\ l[2] \in Nat /\ l[1] \in Port
    BY MeshAssumption DEF Here, Slot
  <2>2. At(l)' # NoFlit
    BY <1>7, <2>1
  <2>3. g[l] = IF l[1] = p /\ l[2] > 0 THEN <<p, l[2] + 1>> ELSE l
    BY <2>1
  <2>4. g[l] \in Slot /\ At(l)' = At(g[l])
    <3>1. CASE l[1] # p \/ l[2] = 0
      BY <1>4, <2>1, <3>1
    <3>2. CASE l[1] = p /\ l[2] > 0
      <4>1. l[2] <= Len(fifo[p])
        BY <1>2, <1>6, <2>1, <2>2, <3>2
      <4> QED
        BY <1>5, <2>1, <3>2, <4>1
    <3> QED
      BY <2>1, <3>1, <3>2
  <2> QED
    BY <2>1, <2>3, <2>4 DEF Here
<1>9. ASSUME NEW m \in Here(w) PROVE \E l \in Here(w)' : g[l] = m
  <2>1. m \in Slot /\ At(m).flow = w /\ m[2] \in Nat /\ m = <<m[1], m[2]>> /\ m[1] \in Port
    BY MeshAssumption DEF Here, Slot
  <2>2. CASE m[1] # p \/ m[2] = 0
    BY <1>4, <2>1, <2>2 DEF Here
  <2>3. CASE m[1] = p /\ m[2] > 0
    <3> DEFINE l == <<p, m[2] - 1>>
    <3>1. m[2] # 1
      BY <1>1, <1>7, <2>1, <2>3 DEF At
    <3>2. m[2] > 1 /\ m[2] - 1 \in 1 .. Len(fifo[p])
      BY <1>1, <2>1, <2>3, <3>1, HereMeans, SMTT(40)
    <3>3. l \in Slot /\ l[1] = p /\ l[2] > 0 /\ l[2] <= Len(fifo[p]) /\ l[2] + 1 = m[2]
      BY <1>2, <2>1, <3>2, MeshAssumption DEF Slot
    <3>4. g[l] = m /\ At(l)' = At(m)
      <4> HIDE DEF g, l
      <4>1. g[l] = <<p, l[2] + 1>> /\ At(l)' = At(g[l])
        BY <1>5, <3>3
      <4> QED
        BY <2>1, <2>3, <3>3, <4>1
    <3> HIDE DEF g, l
    <3> QED
      BY <2>1, <3>3, <3>4 DEF Here
  <2>4. m[2] = 0 \/ m[2] > 0
    BY <2>1
  <2> QED
    BY <2>2, <2>3, <2>4, Zenon
<1> HIDE DEF g
<1>10. ASSUME NEW l \in Here(w)', NEW m \in Here(w)'
       PROVE  /\ g[l] = g[m] => l = m
              /\ Ahead(w[2], g[l], g[m]) => Ahead(w[2], l, m)
  <2>1. /\ l \in Slot /\ g[l][1] = l[1] /\ l[2] \in Nat
        /\ g[l] = IF l[1] = p /\ l[2] > 0 THEN <<p, l[2] + 1>> ELSE l
        /\ m \in Slot /\ g[m][1] = m[1] /\ m[2] \in Nat
        /\ g[m] = IF m[1] = p /\ m[2] > 0 THEN <<p, m[2] + 1>> ELSE m
    BY <1>8, Zenon
  <2>2. l = <<l[1], l[2]>> /\ m = <<m[1], m[2]>>
    BY <2>1 DEF Slot
  <2>3. /\ g[l][1] = l[1] /\ l[2] \in Nat
        /\ g[l][2] = IF l[1] = p /\ l[2] > 0 THEN l[2] + 1 ELSE l[2]
    BY <2>1
  <2>4. /\ g[m][1] = m[1] /\ m[2] \in Nat
        /\ g[m][2] = IF m[1] = p /\ m[2] > 0 THEN m[2] + 1 ELSE m[2]
    BY <2>1
  <2> QED
    BY <2>2, <2>3, <2>4 DEF Ahead
<1>11. ASSUME NEW l \in Here(w)', OnWay(w, g[l]) PROVE OnWay(w, l)
  <2>1. /\ g[l][1] = l[1] /\ l[2] \in Nat
        /\ g[l] = IF l[1] = p /\ l[2] > 0 THEN <<p, l[2] + 1>> ELSE l
    BY <1>8, Zenon
  <2>2. /\ g[l][1] = l[1] /\ l[2] \in Nat
        /\ g[l][2] = IF l[1] = p /\ l[2] > 0 THEN l[2] + 1 ELSE l[2]
    BY <2>1
  <2> QED
    BY <1>11, <2>2 DEF OnWay
<1>12. got'[w] = got[w] /\ sent'[w] = sent[w]
  BY <1>1
<1>13. \A l \in Here(w)' : g[l] \in Here(w) /\ At(l)' = At(g[l])
  BY <1>8, Zenon
<1>14. \A l, m \in Here(w)' : g[l] = g[m] => l = m
  BY <1>10, Zenon
<1>15. \A l, m \in Here(w)' : l # m /\ Ahead(w[2], g[l], g[m]) => Ahead(w[2], l, m)
  BY <1>10, Zenon
<1> QED
  BY <1>9, <1>11, <1>12, <1>13, <1>14, <1>15, Moved DEF Kept

(* A flit moves to the output its flow leaves the router by.               *)
LEMMA GrantKeeps ==
  ASSUME FInv, MInv', NEW p \in Port, NEW i \in Inputs(p), Grant(i, p), NEW w \in Flow
  PROVE  Kept(w)
<1> DEFINE b == <<p, 0>>
           a == <<i, 1>>
           g == [l \in Slot |-> IF l = b THEN a ELSE l]
<1>1. /\ MInv /\ i \in Port /\ i[1] = p[1]
      /\ hold \in [Port -> Flit \cup {NoFlit}] /\ out \in [Port -> Flit \cup {NoFlit}]
      /\ hold[i] # NoFlit /\ out[p] = NoFlit
      /\ out' = [out EXCEPT ![p] = hold[i]]
      /\ hold' = [hold EXCEPT ![i] = NoFlit]
      /\ UNCHANGED <<fifo, sent, got>>
  BY DEF FInv, MInv, TypeOK, Grant, Granted, Requests, Inputs, Port
<1>2. a \in Slot /\ b \in Slot /\ a # b
  BY <1>1, MeshAssumption DEF Slot
<1>3. At(a) = hold[i] /\ At(b) = NoFlit /\ At(a)' = NoFlit /\ At(b)' = hold[i]
  BY <1>1 DEF At
<1>4. ASSUME NEW l \in Slot, l # a, l # b PROVE At(l)' = At(l)
  <2>1. l = <<l[1], l[2]>> /\ l[1] \in Port
    BY DEF Slot
  <2>2. ~(l[1] = i /\ l[2] = 1) /\ ~(l[1] = p /\ l[2] = 0)
    BY <1>4, <2>1
  <2>3. l[2] = 0 => out'[l[1]] = out[l[1]]
    BY <1>1, <2>1, <2>2
  <2>4. l[2] = 1 => hold'[l[1]] = hold[l[1]]
    BY <1>1, <2>1, <2>2
  <2>5. fifo' = fifo
    BY <1>1
  <2> QED
    BY <2>3, <2>4, <2>5 DEF At
<1>5. NoFlit.flow # w
  BY Ends DEF NoFlit
<1>6. /\ g[b] = a /\ \A l \in Slot : l # b => g[l] = l
  BY <1>2
<1> HIDE DEF g
<1>7. ASSUME NEW l \in Here(w)'
      PROVE  /\ l \in Slot /\ l # a /\ g[l] \in Here(w) /\ At(l)' = At(g[l])
  <2>1. l \in Slot /\ At(l)'.flow = w
    BY DEF Here
  <2>2. l # a
    BY <1>3, <1>5, <2>1
  <2>3. g[l] \in Slot /\ At(l)' = At(g[l])
    BY <1>2, <1>3, <1>4, <1>6, <2>1, <2>2
  <2> QED
    BY <2>1, <2>2, <2>3 DEF Here
<1>8. ASSUME NEW m \in Here(w) PROVE \E l \in Here(w)' : g[l] = m
  <2>1. m \in Slot /\ At(m).flow = w /\ m # b
    BY <1>3, <1>5 DEF Here
  <2>2. CASE m = a
    <3>1. b \in Here(w)'
      BY <1>2, <1>3, <2>1, <2>2 DEF Here
    <3> QED
      BY <1>6, <2>2, <3>1
  <2>3. CASE m # a
    <3>1. m \in Here(w)'
      BY <1>4, <2>1, <2>3 DEF Here
    <3> QED
      BY <1>6, <2>1, <3>1
  <2> QED
    BY <2>2, <2>3
<1>9. ASSUME NEW l \in Here(w)', NEW m \in Here(w)', g[l] = g[m] PROVE l = m
  BY <1>2, <1>6, <1>7, <1>9
<1>10. ASSUME NEW l \in Here(w)', NEW m \in Here(w)', l # m, Ahead(w[2], g[l], g[m])
       PROVE  Ahead(w[2], l, m)
  <2>1. /\ a[1] = i /\ a[2] = 1 /\ b[1] = p /\ b[2] = 0
        /\ l \in Slot /\ m \in Slot /\ l[2] \in Nat /\ m[2] \in Nat
    BY <1>7, MeshAssumption DEF Slot
  <2> HIDE DEF a, b
  <2>2. CASE l = b
    <3>1. g[m] = m /\ g[l] = a
      BY <1>6, <1>10, <2>1, <2>2
    <3> QED
      BY <1>1, <1>10, <2>1, <2>2, <3>1 DEF Ahead
  <2>3. CASE m = b
    <3>1. g[l] = l /\ g[m] = a /\ l \in Here(w)
      BY <1>6, <1>7, <1>10, <2>1, <2>3
    <3>2. CASE ToGo(l[1][1], w[2]) < ToGo(a[1][1], w[2])
      BY <1>1, <2>1, <2>3, <3>2 DEF Ahead
    <3>3. CASE l[1][1] = a[1][1] /\ l[2] = 0
      <4>1. l[1] = <<p[1], l[1][2]>> /\ Route(p[1], w[2]) = l[1][2]
        BY <1>1, <2>1, <3>1, <3>3, HereMeans DEF Slot, Port
      <4>2. Route(p[1], w[2]) = p[2]
        <5>1. a \in Here(w)
          BY <1>7, <3>1
        <5>2. Dst(hold[i]) = w[2]
          BY <1>1, <1>3, <5>1, HereMeans
        <5> QED
          BY <1>1, <5>2 DEF Grant, Granted, Requests
      <4>3. l[1] = p
        BY <4>1, <4>2 DEF Port
      <4>4. l = b
        BY <2>1, <3>3, <4>3 DEF Slot, b
      <4> QED
        BY <1>10, <2>3, <4>4
    <3> QED
      BY <1>10, <2>1, <3>1, <3>2, <3>3 DEF Ahead
  <2>4. CASE l # b /\ m # b
    BY <1>6, <1>10, <2>1, <2>4
  <2> QED
    BY <2>2, <2>3, <2>4
<1>11. ASSUME NEW l \in Here(w)', OnWay(w, g[l]) PROVE OnWay(w, l)
  <2>1. CASE l = b
    BY <1>1, <1>6, <1>11, <2>1 DEF OnWay
  <2>2. CASE l # b
    BY <1>6, <1>7, <1>11, <2>2
  <2> QED
    BY <2>1, <2>2
<1>12. got'[w] = got[w] /\ sent'[w] = sent[w]
  BY <1>1
<1> HIDE DEF a, b
<1> QED
  BY <1>7, <1>8, <1>9, <1>10, <1>11, <1>12, Moved DEF Kept

(* A flit crosses to the next router and is the last of its input.         *)
LEMMA SendKeeps ==
  ASSUME FInv, MInv', NEW p \in Port, Send(p), NEW w \in Flow
  PROVE  Kept(w)
<1> DEFINE q == Far(p)
           a == <<p, 0>>
<1>1. /\ MInv /\ q \in Port /\ Link(p) /\ ~Busy(q)
      /\ fifo \in [Port -> Seq(Flit)] /\ out \in [Port -> Flit \cup {NoFlit}]
      /\ out[p] # NoFlit
      /\ fifo' = [fifo EXCEPT ![q] = Append(fifo[q], out[p])]
      /\ out' = [out EXCEPT ![p] = NoFlit]
      /\ UNCHANGED <<hold, sent, got>>
  BY FarMeans DEF FInv, MInv, TypeOK, Send, CanSend
<1> HIDE DEF q
<1>2. /\ fifo[q] \in Seq(Flit) /\ Len(fifo[q]) \in Nat /\ Len(fifo[q]) < FIFO_DEPTH
      /\ out[p] \in Flit
      /\ fifo'[q] = Append(fifo[q], out[p]) /\ Len(fifo'[q]) = Len(fifo[q]) + 1
      /\ fifo'[q][Len(fifo[q]) + 1] = out[p]
      /\ \A k \in 1 .. Len(fifo[q]) : fifo'[q][k] = fifo[q][k]
  BY <1>1, MeshAssumption DEF Busy
<1>3. <<q, Len(fifo[q]) + 2>> \in Slot
  BY <1>1, <1>2, MeshAssumption DEF Slot
<1>4. PICK e \in Slot : e = <<q, Len(fifo[q]) + 2>>
  BY <1>3
<1> DEFINE g == [l \in Slot |-> IF l = e THEN a ELSE l]
<1>5. a \in Slot /\ a # e
  BY <1>1, <1>2, <1>4, MeshAssumption DEF Slot
<1>6. At(a) = out[p] /\ At(e) = NoFlit /\ At(a)' = NoFlit /\ At(e)' = out[p]
  BY <1>1, <1>2, <1>4 DEF At
<1>7. ASSUME NEW l \in Slot, l # a, l # e PROVE At(l)' = At(l)
  <2>1. l = <<l[1], l[2]>> /\ l[1] \in Port /\ l[2] \in Nat
    BY MeshAssumption DEF Slot
  <2>2. ~(l[1] = p /\ l[2] = 0) /\ ~(l[1] = q /\ l[2] = Len(fifo[q]) + 2)
    BY <1>7, <1>4, <2>1
  <2>3. l[2] = 0 => out'[l[1]] = out[l[1]]
    BY <1>1, <2>1, <2>2
  <2>4. hold' = hold
    BY <1>1
  <2>5. l[1] # q => fifo'[l[1]] = fifo[l[1]]
    BY <1>1, <2>1
  <2>6. CASE l[1] # q \/ ~(l[2] > 1)
    BY <2>1, <2>3, <2>4, <2>5, <2>6 DEF At
  <2>7. CASE l[1] = q /\ l[2] > 1
    <3>1. l[2] - 1 <= Len(fifo[q]) => fifo'[q][l[2] - 1] = fifo[q][l[2] - 1]
      BY <1>2, <2>1, <2>7
    <3>2. l[2] - 1 <= Len(fifo'[q]) <=> l[2] - 1 <= Len(fifo[q])
      BY <1>2, <2>1, <2>2, <2>7
    <3>3. l[2] # 0 /\ l[2] # 1
      BY <2>7
    <3> QED
      BY <2>7, <3>1, <3>2, <3>3 DEF At
  <2> QED
    BY <2>6, <2>7
<1>8. NoFlit.flow # w
  BY Ends DEF NoFlit
<1>9. /\ g[e] = a /\ \A l \in Slot : l # e => g[l] = l
  BY <1>5
<1>10. /\ a[1] = p /\ a[2] = 0 /\ e[1] = q /\ e[2] = Len(fifo[q]) + 2
  BY <1>4
<1> HIDE DEF g
<1>11. ASSUME NEW l \in Here(w)'
      PROVE  /\ l \in Slot /\ l # a /\ g[l] \in Here(w) /\ At(l)' = At(g[l])
  <2>1. l \in Slot /\ At(l)'.flow = w
    BY DEF Here
  <2>2. l # a
    BY <1>6, <1>8, <2>1
  <2> HIDE DEF a
  <2>3. g[l] \in Slot /\ At(l)' = At(g[l])
    BY <1>5, <1>6, <1>7, <1>9, <2>1, <2>2
  <2> QED
    BY <2>1, <2>2, <2>3 DEF Here
<1>12. ASSUME NEW m \in Here(w) PROVE \E l \in Here(w)' : g[l] = m
  <2>1. m \in Slot /\ At(m).flow = w /\ m # e
    BY <1>6, <1>8 DEF Here
  <2> HIDE DEF a
  <2>2. CASE m = a
    <3>1. e \in Here(w)'
      BY <1>5, <1>6, <2>1, <2>2 DEF Here
    <3> QED
      BY <1>9, <2>2, <3>1
  <2>3. CASE m # a
    <3>1. m \in Here(w)'
      BY <1>7, <2>1, <2>3 DEF Here
    <3> QED
      BY <1>9, <2>1, <3>1
  <2> QED
    BY <2>2, <2>3
<1> HIDE DEF a
<1>13. ASSUME NEW l \in Here(w)', NEW m \in Here(w)', g[l] = g[m] PROVE l = m
  BY <1>5, <1>9, <1>11, <1>13
<1>14. ASSUME a \in Here(w)
       PROVE  /\ w[2] \in Coord /\ Passes(w, q)
              /\ ToGo(q[1], w[2]) = ToGo(p[1], w[2]) - 1
  <2>1. PICK i \in Port : i[1] = a[1][1] /\ Passes(w, i)
    BY <1>14 DEF FInv, OnTheWay, OnWay
  <2>2. Route(p[1], w[2]) = p[2] /\ i[1] = p[1] /\ p = <<p[1], p[2]>>
    BY <1>1, <1>10, <1>14, <2>1, HereMeans DEF Port
  <2> QED
    BY <1>1, <2>1, <2>2, PassNext, Ends DEF q
<1>15. ASSUME NEW l \in Here(w)', NEW m \in Here(w)', l # m, Ahead(w[2], g[l], g[m])
       PROVE  Ahead(w[2], l, m)
  <2>1. l \in Slot /\ m \in Slot /\ w[2] \in Coord /\ g[l] \in Here(w) /\ g[m] \in Here(w)
    BY <1>11, Ends
  <2>2. CASE l = e
    <3>1. g[m] = m /\ g[l] = a /\ a \in Here(w)
      BY <1>9, <1>15, <2>1, <2>2
    <3>2. ToGo(p[1], w[2]) <= ToGo(m[1][1], w[2])
      BY <1>5, <1>10, <1>15, <2>1, <3>1, AheadMeans
    <3>3. /\ ToGo(p[1], w[2]) \in Nat /\ ToGo(m[1][1], w[2]) \in Nat
          /\ ToGo(q[1], w[2]) = ToGo(p[1], w[2]) - 1
      BY <1>5, <1>10, <1>14, <2>1, <3>1, AheadMeans
    <3> QED
      BY <1>10, <2>2, <3>2, <3>3 DEF Ahead
  <2>3. CASE m = e
    <3>1. g[l] = l /\ g[m] = a /\ a \in Here(w) /\ l \in Here(w)
      BY <1>9, <1>11, <1>15, <2>1, <2>3
    <3>2. /\ ToGo(p[1], w[2]) \in Nat /\ ToGo(l[1][1], w[2]) \in Nat /\ l[2] \in Nat
          /\ ToGo(q[1], w[2]) = ToGo(p[1], w[2]) - 1 /\ Passes(w, q)
      BY <1>5, <1>10, <1>14, <2>1, <3>1, AheadMeans
    <3>3. ToGo(l[1][1], w[2]) < ToGo(p[1], w[2])
      BY <1>10, <1>15, <3>1, <3>2 DEF Ahead
    <3>4. ToGo(l[1][1], w[2]) <= ToGo(q[1], w[2])
      BY <3>2, <3>3
    <3> QED
      BY <1>1, <1>5, <2>3, <3>1, <3>2, <3>4, <1>4, BehindAll
  <2>4. CASE l # e /\ m # e
    BY <1>9, <1>15, <2>1, <2>4
  <2> QED
    BY <2>2, <2>3, <2>4
<1>16. ASSUME NEW l \in Here(w)', OnWay(w, g[l]) PROVE OnWay(w, l)
  <2>1. CASE l = e
    <3>1. Passes(w, q)
      BY <1>9, <1>11, <1>14, <2>1
    <3> QED
      BY <1>1, <1>10, <2>1, <3>1 DEF OnWay
  <2>2. CASE l # e
    BY <1>9, <1>11, <1>16, <2>2
  <2> QED
    BY <2>1, <2>2
<1>17. got'[w] = got[w] /\ sent'[w] = sent[w]
  BY <1>1
<1> QED
  BY <1>11, <1>12, <1>13, <1>15, <1>16, <1>17, Moved DEF Kept

(* A flit enters behind all others of its flow.                            *)
LEMMA InjectKeeps ==
  ASSUME FInv, MInv', NEW v \in Flow, Inject(v), NEW w \in Flow
  PROVE  Kept(w)
<1> DEFINE q == Attach(v[1])
           f == [flow |-> v, n |-> sent[v] + 1]
<1>1. /\ MInv /\ q \in Port /\ ~Busy(q) /\ v[1] \in Coord /\ v[2] \in Coord
      /\ fifo \in [Port -> Seq(Flit)] /\ sent \in [Flow -> 0 .. MaxFlits]
      /\ got \in [Flow -> Nat] /\ sent[v] < MaxFlits
      /\ fifo' = [fifo EXCEPT ![q] = Append(fifo[q], f)]
      /\ sent' = [sent EXCEPT ![v] = sent[v] + 1]
      /\ UNCHANGED <<hold, out, got>>
  BY Ends DEF FInv, MInv, TypeOK, Inject
<1>2. f.flow = v /\ f.n = sent[v] + 1
  OBVIOUS
<1> HIDE DEF q, f
<1>3. f \in Flit
  BY <1>1, <1>2, MeshAssumption DEF Flit, f
<1>4. /\ fifo[q] \in Seq(Flit) /\ Len(fifo[q]) \in Nat /\ Len(fifo[q]) < FIFO_DEPTH
      /\ fifo'[q] = Append(fifo[q], f) /\ Len(fifo'[q]) = Len(fifo[q]) + 1
      /\ fifo'[q][Len(fifo[q]) + 1] = f
      /\ \A k \in 1 .. Len(fifo[q]) : fifo'[q][k] = fifo[q][k]
  BY <1>1, <1>3, MeshAssumption DEF Busy
<1>5. <<q, Len(fifo[q]) + 2>> \in Slot
  BY <1>1, <1>4, MeshAssumption DEF Slot
<1>6. PICK e \in Slot : e = <<q, Len(fifo[q]) + 2>>
  BY <1>5
<1>7. At(e) = NoFlit /\ At(e)' = f
  BY <1>1, <1>4, <1>6 DEF At
<1>8. ASSUME NEW l \in Slot, l # e PROVE At(l)' = At(l)
  <2>1. l = <<l[1], l[2]>> /\ l[1] \in Port /\ l[2] \in Nat
    BY MeshAssumption DEF Slot
  <2>2. ~(l[1] = q /\ l[2] = Len(fifo[q]) + 2)
    BY <1>6, <1>8, <2>1
  <2>3. out' = out /\ hold' = hold
    BY <1>1
  <2>4. l[1] # q => fifo'[l[1]] = fifo[l[1]]
    BY <1>1, <2>1
  <2>5. CASE l[1] # q \/ ~(l[2] > 1)
    BY <2>1, <2>3, <2>4, <2>5 DEF At
  <2>6. CASE l[1] = q /\ l[2] > 1
    <3>1. l[2] - 1 <= Len(fifo[q]) => fifo'[q][l[2] - 1] = fifo[q][l[2] - 1]
      BY <1>4, <2>1, <2>6
    <3>2. l[2] - 1 <= Len(fifo'[q]) <=> l[2] - 1 <= Len(fifo[q])
      BY <1>4, <2>1, <2>2, <2>6
    <3>3. l[2] # 0 /\ l[2] # 1
      BY <2>6
    <3> QED
      BY <2>6, <3>1, <3>2, <3>3 DEF At
  <2> QED
    BY <2>5, <2>6
<1>9. NoFlit.flow # w
  BY Ends DEF NoFlit
<1>10. e[1] = q /\ e[2] = Len(fifo[q]) + 2
  BY <1>6
<1>11. CASE w # v
  <2>1. \A l \in Slot : l \in Here(w) \/ l \in Here(w)' => At(l)' = At(l)
    BY <1>2, <1>7, <1>8, <1>9, <1>11 DEF Here
  <2>2. got'[w] = got[w] /\ sent'[w] = sent[w]
    BY <1>1, <1>11
  <2> QED
    BY <2>1, <2>2, Unmoved DEF Kept
<1>12. CASE w = v
  <2>1. Here(w)' = Here(w) \cup {e} /\ e \notin Here(w)
    BY <1>2, <1>6, <1>7, <1>8, <1>9, <1>12 DEF Here
  <2>2. \A l \in Here(w) : l \in Slot /\ At(l)' = At(l) /\ l # e
    BY <1>8, <2>1 DEF Here
  <2>3. Passes(w, q) /\ q[1] \in Router
    BY <1>1, <1>12 DEF Passes, q, Port
  <2>4. ASSUME NEW l \in Here(w) PROVE Ahead(w[2], l, e)
    <3>1. PICK i \in Port : i[1] = l[1][1] /\ Passes(w, i)
      BY DEF FInv, OnTheWay, OnWay
    <3>2. ToGo(l[1][1], w[2]) <= ToGo(q[1], w[2])
      BY <1>12, <3>1, PassFirst DEF q
    <3> QED
      BY <1>1, <1>6, <2>3, <3>2, BehindAll
  <2>5. /\ {At(l).n : l \in Here(w)} = got[w] + 1 .. sent[w]
        /\ got[w] \in Nat /\ sent[w] \in Nat /\ got'[w] = got[w] /\ sent'[w] = sent[w] + 1
    BY <1>1, <1>12, MeshAssumption DEF FInv, FlowIntact, Intact
  <2>6. \A l \in Here(w) : At(l).n \in Nat /\ At(l).n <= sent[w]
    BY <2>5
  <2>7. {At(l)'.n : l \in Here(w)'} = got'[w] + 1 .. sent'[w]
    <3>1. {At(l)'.n : l \in Here(w)'} = {At(l).n : l \in Here(w)} \cup {sent[w] + 1}
      BY <1>2, <1>7, <1>12, <2>1, <2>2
    <3>2. got[w] <= sent[w]
      BY DEF FInv, FlowIntact, Intact
    <3> QED
      BY <2>5, <3>1, <3>2
  <2>8. ASSUME NEW l \in Here(w)', NEW m \in Here(w)', l # m
        PROVE  \/ At(l)'.n < At(m)'.n /\ Ahead(w[2], l, m)
               \/ At(m)'.n < At(l)'.n /\ Ahead(w[2], m, l)
    <3>1. CASE m = e
      <4>1. l \in Here(w) /\ At(l)' = At(l) /\ At(m)'.n = sent[w] + 1
        BY <1>2, <1>7, <1>12, <2>1, <2>2, <2>8, <3>1
      <4> QED
        BY <2>4, <2>5, <2>6, <3>1, <4>1
    <3>2. CASE l = e
      <4>1. m \in Here(w) /\ At(m)' = At(m) /\ At(l)'.n = sent[w] + 1
        BY <1>2, <1>7, <1>12, <2>1, <2>2, <2>8, <3>2
      <4> QED
        BY <2>4, <2>5, <2>6, <3>2, <4>1
    <3>3. CASE l # e /\ m # e
      <4>1. l \in Here(w) /\ At(l)' = At(l) /\ m \in Here(w) /\ At(m)' = At(m)
        BY <2>1, <2>2, <3>3
      <4> QED
        BY <2>8, <4>1 DEF FInv, FlowIntact, Intact
    <3> QED
      BY <3>1, <3>2, <3>3
  <2>9. got'[w] <= sent'[w]
    BY <2>5 DEF FInv, FlowIntact, Intact
  <2>10. ASSUME NEW l \in Here(w)' PROVE OnWay(w, l)
    <3>1. CASE l = e
      BY <1>1, <1>10, <2>3, <3>1 DEF OnWay
    <3>2. CASE l # e
      BY <2>1, <3>2 DEF FInv, OnTheWay
    <3> QED
      BY <3>1, <3>2
  <2> QED
    BY <2>7, <2>8, <2>10, <2>9 DEF Kept, Intact
<1> QED
  BY <1>11, <1>12

(* The oldest flit of its flow leaves.                                     *)
LEMMA DeliverKeeps ==
  ASSUME FInv, MInv', NEW p \in Port, Deliver(p), NEW w \in Flow
  PROVE  Kept(w)
<1> DEFINE a == <<p, 0>>
           f == out[p]
<1>1. /\ MInv /\ out \in [Port -> Flit \cup {NoFlit}] /\ f # NoFlit /\ ~Link(p)
      /\ out' = [out EXCEPT ![p] = NoFlit]
      /\ got' = IF Dst(f) = Beyond(p) THEN [got EXCEPT ![f.flow] = @ + 1] ELSE got
      /\ got \in [Flow -> Nat] /\ sent \in [Flow -> 0 .. MaxFlits]
      /\ UNCHANGED <<fifo, hold, sent>>
  BY DEF FInv, MInv, TypeOK, Deliver, CanDeliver
<1>2. f \in Flit /\ f.flow \in Flow /\ Dst(f) \in Coord
  BY <1>1, FlitTypes DEF Flit
<1>3. p[1] \in Router /\ p = <<p[1], Route(p[1], Dst(f))>>
  BY <1>1 DEF MInv, Routed, Port
<1>4. Beyond(p) = Dst(f) /\ ToGo(p[1], Dst(f)) = 0
  BY <1>1, <1>2, <1>3, RouteHome, PassEnd
<1>5. a \in Slot /\ At(a) = f /\ At(a)' = NoFlit /\ a[1] = p /\ a[2] = 0
  BY <1>1, MeshAssumption DEF Slot, At
<1>6. ASSUME NEW l \in Slot, l # a PROVE At(l)' = At(l)
  <2>1. l = <<l[1], l[2]>> /\ l[1] \in Port
    BY DEF Slot
  <2>2. ~(l[1] = p /\ l[2] = 0)
    BY <1>6, <2>1
  <2>3. l[2] = 0 => out'[l[1]] = out[l[1]]
    BY <1>1, <2>1, <2>2
  <2>4. fifo' = fifo /\ hold' = hold
    BY <1>1
  <2> QED
    BY <2>3, <2>4 DEF At
<1>7. NoFlit.flow # w
  BY Ends DEF NoFlit
<1>8. got' = [got EXCEPT ![f.flow] = got[f.flow] + 1] /\ sent' = sent
  BY <1>1, <1>4
<1> HIDE DEF a, f
<1>9. CASE w # f.flow
  <2>1. \A l \in Slot : l \in Here(w) \/ l \in Here(w)' => At(l)' = At(l)
    BY <1>5, <1>6, <1>7, <1>9 DEF Here
  <2>2. got'[w] = got[w] /\ sent'[w] = sent[w]
    BY <1>1, <1>2, <1>8, <1>9
  <2> QED
    BY <2>1, <2>2, Unmoved DEF Kept
<1>10. CASE w = f.flow
  <2>1. Here(w)' = Here(w) \ {a} /\ a \in Here(w)
    BY <1>5, <1>6, <1>7, <1>10 DEF Here
  <2>2. \A l \in Here(w)' : l \in Here(w) /\ l \in Slot /\ At(l)' = At(l) /\ l # a
    BY <1>6, <2>1 DEF Here
  <2>3. /\ {At(l).n : l \in Here(w)} = got[w] + 1 .. sent[w]
        /\ got[w] \in Nat /\ sent[w] \in Nat /\ got'[w] = got[w] + 1 /\ sent'[w] = sent[w]
    BY <1>1, <1>2, <1>8, <1>10, MeshAssumption DEF FInv, FlowIntact, Intact
  <2>4. \A l, m \in Here(w) : l # m => \/ At(l).n < At(m).n /\ Ahead(w[2], l, m)
                                       \/ At(m).n < At(l).n /\ Ahead(w[2], m, l)
    BY DEF FInv, FlowIntact, Intact
  <2>5. ASSUME NEW l \in Here(w), l # a PROVE At(a).n < At(l).n
    <3>1. l \in Slot /\ w[2] \in Coord /\ Dst(f) = w[2]
      BY <1>1, <1>10, Ends, HereMeans DEF Dst
    <3>2. ~Ahead(w[2], l, a)
      <4>1. ToGo(l[1][1], w[2]) \in Nat /\ l[2] \in Nat
        BY <1>5, <3>1, AheadMeans
      <4> QED
        BY <1>4, <1>5, <3>1, <4>1 DEF Ahead
    <3> QED
      BY <2>1, <2>4, <2>5, <3>2
  <2>6. At(a).n = got[w] + 1
    <3>1. At(a).n \in got[w] + 1 .. sent[w]
      BY <2>1, <2>3
    <3>2. got[w] + 1 \in got[w] + 1 .. sent[w]
      BY <2>3, <3>1
    <3>3. PICK l \in Here(w) : At(l).n = got[w] + 1
      BY <2>3, <3>2
    <3>4. CASE l # a
      BY <2>3, <2>5, <3>1, <3>3, <3>4
    <3> QED
      BY <3>3, <3>4
  <2>7. {At(l)'.n : l \in Here(w)'} = got'[w] + 1 .. sent'[w]
    <3>1. ASSUME NEW l \in Here(w)' PROVE At(l)'.n \in got'[w] + 1 .. sent'[w]
      <4>1. At(l)' = At(l) /\ At(l).n \in got[w] + 1 .. sent[w] /\ At(a).n < At(l).n
        BY <2>2, <2>3, <2>5
      <4> QED
        BY <2>3, <2>6, <4>1
    <3>2. ASSUME NEW k \in got'[w] + 1 .. sent'[w] PROVE \E l \in Here(w)' : At(l)'.n = k
      <4>1. k \in got[w] + 1 .. sent[w] /\ k # got[w] + 1
        BY <2>3, <3>2
      <4>2. PICK l \in Here(w) : At(l).n = k
        BY <2>3, <4>1
      <4>3. l \in Here(w)'
        BY <2>1, <2>6, <4>1, <4>2
      <4> QED
        BY <2>2, <4>2, <4>3
    <3> QED
      BY <3>1, <3>2
  <2>8. ASSUME NEW l \in Here(w)', NEW m \in Here(w)', l # m
        PROVE  \/ At(l)'.n < At(m)'.n /\ Ahead(w[2], l, m)
               \/ At(m)'.n < At(l)'.n /\ Ahead(w[2], m, l)
    BY <2>2, <2>4, <2>8
  <2>9. got'[w] <= sent'[w]
    <3>1. At(a).n \in got[w] + 1 .. sent[w]
      BY <2>1, <2>3
    <3> QED
      BY <2>3, <3>1
  <2>10. \A l \in Here(w)' : OnWay(w, l)
    BY <2>2 DEF FInv, OnTheWay
  <2> QED
    BY <2>7, <2>8, <2>10, <2>9 DEF Kept, Intact
<1> QED
  BY <1>9, <1>10

(* An empty mesh.                                                          *)
LEMMA InitKept ==
  Init => FInv
<1> SUFFICES ASSUME Init PROVE FInv
  OBVIOUS
<1>1. MInv
  BY InitMInv
<1>2. ASSUME NEW w \in Flow PROVE Here(w) = {}
  <2>1. ASSUME NEW l \in Slot PROVE At(l) = NoFlit
    <3>1. l[1] \in Port /\ l[2] \in Nat
      BY MeshAssumption DEF Slot
    <3> QED
      BY <3>1 DEF Init, At
  <2> QED
    BY <2>1, Ends DEF Here, NoFlit
<1>3. OnTheWay
  BY <1>2 DEF OnTheWay
<1>4. FlowIntact
  <2>1. ASSUME NEW w \in Flow PROVE sent[w] = 0 /\ got[w] = 0
    BY DEF Init
  <2> QED
    BY <1>2, <2>1 DEF FlowIntact, Intact
<1> QED
  BY <1>1, <1>3, <1>4 DEF FInv

(* Every flit of a flow is on the way of its flow, in the order it was     *)
(* sent, whatever the mesh, its FIFOs and its traffic.                     *)
THEOREM MeshFlowInvariant == Spec => []FInv
<1>1. FInv /\ [Next]_vars /\ MInv' => FInv'
  <2> SUFFICES ASSUME FInv, [Next]_vars, MInv' PROVE FInv'
    OBVIOUS
  <2>1. ASSUME NEW w \in Flow PROVE Kept(w)
    <3>1. ASSUME NEW v \in Flow, Inject(v) PROVE Kept(w)
      BY <3>1, InjectKeeps
    <3>2. ASSUME NEW p \in Port, Load(p) PROVE Kept(w)
      BY <3>2, LoadKeeps
    <3>3. ASSUME NEW p \in Port, Send(p) PROVE Kept(w)
      BY <3>3, SendKeeps
    <3>4. ASSUME NEW p \in Port, Deliver(p) PROVE Kept(w)
      BY <3>4, DeliverKeeps
    <3>5. ASSUME NEW p \in Port, NEW i \in Inputs(p), Grant(i, p) PROVE Kept(w)
      BY <3>5, GrantKeeps
    <3>6. CASE UNCHANGED vars
      <4>1. \A l : At(l)' = At(l)
        BY <3>6 DEF vars, At
      <4>2. got'[w] = got[w] /\ sent'[w] = sent[w]
        BY <3>6 DEF vars
      <4> QED
        BY <4>1, <4>2, Unmoved DEF Kept
    <3> QED
      BY <3>1, <3>2, <3>3, <3>4, <3>5, <3>6 DEF Next
  <2>2. OnTheWay' /\ FlowIntact'
    BY <2>1 DEF Kept, OnTheWay, FlowIntact
  <2> QED
    BY <2>2 DEF FInv
<1>2. Init => FInv
  BY InitKept
<1> QED
  BY <1>1, <1>2, MeshInvariant, PTL DEF Spec

(* Delivery is lossless, without duplicates and in order for each pair of  *)
(* endpoints.                                                              *)
THEOREM MeshFlowIntact == Spec => []FlowIntact
<1>1. FInv => FlowIntact
  BY DEF FInv
<1> QED
  BY <1>1, MeshFlowInvariant, PTL

=============================================================================
