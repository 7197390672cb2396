-------------------------- MODULE MagSwitchTheorems --------------------------
(***************************************************************************)
(* The square of switches, for every set of flows, every length of packet  *)
(* and every depth of queue: packets never interleave, nothing turns from  *)
(* y to x, no queue overflows, and every flow is a channel of packets.     *)
(***************************************************************************)
EXTENDS MagSwitch, TotalsTheorems

(***************************************************************************)
(* A stream between a writer and a reader: the queue s, what the writer    *)
(* has still to write of the packet it is in, f, and whether the reader is *)
(* inside a packet, its lock being on this side.                           *)
(***************************************************************************)
Follows(x, y) ==
  IF x.left = 0 THEN y.hdr ELSE ~y.hdr /\ y.pkt = x.pkt /\ y.left = x.left - 1

Whole(s, lock, side, f) ==
  /\ \A i \in 1 .. Len(s) - 1 : Follows(s[i], s[i + 1])
  /\ \A i \in 1 .. Len(s) : s[i].hdr => s[i].left = s[i].pkt.len + 1
  /\ s # <<>> => /\ s[Len(s)].left = f.left
                 /\ f.left > 0 => s[Len(s)].pkt = f.pkt
                 /\ s[1].hdr <=> lock # side
  /\ s = <<>> => (lock = side <=> f.left > 0)

(* The queue has room for what is still to come.                           *)
Stream(s, lock, side, f) == Whole(s, lock, side, f) /\ BeatsIn(s) + f.left <= RX_BEATS

(* What a reader inside a packet has still to read of it.                  *)
Cursor(s, f) == IF s = <<>> THEN f ELSE [pkt |-> s[1].pkt, left |-> s[1].left + 1]

(* The writer of each lane into a mesh: the endpoint beside it, or what    *)
(* the mesh above or below sends or forwards.                              *)
Beside(m, c) == LET s == Peer(m, 0) IN IF cur[<<s, 0>>] = c THEN ltx[s] ELSE Idle
Rest(m) == Cursor(rx[<<m, 0, 1>>], Beside(m, "C1"))
YSource(m) == IF ymux[m] = "a" THEN ltx[m] ELSE Rest(m)
Below(m) == LET s == Peer(m, 1) IN IF cur[<<s, 1>>] = "C0" THEN YSource(s) ELSE Idle

Lane0(m) ==
  /\ Stream(rx[<<m, 0, 0>>], lmux[m], "a", Beside(m, "C0"))
  /\ lmux[m] = "a" => Cursor(rx[<<m, 0, 0>>], Beside(m, "C0")).pkt = incoming[m]
Lane1(m) ==
  /\ Stream(rx[<<m, 0, 1>>], ymux[m], "b", Beside(m, "C1"))
  /\ \A i \in DOMAIN rx[<<m, 0, 1>>] : Dst(rx[<<m, 0, 1>>][i].pkt) = Peer(m, 1)
LaneY(m) ==
  /\ Stream(rx[<<m, 1, 0>>], lmux[m], "b", Below(m))
  /\ lmux[m] = "b" => Cursor(rx[<<m, 1, 0>>], Below(m)).pkt = incoming[m]

LanesOK(m) == Lane0(m) /\ Lane1(m) /\ LaneY(m) /\ rx[<<m, 1, 1>>] = <<>>

(* What an endpoint and its demux are doing.                               *)
EndOK(m) ==
  LET t == ltx[m]
  IN  /\ t = Idle \/ (t.pkt \in Packet /\ t.left \in 1 .. t.pkt.len + 1 /\ t.pkt.flow[1] = m)
      /\ demux[m] = "NONE" => t = Idle \/ t.left = t.pkt.len + 1
      /\ demux[m] # "NONE" => t # Idle /\ demux[m] = Egress(m, Dst(t.pkt))
      /\ demux[m] = "Y" <=> ymux[m] = "a"

(* A link sends what was in a slot, and a slot holds the packet that is    *)
(* locked to it.                                                           *)
Holds(k, t) == q[k] = t.pkt /\ t.left = t.pkt.len + 1
SlotsOK(m) ==
  /\ q[<<m, 0, 0>>] # NoPkt => demux[m] = "X0" /\ Holds(<<m, 0, 0>>, ltx[m])
  /\ q[<<m, 0, 1>>] # NoPkt => demux[m] = "X1" /\ Holds(<<m, 0, 1>>, ltx[m])
  /\ q[<<m, 1, 0>>] # NoPkt => ymux[m] # "NONE" /\ Holds(<<m, 1, 0>>, YSource(m))
  /\ q[<<m, 1, 1>>] = NoPkt
  /\ cur[<<m, 0>>] = "C0" <=> demux[m] = "X0" /\ q[<<m, 0, 0>>] = NoPkt
  /\ cur[<<m, 0>>] = "C1" <=> demux[m] = "X1" /\ q[<<m, 0, 1>>] = NoPkt
  /\ cur[<<m, 1>>] = "C0" <=> ymux[m] # "NONE" /\ q[<<m, 1, 0>>] = NoPkt
  /\ cur[<<m, 1>>] # "C1"

SquareInv ==
  /\ TypeOK
  /\ \A m \in Mesh : EndOK(m) /\ SlotsOK(m) /\ LanesOK(m)

-----------------------------------------------------------------------------
(***************************************************************************)
(* Queues of items.                                                        *)
(***************************************************************************)
LEMMA ItemTypes ==
  ASSUME NEW p \in Packet, NEW n \in 0 .. MAX_BEATS
  PROVE  /\ Header(p) \in Item /\ Header(p).hdr /\ Header(p).pkt = p /\ Header(p).left = p.len + 1
         /\ Beat(p, n) \in Item /\ ~Beat(p, n).hdr /\ Beat(p, n).pkt = p /\ Beat(p, n).left = n
  <1>1. p.len + 1 \in 0 .. MAX_BEATS BY SwitchAssumption, SMTT(40) DEF Packet
  <1>2. Header(p) = [hdr |-> TRUE, pkt |-> p, left |-> p.len + 1] BY DEF Header
  <1>3. Beat(p, n) = [hdr |-> FALSE, pkt |-> p, left |-> n] BY DEF Beat
  <1>4. [hdr |-> TRUE, pkt |-> p, left |-> p.len + 1] \in Item BY <1>1, Zenon DEF Item
  <1>5. [hdr |-> FALSE, pkt |-> p, left |-> n] \in Item BY Zenon DEF Item
  <1>6. Header(p).hdr /\ Header(p).pkt = p /\ Header(p).left = p.len + 1 BY <1>2
  <1>7. ~Beat(p, n).hdr /\ Beat(p, n).pkt = p /\ Beat(p, n).left = n BY <1>3
  <1> QED BY <1>2, <1>3, <1>4, <1>5, <1>6, <1>7, Zenon

LEMMA BeatsOfAppend ==
  ASSUME NEW T, NEW s \in Seq(T), NEW x
  PROVE  /\ BeatsIn(s) \in Nat
         /\ x.hdr => BeatsIn(Append(s, x)) = BeatsIn(s)
         /\ ~x.hdr => BeatsIn(Append(s, x)) = BeatsIn(s) + 1
  <1> DEFINE n == Len(s)
             B == {i \in 1 .. n : ~s[i].hdr}
             C == {i \in DOMAIN Append(s, x) : ~Append(s, x)[i].hdr}
  <1>1. n \in Nat /\ DOMAIN s = 1 .. n /\ DOMAIN Append(s, x) = 1 .. n + 1
        /\ Append(s, x)[n + 1] = x /\ \A i \in 1 .. n : Append(s, x)[i] = s[i]
    OBVIOUS
  <1>2. IsFiniteSet(B) /\ Cardinality(B) \in Nat
    <2>1. IsFiniteSet(1 .. n) BY <1>1, FS_Interval
    <2> QED BY <2>1, FS_Subset, FS_CardinalityType
  <1>3. x.hdr => C = B BY <1>1
  <1>4. ~x.hdr => C = B \cup {n + 1} /\ n + 1 \notin B BY <1>1
  <1>5. BeatsIn(s) = Cardinality(B) /\ BeatsIn(Append(s, x)) = Cardinality(C) BY <1>1 DEF BeatsIn
  <1> HIDE DEF B, C
  <1>6. ~x.hdr => Cardinality(C) = Cardinality(B) + 1
    <2>1. n + 1 \notin B => Cardinality(B \cup {n + 1}) = Cardinality(B) + 1
      BY <1>2, FS_AddElement
    <2> QED BY <1>4, <2>1
  <1> QED BY <1>2, <1>3, <1>5, <1>6

LEMMA BeatsOfTail ==
  ASSUME NEW T, NEW s \in Seq(T), s # <<>>
  PROVE  /\ BeatsIn(Tail(s)) \in Nat
         /\ s[1].hdr => BeatsIn(Tail(s)) = BeatsIn(s)
         /\ ~s[1].hdr => BeatsIn(Tail(s)) + 1 = BeatsIn(s)
  <1> DEFINE n == Len(s)
             B == {i \in DOMAIN s : ~s[i].hdr}
             C == {i \in DOMAIN Tail(s) : ~Tail(s)[i].hdr}
             D == B \ {1}
             up == [i \in C |-> i + 1]
  <1>1. n \in Nat /\ n >= 1 /\ DOMAIN s = 1 .. n /\ DOMAIN Tail(s) = 1 .. n - 1
        /\ \A i \in 1 .. n - 1 : Tail(s)[i] = s[i + 1]
    OBVIOUS
  <1>2. IsFiniteSet(B) /\ IsFiniteSet(C)
    <2>1. IsFiniteSet(1 .. n) /\ IsFiniteSet(1 .. n - 1) BY <1>1, FS_Interval
    <2>2. B \subseteq 1 .. n /\ C \subseteq 1 .. n - 1 BY <1>1
    <2> HIDE DEF B, C
    <2> QED BY <2>1, <2>2, FS_Subset
  <1>3. \A i : i \in C <=> i \in 1 .. n - 1 /\ ~s[i + 1].hdr BY <1>1
  <1>4. \A i : i \in D <=> i \in 2 .. n /\ ~s[i].hdr BY <1>1
  <1>5. up \in Bijection(C, D)
    <2>1. \A i \in C : up[i] \in D BY <1>1, <1>3, <1>4
    <2>2. \A i, j \in C : up[i] = up[j] => i = j BY <1>1, <1>3
    <2>3. \A d \in D : \E i \in C : up[i] = d
      <3> TAKE d \in D
      <3>1. d - 1 \in C /\ up[d - 1] = d BY <1>1, <1>3, <1>4
      <3> QED BY <3>1
    <2> HIDE DEF C, D
    <2> QED BY <2>1, <2>2, <2>3 DEF Bijection, Injection, Surjection, IsInjective
  <1> HIDE DEF C, B, up
  <1>6. IsFiniteSet(D) /\ Cardinality(D) = Cardinality(C)
    <2>1. IsFiniteSet(D) BY <1>2, FS_Subset
    <2>2. ExistsBijection(C, D) BY <1>5 DEF ExistsBijection
    <2> QED BY <1>2, <2>1, <2>2, FS_Bijection
  <1>7. Cardinality(C) \in Nat /\ Cardinality(B) \in Nat BY <1>2, FS_CardinalityType
  <1>8. s[1].hdr => D = B BY <1>1 DEF B
  <1>9. ~s[1].hdr => 1 \in B BY <1>1 DEF B
  <1>10. 1 \in B => Cardinality(D) = Cardinality(B) - 1 BY <1>2, FS_RemoveElement
  <1>11. BeatsIn(s) = Cardinality(B) /\ BeatsIn(Tail(s)) = Cardinality(C) BY DEF BeatsIn, B, C
  <1>12. BeatsIn(Tail(s)) \in Nat BY <1>7, <1>11
  <1>13. s[1].hdr => BeatsIn(Tail(s)) = BeatsIn(s) BY <1>6, <1>8, <1>11
  <1>14. ~s[1].hdr => BeatsIn(Tail(s)) + 1 = BeatsIn(s)
    <2> HIDE DEF D
    <2> QED BY <1>6, <1>7, <1>9, <1>10, <1>11
  <1> QED BY <1>12, <1>13, <1>14

(***************************************************************************)
(* A stream stays whole when its writer writes what it should, and when    *)
(* its reader takes the first item.                                        *)
(***************************************************************************)
LEMMA SeqParts ==
  ASSUME NEW T, NEW s \in Seq(T), NEW x
  PROVE  LET a == Append(s, x)
         IN  /\ Len(s) \in Nat /\ a # <<>> /\ Len(a) = Len(s) + 1 /\ a[Len(s) + 1] = x
             /\ \A i \in 1 .. Len(s) : a[i] = s[i]
             /\ s = <<>> <=> Len(s) = 0
  OBVIOUS

LEMMA TailParts ==
  ASSUME NEW T, NEW s \in Seq(T), s # <<>>
  PROVE  /\ Len(s) \in Nat \ {0} /\ Tail(s) \in Seq(T) /\ Len(Tail(s)) = Len(s) - 1
         /\ \A i \in 1 .. Len(s) - 1 : Tail(s)[i] = s[i + 1]
         /\ Tail(s) = <<>> <=> Len(s) = 1
         /\ Head(s) = s[1] /\ s[1] \in T
  <1>1. Len(s) \in Nat \ {0} /\ s[1] \in T OBVIOUS
  <1>2. Tail(s) \in Seq(T) OBVIOUS
  <1>3. Len(Tail(s)) = Len(s) - 1 OBVIOUS
  <1>4. \A i \in 1 .. Len(s) - 1 : Tail(s)[i] = s[i + 1] OBVIOUS
  <1>5. Tail(s) = <<>> <=> Len(s) = 1
    <2>1. \A r \in Seq(T) : r = <<>> <=> Len(r) = 0 OBVIOUS
    <2>2. Tail(s) = <<>> <=> Len(Tail(s)) = 0 BY <1>2, <2>1
    <2> QED BY <1>1, <1>3, <2>2
  <1>6. Head(s) = s[1] OBVIOUS
  <1> QED BY <1>1, <1>2, <1>3, <1>4, <1>5, <1>6

LEMMA WholeHeader ==
  ASSUME NEW s \in Seq(Item), NEW lock, NEW side, NEW f, NEW g, NEW x,
         Whole(s, lock, side, f), f.left = 0,
         x.hdr, x.left \in Nat \ {0}, x.left = x.pkt.len + 1, g.left = x.left, g.pkt = x.pkt
  PROVE  Whole(Append(s, x), lock, side, g)
  <1> DEFINE a == Append(s, x)
             n == Len(s)
  <1>1. /\ n \in Nat /\ a # <<>> /\ Len(a) = n + 1 /\ a[n + 1] = x
        /\ \A i \in 1 .. n : a[i] = s[i]
        /\ s = <<>> <=> n = 0
    BY SeqParts
  <1> HIDE DEF a
  <1>2. \A i \in 1 .. Len(a) - 1 : Follows(a[i], a[i + 1])
    <2> TAKE i \in 1 .. Len(a) - 1
    <2>1. CASE i < n
      <3>1. i \in 1 .. n - 1 /\ i + 1 \in 1 .. n BY <1>1, <2>1
      <3> QED BY <1>1, <3>1 DEF Whole
    <2>2. CASE i = n
      <3>1. s[n].left = 0 /\ a[i] = s[n] /\ a[i + 1] = x BY <1>1, <2>2 DEF Whole
      <3> QED BY <3>1 DEF Follows
    <2> QED BY <1>1, <2>1, <2>2
  <1>3. \A i \in 1 .. Len(a) : a[i].hdr => a[i].left = a[i].pkt.len + 1 BY <1>1 DEF Whole
  <1>4. a[1].hdr <=> lock # side
    <2>1. CASE n = 0 BY <1>1, <2>1 DEF Whole
    <2>2. CASE n > 0 BY <1>1, <2>2 DEF Whole
    <2> QED BY <1>1, <2>1, <2>2
  <1> QED BY <1>1, <1>2, <1>3, <1>4 DEF Whole, a

LEMMA WholeBeat ==
  ASSUME NEW s \in Seq(Item), NEW lock, NEW side, NEW f, NEW g, NEW x,
         Whole(s, lock, side, f), f.left \in Nat \ {0},
         ~x.hdr, x.left = f.left - 1, x.pkt = f.pkt,
         g.left = x.left, g.left > 0 => g.pkt = f.pkt
  PROVE  Whole(Append(s, x), lock, side, g)
  <1> DEFINE a == Append(s, x)
             n == Len(s)
  <1>1. /\ n \in Nat /\ a # <<>> /\ Len(a) = n + 1 /\ a[n + 1] = x
        /\ \A i \in 1 .. n : a[i] = s[i]
        /\ s = <<>> <=> n = 0
    BY SeqParts
  <1> HIDE DEF a
  <1>2. \A i \in 1 .. Len(a) - 1 : Follows(a[i], a[i + 1])
    <2> TAKE i \in 1 .. Len(a) - 1
    <2>1. CASE i < n
      <3>1. i \in 1 .. n - 1 /\ i + 1 \in 1 .. n BY <1>1, <2>1
      <3> QED BY <1>1, <3>1 DEF Whole
    <2>2. CASE i = n
      <3>1. s[n].left = f.left /\ s[n].pkt = f.pkt /\ a[i] = s[n] /\ a[i + 1] = x
        BY <1>1, <2>2 DEF Whole
      <3> QED BY <3>1 DEF Follows
    <2> QED BY <1>1, <2>1, <2>2
  <1>3. \A i \in 1 .. Len(a) : a[i].hdr => a[i].left = a[i].pkt.len + 1 BY <1>1 DEF Whole
  <1>4. a[1].hdr <=> lock # side
    <2>1. CASE n = 0 BY <1>1, <2>1 DEF Whole
    <2>2. CASE n > 0 BY <1>1, <2>2 DEF Whole
    <2> QED BY <1>1, <2>1, <2>2
  <1> QED BY <1>1, <1>2, <1>3, <1>4 DEF Whole, a

LEMMA WholeTakeHdr ==
  ASSUME NEW s \in Seq(Item), s # <<>>, NEW lock, NEW side, NEW f,
         Whole(s, lock, side, f), lock # side
  PROVE  /\ s[1].hdr /\ s[1].left = s[1].pkt.len + 1
         /\ Whole(Tail(s), side, side, f)
         /\ Cursor(Tail(s), f).pkt = s[1].pkt /\ Cursor(Tail(s), f).left = s[1].left
  <1> DEFINE t == Tail(s)
             n == Len(s)
  <1>1. /\ n \in Nat \ {0} /\ t \in Seq(Item) /\ Len(t) = n - 1
        /\ \A i \in 1 .. n - 1 : t[i] = s[i + 1]
        /\ t = <<>> <=> n = 1
        /\ s[1] \in Item
    BY TailParts
  <1>2. s[1].left \in Nat /\ s[1].pkt.len \in Nat
    <2>1. s[1].left \in 0 .. MAX_BEATS /\ s[1].pkt \in Packet BY <1>1 DEF Item
    <2>2. s[1].pkt.len \in 0 .. MAX_BEATS - 1 BY <2>1 DEF Packet
    <2> QED BY <2>1, <2>2, SwitchAssumption, SMTT(40)
  <1> HIDE DEF t
  <1>3. s[1].hdr /\ s[1].left = s[1].pkt.len + 1 BY <1>1 DEF Whole
  <1>4. s[1].left > 0 BY <1>2, <1>3
  <1>5. \A i \in 1 .. Len(t) - 1 : Follows(t[i], t[i + 1]) BY <1>1 DEF Whole
  <1>6. \A i \in 1 .. Len(t) : t[i].hdr => t[i].left = t[i].pkt.len + 1 BY <1>1, SMTT(40) DEF Whole
  <1>7. CASE n = 1
    <2>1. t = <<>> /\ f.left = s[1].left /\ f.pkt = s[1].pkt BY <1>1, <1>4, <1>7 DEF Whole
    <2> QED BY <1>3, <1>4, <1>5, <1>6, <2>1 DEF Whole, Cursor, t
  <1>8. CASE n > 1
    <2>1. Follows(s[1], s[2]) /\ t[1] = s[2] /\ t # <<>> BY <1>1, <1>8 DEF Whole
    <2>2. ~t[1].hdr /\ t[1].pkt = s[1].pkt /\ t[1].left = s[1].left - 1 BY <1>4, <2>1 DEF Follows
    <2>3. t[Len(t)] = s[n] BY <1>1, <1>8
    <2>4. Whole(t, side, side, f) BY <1>1, <1>5, <1>6, <2>1, <2>2, <2>3 DEF Whole
    <2>5. Cursor(t, f) = [pkt |-> t[1].pkt, left |-> t[1].left + 1] BY <2>1 DEF Cursor
    <2>6. Cursor(t, f).pkt = s[1].pkt /\ Cursor(t, f).left = s[1].left BY <1>2, <2>2, <2>5
    <2> QED BY <1>3, <2>4, <2>6 DEF t
  <1>9. n = 1 \/ n > 1 BY <1>1
  <1> HIDE DEF n
  <1> QED BY <1>7, <1>8, <1>9

LEMMA WholeTakeBeat ==
  ASSUME NEW s \in Seq(Item), s # <<>>, NEW side, NEW f, Whole(s, side, side, f)
  PROVE  /\ ~s[1].hdr
         /\ s[1].left = 0 => \A none : none # side => Whole(Tail(s), none, side, f)
         /\ s[1].left # 0 => /\ Whole(Tail(s), side, side, f)
                             /\ Cursor(Tail(s), f).pkt = s[1].pkt
                             /\ Cursor(Tail(s), f).left = s[1].left
  <1> DEFINE t == Tail(s)
             n == Len(s)
  <1>1. /\ n \in Nat \ {0} /\ t \in Seq(Item) /\ Len(t) = n - 1
        /\ \A i \in 1 .. n - 1 : t[i] = s[i + 1]
        /\ t = <<>> <=> n = 1
        /\ s[1] \in Item
    BY TailParts
  <1>2. s[1].left \in Nat BY <1>1 DEF Item
  <1> HIDE DEF t
  <1>3. ~s[1].hdr BY <1>1 DEF Whole
  <1>5. \A i \in 1 .. Len(t) - 1 : Follows(t[i], t[i + 1]) BY <1>1, SMTT(40) DEF Whole
  <1>6. \A i \in 1 .. Len(t) : t[i].hdr => t[i].left = t[i].pkt.len + 1 BY <1>1, SMTT(40) DEF Whole
  <1>7. CASE n = 1
    <2>1. t = <<>> /\ f.left = s[1].left /\ (f.left > 0 => f.pkt = s[1].pkt) BY <1>1, <1>7 DEF Whole
    <2> QED BY <1>2, <1>3, <1>5, <1>6, <2>1 DEF Whole, Cursor, t
  <1>8. CASE n > 1
    <2>1. Follows(s[1], s[2]) /\ t[1] = s[2] /\ t # <<>> BY <1>1, <1>8 DEF Whole
    <2>2. t[Len(t)] = s[n] BY <1>1, <1>8
    <2>3. CASE s[1].left = 0
      <3>1. t[1].hdr BY <2>1, <2>3 DEF Follows
      <3>2. \A none : none # side => Whole(t, none, side, f) BY <1>1, <1>5, <1>6, <2>1, <2>2, <3>1 DEF Whole
      <3> QED BY <1>3, <2>3, <3>2 DEF t
    <2>4. CASE s[1].left # 0
      <3>1. ~t[1].hdr /\ t[1].pkt = s[1].pkt /\ t[1].left = s[1].left - 1 BY <2>1, <2>4 DEF Follows
      <3>2. Whole(t, side, side, f) BY <1>1, <1>5, <1>6, <2>1, <2>2, <3>1 DEF Whole
      <3>3. Cursor(t, f) = [pkt |-> t[1].pkt, left |-> t[1].left + 1] BY <2>1 DEF Cursor
      <3>4. Cursor(t, f).pkt = s[1].pkt /\ Cursor(t, f).left = s[1].left BY <1>2, <3>1, <3>3
      <3> QED BY <1>3, <2>4, <3>2, <3>4 DEF t
    <2> QED BY <2>3, <2>4
  <1>9. n = 1 \/ n > 1 BY <1>1
  <1> HIDE DEF n
  <1> QED BY <1>7, <1>8, <1>9

LEMMA CursorAppend ==
  ASSUME NEW s \in Seq(Item), NEW f, NEW g, NEW x
  PROVE  /\ s # <<>> => Cursor(Append(s, x), g) = Cursor(s, f)
         /\ s = <<>> => Cursor(Append(s, x), g) = [pkt |-> x.pkt, left |-> x.left + 1]
  <1>1. Append(s, x) # <<>> /\ (s # <<>> => Append(s, x)[1] = s[1]) /\ (s = <<>> => Append(s, x)[1] = x)
    OBVIOUS
  <1> QED BY <1>1 DEF Cursor

LEMMA StreamLock ==
  ASSUME NEW s, NEW lock, NEW other, NEW side, NEW f,
         Stream(s, lock, side, f), lock = side <=> other = side
  PROVE  Stream(s, other, side, f)
  BY DEF Stream, Whole

LEMMA StreamHeader ==
  ASSUME NEW s \in Seq(Item), NEW lock, NEW side, NEW f, NEW g, NEW p \in Packet,
         Stream(s, lock, side, f), f.left = 0,
         BeatsIn(s) + p.len + 1 <= RX_BEATS, g.pkt = p, g.left = p.len + 1
  PROVE  /\ Append(s, Header(p)) \in Seq(Item)
         /\ Stream(Append(s, Header(p)), lock, side, g)
         /\ lock = side => Cursor(Append(s, Header(p)), g) = Cursor(s, f)
  <1> DEFINE x == Header(p)
  <1>1. x \in Item /\ x.hdr /\ x.pkt = p /\ x.left = p.len + 1 BY SwitchAssumption, ItemTypes
  <1>2. p.len \in Nat BY SwitchAssumption DEF Packet
  <1> HIDE DEF x
  <1>3. Whole(Append(s, x), lock, side, g)
    <2>1. x.left \in Nat \ {0} BY <1>1, <1>2
    <2> QED BY <1>1, <2>1, WholeHeader DEF Stream
  <1>4. BeatsIn(Append(s, x)) + g.left <= RX_BEATS
    <2>1. BeatsIn(s) \in Nat /\ BeatsIn(Append(s, x)) = BeatsIn(s) BY <1>1, BeatsOfAppend
    <2> QED BY <1>2, <2>1, SwitchAssumption
  <1>5. lock = side => s # <<>> BY DEF Stream, Whole
  <1> QED BY <1>1, <1>3, <1>4, <1>5, CursorAppend DEF Stream, x

LEMMA StreamBeat ==
  ASSUME NEW s \in Seq(Item), NEW lock, NEW side, NEW f, NEW g, NEW x \in Item,
         Stream(s, lock, side, f), f.left \in Nat \ {0}, f = [pkt |-> f.pkt, left |-> f.left],
         ~x.hdr, x.left = f.left - 1, x.pkt = f.pkt,
         g.left = x.left, g.left > 0 => g.pkt = f.pkt
  PROVE  /\ Append(s, x) \in Seq(Item)
         /\ Stream(Append(s, x), lock, side, g)
         /\ Cursor(Append(s, x), g) = Cursor(s, f)
  <1>1. Whole(Append(s, x), lock, side, g) BY WholeBeat DEF Stream
  <1>2. BeatsIn(Append(s, x)) + g.left <= RX_BEATS
    <2>1. BeatsIn(s) \in Nat /\ BeatsIn(Append(s, x)) = BeatsIn(s) + 1 BY BeatsOfAppend
    <2>2. BeatsIn(s) + f.left <= RX_BEATS BY DEF Stream
    <2> QED BY <2>1, <2>2, SwitchAssumption
  <1>3. Cursor(Append(s, x), g) = Cursor(s, f)
    <2>1. CASE s # <<>> BY <2>1, CursorAppend
    <2>2. CASE s = <<>>
      <3>1. Cursor(Append(s, x), g) = [pkt |-> x.pkt, left |-> x.left + 1] BY <2>2, CursorAppend, ZenonT(40)
      <3>2. Cursor(s, f) = f BY <2>2 DEF Cursor
      <3>3. x.left + 1 = f.left OBVIOUS
      <3> QED BY <3>1, <3>2, <3>3
    <2> QED BY <2>1, <2>2
  <1> QED BY <1>1, <1>2, <1>3 DEF Stream

LEMMA StreamTakeHdr ==
  ASSUME NEW s \in Seq(Item), s # <<>>, NEW lock, NEW side, NEW f,
         Stream(s, lock, side, f), lock # side, f.left \in Nat
  PROVE  /\ Tail(s) \in Seq(Item) /\ s[1].hdr /\ s[1].left = s[1].pkt.len + 1
         /\ Stream(Tail(s), side, side, f)
         /\ Cursor(Tail(s), f).pkt = s[1].pkt /\ Cursor(Tail(s), f).left = s[1].left
  <1>1. /\ s[1].hdr /\ s[1].left = s[1].pkt.len + 1
        /\ Whole(Tail(s), side, side, f)
        /\ Cursor(Tail(s), f).pkt = s[1].pkt /\ Cursor(Tail(s), f).left = s[1].left
    BY WholeTakeHdr DEF Stream
  <1>2. BeatsIn(Tail(s)) = BeatsIn(s) BY <1>1, BeatsOfTail
  <1>3. Tail(s) \in Seq(Item) BY TailParts
  <1> QED BY <1>1, <1>2, <1>3 DEF Stream

LEMMA StreamTakeBeat ==
  ASSUME NEW s \in Seq(Item), s # <<>>, NEW side, NEW f, Stream(s, side, side, f), f.left \in Nat
  PROVE  /\ Tail(s) \in Seq(Item) /\ ~s[1].hdr
         /\ s[1].left = 0 => \A none : none # side => Stream(Tail(s), none, side, f)
         /\ s[1].left # 0 => /\ Stream(Tail(s), side, side, f)
                             /\ Cursor(Tail(s), f).pkt = s[1].pkt
                             /\ Cursor(Tail(s), f).left = s[1].left
  <1>0. Whole(s, side, side, f) BY DEF Stream
  <1>1. ~s[1].hdr BY <1>0, WholeTakeBeat
  <1>2. s[1].left = 0 => \A none : none # side => Whole(Tail(s), none, side, f)
    BY <1>0, WholeTakeBeat
  <1>3. s[1].left # 0 => Whole(Tail(s), side, side, f) BY <1>0, WholeTakeBeat
  <1>4. ASSUME s[1].left # 0
        PROVE  Cursor(Tail(s), f).pkt = s[1].pkt /\ Cursor(Tail(s), f).left = s[1].left
    BY <1>0, <1>4, WholeTakeBeat
  <1>6. BeatsIn(Tail(s)) \in Nat /\ BeatsIn(Tail(s)) + 1 = BeatsIn(s) BY <1>1, BeatsOfTail
  <1>7. BeatsIn(Tail(s)) + f.left <= RX_BEATS BY <1>6, SwitchAssumption, SMTT(40) DEF Stream
  <1>8. Tail(s) \in Seq(Item) BY TailParts
  <1> QED BY <1>1, <1>2, <1>3, <1>4, <1>7, <1>8 DEF Stream

-----------------------------------------------------------------------------
(***************************************************************************)
(* The square.                                                             *)
(***************************************************************************)
LEMMA Square ==
  ASSUME NEW m \in Mesh
  PROVE  /\ Peer(m, 0) \in Mesh /\ Peer(m, 1) \in Mesh
         /\ Peer(Peer(m, 0), 0) = m /\ Peer(Peer(m, 1), 1) = m
         /\ Peer(m, 0) # m /\ Peer(m, 1) # m
  <1>1. m = 0 \/ m = 1 \/ m = 2 \/ m = 3 BY DEF Mesh
  <1> QED BY <1>1 DEF Mesh, Peer, X, Y

LEMMA Lanes ==
  ASSUME NEW m \in Mesh
  PROVE  /\ <<m, 0, 0>> \in Lane /\ <<m, 0, 1>> \in Lane /\ <<m, 1, 0>> \in Lane /\ <<m, 1, 1>> \in Lane
         /\ <<m, 0>> \in Link /\ <<m, 1>> \in Link
  BY DEF Lane, Link, LinkNo, Class

LEMMA PacketDst ==
  ASSUME NEW p \in Packet
  PROVE  /\ Dst(p) \in Mesh /\ p.flow[1] \in Mesh /\ Dst(p) # p.flow[1] /\ p # NoPkt
         /\ p.len \in 0 .. MAX_BEATS - 1
  <1>1. p.flow \in Flow /\ p.n \in 1 .. MaxPkts /\ p.len \in 0 .. MAX_BEATS - 1 BY DEF Packet
  <1>2. p.flow \in {f \in Mesh \X Mesh : f[1] # f[2]} BY <1>1, SwitchAssumption
  <1>3. NoPkt.n = 0 BY DEF NoPkt
  <1>4. p.n # 0 BY <1>1
  <1>5. p # NoPkt BY <1>3, <1>4
  <1> QED BY <1>1, <1>2, <1>5 DEF Dst

(* Where the endpoint sends a packet, and what becomes of it there.        *)
LEMMA Routes ==
  ASSUME NEW m \in Mesh, NEW p, Dst(p) \in Mesh, Dst(p) # m
  PROVE  /\ Egress(m, Dst(p)) \in {"X0", "X1", "Y"}
         /\ Egress(m, Dst(p)) = "X0" => FarLane(m, 0, p) = <<Peer(m, 0), 0, 0>>
         /\ Egress(m, Dst(p)) = "X1" => /\ FarLane(m, 0, p) = <<Peer(m, 0), 0, 1>>
                                        /\ Dst(p) = Peer(Peer(m, 0), 1)
         /\ Egress(m, Dst(p)) = "Y" => Dst(p) = Peer(m, 1)
  <1>1. m = 0 \/ m = 1 \/ m = 2 \/ m = 3 BY DEF Mesh
  <1>2. Dst(p) = 0 \/ Dst(p) = 1 \/ Dst(p) = 2 \/ Dst(p) = 3 BY DEF Mesh
  <1> QED BY <1>1, <1>2 DEF Egress, FarLane, Peer, X, Y

LEMMA RouteY ==
  ASSUME NEW m \in Mesh, NEW p, Dst(p) = Peer(m, 1)
  PROVE  FarLane(m, 1, p) = <<Peer(m, 1), 1, 0>>
  BY DEF FarLane

(***************************************************************************)
(* What the invariant says of the state of one mesh.                       *)
(***************************************************************************)
LEMMA MeshTypes ==
  ASSUME TypeOK, NEW m \in Mesh
  PROVE  /\ ltx[m] = [pkt |-> ltx[m].pkt, left |-> ltx[m].left] /\ ltx[m].left \in 0 .. MAX_BEATS
         /\ ltx[m].pkt \in Packet \cup {NoPkt}
         /\ rx[<<m, 0, 0>>] \in Seq(Item) /\ rx[<<m, 0, 1>>] \in Seq(Item)
         /\ rx[<<m, 1, 0>>] \in Seq(Item) /\ rx[<<m, 1, 1>>] \in Seq(Item)
         /\ demux[m] \in {"NONE", "X0", "X1", "Y"} /\ ymux[m] \in {"NONE", "a", "b"}
         /\ lmux[m] \in {"NONE", "a", "b"}
         /\ cur[<<m, 0>>] \in {"NONE", "C0", "C1"} /\ cur[<<m, 1>>] \in {"NONE", "C0", "C1"}
  <1>1. ltx[m] \in [pkt : Packet \cup {NoPkt}, left : 0 .. MAX_BEATS] BY DEF TypeOK
  <1>2. /\ rx[<<m, 0, 0>>] \in Seq(Item) /\ rx[<<m, 0, 1>>] \in Seq(Item)
        /\ rx[<<m, 1, 0>>] \in Seq(Item) /\ rx[<<m, 1, 1>>] \in Seq(Item)
    BY Lanes DEF TypeOK
  <1>3. /\ demux[m] \in {"NONE", "X0", "X1", "Y"} /\ ymux[m] \in {"NONE", "a", "b"}
        /\ lmux[m] \in {"NONE", "a", "b"}
    BY DEF TypeOK
  <1>4. cur[<<m, 0>>] \in {"NONE", "C0", "C1"} /\ cur[<<m, 1>>] \in {"NONE", "C0", "C1"}
    BY Lanes DEF TypeOK
  <1> QED BY <1>1, <1>2, <1>3, <1>4

LEMMA IdleParts == Idle.pkt = NoPkt /\ Idle.left = 0 /\ Idle = [pkt |-> NoPkt, left |-> 0]
  BY DEF Idle

(* A packet on its way to the mesh beside.                                 *)
LEMMA EndOf ==
  ASSUME SquareInv, NEW m \in Mesh, demux[m] # "NONE"
  PROVE  /\ ltx[m].pkt \in Packet /\ ltx[m].left \in Nat \ {0}
         /\ ltx[m].left \in 1 .. ltx[m].pkt.len + 1
         /\ Dst(ltx[m].pkt) \in Mesh /\ Dst(ltx[m].pkt) # m
         /\ demux[m] = Egress(m, Dst(ltx[m].pkt))
         /\ demux[m] = "X0" => FarLane(m, 0, ltx[m].pkt) = <<Peer(m, 0), 0, 0>>
         /\ demux[m] = "X1" => /\ FarLane(m, 0, ltx[m].pkt) = <<Peer(m, 0), 0, 1>>
                               /\ Dst(ltx[m].pkt) = Peer(Peer(m, 0), 1)
         /\ demux[m] = "Y" => Dst(ltx[m].pkt) = Peer(m, 1)
  <1>1. EndOK(m) BY DEF SquareInv
  <1>2. /\ ltx[m].pkt \in Packet /\ ltx[m].left \in 1 .. ltx[m].pkt.len + 1
        /\ ltx[m].pkt.flow[1] = m /\ demux[m] = Egress(m, Dst(ltx[m].pkt))
    BY <1>1 DEF EndOK
  <1>3. ltx[m].pkt.len \in Nat BY <1>2, PacketDst, SwitchAssumption
  <1>4. Dst(ltx[m].pkt) \in Mesh /\ Dst(ltx[m].pkt) # m BY <1>2, PacketDst
  <1> QED BY <1>2, <1>3, <1>4, Routes

LEMMA BesideOf ==
  ASSUME SquareInv, NEW m \in Mesh, NEW c
  PROVE  /\ Beside(m, c) = [pkt |-> Beside(m, c).pkt, left |-> Beside(m, c).left]
         /\ Beside(m, c).left \in Nat
  <1>1. TypeOK BY DEF SquareInv
  <1>2. Peer(m, 0) \in Mesh BY Square
  <1>3. Beside(m, c) = ltx[Peer(m, 0)] \/ Beside(m, c) = Idle BY DEF Beside
  <1> DEFINE t == ltx[Peer(m, 0)]
  <1>4. t = [pkt |-> t.pkt, left |-> t.left] /\ t.left \in Nat
    <2>1. t = [pkt |-> t.pkt, left |-> t.left] BY <1>1, <1>2, MeshTypes
    <2>2. t.left \in 0 .. MAX_BEATS BY <1>1, <1>2, MeshTypes
    <2> QED BY <2>1, <2>2, SwitchAssumption
  <1> HIDE DEF t
  <1>5. CASE Beside(m, c) = t BY <1>4, <1>5
  <1>6. CASE Beside(m, c) = Idle BY <1>6, IdleParts
  <1> QED BY <1>3, <1>5, <1>6 DEF t

LEMMA BesideLive ==
  ASSUME SquareInv, NEW m \in Mesh, NEW c \in {"C0", "C1"}, Beside(m, c).left > 0
  PROVE  /\ Beside(m, c) = ltx[Peer(m, 0)] /\ cur[<<Peer(m, 0), 0>>] = c
         /\ Beside(m, c).pkt \in Packet
         /\ c = "C1" => Dst(Beside(m, c).pkt) = Peer(m, 1)
  <1> DEFINE s == Peer(m, 0)
  <1>1. s \in Mesh /\ Peer(s, 0) = m BY Square
  <1> HIDE DEF s
  <1>2. Beside(m, c) = IF cur[<<s, 0>>] = c THEN ltx[s] ELSE Idle BY DEF Beside, s
  <1>3. cur[<<s, 0>>] = c
    <2>1. ~(Idle.left > 0) BY IdleParts
    <2> QED BY <1>2, <2>1
  <1>4. SlotsOK(s) BY <1>1 DEF SquareInv
  <1>5. demux[s] # "NONE" /\ (c = "C1" => demux[s] = "X1") BY <1>3, <1>4 DEF SlotsOK
  <1>6. ltx[s].pkt \in Packet /\ (demux[s] = "X1" => Dst(ltx[s].pkt) = Peer(Peer(s, 0), 1))
    BY <1>1, <1>5, EndOf
  <1> QED BY <1>1, <1>2, <1>3, <1>5, <1>6 DEF s

(* What a mesh forwards.                                                   *)
LEMMA RestOf ==
  ASSUME SquareInv, NEW m \in Mesh
  PROVE  /\ Rest(m) = [pkt |-> Rest(m).pkt, left |-> Rest(m).left]
         /\ Rest(m).left \in Nat
         /\ rx[<<m, 0, 1>>] # <<>> => Rest(m).left > 0
         /\ Rest(m).left > 0 => Rest(m).pkt \in Packet /\ Dst(Rest(m).pkt) = Peer(m, 1)
         /\ ymux[m] = "b" => Rest(m).left > 0
  <1> DEFINE s == rx[<<m, 0, 1>>]
             f == Beside(m, "C1")
  <1>1. s \in Seq(Item) BY MeshTypes DEF SquareInv
  <1>2. f = [pkt |-> f.pkt, left |-> f.left] /\ f.left \in Nat BY BesideOf
  <1>3. f.left > 0 => f.pkt \in Packet /\ Dst(f.pkt) = Peer(m, 1) BY BesideLive
  <1>4. Stream(s, ymux[m], "b", f) /\ \A i \in DOMAIN s : Dst(s[i].pkt) = Peer(m, 1)
    BY DEF SquareInv, LanesOK, Lane1
  <1>5. Rest(m) = IF s = <<>> THEN f ELSE [pkt |-> s[1].pkt, left |-> s[1].left + 1]
    BY DEF Rest, Cursor
  <1> HIDE DEF s, f
  <1>6. CASE s = <<>>
    <2>1. ymux[m] = "b" => f.left > 0 BY <1>4, <1>6 DEF Stream, Whole
    <2> QED BY <1>2, <1>3, <1>5, <1>6, <2>1 DEF s
  <1>7. CASE s # <<>>
    <2>1. s[1] \in Item /\ 1 \in DOMAIN s BY <1>1, <1>7
    <2>2. s[1].left \in Nat /\ s[1].pkt \in Packet BY <2>1, SwitchAssumption DEF Item
    <2>3. Dst(s[1].pkt) = Peer(m, 1) BY <1>4, <2>1
    <2>4. Rest(m) = [pkt |-> s[1].pkt, left |-> s[1].left + 1] BY <1>5, <1>7
    <2> QED BY <2>2, <2>3, <2>4
  <1> QED BY <1>6, <1>7

LEMMA YSourceOf ==
  ASSUME SquareInv, NEW m \in Mesh
  PROVE  /\ YSource(m) = [pkt |-> YSource(m).pkt, left |-> YSource(m).left]
         /\ YSource(m).left \in Nat
         /\ ymux[m] # "NONE" => /\ YSource(m).left > 0 /\ YSource(m).pkt \in Packet
                                /\ Dst(YSource(m).pkt) = Peer(m, 1)
                                /\ FarLane(m, 1, YSource(m).pkt) = <<Peer(m, 1), 1, 0>>
  <1>1. TypeOK /\ EndOK(m) BY DEF SquareInv
  <1>2. CASE ymux[m] = "a"
    <2>1. YSource(m) = ltx[m] /\ demux[m] = "Y" BY <1>1, <1>2 DEF YSource, EndOK
    <2>2. ltx[m].pkt \in Packet /\ ltx[m].left \in Nat \ {0} /\ Dst(ltx[m].pkt) = Peer(m, 1)
      BY <2>1, EndOf
    <2>3. FarLane(m, 1, ltx[m].pkt) = <<Peer(m, 1), 1, 0>> BY <2>2, RouteY
    <2>4. ltx[m] = [pkt |-> ltx[m].pkt, left |-> ltx[m].left] BY <1>1, MeshTypes
    <2> QED BY <2>1, <2>2, <2>3, <2>4
  <1>3. CASE ymux[m] # "a"
    <2>1. YSource(m) = Rest(m) BY <1>3 DEF YSource
    <2>2. ymux[m] # "NONE" => ymux[m] = "b" BY <1>1, <1>3, MeshTypes
    <2>3. ymux[m] # "NONE" => Rest(m).left > 0 /\ Rest(m).pkt \in Packet /\ Dst(Rest(m).pkt) = Peer(m, 1)
      BY <2>2, RestOf
    <2>4. ymux[m] # "NONE" => FarLane(m, 1, Rest(m).pkt) = <<Peer(m, 1), 1, 0>> BY <2>3, RouteY
    <2> QED BY <2>1, <2>3, <2>4, RestOf
  <1> QED BY <1>2, <1>3

LEMMA BelowOf ==
  ASSUME SquareInv, NEW m \in Mesh
  PROVE  /\ Below(m) = [pkt |-> Below(m).pkt, left |-> Below(m).left]
         /\ Below(m).left \in Nat
  <1>1. Peer(m, 1) \in Mesh BY Square
  <1>2. Below(m) = YSource(Peer(m, 1)) \/ Below(m) = Idle BY DEF Below
  <1> QED BY <1>1, <1>2, YSourceOf, IdleParts

(***************************************************************************)
(* What a step leaves alone.                                               *)
(***************************************************************************)
LEMMA StillBeside ==
  ASSUME NEW r, NEW c, cur'[<<Peer(r, 0), 0>>] = cur[<<Peer(r, 0), 0>>],
         cur[<<Peer(r, 0), 0>>] = c => ltx'[Peer(r, 0)] = ltx[Peer(r, 0)]
  PROVE  Beside(r, c)' = Beside(r, c)
  BY DEF Beside

LEMMA StillRest ==
  ASSUME NEW r, rx'[<<r, 0, 1>>] = rx[<<r, 0, 1>>], Beside(r, "C1")' = Beside(r, "C1")
  PROVE  Rest(r)' = Rest(r)
  BY DEF Rest

LEMMA StillYSource ==
  ASSUME NEW r, ymux'[r] = "a" <=> ymux[r] = "a",
         ymux[r] = "a" => ltx'[r] = ltx[r], ymux[r] # "a" => Rest(r)' = Rest(r)
  PROVE  YSource(r)' = YSource(r)
  BY DEF YSource

LEMMA StillBelow ==
  ASSUME NEW r, cur'[<<Peer(r, 1), 1>>] = cur[<<Peer(r, 1), 1>>],
         cur[<<Peer(r, 1), 1>>] = "C0" => YSource(Peer(r, 1))' = YSource(Peer(r, 1))
  PROVE  Below(r)' = Below(r)
  BY DEF Below

LEMMA Still0 ==
  ASSUME NEW r, Lane0(r), rx'[<<r, 0, 0>>] = rx[<<r, 0, 0>>], Beside(r, "C0")' = Beside(r, "C0"),
         lmux'[r] = "a" <=> lmux[r] = "a", lmux[r] = "a" => incoming'[r] = incoming[r]
  PROVE  Lane0(r)'
  <1>1. Stream(rx[<<r, 0, 0>>], lmux'[r], "a", Beside(r, "C0")) BY StreamLock DEF Lane0
  <1> QED BY <1>1 DEF Lane0

LEMMA Still1 ==
  ASSUME NEW r, Lane1(r), rx'[<<r, 0, 1>>] = rx[<<r, 0, 1>>], Beside(r, "C1")' = Beside(r, "C1"),
         ymux'[r] = "b" <=> ymux[r] = "b"
  PROVE  Lane1(r)'
  <1>1. Stream(rx[<<r, 0, 1>>], ymux'[r], "b", Beside(r, "C1")) BY StreamLock DEF Lane1
  <1> QED BY <1>1 DEF Lane1

LEMMA StillY ==
  ASSUME NEW r, LaneY(r), rx'[<<r, 1, 0>>] = rx[<<r, 1, 0>>], Below(r)' = Below(r),
         lmux'[r] = "b" <=> lmux[r] = "b", lmux[r] = "b" => incoming'[r] = incoming[r]
  PROVE  LaneY(r)'
  <1>1. Stream(rx[<<r, 1, 0>>], lmux'[r], "b", Below(r)) BY StreamLock DEF LaneY
  <1> QED BY <1>1 DEF LaneY

LEMMA StillEnd ==
  ASSUME NEW r, EndOK(r), ltx'[r] = ltx[r], demux'[r] = demux[r], ymux'[r] = "a" <=> ymux[r] = "a"
  PROVE  EndOK(r)'
  BY DEF EndOK

LEMMA StillSlots ==
  ASSUME NEW r, SlotsOK(r), demux'[r] = demux[r], ymux'[r] = ymux[r],
         q'[<<r, 0, 0>>] = q[<<r, 0, 0>>], q'[<<r, 0, 1>>] = q[<<r, 0, 1>>],
         q'[<<r, 1, 0>>] = q[<<r, 1, 0>>], q'[<<r, 1, 1>>] = q[<<r, 1, 1>>],
         cur'[<<r, 0>>] = cur[<<r, 0>>], cur'[<<r, 1>>] = cur[<<r, 1>>],
         q[<<r, 0, 0>>] # NoPkt \/ q[<<r, 0, 1>>] # NoPkt => ltx'[r] = ltx[r],
         q[<<r, 1, 0>>] # NoPkt => YSource(r)' = YSource(r)
  PROVE  SlotsOK(r)'
  BY DEF SlotsOK, Holds

-----------------------------------------------------------------------------
(***************************************************************************)
(* One lemma per action: it leaves every mesh as the invariant says.       *)
(***************************************************************************)
LEMMA OfferKeeps ==
  ASSUME SquareInv, NEW m \in Mesh, Offer(m), NEW r \in Mesh
  PROVE  EndOK(r)' /\ SlotsOK(r)' /\ LanesOK(r)'
  <1>1. TypeOK /\ EndOK(m) /\ SlotsOK(m) BY DEF SquareInv
  <1>2. ltx[m] = Idle /\ demux[m] = "NONE" /\ ymux[m] # "a"
    <2>1. ltx[m].pkt \notin Packet BY PacketDst DEF Offer
    <2>2. ltx[m] = Idle BY <1>1, <2>1 DEF EndOK
    <2> QED BY <1>1, <2>2 DEF EndOK
  <1>3. PICK p \in Packet : p.flow[1] = m /\ ltx' = [ltx EXCEPT ![m] = [pkt |-> p, left |-> p.len + 1]]
    <2>1. PICK f \in Flow : LET n == offered[f] + 1
                            IN  /\ f[1] = m /\ n <= MaxPkts
                                /\ ltx' = [ltx EXCEPT ![m] =
                                             [pkt |-> [flow |-> f, n |-> n, len |-> Lens[n]],
                                              left |-> Lens[n] + 1]]
      BY DEF Offer
    <2> DEFINE n == offered[f] + 1
               p == [flow |-> f, n |-> n, len |-> Lens[n]]
    <2>2. n \in 1 .. MaxPkts
      <3>1. offered[f] \in 0 .. MaxPkts BY <1>1 DEF TypeOK
      <3>2. MaxPkts \in Nat BY SwitchAssumption DEF MaxPkts
      <3> QED BY <2>1, <3>1, <3>2
    <2>3. Lens[n] \in 0 .. MAX_BEATS - 1
      <3> HIDE DEF n
      <3> QED BY <2>2, SwitchAssumption, SMTT(40) DEF MaxPkts
    <2>4. p \in Packet BY <2>2, <2>3 DEF Packet
    <2>5. p.flow[1] = m /\ ltx' = [ltx EXCEPT ![m] = [pkt |-> p, left |-> p.len + 1]] BY <2>1
    <2> QED BY <2>4, <2>5
  <1>4. /\ ltx'[m] = [pkt |-> p, left |-> p.len + 1]
        /\ \A s \in Mesh \ {m} : ltx'[s] = ltx[s]
    BY <1>1, <1>3 DEF TypeOK
  <1>5. UNCHANGED <<demux, ymux, lmux, q, cur, rx, incoming>> BY DEF Offer
  <1>6. \A s \in Mesh : cur[<<s, 0>>] \in {"C0", "C1"} => ltx'[s] = ltx[s]
    BY <1>1, <1>2, <1>4 DEF SlotsOK
  <1>7. \A s \in Mesh : Beside(s, "C0")' = Beside(s, "C0") /\ Beside(s, "C1")' = Beside(s, "C1")
    <2> TAKE s \in Mesh
    <2>1. Peer(s, 0) \in Mesh BY Square
    <2> QED BY <1>5, <1>6, <2>1, StillBeside
  <1>8. \A s \in Mesh : Rest(s)' = Rest(s) BY <1>5, <1>7, StillRest
  <1>9. \A s \in Mesh : YSource(s)' = YSource(s) BY <1>2, <1>4, <1>5, <1>8, StillYSource
  <1>10. Below(r)' = Below(r)
    <2>1. Peer(r, 1) \in Mesh BY Square
    <2> QED BY <1>5, <1>9, <2>1, StillBelow
  <1>11. EndOK(r) /\ SlotsOK(r) /\ Lane0(r) /\ Lane1(r) /\ LaneY(r) /\ rx[<<r, 1, 1>>] = <<>>
    BY DEF SquareInv, LanesOK
  <1>12. Lane0(r)' BY <1>5, <1>7, <1>11, Still0
  <1>13. Lane1(r)' BY <1>5, <1>7, <1>11, Still1
  <1>14. LaneY(r)' BY <1>5, <1>10, <1>11, StillY
  <1>15. EndOK(r)'
    <2>1. CASE r # m BY <1>4, <1>5, <1>11, <2>1, StillEnd
    <2>2. CASE r = m
      <3>1. p.len \in Nat BY <1>3, PacketDst, SwitchAssumption
      <3>2. ltx'[r].pkt = p /\ ltx'[r].left = p.len + 1 BY <1>4, <2>2
      <3> QED BY <1>2, <1>3, <1>5, <2>2, <3>1, <3>2 DEF EndOK
    <2> QED BY <2>1, <2>2
  <1>16. SlotsOK(r)'
    <2>1. r = m => q[<<r, 0, 0>>] = NoPkt /\ q[<<r, 0, 1>>] = NoPkt BY <1>1, <1>2 DEF SlotsOK
    <2> QED BY <1>4, <1>5, <1>9, <1>11, <2>1, StillSlots
  <1> QED BY <1>5, <1>11, <1>12, <1>13, <1>14, <1>15, <1>16 DEF LanesOK

LEMMA SendHdrKeeps ==
  ASSUME SquareInv, NEW m \in Mesh, SendHdr(m), NEW r \in Mesh
  PROVE  EndOK(r)' /\ SlotsOK(r)' /\ LanesOK(r)'
  <1> DEFINE p == ltx[m].pkt
             out == Egress(m, Dst(p))
  <1>1. TypeOK /\ EndOK(m) /\ SlotsOK(m) BY DEF SquareInv
  <1>2. p # NoPkt /\ demux[m] = "NONE" BY DEF SendHdr, LocalHdr
  <1>3. ltx[m] # Idle /\ p \in Packet /\ ltx[m].left = p.len + 1 /\ p.flow[1] = m
    <2>1. ltx[m] # Idle BY <1>2, IdleParts
    <2> QED BY <1>1, <1>2, <2>1 DEF EndOK
  <1>4. out \in {"X0", "X1", "Y"}
    <2>1. Dst(p) \in Mesh /\ Dst(p) # m BY <1>3, PacketDst
    <2> QED BY <2>1, Routes
  <1>5. UNCHANGED <<ltx, lmux, cur, rx, incoming>> BY DEF SendHdr
  <1>6. /\ demux'[m] = out
        /\ \A s \in Mesh \ {m} : demux'[s] = demux[s] /\ ymux'[s] = ymux[s]
        /\ out = "Y" => ymux[m] = "NONE" /\ ymux'[m] = "a"
        /\ out # "Y" => ymux'[m] = ymux[m]
    BY <1>1 DEF SendHdr, IdleMux, TypeOK
  <1>7. /\ q[LaneOf(m, out)] = NoPkt /\ q' = [q EXCEPT ![LaneOf(m, out)] = p]
        /\ LaneOf(m, out) = IF out = "X0" THEN <<m, 0, 0>> ELSE IF out = "X1" THEN <<m, 0, 1>> ELSE <<m, 1, 0>>
    BY <1>4 DEF SendHdr, LaneOf
  <1> HIDE DEF out
  <1>8. /\ \A s \in Mesh \ {m} : \A l \in LinkNo, c \in Class : q'[<<s, l, c>>] = q[<<s, l, c>>]
        /\ out = "X0" => /\ q'[<<m, 0, 0>>] = p /\ q'[<<m, 0, 1>>] = q[<<m, 0, 1>>]
                         /\ q'[<<m, 1, 0>>] = q[<<m, 1, 0>>]
        /\ out = "X1" => /\ q'[<<m, 0, 1>>] = p /\ q'[<<m, 0, 0>>] = q[<<m, 0, 0>>]
                         /\ q'[<<m, 1, 0>>] = q[<<m, 1, 0>>]
        /\ out = "Y" => /\ q'[<<m, 1, 0>>] = p /\ q'[<<m, 0, 0>>] = q[<<m, 0, 0>>]
                        /\ q'[<<m, 0, 1>>] = q[<<m, 0, 1>>]
        /\ q'[<<m, 1, 1>>] = q[<<m, 1, 1>>]
    <2>1. q \in [Lane -> Packet \cup {NoPkt}] BY <1>1 DEF TypeOK
    <2> HIDE DEF p
    <2> QED BY <1>4, <1>7, <2>1 DEF Lane, LinkNo, Class
  <1>9. \A s \in Mesh : Beside(s, "C0")' = Beside(s, "C0") /\ Beside(s, "C1")' = Beside(s, "C1")
    BY <1>5, StillBeside
  <1>10. \A s \in Mesh : Rest(s)' = Rest(s) BY <1>5, <1>9, StillRest
  <1>11. \A s \in Mesh : cur[<<s, 1>>] = "C0" => YSource(s)' = YSource(s)
    <2> TAKE s \in Mesh
    <2>1. CASE ymux'[s] = ymux[s] BY <1>5, <1>10, <2>1, StillYSource
    <2>2. CASE ymux'[s] # ymux[s] BY <1>1, <1>6, <2>2 DEF SlotsOK
    <2> QED BY <2>1, <2>2
  <1>12. Below(r)' = Below(r)
    <2>1. Peer(r, 1) \in Mesh BY Square
    <2> QED BY <1>5, <1>11, <2>1, StillBelow
  <1>13. EndOK(r) /\ SlotsOK(r) /\ Lane0(r) /\ Lane1(r) /\ LaneY(r) /\ rx[<<r, 1, 1>>] = <<>>
    BY DEF SquareInv, LanesOK
  <1>14. Lane0(r)' BY <1>5, <1>9, <1>13, Still0
  <1>15. Lane1(r)'
    <2>1. ymux'[r] = "b" <=> ymux[r] = "b" BY <1>6
    <2> QED BY <1>5, <1>9, <1>13, <2>1, Still1
  <1>16. LaneY(r)' BY <1>5, <1>12, <1>13, StillY
  <1>17. EndOK(r)'
    <2>1. CASE r # m BY <1>5, <1>6, <1>13, <2>1, StillEnd
    <2>2. CASE r = m
      <3>1. ymux'[m] = "a" <=> out = "Y" BY <1>1, <1>2, <1>6 DEF EndOK
      <3>2. out # "NONE" BY <1>4
      <3> QED BY <1>1, <1>3, <1>5, <1>6, <2>2, <3>1, <3>2 DEF EndOK, out
    <2> QED BY <2>1, <2>2
  <1>18. SlotsOK(r)'
    <2>1. CASE r # m
      <3>1. YSource(r)' = YSource(r) BY <1>5, <1>6, <1>10, <2>1, StillYSource
      <3>2. /\ q'[<<r, 0, 0>>] = q[<<r, 0, 0>>] /\ q'[<<r, 0, 1>>] = q[<<r, 0, 1>>]
            /\ q'[<<r, 1, 0>>] = q[<<r, 1, 0>>] /\ q'[<<r, 1, 1>>] = q[<<r, 1, 1>>]
        BY <1>8, <2>1 DEF LinkNo, Class
      <3> QED BY <1>5, <1>6, <1>13, <2>1, <3>1, <3>2, StillSlots
    <2>2. CASE r = m /\ out = "Y"
      <3>1. YSource(m)' = ltx[m] BY <1>5, <1>6, <2>2 DEF YSource
      <3> QED BY <1>1, <1>2, <1>3, <1>5, <1>6, <1>8, <2>2, <3>1 DEF SlotsOK, Holds
    <2>3. CASE r = m /\ out # "Y"
      <3>1. YSource(m)' = YSource(m) BY <1>5, <1>6, <1>10, <2>3, StillYSource
      <3> QED BY <1>1, <1>2, <1>3, <1>4, <1>5, <1>6, <1>8, <2>3, <3>1 DEF SlotsOK, Holds
    <2> QED BY <2>1, <2>2, <2>3
  <1> QED BY <1>5, <1>13, <1>14, <1>15, <1>16, <1>17, <1>18 DEF LanesOK

(* What any beat of an endpoint does, whichever lane it goes by.           *)
LEMMA SendBeatParts ==
  ASSUME SquareInv, NEW m \in Mesh, SendBeat(m)
  PROVE  /\ ltx[m].pkt \in Packet /\ ltx[m].left \in Nat \ {0} /\ demux[m] \in {"X0", "X1", "Y"}
         /\ ltx[m] = [pkt |-> ltx[m].pkt, left |-> ltx[m].left]
         /\ LET b == Beat(ltx[m].pkt, ltx[m].left - 1)
            IN  b \in Item /\ ~b.hdr /\ b.pkt = ltx[m].pkt /\ b.left = ltx[m].left - 1
         /\ ltx[m].left = 1 => ltx'[m] = Idle /\ demux'[m] = "NONE"
         /\ ltx[m].left # 1 => /\ ltx'[m].pkt = ltx[m].pkt /\ ltx'[m].left = ltx[m].left - 1
                               /\ demux'[m] = demux[m]
         /\ ltx'[m].left = ltx[m].left - 1
         /\ \A s \in Mesh \ {m} : ltx'[s] = ltx[s] /\ demux'[s] = demux[s]
         /\ UNCHANGED <<lmux, q, incoming>>
  <1>1. TypeOK BY DEF SquareInv
  <1>2. demux[m] \in {"X0", "X1", "Y"}
    <2>1. demux[m] \in {"NONE", "X0", "X1", "Y"} BY <1>1, MeshTypes
    <2>2. demux[m] # "NONE" BY DEF SendBeat, LocalSends
    <2> QED BY <2>1, <2>2
  <1>3. ltx[m].pkt \in Packet /\ ltx[m].left \in Nat \ {0} /\ ltx[m].left \in 1 .. ltx[m].pkt.len + 1
    BY <1>2, EndOf
  <1>4. ltx[m].left \in 0 .. MAX_BEATS /\ ltx[m] = [pkt |-> ltx[m].pkt, left |-> ltx[m].left]
    BY <1>1, MeshTypes
  <1>5. LET b == Beat(ltx[m].pkt, ltx[m].left - 1)
        IN  b \in Item /\ ~b.hdr /\ b.pkt = ltx[m].pkt /\ b.left = ltx[m].left - 1
    <2>1. ltx[m].left - 1 \in 0 .. MAX_BEATS BY <1>3, <1>4, SwitchAssumption, SMTT(40)
    <2> QED BY <1>3, <2>1, ItemTypes
  <1>6. ltx' = [ltx EXCEPT ![m] = IF ltx[m].left = 1 THEN Idle
                                  ELSE [pkt |-> ltx[m].pkt, left |-> ltx[m].left - 1]]
    BY DEF SendBeat
  <1>7. demux' = IF ltx[m].left = 1 THEN [demux EXCEPT ![m] = "NONE"] ELSE demux BY DEF SendBeat
  <1>8. UNCHANGED <<lmux, q, incoming>> BY DEF SendBeat
  <1>9. DOMAIN ltx = Mesh /\ DOMAIN demux = Mesh BY <1>1 DEF TypeOK
  <1>10. ltx[m].left = 1 => ltx'[m] = Idle /\ demux'[m] = "NONE" BY <1>6, <1>7, <1>9
  <1>11. ltx[m].left # 1 => /\ ltx'[m].pkt = ltx[m].pkt /\ ltx'[m].left = ltx[m].left - 1
                            /\ demux'[m] = demux[m]
    BY <1>6, <1>7, <1>9
  <1>12. \A s \in Mesh \ {m} : ltx'[s] = ltx[s] /\ demux'[s] = demux[s] BY <1>6, <1>7, <1>9
  <1>13. ltx'[m].left = ltx[m].left - 1 BY <1>3, <1>10, <1>11, IdleParts
  <1> QED BY <1>2, <1>3, <1>4, <1>5, <1>8, <1>10, <1>11, <1>12, <1>13

LEMMA SendBeatEnd ==
  ASSUME SquareInv, NEW m \in Mesh, SendBeat(m), NEW r \in Mesh,
         demux[m] = "Y" /\ ltx[m].left = 1 => ymux'[m] = "NONE",
         demux[m] # "Y" \/ ltx[m].left # 1 => ymux'[m] = ymux[m],
         \A s \in Mesh \ {m} : ymux'[s] = ymux[s]
  PROVE  EndOK(r)'
  <1>1. EndOK(r) BY DEF SquareInv
  <1>2. CASE r # m BY <1>1, <1>2, SendBeatParts, StillEnd, ZenonT(40)
  <1>3. CASE r = m
    <2>1. CASE ltx[m].left = 1
      <3>1. ltx'[m] = Idle /\ demux'[m] = "NONE" BY <2>1, SendBeatParts
      <3>2. ymux'[m] # "a" BY <1>1, <1>3, <2>1 DEF EndOK
      <3> QED BY <1>3, <3>1, <3>2, IdleParts DEF EndOK
    <2>2. CASE ltx[m].left # 1
      <3>1. /\ ltx'[m].pkt = ltx[m].pkt /\ ltx'[m].left = ltx[m].left - 1
            /\ demux'[m] = demux[m] /\ demux[m] # "NONE" /\ ltx[m].left \in Nat \ {0}
            /\ ltx[m].pkt \in Packet
        BY <2>2, SendBeatParts
      <3>2. ltx[m].left \in 1 .. ltx[m].pkt.len + 1 BY <3>1, EndOf
      <3>3. ltx[m].pkt.len \in Nat BY <3>1, PacketDst, SwitchAssumption, SMTT(40)
      <3>4. ltx'[m].left \in 1 .. ltx'[m].pkt.len + 1 BY <2>2, <3>1, <3>2, <3>3
      <3>5. ltx'[m] # Idle BY <3>4, IdleParts
      <3>6. ltx[m] # Idle BY <3>1, IdleParts
      <3> QED BY <1>1, <1>3, <2>2, <3>1, <3>4, <3>5, <3>6 DEF EndOK
    <2> QED BY <2>1, <2>2
  <1> QED BY <1>2, <1>3

LEMMA SendBeatX ==
  ASSUME SquareInv, NEW m \in Mesh, SendBeat(m), NEW r \in Mesh, NEW c \in {"C0", "C1"},
         demux[m] = IF c = "C0" THEN "X0" ELSE "X1"
  PROVE  EndOK(r)' /\ SlotsOK(r)' /\ LanesOK(r)'
  <1> DEFINE n == Peer(m, 0)
             k == IF c = "C0" THEN <<n, 0, 0>> ELSE <<n, 0, 1>>
             f == ltx[m]
             b == Beat(ltx[m].pkt, ltx[m].left - 1)
  <1>1. TypeOK /\ SlotsOK(m) /\ EndOK(m) BY DEF SquareInv
  <1>2. n \in Mesh /\ n # m /\ Peer(n, 0) = m BY Square
  <1>3. cur[<<m, 0>>] = c BY DEF SendBeat, LocalSends
  <1>4. FarLane(m, 0, ltx[m].pkt) = k /\ (demux[m] = "X1" => Dst(ltx[m].pkt) = Peer(n, 1)) BY EndOf
  <1>5. /\ rx' = [rx EXCEPT ![k] = Append(rx[k], b)]
        /\ ymux' = ymux
        /\ cur' = IF ltx[m].left = 1 THEN [cur EXCEPT ![<<m, 0>>] = "NONE"] ELSE cur
    <2>1. rx' = [rx EXCEPT ![FarLane(m, 0, ltx[m].pkt)] = Append(@, b)] BY DEF SendBeat
    <2>2. rx' = [rx EXCEPT ![k] = Append(rx[k], b)] BY <1>4, <2>1
    <2>3. ymux' = ymux BY DEF SendBeat
    <2>4. cur' = IF ltx[m].left = 1 THEN [cur EXCEPT ![<<m, 0>>] = "NONE"] ELSE cur BY DEF SendBeat
    <2> QED BY <2>2, <2>3, <2>4
  <1>6. /\ f.left \in Nat \ {0} /\ f = [pkt |-> f.pkt, left |-> f.left] /\ f.pkt \in Packet
        /\ b \in Item /\ ~b.hdr /\ b.pkt = f.pkt /\ b.left = f.left - 1
    BY SendBeatParts
  <1>7. /\ ltx'[m].left = b.left /\ (ltx[m].left # 1 => ltx'[m].pkt = f.pkt)
        /\ UNCHANGED <<lmux, q, incoming>>
        /\ \A s \in Mesh \ {m} : ltx'[s] = ltx[s] /\ demux'[s] = demux[s]
        /\ ltx[m].left = 1 => ltx'[m] = Idle /\ demux'[m] = "NONE"
        /\ ltx[m].left # 1 => demux'[m] = demux[m]
    BY <1>6, SendBeatParts
  <1> HIDE DEF b
  <1>8. /\ \A s \in Mesh : cur'[<<s, 1>>] = cur[<<s, 1>>]
        /\ \A s \in Mesh \ {m} : cur'[<<s, 0>>] = cur[<<s, 0>>]
        /\ cur'[<<m, 0>>] = IF ltx[m].left = 1 THEN "NONE" ELSE c
    BY <1>1, <1>3, <1>5 DEF TypeOK, Link, LinkNo
  <1>9. /\ \A s \in Mesh : rx'[<<s, 1, 0>>] = rx[<<s, 1, 0>>] /\ rx'[<<s, 1, 1>>] = rx[<<s, 1, 1>>]
        /\ \A s \in Mesh \ {n} : rx'[<<s, 0, 0>>] = rx[<<s, 0, 0>>] /\ rx'[<<s, 0, 1>>] = rx[<<s, 0, 1>>]
        /\ demux[m] = "X0" => /\ rx'[<<n, 0, 0>>] = Append(rx[<<n, 0, 0>>], b)
                              /\ rx'[<<n, 0, 1>>] = rx[<<n, 0, 1>>]
        /\ demux[m] = "X1" => /\ rx'[<<n, 0, 1>>] = Append(rx[<<n, 0, 1>>], b)
                              /\ rx'[<<n, 0, 0>>] = rx[<<n, 0, 0>>]
    <2>1. rx \in [Lane -> Seq(Item)] BY <1>1 DEF TypeOK
    <2>2. CASE c = "C0"
      <3>1. rx' = [rx EXCEPT ![<<n, 0, 0>>] = Append(rx[<<n, 0, 0>>], b)] BY <1>5, <2>2
      <3> HIDE DEF n
      <3> QED BY <1>2, <2>1, <2>2, <3>1 DEF Lane, LinkNo, Class
    <2>3. CASE c = "C1"
      <3>1. rx' = [rx EXCEPT ![<<n, 0, 1>>] = Append(rx[<<n, 0, 1>>], b)] BY <1>5, <2>3
      <3> HIDE DEF n
      <3> QED BY <1>2, <2>1, <2>3, <3>1 DEF Lane, LinkNo, Class
    <2> QED BY <2>2, <2>3
  <1> HIDE DEF n, f, k
  <1>10. \A s \in Mesh \ {n} : Beside(s, "C0")' = Beside(s, "C0") /\ Beside(s, "C1")' = Beside(s, "C1")
    <2> TAKE s \in Mesh \ {n}
    <2>1. Peer(s, 0) \in Mesh /\ Peer(s, 0) # m BY Square DEF n
    <2>2. cur'[<<Peer(s, 0), 0>>] = cur[<<Peer(s, 0), 0>>] /\ ltx'[Peer(s, 0)] = ltx[Peer(s, 0)]
      BY <1>7, <1>8, <2>1
    <2> QED BY <2>2, StillBeside
  <1>11. Beside(n, c) = f /\ Beside(n, c)'.left = b.left /\ (b.left > 0 => Beside(n, c)'.pkt = f.pkt)
    <2>1. Beside(n, c) = ltx[m] BY <1>2, <1>3 DEF Beside
    <2>2. CASE ltx[m].left = 1
      <3>1. Beside(n, c)' = Idle BY <1>2, <1>8, <2>2 DEF Beside
      <3> QED BY <1>6, <2>1, <2>2, <3>1, IdleParts DEF f
    <2>3. CASE ltx[m].left # 1
      <3>1. Beside(n, c)' = ltx'[m] BY <1>2, <1>8, <2>3 DEF Beside
      <3> QED BY <1>7, <2>1, <2>3, <3>1 DEF f
    <2> QED BY <2>2, <2>3
  <1>12. \A d \in {"C0", "C1"} \ {c} : Beside(n, d)' = Beside(n, d)
    <2> TAKE d \in {"C0", "C1"} \ {c}
    <2>1. Beside(n, d) = Idle BY <1>2, <1>3 DEF Beside
    <2>2. Beside(n, d)' = Idle BY <1>2, <1>8 DEF Beside
    <2> QED BY <2>1, <2>2
  <1>13. EndOK(r) /\ SlotsOK(r) /\ Lane0(r) /\ Lane1(r) /\ LaneY(r) /\ rx[<<r, 1, 1>>] = <<>>
    BY DEF SquareInv, LanesOK
  <1>14. Lane0(n) /\ Lane1(n) /\ rx[<<n, 0, 0>>] \in Seq(Item) /\ rx[<<n, 0, 1>>] \in Seq(Item)
    BY <1>1, <1>2, MeshTypes DEF SquareInv, LanesOK
  <1>15. demux[m] = "X0" => Lane0(n)'
    <2> SUFFICES ASSUME demux[m] = "X0" PROVE Lane0(n)' OBVIOUS
    <2> DEFINE s == rx[<<n, 0, 0>>]
               g == Beside(n, "C0")'
    <2>1. Stream(s, lmux[n], "a", f) /\ (lmux[n] = "a" => Cursor(s, f).pkt = incoming[n])
      BY <1>11, <1>14 DEF Lane0
    <2>2. g.left = b.left /\ (g.left > 0 => g.pkt = f.pkt) /\ s \in Seq(Item) BY <1>11, <1>14
    <2>3. rx'[<<n, 0, 0>>] = Append(s, b) BY <1>9
    <2>4. Stream(Append(s, b), lmux[n], "a", g) /\ Cursor(Append(s, b), g) = Cursor(s, f)
      <3> HIDE DEF s, f, g
      <3>1. Stream(s, lmux[n], "a", f) BY <2>1
      <3>2. g.left = b.left /\ (g.left > 0 => g.pkt = f.pkt) BY <2>2
      <3>3. s \in Seq(Item) BY <2>2
      <3>4. b \in Item /\ ~b.hdr /\ b.left = f.left - 1 /\ b.pkt = f.pkt /\ g.left = b.left
        BY <1>6, <3>2
      <3>5. f.left \in Nat \ {0} /\ f = [pkt |-> f.pkt, left |-> f.left] BY <1>6
      <3>6. g.left > 0 => g.pkt = f.pkt BY <3>2
      <3> QED BY <3>1, <3>3, <3>4, <3>5, <3>6, StreamBeat, SMTT(60)
    <2> HIDE DEF s, g
    <2> QED BY <1>7, <2>1, <2>3, <2>4 DEF Lane0, g
  <1>16. demux[m] = "X1" => Lane1(n)' /\ Rest(n)' = Rest(n)
    <2> SUFFICES ASSUME demux[m] = "X1" PROVE Lane1(n)' /\ Rest(n)' = Rest(n) OBVIOUS
    <2> DEFINE s == rx[<<n, 0, 1>>]
               g == Beside(n, "C1")'
    <2>1. Stream(s, ymux[n], "b", f) /\ (\A i \in DOMAIN s : Dst(s[i].pkt) = Peer(n, 1))
      BY <1>11, <1>14 DEF Lane1
    <2>2. g.left = b.left /\ (g.left > 0 => g.pkt = f.pkt) /\ s \in Seq(Item) BY <1>11, <1>14
    <2>3. rx'[<<n, 0, 1>>] = Append(s, b) BY <1>9
    <2>4. Rest(n) = Cursor(s, f) /\ Rest(n)' = Cursor(Append(s, b), g) BY <1>11, <2>3 DEF Rest
    <2>5. Stream(Append(s, b), ymux[n], "b", g) /\ Cursor(Append(s, b), g) = Cursor(s, f)
      <3> HIDE DEF s, f, g
      <3>1. Stream(s, ymux[n], "b", f) BY <2>1
      <3>2. g.left = b.left /\ (g.left > 0 => g.pkt = f.pkt) BY <2>2
      <3>3. s \in Seq(Item) BY <2>2
      <3>4. b \in Item /\ ~b.hdr /\ b.left = f.left - 1 /\ b.pkt = f.pkt /\ g.left = b.left
        BY <1>6, <3>2
      <3>5. f.left \in Nat \ {0} /\ f = [pkt |-> f.pkt, left |-> f.left] BY <1>6
      <3>6. g.left > 0 => g.pkt = f.pkt BY <3>2
      <3> QED BY <3>1, <3>3, <3>4, <3>5, <3>6, StreamBeat, SMTT(60)
    <2> HIDE DEF s, g
    <2>6. \A i \in DOMAIN Append(s, b) : Dst(Append(s, b)[i].pkt) = Peer(n, 1)
      <3>1. Dst(b.pkt) = Peer(n, 1) BY <1>4, <1>6 DEF f
      <3> QED BY <2>1, <2>2, <3>1
    <2> QED BY <1>5, <2>3, <2>4, <2>5, <2>6 DEF Lane1, g
  <1>17. \A s \in Mesh : Rest(s)' = Rest(s)
    <2>1. \A s \in Mesh \ {n} : Rest(s)' = Rest(s) BY <1>9, <1>10, StillRest
    <2>2. demux[m] = "X0" => Rest(n)' = Rest(n) BY <1>9, <1>12, StillRest
    <2> QED BY <1>16, <2>1, <2>2
  <1>18. ymux[m] # "a" BY <1>1 DEF EndOK
  <1>19. \A s \in Mesh : YSource(s)' = YSource(s) BY <1>5, <1>7, <1>17, <1>18, StillYSource
  <1>20. Below(r)' = Below(r)
    <2>1. Peer(r, 1) \in Mesh BY Square
    <2> QED BY <1>8, <1>19, <2>1, StillBelow
  <1>21. Lane0(r)'
    <2>1. CASE r # n BY <1>7, <1>9, <1>10, <1>13, <2>1, Still0
    <2>2. CASE r = n /\ demux[m] # "X0" BY <1>7, <1>9, <1>12, <1>13, <2>2, Still0
    <2> QED BY <1>15, <2>1, <2>2
  <1>22. Lane1(r)'
    <2>1. CASE r # n BY <1>5, <1>9, <1>10, <1>13, <2>1, Still1
    <2>2. CASE r = n /\ demux[m] # "X1" BY <1>5, <1>9, <1>12, <1>13, <2>2, Still1
    <2> QED BY <1>16, <2>1, <2>2
  <1>23. LaneY(r)' BY <1>7, <1>9, <1>13, <1>20, StillY
  <1>24. EndOK(r)' BY <1>5, SendBeatEnd
  <1>25. SlotsOK(r)'
    <2>1. CASE r # m BY <1>5, <1>7, <1>8, <1>13, <1>19, <2>1, StillSlots
    <2>2. CASE r = m
      <3>1. q[<<m, 0, 0>>] = NoPkt /\ q[<<m, 0, 1>>] = NoPkt BY <1>1, <1>3 DEF SlotsOK
      <3>2. CASE ltx[m].left = 1
        BY <1>1, <1>5, <1>7, <1>8, <1>19, <2>2, <3>1, <3>2 DEF SlotsOK, Holds
      <3>3. CASE ltx[m].left # 1
        BY <1>1, <1>3, <1>5, <1>7, <1>8, <1>19, <2>2, <3>1, <3>3 DEF SlotsOK, Holds
      <3> QED BY <3>2, <3>3
    <2> QED BY <2>1, <2>2
  <1> QED BY <1>9, <1>13, <1>21, <1>22, <1>23, <1>24, <1>25 DEF LanesOK

LEMMA SendBeatY ==
  ASSUME SquareInv, NEW m \in Mesh, SendBeat(m), demux[m] = "Y", NEW r \in Mesh
  PROVE  EndOK(r)' /\ SlotsOK(r)' /\ LanesOK(r)'
  <1> DEFINE n == Peer(m, 1)
             f == ltx[m]
             b == Beat(ltx[m].pkt, ltx[m].left - 1)
  <1>1. TypeOK /\ SlotsOK(m) /\ EndOK(m) BY DEF SquareInv
  <1>2. n \in Mesh /\ n # m /\ Peer(n, 1) = m BY Square
  <1>3. cur[<<m, 1>>] = "C0" /\ ymux[m] = "a" BY DEF SendBeat, LocalSends
  <1>4. FarLane(m, 1, ltx[m].pkt) = <<n, 1, 0>>
    <2>1. Dst(ltx[m].pkt) = Peer(m, 1) BY EndOf
    <2> QED BY <2>1, RouteY
  <1>5. /\ rx' = [rx EXCEPT ![<<n, 1, 0>>] = Append(rx[<<n, 1, 0>>], b)]
        /\ ymux' = IF ltx[m].left = 1 THEN [ymux EXCEPT ![m] = "NONE"] ELSE ymux
        /\ cur' = IF ltx[m].left = 1 THEN [cur EXCEPT ![<<m, 1>>] = "NONE"] ELSE cur
    <2>1. rx' = [rx EXCEPT ![FarLane(m, 1, ltx[m].pkt)] = Append(@, b)] BY DEF SendBeat
    <2>2. rx' = [rx EXCEPT ![<<n, 1, 0>>] = Append(rx[<<n, 1, 0>>], b)] BY <1>4, <2>1
    <2>3. ymux' = IF ltx[m].left = 1 THEN [ymux EXCEPT ![m] = "NONE"] ELSE ymux BY DEF SendBeat
    <2>4. cur' = IF ltx[m].left = 1 THEN [cur EXCEPT ![<<m, 1>>] = "NONE"] ELSE cur BY DEF SendBeat
    <2> QED BY <2>2, <2>3, <2>4
  <1>6. /\ f.left \in Nat \ {0} /\ f = [pkt |-> f.pkt, left |-> f.left] /\ f.pkt \in Packet
        /\ b \in Item /\ ~b.hdr /\ b.pkt = f.pkt /\ b.left = f.left - 1
    BY SendBeatParts
  <1>7. /\ ltx'[m].left = b.left /\ (ltx[m].left # 1 => ltx'[m].pkt = f.pkt)
        /\ UNCHANGED <<lmux, q, incoming>>
        /\ \A s \in Mesh \ {m} : ltx'[s] = ltx[s] /\ demux'[s] = demux[s]
        /\ ltx[m].left = 1 => ltx'[m] = Idle /\ demux'[m] = "NONE"
        /\ ltx[m].left # 1 => demux'[m] = demux[m]
    BY <1>6, SendBeatParts
  <1> HIDE DEF b
  <1>8. /\ \A s \in Mesh : cur'[<<s, 0>>] = cur[<<s, 0>>]
        /\ \A s \in Mesh \ {m} : cur'[<<s, 1>>] = cur[<<s, 1>>]
        /\ cur'[<<m, 1>>] = IF ltx[m].left = 1 THEN "NONE" ELSE "C0"
        /\ \A s \in Mesh \ {m} : ymux'[s] = ymux[s]
        /\ ymux'[m] = IF ltx[m].left = 1 THEN "NONE" ELSE "a"
    BY <1>1, <1>3, <1>5 DEF TypeOK, Link, LinkNo
  <1>9. /\ \A s \in Mesh : /\ rx'[<<s, 0, 0>>] = rx[<<s, 0, 0>>] /\ rx'[<<s, 0, 1>>] = rx[<<s, 0, 1>>]
                           /\ rx'[<<s, 1, 1>>] = rx[<<s, 1, 1>>]
        /\ \A s \in Mesh \ {n} : rx'[<<s, 1, 0>>] = rx[<<s, 1, 0>>]
        /\ rx'[<<n, 1, 0>>] = Append(rx[<<n, 1, 0>>], b)
    <2>1. rx \in [Lane -> Seq(Item)] BY <1>1 DEF TypeOK
    <2>2. rx' = [rx EXCEPT ![<<n, 1, 0>>] = Append(rx[<<n, 1, 0>>], b)] BY <1>5
    <2> HIDE DEF n
    <2> QED BY <1>2, <2>1, <2>2 DEF Lane, LinkNo, Class
  <1> HIDE DEF n, f
  <1>10. cur[<<m, 0>>] = "NONE"
    <2>1. cur[<<m, 0>>] \in {"NONE", "C0", "C1"} BY <1>1, MeshTypes
    <2> QED BY <1>1, <2>1 DEF SlotsOK
  <1>11. \A s \in Mesh : Beside(s, "C0")' = Beside(s, "C0") /\ Beside(s, "C1")' = Beside(s, "C1")
    <2> TAKE s \in Mesh
    <2>1. Peer(s, 0) \in Mesh BY Square
    <2>2. cur'[<<Peer(s, 0), 0>>] = cur[<<Peer(s, 0), 0>>] BY <1>8, <2>1
    <2>3. cur[<<Peer(s, 0), 0>>] # "NONE" => ltx'[Peer(s, 0)] = ltx[Peer(s, 0)] BY <1>7, <1>10, <2>1
    <2> QED BY <2>2, <2>3, StillBeside
  <1>12. \A s \in Mesh : Rest(s)' = Rest(s) BY <1>9, <1>11, StillRest
  <1>13. \A s \in Mesh \ {m} : YSource(s)' = YSource(s) BY <1>7, <1>8, <1>12, StillYSource
  <1>14. \A s \in Mesh \ {n} : Below(s)' = Below(s)
    <2> TAKE s \in Mesh \ {n}
    <2>1. Peer(s, 1) \in Mesh \ {m} BY Square DEF n
    <2>2. cur'[<<Peer(s, 1), 1>>] = cur[<<Peer(s, 1), 1>>] /\ YSource(Peer(s, 1))' = YSource(Peer(s, 1))
      BY <1>8, <1>13, <2>1
    <2> QED BY <2>2, StillBelow
  <1>15. Below(n) = f /\ Below(n)'.left = b.left /\ (b.left > 0 => Below(n)'.pkt = f.pkt)
    <2>1. Below(n) = ltx[m] BY <1>2, <1>3 DEF Below, YSource
    <2>2. CASE ltx[m].left = 1
      <3>1. Below(n)' = Idle BY <1>2, <1>8, <2>2 DEF Below
      <3> QED BY <1>6, <2>1, <2>2, <3>1, IdleParts DEF f
    <2>3. CASE ltx[m].left # 1
      <3>1. Below(n)' = ltx'[m] BY <1>2, <1>8, <2>3 DEF Below, YSource
      <3> QED BY <1>7, <2>1, <2>3, <3>1 DEF f
    <2> QED BY <2>2, <2>3
  <1>16. EndOK(r) /\ SlotsOK(r) /\ Lane0(r) /\ Lane1(r) /\ LaneY(r) /\ rx[<<r, 1, 1>>] = <<>>
    BY DEF SquareInv, LanesOK
  <1>17. LaneY(n) /\ rx[<<n, 1, 0>>] \in Seq(Item) BY <1>1, <1>2, MeshTypes DEF SquareInv, LanesOK
  <1>18. LaneY(n)'
    <2> DEFINE s == rx[<<n, 1, 0>>]
               g == Below(n)'
    <2>1. Stream(s, lmux[n], "b", f) /\ (lmux[n] = "b" => Cursor(s, f).pkt = incoming[n])
      BY <1>15, <1>17 DEF LaneY
    <2>2. g.left = b.left /\ (g.left > 0 => g.pkt = f.pkt) /\ s \in Seq(Item) BY <1>15, <1>17
    <2>3. rx'[<<n, 1, 0>>] = Append(s, b) BY <1>9
    <2> HIDE DEF s, g
    <2>4. Stream(Append(s, b), lmux[n], "b", g) /\ Cursor(Append(s, b), g) = Cursor(s, f)
      BY <1>6, <2>1, <2>2, StreamBeat
    <2> QED BY <1>7, <2>1, <2>3, <2>4 DEF LaneY, g
  <1>19. Lane0(r)' BY <1>7, <1>9, <1>11, <1>16, Still0
  <1>20. Lane1(r)'
    <2>1. ymux'[r] = "b" <=> ymux[r] = "b" BY <1>3, <1>8
    <2> QED BY <1>9, <1>11, <1>16, <2>1, Still1
  <1>21. LaneY(r)'
    <2>1. CASE r # n BY <1>7, <1>9, <1>14, <1>16, <2>1, StillY
    <2> QED BY <1>18, <2>1
  <1>22. EndOK(r)'
    <2>1. ltx[m].left # 1 => ymux'[m] = ymux[m] BY <1>3, <1>8
    <2> QED BY <1>8, <2>1, SendBeatEnd
  <1>23. SlotsOK(r)'
    <2>1. CASE r # m BY <1>7, <1>8, <1>13, <1>16, <2>1, StillSlots
    <2>2. CASE r = m
      <3>1. q[<<m, 0, 0>>] = NoPkt /\ q[<<m, 0, 1>>] = NoPkt /\ q[<<m, 1, 0>>] = NoPkt /\ q[<<m, 1, 1>>] = NoPkt
        BY <1>1, <1>3 DEF SlotsOK
      <3>2. demux'[m] \in {"Y", "NONE"} BY <1>7
      <3>3. CASE ltx[m].left = 1 BY <1>7, <1>8, <1>10, <2>2, <3>1, <3>2, <3>3 DEF SlotsOK
      <3>4. CASE ltx[m].left # 1 BY <1>7, <1>8, <1>10, <2>2, <3>1, <3>2, <3>4 DEF SlotsOK
      <3> QED BY <3>3, <3>4
    <2> QED BY <2>1, <2>2
  <1> QED BY <1>9, <1>16, <1>19, <1>20, <1>21, <1>22, <1>23 DEF LanesOK

LEMMA ForwardHdrKeeps ==
  ASSUME SquareInv, NEW m \in Mesh, ForwardHdr(m), NEW r \in Mesh
  PROVE  EndOK(r)' /\ SlotsOK(r)' /\ LanesOK(r)'
  <1> DEFINE s == rx[<<m, 0, 1>>]
             f == Beside(m, "C1")
  <1>1. TypeOK /\ SlotsOK(m) /\ EndOK(m) /\ Lane1(m) BY DEF SquareInv, LanesOK
  <1>2. s # <<>> /\ ymux[m] = "NONE" /\ q[<<m, 1, 0>>] = NoPkt BY DEF ForwardHdr, HdrAt, IdleMux
  <1>3. s \in Seq(Item) BY <1>1, MeshTypes
  <1>4. UNCHANGED <<ltx, demux, lmux, cur, incoming>> BY DEF ForwardHdr
  <1>5. /\ ymux'[m] = "b" /\ \A x \in Mesh \ {m} : ymux'[x] = ymux[x]
        /\ \A x \in Mesh : ymux'[x] = "a" <=> ymux[x] = "a"
    BY <1>1, <1>2 DEF ForwardHdr, TypeOK
  <1>6. Head(s) = s[1] BY <1>2, <1>3
  <1>7. /\ \A x \in Mesh : /\ rx'[<<x, 0, 0>>] = rx[<<x, 0, 0>>] /\ rx'[<<x, 1, 0>>] = rx[<<x, 1, 0>>]
                           /\ rx'[<<x, 1, 1>>] = rx[<<x, 1, 1>>]
        /\ \A x \in Mesh \ {m} : rx'[<<x, 0, 1>>] = rx[<<x, 0, 1>>]
        /\ rx'[<<m, 0, 1>>] = Tail(s)
    BY <1>1 DEF ForwardHdr, TypeOK, Lane, LinkNo, Class
  <1>8. /\ \A x \in Mesh : /\ q'[<<x, 0, 0>>] = q[<<x, 0, 0>>] /\ q'[<<x, 0, 1>>] = q[<<x, 0, 1>>]
                           /\ q'[<<x, 1, 1>>] = q[<<x, 1, 1>>]
        /\ \A x \in Mesh \ {m} : q'[<<x, 1, 0>>] = q[<<x, 1, 0>>]
        /\ q'[<<m, 1, 0>>] = s[1].pkt
    BY <1>1, <1>6 DEF ForwardHdr, TypeOK, Lane, LinkNo, Class
  <1>9. \A x \in Mesh : Beside(x, "C0")' = Beside(x, "C0") /\ Beside(x, "C1")' = Beside(x, "C1")
    BY <1>4, StillBeside
  <1>10. \A x \in Mesh \ {m} : YSource(x)' = YSource(x)
    <2>1. \A x \in Mesh \ {m} : Rest(x)' = Rest(x) BY <1>7, <1>9, StillRest
    <2> QED BY <1>4, <1>5, <2>1, StillYSource
  <1>11. Below(r)' = Below(r)
    <2>1. Peer(r, 1) \in Mesh BY Square
    <2>2. cur[<<m, 1>>] # "C0" BY <1>1, <1>2 DEF SlotsOK
    <2>3. cur[<<Peer(r, 1), 1>>] = "C0" => YSource(Peer(r, 1))' = YSource(Peer(r, 1)) BY <1>10, <2>1, <2>2
    <2> QED BY <1>4, <2>3, StillBelow
  <1>12. /\ s[1].left = s[1].pkt.len + 1 /\ Stream(Tail(s), "b", "b", f)
         /\ Cursor(Tail(s), f).pkt = s[1].pkt /\ Cursor(Tail(s), f).left = s[1].left
    <2>1. Stream(s, ymux[m], "b", f) BY <1>1 DEF Lane1
    <2>2. f.left \in Nat BY BesideOf
    <2> HIDE DEF s, f
    <2>3. ymux[m] # "b" BY <1>2
    <2> QED BY <1>2, <1>3, <2>1, <2>2, <2>3, StreamTakeHdr
  <1>13. YSource(m)'.pkt = s[1].pkt /\ YSource(m)'.left = s[1].left
    <2>1. YSource(m)' = Cursor(Tail(s), f) BY <1>5, <1>7, <1>9 DEF YSource, Rest
    <2> QED BY <1>12, <2>1
  <1>14. EndOK(r) /\ SlotsOK(r) /\ Lane0(r) /\ Lane1(r) /\ LaneY(r) /\ rx[<<r, 1, 1>>] = <<>>
    BY DEF SquareInv, LanesOK
  <1>15. Lane0(r)' BY <1>4, <1>7, <1>9, <1>14, Still0
  <1>16. Lane1(r)'
    <2>1. CASE r # m BY <1>5, <1>7, <1>9, <1>14, <2>1, Still1
    <2>2. CASE r = m
      <3>1. \A i \in DOMAIN s : Dst(s[i].pkt) = Peer(m, 1) BY <1>1 DEF Lane1
      <3> HIDE DEF s
      <3>2. DOMAIN Tail(s) = 1 .. Len(s) - 1 /\ \A i \in 1 .. Len(s) - 1 : Tail(s)[i] = s[i + 1] /\ i + 1 \in DOMAIN s
        BY <1>2, <1>3
      <3>3. \A i \in DOMAIN Tail(s) : Dst(Tail(s)[i].pkt) = Peer(m, 1) BY <3>1, <3>2
      <3> QED BY <1>5, <1>7, <1>9, <1>12, <2>2, <3>3 DEF Lane1
    <2> QED BY <2>1, <2>2
  <1>17. LaneY(r)' BY <1>4, <1>7, <1>11, <1>14, StillY
  <1>18. EndOK(r)' BY <1>4, <1>5, <1>14, StillEnd
  <1>19. SlotsOK(r)'
    <2>1. CASE r # m BY <1>4, <1>5, <1>8, <1>10, <1>14, <2>1, StillSlots
    <2>2. CASE r = m
      <3>1. s[1].pkt # NoPkt
        <4>1. s[1] \in Item BY <1>2, <1>3
        <4>2. s[1].pkt \in Packet BY <4>1 DEF Item
        <4> QED BY <4>2, PacketDst
      <3> HIDE DEF s
      <3> QED BY <1>1, <1>2, <1>4, <1>5, <1>8, <1>12, <1>13, <2>2, <3>1 DEF SlotsOK, Holds
    <2> QED BY <2>1, <2>2
  <1> QED BY <1>7, <1>14, <1>15, <1>16, <1>17, <1>18, <1>19 DEF LanesOK

LEMMA ForwardBeatKeeps ==
  ASSUME SquareInv, NEW m \in Mesh, ForwardBeat(m), NEW r \in Mesh
  PROVE  EndOK(r)' /\ SlotsOK(r)' /\ LanesOK(r)'
  <1> DEFINE n == Peer(m, 1)
             s == rx[<<m, 0, 1>>]
             f == Beside(m, "C1")
             b == s[1]
  <1>1. TypeOK /\ SlotsOK(m) /\ EndOK(m) /\ Lane1(m) BY DEF SquareInv, LanesOK
  <1>2. n \in Mesh /\ n # m /\ Peer(n, 1) = m BY Square
  <1>3. s # <<>> /\ ymux[m] = "b" /\ cur[<<m, 1>>] = "C0" BY DEF ForwardBeat, BeatAt
  <1>4. s \in Seq(Item) BY <1>1, MeshTypes
  <1>5. Head(s) = b /\ b \in Item /\ 1 \in DOMAIN s BY <1>3, <1>4
  <1>6. b.pkt \in Packet /\ b.left \in Nat
    <2>1. b.left \in 0 .. MAX_BEATS /\ b.pkt \in Packet BY <1>5 DEF Item
    <2> QED BY <2>1, SwitchAssumption
  <1>7. Dst(b.pkt) = n /\ FarLane(m, 1, b.pkt) = <<n, 1, 0>>
    <2>1. Dst(b.pkt) = n BY <1>1, <1>5 DEF Lane1
    <2> QED BY <2>1, RouteY
  <1>8. /\ rx' = [rx EXCEPT ![<<n, 1, 0>>] = Append(rx[<<n, 1, 0>>], b), ![<<m, 0, 1>>] = Tail(s)]
        /\ ymux' = IF b.left = 0 THEN [ymux EXCEPT ![m] = "NONE"] ELSE ymux
        /\ cur' = IF b.left = 0 THEN [cur EXCEPT ![<<m, 1>>] = "NONE"] ELSE cur
        /\ UNCHANGED <<ltx, demux, lmux, q, incoming>>
    <2> DEFINE to == FarLane(m, 1, b.pkt)
    <2>1. ymux' = IF b.left = 0 THEN [ymux EXCEPT ![m] = "NONE"] ELSE ymux BY <1>5 DEF ForwardBeat
    <2>2. cur' = IF b.left = 0 THEN [cur EXCEPT ![<<m, 1>>] = "NONE"] ELSE cur BY <1>5 DEF ForwardBeat
    <2>3. UNCHANGED <<ltx, demux, lmux, q, incoming>> BY DEF ForwardBeat
    <2>4. rx' = [rx EXCEPT ![to] = Append(@, b), ![<<m, 0, 1>>] = Tail(@)] BY <1>5 DEF ForwardBeat
    <2>5. to = <<n, 1, 0>> BY <1>7
    <2>6. <<n, 1, 0>> # <<m, 0, 1>> BY SMTT(40)
    <2>7. rx' = [rx EXCEPT ![<<n, 1, 0>>] = Append(@, b), ![<<m, 0, 1>>] = Tail(@)] BY <2>4, <2>5
    <2>8. rx' = [rx EXCEPT ![<<n, 1, 0>>] = Append(rx[<<n, 1, 0>>], b), ![<<m, 0, 1>>] = Tail(s)]
      BY <2>6, <2>7
    <2> QED BY <2>1, <2>2, <2>3, <2>8
  <1>9. /\ \A x \in Mesh : rx'[<<x, 0, 0>>] = rx[<<x, 0, 0>>] /\ rx'[<<x, 1, 1>>] = rx[<<x, 1, 1>>]
        /\ \A x \in Mesh \ {m} : rx'[<<x, 0, 1>>] = rx[<<x, 0, 1>>]
        /\ \A x \in Mesh \ {n} : rx'[<<x, 1, 0>>] = rx[<<x, 1, 0>>]
        /\ rx'[<<m, 0, 1>>] = Tail(s) /\ rx'[<<n, 1, 0>>] = Append(rx[<<n, 1, 0>>], b)
    <2>1. rx \in [Lane -> Seq(Item)] BY <1>1 DEF TypeOK
    <2>2. rx' = [rx EXCEPT ![<<n, 1, 0>>] = Append(rx[<<n, 1, 0>>], b), ![<<m, 0, 1>>] = Tail(s)]
      BY <1>8
    <2> DEFINE y == [rx EXCEPT ![<<n, 1, 0>>] = Append(rx[<<n, 1, 0>>], b)]
    <2>3. rx' = [y EXCEPT ![<<m, 0, 1>>] = Tail(s)] BY <2>2
    <2>4. DOMAIN y = Lane BY <2>1
    <2> HIDE DEF n, b, s
    <2>5. /\ \A x \in Mesh : /\ y[<<x, 0, 0>>] = rx[<<x, 0, 0>>] /\ y[<<x, 1, 1>>] = rx[<<x, 1, 1>>]
                            /\ y[<<x, 0, 1>>] = rx[<<x, 0, 1>>]
          /\ \A x \in Mesh \ {n} : y[<<x, 1, 0>>] = rx[<<x, 1, 0>>]
          /\ y[<<n, 1, 0>>] = Append(rx[<<n, 1, 0>>], b)
      BY <1>2, <2>1 DEF Lane, LinkNo, Class
    <2> HIDE DEF y
    <2>6. /\ \A x \in Mesh : /\ rx'[<<x, 0, 0>>] = y[<<x, 0, 0>>] /\ rx'[<<x, 1, 1>>] = y[<<x, 1, 1>>]
                            /\ rx'[<<x, 1, 0>>] = y[<<x, 1, 0>>]
          /\ \A x \in Mesh \ {m} : rx'[<<x, 0, 1>>] = y[<<x, 0, 1>>]
          /\ rx'[<<m, 0, 1>>] = Tail(s)
      BY <1>2, <2>3, <2>4 DEF Lane, LinkNo, Class
    <2> QED BY <1>2, <2>5, <2>6, ZenonT(40)
  <1> HIDE DEF b
  <1>10. /\ \A x \in Mesh : cur'[<<x, 0>>] = cur[<<x, 0>>]
         /\ \A x \in Mesh \ {m} : cur'[<<x, 1>>] = cur[<<x, 1>>] /\ ymux'[x] = ymux[x]
         /\ cur'[<<m, 1>>] = IF b.left = 0 THEN "NONE" ELSE "C0"
         /\ ymux'[m] = IF b.left = 0 THEN "NONE" ELSE "b"
    BY <1>1, <1>3, <1>8 DEF TypeOK, Link, LinkNo
  <1>11. \A x \in Mesh : Beside(x, "C0")' = Beside(x, "C0") /\ Beside(x, "C1")' = Beside(x, "C1")
    <2> TAKE x \in Mesh
    <2>1. Peer(x, 0) \in Mesh BY Square
    <2> QED BY <1>8, <1>10, <2>1, StillBeside
  <1>12. \A x \in Mesh \ {m} : YSource(x)' = YSource(x)
    <2>1. \A x \in Mesh \ {m} : Rest(x)' = Rest(x) BY <1>9, <1>11, StillRest
    <2> QED BY <1>8, <1>10, <2>1, StillYSource
  <1>13. \A x \in Mesh \ {n} : Below(x)' = Below(x)
    <2> TAKE x \in Mesh \ {n}
    <2>1. Peer(x, 1) \in Mesh \ {m} BY Square
    <2>2. cur'[<<Peer(x, 1), 1>>] = cur[<<Peer(x, 1), 1>>] /\ YSource(Peer(x, 1))' = YSource(Peer(x, 1))
      BY <1>10, <1>12, <2>1
    <2> QED BY <2>2, StillBelow
  <1>14. /\ b.left = 0 => Stream(Tail(s), "NONE", "b", f)
         /\ b.left # 0 => /\ Stream(Tail(s), "b", "b", f)
                          /\ Cursor(Tail(s), f).pkt = b.pkt /\ Cursor(Tail(s), f).left = b.left
         /\ ~b.hdr
    <2>1. Stream(s, "b", "b", f) BY <1>1, <1>3 DEF Lane1
    <2>2. f.left \in Nat BY BesideOf
    <2> HIDE DEF s, f
    <2>3. "NONE" # "b" OBVIOUS
    <2> QED BY <1>3, <1>4, <2>1, <2>2, <2>3, StreamTakeBeat DEF b
  <1>15. Below(n) = Rest(m) /\ Rest(m) = [pkt |-> b.pkt, left |-> b.left + 1]
    <2>1. Below(n) = Rest(m) BY <1>2, <1>3 DEF Below, YSource
    <2> QED BY <1>3, <2>1 DEF Rest, Cursor, b
  <1>16. Below(n)'.left = b.left /\ (b.left > 0 => Below(n)'.pkt = b.pkt)
    <2>1. CASE b.left = 0
      <3>1. Below(n)' = Idle BY <1>2, <1>10, <2>1 DEF Below
      <3> QED BY <2>1, <3>1, IdleParts
    <2>2. CASE b.left # 0
      <3>1. Below(n)' = Rest(m)' BY <1>2, <1>10, <2>2 DEF Below, YSource
      <3>2. Rest(m)' = Cursor(Tail(s), f) BY <1>9, <1>11 DEF Rest
      <3> QED BY <1>14, <2>2, <3>1, <3>2
    <2> QED BY <2>1, <2>2
  <1> HIDE DEF n
  <1>17. EndOK(r) /\ SlotsOK(r) /\ Lane0(r) /\ Lane1(r) /\ LaneY(r) /\ rx[<<r, 1, 1>>] = <<>>
    BY DEF SquareInv, LanesOK
  <1>18. LaneY(n) /\ rx[<<n, 1, 0>>] \in Seq(Item) BY <1>1, <1>2, MeshTypes DEF SquareInv, LanesOK
  <1>19. LaneY(n)'
    <2> DEFINE z == rx[<<n, 1, 0>>]
               e == Below(n)
               g == Below(n)'
    <2>1. Stream(z, lmux[n], "b", e) /\ (lmux[n] = "b" => Cursor(z, e).pkt = incoming[n])
      BY <1>18 DEF LaneY
    <2>2. g.left = b.left /\ (g.left > 0 => g.pkt = b.pkt) /\ z \in Seq(Item) BY <1>16, <1>18
    <2>3. rx'[<<n, 1, 0>>] = Append(z, b) BY <1>9
    <2>4. /\ e.left \in Nat \ {0} /\ e = [pkt |-> e.pkt, left |-> e.left]
          /\ b.left = e.left - 1 /\ b.pkt = e.pkt
      <3>1. e = [pkt |-> b.pkt, left |-> b.left + 1] BY <1>15
      <3> HIDE DEF e
      <3> QED BY <1>6, <3>1
    <2> HIDE DEF z, e, g
    <2>5. Stream(Append(z, b), lmux[n], "b", g) /\ Cursor(Append(z, b), g) = Cursor(z, e)
      BY <1>5, <1>14, <2>1, <2>2, <2>4, StreamBeat, SMTT(40)
    <2> QED BY <1>8, <2>1, <2>3, <2>5 DEF LaneY, g
  <1>20. Lane0(r)' BY <1>8, <1>9, <1>11, <1>17, Still0
  <1>21. Lane1(r)'
    <2>1. CASE r # m BY <1>9, <1>10, <1>11, <1>17, <2>1, Still1
    <2>2. CASE r = m
      <3>1. \A i \in DOMAIN s : Dst(s[i].pkt) = Peer(m, 1) BY <1>1 DEF Lane1
      <3> HIDE DEF s
      <3>2. DOMAIN Tail(s) = 1 .. Len(s) - 1 /\ \A i \in 1 .. Len(s) - 1 : Tail(s)[i] = s[i + 1] /\ i + 1 \in DOMAIN s
        BY <1>3, <1>4
      <3>3. \A i \in DOMAIN Tail(s) : Dst(Tail(s)[i].pkt) = Peer(m, 1) BY <3>1, <3>2
      <3>4. Stream(Tail(s), ymux'[m], "b", f) BY <1>10, <1>14
      <3> QED BY <1>9, <1>11, <2>2, <3>3, <3>4 DEF Lane1
    <2> QED BY <2>1, <2>2
  <1>22. LaneY(r)'
    <2>1. CASE r # n BY <1>8, <1>9, <1>13, <1>17, <2>1, StillY
    <2> QED BY <1>19, <2>1
  <1>23. EndOK(r)'
    <2>1. ymux'[r] = "a" <=> ymux[r] = "a" BY <1>3, <1>10
    <2> QED BY <1>8, <1>17, <2>1, StillEnd
  <1>24. SlotsOK(r)'
    <2>1. CASE r # m BY <1>8, <1>10, <1>12, <1>17, <2>1, StillSlots
    <2>2. CASE r = m
      <3>1. q[<<m, 1, 0>>] = NoPkt BY <1>1, <1>3 DEF SlotsOK
      <3> QED BY <1>1, <1>8, <1>10, <2>2, <3>1 DEF SlotsOK, Holds
    <2> QED BY <2>1, <2>2
  <1> QED BY <1>9, <1>17, <1>20, <1>21, <1>22, <1>23, <1>24 DEF LanesOK

LEMMA GrantX ==
  ASSUME SquareInv, NEW m \in Mesh, NEW c \in Class, Grant(m, 0, c), NEW r \in Mesh
  PROVE  EndOK(r)' /\ SlotsOK(r)' /\ LanesOK(r)'
  <1> DEFINE n == Peer(m, 0)
             C == IF c = 0 THEN "C0" ELSE "C1"
             p == q[<<m, 0, c>>]
  <1>1. TypeOK /\ SlotsOK(m) BY DEF SquareInv
  <1>2. n \in Mesh /\ n # m /\ Peer(n, 0) = m BY Square
  <1>3. c = 0 \/ c = 1 BY DEF Class
  <1>4. /\ p # NoPkt /\ cur[<<m, 0>>] = "NONE"
        /\ BeatsIn(rx[FarLane(m, 0, p)]) + p.len + 1 <= RX_BEATS
    <2>1. BeatsIn(rx[FarLane(m, 0, p)]) + p.len + 1 + 0 <= RX_BEATS /\ p # NoPkt /\ cur[<<m, 0>>] = "NONE"
      BY DEF Grant, CanGrant, Fits
    <2>2. p \in Packet BY <1>1, <1>3, <2>1, Lanes DEF TypeOK
    <2>3. p.len \in Nat BY <2>2, PacketDst, SwitchAssumption
    <2> HIDE DEF p
    <2>4. p.len + 1 + 0 = p.len + 1 BY <2>3
    <2>5. FarLane(m, 0, p) \in Lane BY <1>2 DEF FarLane, Lane, LinkNo, Class
    <2>6. rx[FarLane(m, 0, p)] \in Seq(Item) BY <1>1, <2>5 DEF TypeOK
    <2>7. BeatsIn(rx[FarLane(m, 0, p)]) \in Nat BY <2>6, BeatsOfAppend
    <2> QED BY <2>1, <2>3, <2>7
  <1>5. demux[m] = (IF c = 0 THEN "X0" ELSE "X1") /\ p = ltx[m].pkt /\ ltx[m].left = p.len + 1
    BY <1>1, <1>3, <1>4 DEF SlotsOK, Holds
  <1>6. p \in Packet BY <1>5, EndOf
  <1>7. FarLane(m, 0, p) = <<n, 0, c>> /\ (c = 1 => Dst(p) = Peer(n, 1))
    BY <1>3, <1>5, EndOf
  <1>8. UNCHANGED <<ltx, demux, ymux, lmux, incoming>> BY DEF Grant
  <1>9. /\ cur' = [cur EXCEPT ![<<m, 0>>] = C]
        /\ q' = [q EXCEPT ![<<m, 0, c>>] = NoPkt]
        /\ rx' = [rx EXCEPT ![<<n, 0, c>>] = Append(rx[<<n, 0, c>>], Header(p))]
    <2>1. rx' = [rx EXCEPT ![FarLane(m, 0, p)] = Append(@, Header(p))] BY DEF Grant
    <2>2. rx' = [rx EXCEPT ![<<n, 0, c>>] = Append(rx[<<n, 0, c>>], Header(p))] BY <1>7, <2>1
    <2> QED BY <2>2 DEF Grant
  <1> HIDE DEF n, p
  <1>10. /\ \A x \in Mesh : cur'[<<x, 1>>] = cur[<<x, 1>>]
         /\ \A x \in Mesh \ {m} : cur'[<<x, 0>>] = cur[<<x, 0>>]
         /\ cur'[<<m, 0>>] = C
    BY <1>1, <1>9 DEF TypeOK, Link, LinkNo
  <1>11. /\ \A x \in Mesh : q'[<<x, 1, 0>>] = q[<<x, 1, 0>>] /\ q'[<<x, 1, 1>>] = q[<<x, 1, 1>>]
         /\ \A x \in Mesh \ {m} : q'[<<x, 0, 0>>] = q[<<x, 0, 0>>] /\ q'[<<x, 0, 1>>] = q[<<x, 0, 1>>]
         /\ q'[<<m, 0, c>>] = NoPkt
         /\ c = 0 => q'[<<m, 0, 1>>] = q[<<m, 0, 1>>]
         /\ c = 1 => q'[<<m, 0, 0>>] = q[<<m, 0, 0>>]
    BY <1>1, <1>9 DEF TypeOK, Lane, LinkNo, Class
  <1>12. /\ \A x \in Mesh : rx'[<<x, 1, 0>>] = rx[<<x, 1, 0>>] /\ rx'[<<x, 1, 1>>] = rx[<<x, 1, 1>>]
         /\ \A x \in Mesh \ {n} : rx'[<<x, 0, 0>>] = rx[<<x, 0, 0>>] /\ rx'[<<x, 0, 1>>] = rx[<<x, 0, 1>>]
         /\ rx'[<<n, 0, c>>] = Append(rx[<<n, 0, c>>], Header(p))
         /\ c = 0 => rx'[<<n, 0, 1>>] = rx[<<n, 0, 1>>]
         /\ c = 1 => rx'[<<n, 0, 0>>] = rx[<<n, 0, 0>>]
    <2>1. rx \in [Lane -> Seq(Item)] BY <1>1 DEF TypeOK
    <2> QED BY <1>2, <1>9, <2>1 DEF Lane, LinkNo, Class
  <1>13. \A x \in Mesh \ {n} : Beside(x, "C0")' = Beside(x, "C0") /\ Beside(x, "C1")' = Beside(x, "C1")
    <2> TAKE x \in Mesh \ {n}
    <2>1. Peer(x, 0) \in Mesh /\ Peer(x, 0) # m BY Square DEF n
    <2>2. cur'[<<Peer(x, 0), 0>>] = cur[<<Peer(x, 0), 0>>] BY <1>10, <2>1
    <2> QED BY <1>8, <2>2, StillBeside
  <1>14. Beside(n, C) = Idle /\ Beside(n, C)' = ltx[m]
    BY <1>2, <1>4, <1>8, <1>10 DEF Beside
  <1>15. \A d \in {"C0", "C1"} \ {C} : Beside(n, d)' = Beside(n, d)
    BY <1>2, <1>4, <1>8, <1>10 DEF Beside
  <1>16. EndOK(r) /\ SlotsOK(r) /\ Lane0(r) /\ Lane1(r) /\ LaneY(r) /\ rx[<<r, 1, 1>>] = <<>>
    BY DEF SquareInv, LanesOK
  <1>17. Lane0(n) /\ Lane1(n) /\ rx[<<n, 0, 0>>] \in Seq(Item) /\ rx[<<n, 0, 1>>] \in Seq(Item)
    BY <1>1, <1>2, MeshTypes DEF SquareInv, LanesOK
  <1>18. c = 0 => Lane0(n)'
    <2> SUFFICES ASSUME c = 0 PROVE Lane0(n)' OBVIOUS
    <2> DEFINE s == rx[<<n, 0, 0>>]
               g == Beside(n, "C0")'
               f == Beside(n, "C0")
    <2>1. Stream(s, lmux[n], "a", f) /\ (lmux[n] = "a" => Cursor(s, f).pkt = incoming[n])
      BY <1>17 DEF Lane0
    <2>2. g.left = p.len + 1 /\ g.pkt = p /\ f.left = 0 /\ s \in Seq(Item)
      BY <1>5, <1>14, <1>17, IdleParts
    <2>3. rx'[<<n, 0, 0>>] = Append(s, Header(p)) BY <1>12
    <2>4. BeatsIn(s) + p.len + 1 <= RX_BEATS BY <1>4, <1>7
    <2> HIDE DEF s, f, g
    <2>5. /\ Stream(Append(s, Header(p)), lmux[n], "a", g)
          /\ lmux[n] = "a" => Cursor(Append(s, Header(p)), g) = Cursor(s, f)
      BY <1>6, <2>1, <2>2, <2>4, StreamHeader
    <2> QED BY <1>8, <2>1, <2>3, <2>5 DEF Lane0, g
  <1>19. c = 1 => Lane1(n)' /\ (ymux[n] = "b" => Rest(n)' = Rest(n))
    <2> SUFFICES ASSUME c = 1 PROVE Lane1(n)' /\ (ymux[n] = "b" => Rest(n)' = Rest(n)) OBVIOUS
    <2> DEFINE s == rx[<<n, 0, 1>>]
               g == Beside(n, "C1")'
               f == Beside(n, "C1")
               h == Header(p)
    <2>1. Stream(s, ymux[n], "b", f) /\ (\A i \in DOMAIN s : Dst(s[i].pkt) = Peer(n, 1))
      BY <1>17 DEF Lane1
    <2>2. g.left = p.len + 1 /\ g.pkt = p /\ f.left = 0 /\ s \in Seq(Item)
      BY <1>5, <1>14, <1>17, IdleParts
    <2>3. rx'[<<n, 0, 1>>] = Append(s, h) BY <1>12
    <2>4. BeatsIn(s) + p.len + 1 <= RX_BEATS BY <1>4, <1>7
    <2>5. Rest(n) = Cursor(s, f) /\ Rest(n)' = Cursor(Append(s, h), g) BY <2>3 DEF Rest
    <2> HIDE DEF s, f, g
    <2>6. /\ Stream(Append(s, h), ymux[n], "b", g)
          /\ ymux[n] = "b" => Cursor(Append(s, h), g) = Cursor(s, f)
      BY <1>6, <2>1, <2>2, <2>4, StreamHeader
    <2>7. h.pkt = p /\ Dst(p) = Peer(n, 1) BY <1>7 DEF Header
    <2> HIDE DEF h
    <2>8. \A i \in DOMAIN Append(s, h) : Dst(Append(s, h)[i].pkt) = Peer(n, 1) BY <2>1, <2>2, <2>7
    <2> QED BY <1>8, <2>3, <2>5, <2>6, <2>8 DEF Lane1, g
  <1>20. \A x \in Mesh : ymux[x] = "b" => Rest(x)' = Rest(x)
    <2>1. \A x \in Mesh \ {n} : Rest(x)' = Rest(x) BY <1>12, <1>13, StillRest
    <2>2. c = 0 => Rest(n)' = Rest(n) BY <1>12, <1>15, StillRest
    <2> QED BY <1>3, <1>19, <2>1, <2>2
  <1>21. \A x \in Mesh : ymux[x] # "NONE" => YSource(x)' = YSource(x)
    <2> SUFFICES ASSUME NEW x \in Mesh, ymux[x] # "NONE" PROVE YSource(x)' = YSource(x) OBVIOUS
    <2>1. ymux[x] # "a" => ymux[x] = "b" BY <1>1, MeshTypes
    <2> QED BY <1>8, <1>20, <2>1, StillYSource
  <1>22. Below(r)' = Below(r)
    <2>1. Peer(r, 1) \in Mesh BY Square
    <2>2. cur'[<<Peer(r, 1), 1>>] = cur[<<Peer(r, 1), 1>>] BY <1>10, <2>1
    <2>3. SlotsOK(Peer(r, 1)) BY <2>1 DEF SquareInv
    <2>4. cur[<<Peer(r, 1), 1>>] = "C0" => ymux[Peer(r, 1)] # "NONE" BY <2>3 DEF SlotsOK
    <2>5. cur[<<Peer(r, 1), 1>>] = "C0" => YSource(Peer(r, 1))' = YSource(Peer(r, 1))
      BY <1>21, <2>1, <2>4
    <2> QED BY <2>2, <2>5, StillBelow
  <1>23. Lane0(r)'
    <2>1. CASE r # n BY <1>8, <1>12, <1>13, <1>16, <2>1, Still0
    <2>2. CASE r = n /\ c = 1 BY <1>8, <1>12, <1>15, <1>16, <2>2, Still0
    <2> QED BY <1>3, <1>18, <2>1, <2>2
  <1>24. Lane1(r)'
    <2>1. CASE r # n BY <1>8, <1>12, <1>13, <1>16, <2>1, Still1
    <2>2. CASE r = n /\ c = 0 BY <1>8, <1>12, <1>15, <1>16, <2>2, Still1
    <2> QED BY <1>3, <1>19, <2>1, <2>2
  <1>25. LaneY(r)' BY <1>8, <1>12, <1>16, <1>22, StillY
  <1>26. EndOK(r)' BY <1>8, <1>16, StillEnd
  <1>27. SlotsOK(r)'
    <2>1. q[<<r, 1, 0>>] # NoPkt => YSource(r)' = YSource(r)
      <3>1. q[<<r, 1, 0>>] # NoPkt => ymux[r] # "NONE" BY <1>16 DEF SlotsOK
      <3> QED BY <1>21, <3>1
    <2>2. CASE r # m BY <1>8, <1>10, <1>11, <1>16, <2>1, <2>2, StillSlots
    <2>3. CASE r = m
      <3>1. CASE c = 0
        BY <1>1, <1>4, <1>5, <1>8, <1>10, <1>11, <2>1, <2>3, <3>1 DEF SlotsOK, Holds
      <3>2. CASE c = 1
        BY <1>1, <1>4, <1>5, <1>8, <1>10, <1>11, <2>1, <2>3, <3>2 DEF SlotsOK, Holds
      <3> QED BY <1>3, <3>1, <3>2
    <2> QED BY <2>2, <2>3
  <1> QED BY <1>12, <1>16, <1>23, <1>24, <1>25, <1>26, <1>27 DEF LanesOK

LEMMA GrantY ==
  ASSUME SquareInv, NEW m \in Mesh, NEW c \in Class, Grant(m, 1, c), NEW r \in Mesh
  PROVE  EndOK(r)' /\ SlotsOK(r)' /\ LanesOK(r)'
  <1> DEFINE n == Peer(m, 1)
             p == q[<<m, 1, 0>>]
  <1>1. TypeOK /\ SlotsOK(m) BY DEF SquareInv
  <1>2. n \in Mesh /\ n # m /\ Peer(n, 1) = m BY Square
  <1>3. c = 0
    <2>1. q[<<m, 1, c>>] # NoPkt BY DEF Grant, CanGrant, Fits
    <2> QED BY <1>1, <2>1 DEF SlotsOK, Class
  <1>4. /\ p # NoPkt /\ cur[<<m, 1>>] = "NONE"
        /\ BeatsIn(rx[FarLane(m, 1, p)]) + p.len + 1 <= RX_BEATS
    <2>1. BeatsIn(rx[FarLane(m, 1, p)]) + p.len + 1 + 0 <= RX_BEATS /\ p # NoPkt /\ cur[<<m, 1>>] = "NONE"
      BY <1>3 DEF Grant, CanGrant, Fits
    <2>2. p \in Packet BY <1>1, <2>1, Lanes DEF TypeOK
    <2>3. p.len \in Nat BY <2>2, PacketDst, SwitchAssumption
    <2> HIDE DEF p
    <2>4. p.len + 1 + 0 = p.len + 1 BY <2>3
    <2>5. FarLane(m, 1, p) \in Lane BY <1>2 DEF FarLane, Lane, LinkNo, Class
    <2>6. rx[FarLane(m, 1, p)] \in Seq(Item) BY <1>1, <2>5 DEF TypeOK
    <2>7. BeatsIn(rx[FarLane(m, 1, p)]) \in Nat BY <2>6, BeatsOfAppend
    <2> QED BY <2>1, <2>3, <2>7
  <1>5. ymux[m] # "NONE" /\ p = YSource(m).pkt /\ YSource(m).left = p.len + 1
    BY <1>1, <1>4 DEF SlotsOK, Holds
  <1>6. p \in Packet /\ FarLane(m, 1, p) = <<n, 1, 0>> BY <1>5, YSourceOf
  <1>7. UNCHANGED <<ltx, demux, ymux, lmux, incoming>> BY DEF Grant
  <1>8. /\ cur' = [cur EXCEPT ![<<m, 1>>] = "C0"]
        /\ q' = [q EXCEPT ![<<m, 1, 0>>] = NoPkt]
        /\ rx' = [rx EXCEPT ![<<n, 1, 0>>] = Append(rx[<<n, 1, 0>>], Header(p))]
    <2>1. rx' = [rx EXCEPT ![FarLane(m, 1, p)] = Append(@, Header(p))] BY <1>3 DEF Grant
    <2>2. rx' = [rx EXCEPT ![<<n, 1, 0>>] = Append(rx[<<n, 1, 0>>], Header(p))] BY <1>6, <2>1
    <2> QED BY <1>3, <2>2 DEF Grant
  <1> HIDE DEF n, p
  <1>9. /\ \A x \in Mesh : cur'[<<x, 0>>] = cur[<<x, 0>>]
        /\ \A x \in Mesh \ {m} : cur'[<<x, 1>>] = cur[<<x, 1>>]
        /\ cur'[<<m, 1>>] = "C0"
    BY <1>1, <1>8 DEF TypeOK, Link, LinkNo
  <1>10. /\ \A x \in Mesh : /\ q'[<<x, 0, 0>>] = q[<<x, 0, 0>>] /\ q'[<<x, 0, 1>>] = q[<<x, 0, 1>>]
                            /\ q'[<<x, 1, 1>>] = q[<<x, 1, 1>>]
         /\ \A x \in Mesh \ {m} : q'[<<x, 1, 0>>] = q[<<x, 1, 0>>]
         /\ q'[<<m, 1, 0>>] = NoPkt
    BY <1>1, <1>8 DEF TypeOK, Lane, LinkNo, Class
  <1>11. /\ \A x \in Mesh : /\ rx'[<<x, 0, 0>>] = rx[<<x, 0, 0>>] /\ rx'[<<x, 0, 1>>] = rx[<<x, 0, 1>>]
                            /\ rx'[<<x, 1, 1>>] = rx[<<x, 1, 1>>]
         /\ \A x \in Mesh \ {n} : rx'[<<x, 1, 0>>] = rx[<<x, 1, 0>>]
         /\ rx'[<<n, 1, 0>>] = Append(rx[<<n, 1, 0>>], Header(p))
    <2>1. rx \in [Lane -> Seq(Item)] BY <1>1 DEF TypeOK
    <2> QED BY <1>2, <1>8, <2>1 DEF Lane, LinkNo, Class
  <1>12. \A x \in Mesh : Beside(x, "C0")' = Beside(x, "C0") /\ Beside(x, "C1")' = Beside(x, "C1")
    <2> TAKE x \in Mesh
    <2>1. Peer(x, 0) \in Mesh BY Square
    <2>2. cur'[<<Peer(x, 0), 0>>] = cur[<<Peer(x, 0), 0>>] BY <1>9, <2>1
    <2> QED BY <1>7, <2>2, StillBeside
  <1>13. \A x \in Mesh : Rest(x)' = Rest(x) BY <1>11, <1>12, StillRest
  <1>14. \A x \in Mesh : YSource(x)' = YSource(x) BY <1>7, <1>13, StillYSource
  <1>15. \A x \in Mesh \ {n} : Below(x)' = Below(x)
    <2> TAKE x \in Mesh \ {n}
    <2>1. Peer(x, 1) \in Mesh \ {m} BY Square DEF n
    <2>2. cur'[<<Peer(x, 1), 1>>] = cur[<<Peer(x, 1), 1>>] /\ YSource(Peer(x, 1))' = YSource(Peer(x, 1))
      BY <1>9, <1>14, <2>1
    <2> QED BY <2>2, StillBelow
  <1>16. Below(n) = Idle /\ Below(n)' = YSource(m)
    <2>1. YSource(m)' = YSource(m) BY <1>14
    <2> QED BY <1>2, <1>4, <1>9, <2>1 DEF Below
  <1>17. EndOK(r) /\ SlotsOK(r) /\ Lane0(r) /\ Lane1(r) /\ LaneY(r) /\ rx[<<r, 1, 1>>] = <<>>
    BY DEF SquareInv, LanesOK
  <1>18. LaneY(n) /\ rx[<<n, 1, 0>>] \in Seq(Item) BY <1>1, <1>2, MeshTypes DEF SquareInv, LanesOK
  <1>19. LaneY(n)'
    <2> DEFINE s == rx[<<n, 1, 0>>]
               g == Below(n)'
               f == Below(n)
    <2>1. Stream(s, lmux[n], "b", f) /\ (lmux[n] = "b" => Cursor(s, f).pkt = incoming[n])
      BY <1>18 DEF LaneY
    <2>2. g.left = p.len + 1 /\ g.pkt = p /\ f.left = 0 /\ s \in Seq(Item)
      BY <1>5, <1>16, <1>18, IdleParts
    <2>3. rx'[<<n, 1, 0>>] = Append(s, Header(p)) BY <1>11
    <2>4. BeatsIn(s) + p.len + 1 <= RX_BEATS BY <1>4, <1>6
    <2> HIDE DEF s, f, g
    <2>5. /\ Stream(Append(s, Header(p)), lmux[n], "b", g)
          /\ lmux[n] = "b" => Cursor(Append(s, Header(p)), g) = Cursor(s, f)
      BY <1>6, <2>1, <2>2, <2>4, StreamHeader
    <2> QED BY <1>7, <2>1, <2>3, <2>5 DEF LaneY, g
  <1>20. Lane0(r)' BY <1>7, <1>11, <1>12, <1>17, Still0
  <1>21. Lane1(r)' BY <1>7, <1>11, <1>12, <1>17, Still1
  <1>22. LaneY(r)'
    <2>1. CASE r # n BY <1>7, <1>11, <1>15, <1>17, <2>1, StillY
    <2> QED BY <1>19, <2>1
  <1>23. EndOK(r)' BY <1>7, <1>17, StillEnd
  <1>24. SlotsOK(r)'
    <2>1. CASE r # m BY <1>7, <1>9, <1>10, <1>14, <1>17, <2>1, StillSlots
    <2>2. CASE r = m
      BY <1>1, <1>5, <1>7, <1>9, <1>10, <2>2 DEF SlotsOK, Holds
    <2> QED BY <2>1, <2>2
  <1> QED BY <1>11, <1>17, <1>20, <1>21, <1>22, <1>23, <1>24 DEF LanesOK

(* A packet comes in to the endpoint: nothing else depends on it.          *)
LEMMA TakeStill ==
  ASSUME SquareInv, NEW r \in Mesh, UNCHANGED <<ltx, demux, ymux, q, cur>>,
         \A x \in Mesh : rx'[<<x, 0, 1>>] = rx[<<x, 0, 1>>] /\ rx'[<<x, 1, 1>>] = rx[<<x, 1, 1>>]
  PROVE  /\ EndOK(r)' /\ SlotsOK(r)' /\ Lane1(r)' /\ rx'[<<r, 1, 1>>] = <<>>
         /\ Beside(r, "C0")' = Beside(r, "C0") /\ Below(r)' = Below(r)
         /\ Lane0(r) /\ LaneY(r)
         /\ Beside(r, "C0").left \in Nat /\ Below(r).left \in Nat
  <1>1. EndOK(r) /\ SlotsOK(r) /\ Lane0(r) /\ Lane1(r) /\ LaneY(r) /\ rx[<<r, 1, 1>>] = <<>>
    BY DEF SquareInv, LanesOK
  <1>2. \A x \in Mesh : Beside(x, "C0")' = Beside(x, "C0") /\ Beside(x, "C1")' = Beside(x, "C1")
    BY StillBeside
  <1>3. \A x \in Mesh : Rest(x)' = Rest(x) BY <1>2, StillRest
  <1>4. \A x \in Mesh : YSource(x)' = YSource(x) BY <1>3, StillYSource
  <1>5. Below(r)' = Below(r)
    <2>1. Peer(r, 1) \in Mesh BY Square
    <2> QED BY <1>4, <2>1, StillBelow
  <1>6. EndOK(r)' BY <1>1, StillEnd
  <1>7. SlotsOK(r)' BY <1>1, <1>4, StillSlots
  <1>8. Lane1(r)' BY <1>1, <1>2, Still1
  <1>9. Beside(r, "C0").left \in Nat /\ Below(r).left \in Nat BY BesideOf, BelowOf
  <1> QED BY <1>1, <1>2, <1>5, <1>6, <1>7, <1>8, <1>9

(* The mutual exclusion of the two ports of the ingress merge.             *)
LEMMA TakeKeeps ==
  ASSUME SquareInv, NEW m \in Mesh, NEW s \in {"a", "b"}, TakeHdr(m, s) \/ TakeBeat(m, s), NEW r \in Mesh
  PROVE  EndOK(r)' /\ SlotsOK(r)' /\ LanesOK(r)'
  <1> DEFINE k == Ingress(m, s)
             z == rx[k]
             f == IF s = "a" THEN Beside(m, "C0") ELSE Below(m)
  <1>1. TypeOK BY DEF SquareInv
  <1>2. UNCHANGED <<ltx, demux, ymux, q, cur>> BY DEF TakeHdr, TakeBeat
  <1>3. rx' = [rx EXCEPT ![k] = Tail(z)] /\ z # <<>> BY DEF TakeHdr, TakeBeat, HdrAt, BeatAt
  <1>4. /\ \A x \in Mesh : rx'[<<x, 0, 1>>] = rx[<<x, 0, 1>>] /\ rx'[<<x, 1, 1>>] = rx[<<x, 1, 1>>]
        /\ \A x \in Mesh \ {m} : rx'[<<x, 0, 0>>] = rx[<<x, 0, 0>>] /\ rx'[<<x, 1, 0>>] = rx[<<x, 1, 0>>]
        /\ s = "a" => rx'[<<m, 0, 0>>] = Tail(z) /\ rx'[<<m, 1, 0>>] = rx[<<m, 1, 0>>]
        /\ s = "b" => rx'[<<m, 1, 0>>] = Tail(z) /\ rx'[<<m, 0, 0>>] = rx[<<m, 0, 0>>]
    <2>1. rx \in [Lane -> Seq(Item)] BY <1>1 DEF TypeOK
    <2>2. CASE s = "a"
      <3>1. rx' = [rx EXCEPT ![<<m, 0, 0>>] = Tail(z)] BY <1>3, <2>2 DEF Ingress
      <3> QED BY <2>1, <2>2, <3>1 DEF Lane, LinkNo, Class
    <2>3. CASE s = "b"
      <3>1. rx' = [rx EXCEPT ![<<m, 1, 0>>] = Tail(z)] BY <1>3, <2>3 DEF Ingress
      <3> QED BY <2>1, <2>3, <3>1 DEF Lane, LinkNo, Class
    <2> QED BY <2>2, <2>3
  <1>5. /\ \A x \in Mesh \ {m} : lmux'[x] = lmux[x] /\ incoming'[x] = incoming[x]
        /\ lmux[m] \in {"NONE", s} /\ lmux'[m] \in {"NONE", s}
    BY <1>1 DEF TakeHdr, TakeBeat, IdleMux, TypeOK
  <1>6. z \in Seq(Item) /\ Head(z) = z[1]
    <2>1. z \in Seq(Item) BY <1>1, MeshTypes DEF Ingress
    <2> HIDE DEF z
    <2> QED BY <1>3, <2>1
  <1>7. /\ Stream(z, lmux[m], s, f) /\ f.left \in Nat
        /\ lmux[m] = s => Cursor(z, f).pkt = incoming[m]
    <2>1. Lane0(m) /\ LaneY(m) /\ Beside(m, "C0").left \in Nat /\ Below(m).left \in Nat
      BY <1>2, <1>4, TakeStill
    <2>2. CASE s = "a" BY <2>1, <2>2 DEF Lane0, Ingress
    <2>3. CASE s = "b" BY <2>1, <2>3 DEF LaneY, Ingress
    <2> QED BY <2>2, <2>3
  <1> HIDE DEF z, f, k
  <1>8. Stream(Tail(z), lmux'[m], s, f) /\ (lmux'[m] = s => Cursor(Tail(z), f).pkt = incoming'[m])
    <2>1. CASE TakeHdr(m, s)
      <3>1. lmux[m] # s /\ lmux'[m] = s /\ incoming'[m] = z[1].pkt
        BY <1>1, <1>6, <2>1 DEF TakeHdr, IdleMux, TypeOK, z, k
      <3>2. Stream(Tail(z), s, s, f) /\ Cursor(Tail(z), f).pkt = z[1].pkt
        BY <1>3, <1>6, <1>7, <3>1, StreamTakeHdr
      <3> QED BY <3>1, <3>2
    <2>2. CASE TakeBeat(m, s)
      <3>1. lmux[m] = s BY <2>2 DEF TakeBeat
      <3>2. /\ z[1].left = 0 => lmux'[m] = "NONE"
            /\ z[1].left # 0 => lmux'[m] = s /\ incoming'[m] = incoming[m]
        BY <1>1, <1>6, <2>2 DEF TakeBeat, TypeOK, z, k
      <3>3. Stream(z, s, s, f) BY <1>7, <3>1
      <3>4. /\ z[1].left = 0 => \A none : none # s => Stream(Tail(z), none, s, f)
            /\ z[1].left # 0 => /\ Stream(Tail(z), s, s, f)
                                /\ Cursor(Tail(z), f).pkt = z[1].pkt
        BY <1>3, <1>6, <1>7, <3>3, StreamTakeBeat
      <3>5. Cursor(z, f).pkt = z[1].pkt BY <1>3 DEF Cursor
      <3>6. "NONE" # s OBVIOUS
      <3>7. CASE z[1].left = 0 BY <3>2, <3>4, <3>6, <3>7
      <3>8. CASE z[1].left # 0 BY <1>7, <3>1, <3>2, <3>4, <3>5, <3>8
      <3> QED BY <3>7, <3>8
    <2> QED BY <2>1, <2>2
  <1>9. /\ EndOK(r)' /\ SlotsOK(r)' /\ Lane1(r)' /\ rx'[<<r, 1, 1>>] = <<>>
        /\ Beside(r, "C0")' = Beside(r, "C0") /\ Below(r)' = Below(r)
        /\ Lane0(r) /\ LaneY(r)
    BY <1>2, <1>4, TakeStill
  <1>10. Lane0(r)'
    <2>1. CASE r # m BY <1>4, <1>5, <1>9, <2>1, Still0
    <2>2. CASE r = m /\ s = "b"
      <3>1. lmux[r] # "a" /\ lmux'[r] # "a" BY <1>5, <2>2
      <3> QED BY <1>4, <1>9, <2>2, <3>1, Still0
    <2>3. CASE r = m /\ s = "a" BY <1>4, <1>8, <1>9, <2>3 DEF Lane0, f
    <2> QED BY <2>1, <2>2, <2>3
  <1>11. LaneY(r)'
    <2>1. CASE r # m BY <1>4, <1>5, <1>9, <2>1, StillY
    <2>2. CASE r = m /\ s = "a"
      <3>1. lmux[r] # "b" /\ lmux'[r] # "b" BY <1>5, <2>2
      <3> QED BY <1>4, <1>9, <2>2, <3>1, StillY
    <2>3. CASE r = m /\ s = "b" BY <1>4, <1>8, <1>9, <2>3 DEF LaneY, f
    <2> QED BY <2>1, <2>2, <2>3
  <1> QED BY <1>9, <1>10, <1>11 DEF LanesOK

-----------------------------------------------------------------------------
(***************************************************************************)
(* Types, and queues within their depth.                                   *)
(***************************************************************************)
LEMMA RxKept ==
  ASSUME TypeOK, NEW k \in Lane, NEW s \in Seq(Item), BeatsIn(s) <= RX_BEATS,
         rx' = [rx EXCEPT ![k] = s]
  PROVE  rx' \in [Lane -> Seq(Item)] /\ \A j \in Lane : BeatsIn(rx'[j]) <= RX_BEATS
  <1>1. rx \in [Lane -> Seq(Item)] /\ \A j \in Lane : BeatsIn(rx[j]) <= RX_BEATS BY DEF TypeOK
  <1>2. rx' \in [Lane -> Seq(Item)] BY <1>1
  <1>3. \A j \in Lane : BeatsIn(rx'[j]) <= RX_BEATS
    <2> TAKE j \in Lane
    <2>1. rx'[j] = IF j = k THEN s ELSE rx[j] BY <1>1
    <2> QED BY <1>1, <2>1
  <1> QED BY <1>2, <1>3

LEMMA TailKept ==
  ASSUME TypeOK, NEW k \in Lane, rx[k] # <<>>
  PROVE  /\ Tail(rx[k]) \in Seq(Item) /\ BeatsIn(Tail(rx[k])) <= RX_BEATS
         /\ Head(rx[k]) \in Item /\ Head(rx[k]).pkt \in Packet
  <1> DEFINE s == rx[k]
  <1>1. s \in Seq(Item) /\ BeatsIn(s) <= RX_BEATS BY DEF TypeOK
  <1> HIDE DEF s
  <1>2. s # <<>> BY DEF s
  <1>3. Tail(s) \in Seq(Item) /\ Head(s) = s[1] /\ s[1] \in Item BY <1>1, <1>2, TailParts
  <1>4. /\ BeatsIn(Tail(s)) \in Nat /\ BeatsIn(s) \in Nat
        /\ s[1].hdr => BeatsIn(Tail(s)) = BeatsIn(s)
        /\ ~s[1].hdr => BeatsIn(Tail(s)) + 1 = BeatsIn(s)
    BY <1>1, <1>2, BeatsOfTail, BeatsOfAppend
  <1>5. BeatsIn(Tail(s)) <= RX_BEATS
    <2>1. CASE s[1].hdr BY <1>1, <1>4, <2>1
    <2>2. CASE ~s[1].hdr BY <1>1, <1>4, <2>2, SwitchAssumption
    <2> QED BY <2>1, <2>2
  <1>6. s[1].pkt \in Packet BY <1>3 DEF Item
  <1> QED BY <1>3, <1>5, <1>6 DEF s

LEMMA OfferTypes ==
  ASSUME TypeOK, NEW m \in Mesh, Offer(m)
  PROVE  TypeOK'
  <1>1. PICK f \in Flow : LET n == offered[f] + 1
                          IN  /\ f[1] = m /\ n <= MaxPkts
                              /\ ltx' = [ltx EXCEPT ![m] =
                                           [pkt |-> [flow |-> f, n |-> n, len |-> Lens[n]],
                                            left |-> Lens[n] + 1]]
                              /\ offered' = [offered EXCEPT ![f] = n]
    BY DEF Offer
  <1> DEFINE n == offered[f] + 1
             p == [flow |-> f, n |-> n, len |-> Lens[n]]
  <1>2. n \in 1 .. MaxPkts
    <2>1. offered[f] \in 0 .. MaxPkts BY DEF TypeOK
    <2>2. MaxPkts \in Nat BY SwitchAssumption DEF MaxPkts
    <2> QED BY <1>1, <2>1, <2>2
  <1>3. Lens[n] \in 0 .. MAX_BEATS - 1
    <2> HIDE DEF n
    <2> QED BY <1>2, SwitchAssumption, SMTT(40) DEF MaxPkts
  <1>4. p \in Packet BY <1>2, <1>3 DEF Packet
  <1>5. ltx' = [ltx EXCEPT ![m] = [pkt |-> p, left |-> Lens[n] + 1]] /\ offered' = [offered EXCEPT ![f] = n]
    BY <1>1
  <1> HIDE DEF n, p
  <1>6. ltx' \in [Mesh -> [pkt : Packet \cup {NoPkt}, left : 0 .. MAX_BEATS]]
    <2>1. Lens[n] + 1 \in 0 .. MAX_BEATS BY <1>3, SwitchAssumption, SMTT(40)
    <2>2. [pkt |-> p, left |-> Lens[n] + 1] \in [pkt : Packet \cup {NoPkt}, left : 0 .. MAX_BEATS]
      BY <1>4, <2>1
    <2> QED BY <1>5, <2>2 DEF TypeOK
  <1>7. offered' \in [Flow -> 0 .. MaxPkts]
    <2>1. n \in 0 .. MaxPkts BY <1>2
    <2> QED BY <1>5, <2>1 DEF TypeOK
  <1>8. UNCHANGED <<demux, ymux, yrr, lmux, lrr, q, cur, rx, incoming, got>> BY DEF Offer
  <1> QED BY <1>6, <1>7, <1>8 DEF TypeOK

LEMMA SendHdrTypes ==
  ASSUME TypeOK, NEW m \in Mesh, SendHdr(m)
  PROVE  TypeOK'
  <1> DEFINE out == Egress(m, Dst(ltx[m].pkt))
  <1>1. out \in {"X0", "X1", "Y"} BY DEF Egress
  <1>2. demux' \in [Mesh -> {"NONE", "X0", "X1", "Y"}] BY <1>1 DEF SendHdr, TypeOK
  <1>3. ymux' \in [Mesh -> {"NONE", "a", "b"}] BY DEF SendHdr, TypeOK
  <1>4. yrr' \in [Mesh -> BOOLEAN]
    <2>1. yrr' = [yrr EXCEPT ![m] = TRUE] \/ yrr' = yrr BY DEF SendHdr
    <2>2. yrr \in [Mesh -> BOOLEAN] BY DEF TypeOK
    <2> QED BY <2>1, <2>2
  <1>5. q' \in [Lane -> Packet \cup {NoPkt}]
    <2>1. ltx[m].pkt \in Packet \cup {NoPkt} BY MeshTypes
    <2> QED BY <2>1 DEF SendHdr, TypeOK
  <1>6. UNCHANGED <<ltx, lmux, lrr, cur, rx, offered, incoming, got>> BY DEF SendHdr
  <1> QED BY <1>2, <1>3, <1>4, <1>5, <1>6 DEF TypeOK

LEMMA ForwardHdrTypes ==
  ASSUME TypeOK, NEW m \in Mesh, ForwardHdr(m)
  PROVE  TypeOK'
  <1> DEFINE k == <<m, 0, 1>>
  <1>1. k \in Lane BY Lanes
  <1>2. rx[k] # <<>> /\ rx' = [rx EXCEPT ![k] = Tail(rx[k])] BY DEF ForwardHdr, HdrAt
  <1>3. /\ Tail(rx[k]) \in Seq(Item) /\ BeatsIn(Tail(rx[k])) <= RX_BEATS
        /\ Head(rx[k]).pkt \in Packet
    BY <1>1, <1>2, TailKept
  <1>4. rx' \in [Lane -> Seq(Item)] /\ \A j \in Lane : BeatsIn(rx'[j]) <= RX_BEATS
    BY <1>1, <1>2, <1>3, RxKept
  <1>5. ymux' \in [Mesh -> {"NONE", "a", "b"}] BY DEF ForwardHdr, TypeOK
  <1>6. yrr' \in [Mesh -> BOOLEAN]
    <2>1. yrr' = [yrr EXCEPT ![m] = FALSE] BY DEF ForwardHdr
    <2>2. yrr \in [Mesh -> BOOLEAN] BY DEF TypeOK
    <2> QED BY <2>1, <2>2
  <1>7. q' \in [Lane -> Packet \cup {NoPkt}] BY <1>3 DEF ForwardHdr, TypeOK
  <1>8. UNCHANGED <<ltx, demux, lmux, lrr, cur, offered, incoming, got>> BY DEF ForwardHdr
  <1> QED BY <1>4, <1>5, <1>6, <1>7, <1>8 DEF TypeOK

LEMMA GrantTypes ==
  ASSUME TypeOK, NEW m \in Mesh, NEW l \in LinkNo, NEW c \in Class, Grant(m, l, c)
  PROVE  TypeOK'
  <1> DEFINE p == q[<<m, l, c>>]
             k == FarLane(m, l, p)
  <1>1. <<m, l, c>> \in Lane /\ <<m, l>> \in Link /\ k \in Lane
    <2>1. Peer(m, l) \in Mesh BY Square DEF LinkNo
    <2> QED BY <2>1 DEF Lane, Link, FarLane, Class
  <1>2. p # NoPkt /\ BeatsIn(rx[k]) + p.len + 1 + 0 <= RX_BEATS BY DEF Grant, CanGrant, Fits
  <1>3. p \in Packet BY <1>1, <1>2 DEF TypeOK
  <1>4. rx' = [rx EXCEPT ![k] = Append(rx[k], Header(p))] BY DEF Grant
  <1>5. rx[k] \in Seq(Item) BY <1>1 DEF TypeOK
  <1>6. cur' \in [Link -> {"NONE", "C0", "C1"}] BY <1>1 DEF Grant, TypeOK
  <1>7. q' \in [Lane -> Packet \cup {NoPkt}] BY <1>1 DEF Grant, TypeOK
  <1> HIDE DEF p, k
  <1>8. Header(p) \in Item /\ Header(p).hdr BY <1>3, SwitchAssumption, ItemTypes
  <1>9. Append(rx[k], Header(p)) \in Seq(Item) BY <1>5, <1>8
  <1>10. BeatsIn(Append(rx[k], Header(p))) <= RX_BEATS
    <2>1. BeatsIn(Append(rx[k], Header(p))) = BeatsIn(rx[k]) BY <1>5, <1>8, BeatsOfAppend
    <2>2. BeatsIn(rx[k]) <= RX_BEATS BY <1>1 DEF TypeOK
    <2> QED BY <2>1, <2>2
  <1>11. rx' \in [Lane -> Seq(Item)] /\ \A j \in Lane : BeatsIn(rx'[j]) <= RX_BEATS
    BY <1>1, <1>4, <1>9, <1>10, RxKept
  <1>12. UNCHANGED <<ltx, demux, ymux, yrr, lmux, lrr, offered, incoming, got>> BY DEF Grant
  <1> QED BY <1>6, <1>7, <1>11, <1>12 DEF TypeOK

LEMMA TakeHdrTypes ==
  ASSUME TypeOK, NEW m \in Mesh, NEW s \in {"a", "b"}, TakeHdr(m, s)
  PROVE  TypeOK'
  <1> DEFINE k == Ingress(m, s)
  <1>1. k \in Lane BY Lanes DEF Ingress
  <1>2. rx[k] # <<>> /\ rx' = [rx EXCEPT ![k] = Tail(rx[k])] BY DEF TakeHdr, HdrAt
  <1>3. /\ Tail(rx[k]) \in Seq(Item) /\ BeatsIn(Tail(rx[k])) <= RX_BEATS
        /\ Head(rx[k]).pkt \in Packet
    BY <1>1, <1>2, TailKept
  <1>4. rx' \in [Lane -> Seq(Item)] /\ \A j \in Lane : BeatsIn(rx'[j]) <= RX_BEATS
    BY <1>1, <1>2, <1>3, RxKept
  <1>5. lmux' \in [Mesh -> {"NONE", "a", "b"}] BY DEF TakeHdr, TypeOK
  <1>6. lrr' \in [Mesh -> BOOLEAN]
    <2>1. lrr' = [lrr EXCEPT ![m] = (s = "a")] BY DEF TakeHdr
    <2>2. lrr \in [Mesh -> BOOLEAN] BY DEF TypeOK
    <2> QED BY <2>1, <2>2
  <1>7. incoming' \in [Mesh -> Packet \cup {NoPkt}] BY <1>3 DEF TakeHdr, TypeOK
  <1>8. UNCHANGED <<ltx, demux, ymux, yrr, q, cur, offered, got>> BY DEF TakeHdr
  <1> QED BY <1>4, <1>5, <1>6, <1>7, <1>8 DEF TypeOK

LEMMA TakeBeatTypes ==
  ASSUME TypeOK, NEW m \in Mesh, NEW s \in {"a", "b"}, TakeBeat(m, s)
  PROVE  TypeOK'
  <1> DEFINE k == Ingress(m, s)
             b == Head(rx[k])
  <1>1. k \in Lane BY Lanes DEF Ingress
  <1>2. rx[k] # <<>> /\ rx' = [rx EXCEPT ![k] = Tail(rx[k])] BY DEF TakeBeat, BeatAt
  <1>3. /\ Tail(rx[k]) \in Seq(Item) /\ BeatsIn(Tail(rx[k])) <= RX_BEATS
        /\ b.pkt \in Packet
    BY <1>1, <1>2, TailKept
  <1>4. rx' \in [Lane -> Seq(Item)] /\ \A j \in Lane : BeatsIn(rx'[j]) <= RX_BEATS
    BY <1>1, <1>2, <1>3, RxKept
  <1>5. lmux' \in [Mesh -> {"NONE", "a", "b"}] BY DEF TakeBeat, TypeOK
  <1>6. incoming' \in [Mesh -> Packet \cup {NoPkt}] BY DEF TakeBeat, TypeOK
  <1>7. got' \in [Flow -> Nat]
    <2>1. got \in [Flow -> Nat] BY DEF TypeOK
    <2>2. b.pkt.flow \in Flow BY <1>3 DEF Packet
    <2>3. got' = got \/ got' = [got EXCEPT ![b.pkt.flow] = got[b.pkt.flow] + 1] BY DEF TakeBeat
    <2> HIDE DEF b
    <2>4. got[b.pkt.flow] + 1 \in Nat BY <2>1, <2>2
    <2> QED BY <2>1, <2>3, <2>4
  <1>8. UNCHANGED <<ltx, demux, ymux, yrr, lrr, q, cur, offered>> BY DEF TakeBeat
  <1> QED BY <1>4, <1>5, <1>6, <1>7, <1>8 DEF TypeOK

LEMMA SendBeatRoom ==
  ASSUME SquareInv, NEW m \in Mesh, SendBeat(m)
  PROVE  LET k == FarLane(m, IF demux[m] = "Y" THEN 1 ELSE 0, ltx[m].pkt)
         IN  k \in Lane /\ BeatsIn(rx[k]) + ltx[m].left <= RX_BEATS
  <1>1. demux[m] \in {"X0", "X1", "Y"} BY SendBeatParts
  <1>2. CASE demux[m] \in {"X0", "X1"}
    <2> DEFINE n == Peer(m, 0)
    <2>1. n \in Mesh /\ Peer(n, 0) = m BY Square
    <2>2. Lane0(n) /\ Lane1(n) BY <2>1 DEF SquareInv, LanesOK
    <2>3. CASE demux[m] = "X0"
      <3>1. FarLane(m, 0, ltx[m].pkt) = <<n, 0, 0>> BY <2>3, EndOf
      <3>2. Beside(n, "C0") = ltx[m] BY <2>1, <2>3 DEF Beside, SendBeat, LocalSends
      <3>3. BeatsIn(rx[<<n, 0, 0>>]) + ltx[m].left <= RX_BEATS BY <2>2, <3>2 DEF Lane0, Stream
      <3> QED BY <2>1, <2>3, <3>1, <3>3, Lanes
    <2>4. CASE demux[m] = "X1"
      <3>1. FarLane(m, 0, ltx[m].pkt) = <<n, 0, 1>> BY <2>4, EndOf
      <3>2. Beside(n, "C1") = ltx[m] BY <2>1, <2>4 DEF Beside, SendBeat, LocalSends
      <3>3. BeatsIn(rx[<<n, 0, 1>>]) + ltx[m].left <= RX_BEATS BY <2>2, <3>2 DEF Lane1, Stream
      <3> QED BY <2>1, <2>4, <3>1, <3>3, Lanes
    <2> QED BY <1>2, <2>3, <2>4
  <1>3. CASE demux[m] = "Y"
    <2> DEFINE n == Peer(m, 1)
    <2>1. n \in Mesh /\ Peer(n, 1) = m BY Square
    <2>2. LaneY(n) BY <2>1 DEF SquareInv, LanesOK
    <2>3. FarLane(m, 1, ltx[m].pkt) = <<n, 1, 0>>
      <3>1. Dst(ltx[m].pkt) = Peer(m, 1) BY <1>3, EndOf
      <3> QED BY <3>1, RouteY
    <2>4. Below(n) = ltx[m] BY <1>3, <2>1 DEF Below, YSource, SendBeat, LocalSends
    <2>5. BeatsIn(rx[<<n, 1, 0>>]) + ltx[m].left <= RX_BEATS BY <2>2, <2>4 DEF LaneY, Stream
    <2> QED BY <1>3, <2>1, <2>3, <2>5, Lanes
  <1> QED BY <1>1, <1>2, <1>3

LEMMA SendBeatTypes ==
  ASSUME SquareInv, NEW m \in Mesh, SendBeat(m)
  PROVE  TypeOK'
  <1> DEFINE l == IF demux[m] = "Y" THEN 1 ELSE 0
             k == FarLane(m, l, ltx[m].pkt)
             b == Beat(ltx[m].pkt, ltx[m].left - 1)
  <1>1. TypeOK BY DEF SquareInv
  <1>2. k \in Lane /\ BeatsIn(rx[k]) + ltx[m].left <= RX_BEATS BY SendBeatRoom
  <1>3. /\ ltx[m].pkt \in Packet /\ ltx[m].left \in Nat \ {0}
        /\ b \in Item /\ ~b.hdr
    BY SendBeatParts
  <1>4. rx' = [rx EXCEPT ![k] = Append(rx[k], b)] BY DEF SendBeat
  <1>5. rx[k] \in Seq(Item) BY <1>1, <1>2 DEF TypeOK
  <1>6. <<m, l>> \in Link BY DEF Link, LinkNo
  <1>7. cur' \in [Link -> {"NONE", "C0", "C1"}]
    <2>1. cur' = cur \/ cur' = [cur EXCEPT ![<<m, l>>] = "NONE"] BY DEF SendBeat
    <2> HIDE DEF l
    <2> QED BY <1>1, <1>6, <2>1 DEF TypeOK
  <1>8. ltx' \in [Mesh -> [pkt : Packet \cup {NoPkt}, left : 0 .. MAX_BEATS]]
    <2>1. ltx' = [ltx EXCEPT ![m] = IF ltx[m].left = 1 THEN Idle
                                    ELSE [pkt |-> ltx[m].pkt, left |-> ltx[m].left - 1]]
      BY DEF SendBeat
    <2>2. ltx[m].left \in 0 .. MAX_BEATS BY <1>1, MeshTypes
    <2>3. ltx[m].left - 1 \in 0 .. MAX_BEATS BY <1>3, <2>2, SwitchAssumption, SMTT(40)
    <2>4. 0 \in 0 .. MAX_BEATS BY SwitchAssumption
    <2>5. Idle \in [pkt : Packet \cup {NoPkt}, left : 0 .. MAX_BEATS] BY <2>4, IdleParts
    <2>6. [pkt |-> ltx[m].pkt, left |-> ltx[m].left - 1] \in [pkt : Packet \cup {NoPkt}, left : 0 .. MAX_BEATS]
      BY <1>3, <2>3
    <2>7. ltx \in [Mesh -> [pkt : Packet \cup {NoPkt}, left : 0 .. MAX_BEATS]] BY <1>1 DEF TypeOK
    <2> QED BY <2>1, <2>5, <2>6, <2>7
  <1>9. demux' \in [Mesh -> {"NONE", "X0", "X1", "Y"}] BY <1>1 DEF SendBeat, TypeOK
  <1>10. ymux' \in [Mesh -> {"NONE", "a", "b"}] BY <1>1 DEF SendBeat, TypeOK
  <1> HIDE DEF b, k
  <1>11. Append(rx[k], b) \in Seq(Item) BY <1>3, <1>5
  <1>12. BeatsIn(Append(rx[k], b)) <= RX_BEATS
    <2>1. BeatsIn(Append(rx[k], b)) = BeatsIn(rx[k]) + 1 /\ BeatsIn(rx[k]) \in Nat
      BY <1>3, <1>5, BeatsOfAppend
    <2> QED BY <1>2, <1>3, <2>1, SwitchAssumption, SMTT(40)
  <1>13. rx' \in [Lane -> Seq(Item)] /\ \A j \in Lane : BeatsIn(rx'[j]) <= RX_BEATS
    BY <1>1, <1>2, <1>4, <1>11, <1>12, RxKept
  <1>14. UNCHANGED <<yrr, lmux, lrr, q, offered, incoming, got>> BY DEF SendBeat
  <1> QED BY <1>1, <1>7, <1>8, <1>9, <1>10, <1>13, <1>14 DEF TypeOK

LEMMA ForwardBeatTypes ==
  ASSUME SquareInv, NEW m \in Mesh, ForwardBeat(m)
  PROVE  TypeOK'
  <1> DEFINE n == Peer(m, 1)
             s == rx[<<m, 0, 1>>]
             b == s[1]
             z == rx[<<n, 1, 0>>]
  <1>1. TypeOK /\ Lane1(m) BY DEF SquareInv, LanesOK
  <1>2. n \in Mesh /\ n # m /\ Peer(n, 1) = m BY Square
  <1>3. s # <<>> /\ ~Head(s).hdr /\ ymux[m] = "b" /\ cur[<<m, 1>>] = "C0" BY DEF ForwardBeat, BeatAt
  <1>4. s \in Seq(Item) /\ z \in Seq(Item) BY <1>1, <1>2, MeshTypes
  <1>5. Head(s) = b /\ b \in Item /\ 1 \in DOMAIN s BY <1>3, <1>4
  <1>6. b.left \in Nat
    <2>1. b.left \in 0 .. MAX_BEATS BY <1>5 DEF Item
    <2> QED BY <2>1, SwitchAssumption
  <1>7. FarLane(m, 1, b.pkt) = <<n, 1, 0>>
    <2>1. Dst(b.pkt) = n BY <1>1, <1>5 DEF Lane1
    <2> QED BY <2>1, RouteY
  <1>8. /\ <<n, 1, 0>> \in Lane /\ <<m, 0, 1>> \in Lane /\ <<m, 1>> \in Link
        /\ <<n, 1, 0>> # <<m, 0, 1>>
    BY <1>2, Lanes
  <1>9. BeatsIn(z) + (b.left + 1) <= RX_BEATS
    <2>1. Below(n) = Rest(m) BY <1>2, <1>3 DEF Below, YSource
    <2>2. Rest(m) = [pkt |-> b.pkt, left |-> b.left + 1] BY <1>3 DEF Rest, Cursor
    <2>3. LaneY(n) BY <1>2 DEF SquareInv, LanesOK
    <2>4. BeatsIn(z) + Below(n).left <= RX_BEATS BY <2>3 DEF LaneY, Stream
    <2>5. Below(n).left = b.left + 1 BY <2>1, <2>2
    <2> QED BY <2>4, <2>5
  <1>10. rx' = [rx EXCEPT ![<<n, 1, 0>>] = Append(@, b), ![<<m, 0, 1>>] = Tail(@)]
    <2> DEFINE to == FarLane(m, 1, b.pkt)
    <2>1. rx' = [rx EXCEPT ![to] = Append(@, b), ![<<m, 0, 1>>] = Tail(@)] BY <1>5 DEF ForwardBeat
    <2>2. to = <<n, 1, 0>> BY <1>7
    <2> QED BY <2>1, <2>2
  <1>11. ymux' \in [Mesh -> {"NONE", "a", "b"}] BY <1>1 DEF ForwardBeat, TypeOK
  <1>12. cur' \in [Link -> {"NONE", "C0", "C1"}] BY <1>1, <1>8 DEF ForwardBeat, TypeOK
  <1>13. Append(z, b) \in Seq(Item) /\ BeatsIn(Append(z, b)) <= RX_BEATS
    <2> HIDE DEF z, b, s
    <2>1. ~b.hdr BY <1>3, <1>5
    <2>2. BeatsIn(Append(z, b)) = BeatsIn(z) + 1 /\ BeatsIn(z) \in Nat BY <1>4, <1>5, <2>1, BeatsOfAppend
    <2>3. Append(z, b) \in Seq(Item) BY <1>4, <1>5
    <2> QED BY <1>6, <1>9, <2>2, <2>3, SwitchAssumption, SMTT(40)
  <1>14. Tail(s) \in Seq(Item) /\ BeatsIn(Tail(s)) <= RX_BEATS BY <1>1, <1>3, <1>8, TailKept
  <1>15. rx' \in [Lane -> Seq(Item)] /\ \A j \in Lane : BeatsIn(rx'[j]) <= RX_BEATS
    <2> DEFINE y == [rx EXCEPT ![<<n, 1, 0>>] = Append(z, b)]
    <2>1. rx \in [Lane -> Seq(Item)] /\ \A j \in Lane : BeatsIn(rx[j]) <= RX_BEATS BY <1>1 DEF TypeOK
    <2>2. y[<<m, 0, 1>>] = s BY <1>8, <2>1
    <2>3. rx' = [y EXCEPT ![<<m, 0, 1>>] = Tail(s)]
      <3>1. rx' = [y EXCEPT ![<<m, 0, 1>>] = Tail(@)] BY <1>10
      <3> QED BY <2>2, <3>1
    <2> HIDE DEF z, s, b
    <2>4. y \in [Lane -> Seq(Item)] BY <1>13, <2>1
    <2>5. \A j \in Lane : BeatsIn(y[j]) <= RX_BEATS
      <3> TAKE j \in Lane
      <3>1. y[j] = IF j = <<n, 1, 0>> THEN Append(z, b) ELSE rx[j] BY <2>1
      <3> QED BY <1>13, <2>1, <3>1
    <2> HIDE DEF y
    <2>6. rx' \in [Lane -> Seq(Item)] BY <1>14, <2>3, <2>4
    <2>7. \A j \in Lane : BeatsIn(rx'[j]) <= RX_BEATS
      <3> TAKE j \in Lane
      <3>1. rx'[j] = IF j = <<m, 0, 1>> THEN Tail(s) ELSE y[j] BY <2>3, <2>4
      <3> QED BY <1>14, <2>5, <3>1
    <2> QED BY <2>6, <2>7
  <1>16. UNCHANGED <<ltx, demux, yrr, lmux, lrr, q, offered, incoming, got>> BY DEF ForwardBeat
  <1> QED BY <1>1, <1>11, <1>12, <1>15, <1>16 DEF TypeOK

-----------------------------------------------------------------------------
LEMMA SquareInit == Init => SquareInv
  <1> SUFFICES ASSUME Init PROVE SquareInv OBVIOUS
  <1>1. BeatsIn(<<>>) = 0
    <2>1. {i \in DOMAIN <<>> : ~(<<>>)[i].hdr} = {} OBVIOUS
    <2> QED BY <2>1, FS_EmptySet DEF BeatsIn
  <1>2. TypeOK
    <2>1. 0 \in 0 .. MAX_BEATS /\ 0 <= RX_BEATS BY SwitchAssumption
    <2>2. Idle \in [pkt : Packet \cup {NoPkt}, left : 0 .. MAX_BEATS] BY <2>1, IdleParts
    <2>3. ltx \in [Mesh -> [pkt : Packet \cup {NoPkt}, left : 0 .. MAX_BEATS]] BY <2>2 DEF Init
    <2>4. MaxPkts \in Nat BY SwitchAssumption DEF MaxPkts
    <2>5. 0 \in 0 .. MaxPkts BY <2>4
    <2>6. offered \in [Flow -> 0 .. MaxPkts] BY <2>5 DEF Init
    <2>7. got \in [Flow -> Nat] BY DEF Init
    <2>8. rx \in [Lane -> Seq(Item)]
      <3>1. <<>> \in Seq(Item) OBVIOUS
      <3> QED BY <3>1 DEF Init
    <2>9. \A k \in Lane : BeatsIn(rx[k]) <= RX_BEATS BY <1>1, <2>1 DEF Init
    <2>10. yrr \in [Mesh -> BOOLEAN] /\ lrr \in [Mesh -> BOOLEAN] BY DEF Init
    <2>11. /\ demux \in [Mesh -> {"NONE", "X0", "X1", "Y"}]
           /\ ymux \in [Mesh -> {"NONE", "a", "b"}] /\ lmux \in [Mesh -> {"NONE", "a", "b"}]
           /\ q \in [Lane -> Packet \cup {NoPkt}] /\ incoming \in [Mesh -> Packet \cup {NoPkt}]
           /\ cur \in [Link -> {"NONE", "C0", "C1"}]
      BY DEF Init
    <2> QED BY <2>3, <2>6, <2>7, <2>8, <2>9, <2>10, <2>11 DEF TypeOK
  <1>3. \A lock, side : lock # side => Stream(<<>>, lock, side, Idle)
    <2>1. 0 + 0 <= RX_BEATS BY SwitchAssumption
    <2>2. Len(<<>>) = 0 OBVIOUS
    <2> QED BY <1>1, <2>1, <2>2, IdleParts DEF Stream, Whole
  <1>4. ASSUME NEW m \in Mesh PROVE EndOK(m) /\ SlotsOK(m) /\ LanesOK(m)
    <2>1. /\ ltx[m] = Idle /\ demux[m] = "NONE" /\ ymux[m] = "NONE" /\ lmux[m] = "NONE"
          /\ q[<<m, 0, 0>>] = NoPkt /\ q[<<m, 0, 1>>] = NoPkt
          /\ q[<<m, 1, 0>>] = NoPkt /\ q[<<m, 1, 1>>] = NoPkt
          /\ rx[<<m, 0, 0>>] = <<>> /\ rx[<<m, 0, 1>>] = <<>>
          /\ rx[<<m, 1, 0>>] = <<>> /\ rx[<<m, 1, 1>>] = <<>>
          /\ cur[<<m, 0>>] = "NONE" /\ cur[<<m, 1>>] = "NONE"
      BY <1>4, Lanes DEF Init
    <2>2. Peer(m, 0) \in Mesh /\ Peer(m, 1) \in Mesh BY <1>4, Square
    <2>3. Beside(m, "C0") = Idle /\ Beside(m, "C1") = Idle /\ Below(m) = Idle
      <3>1. cur[<<Peer(m, 0), 0>>] = "NONE" /\ cur[<<Peer(m, 1), 1>>] = "NONE" BY <2>2, Lanes DEF Init
      <3> QED BY <3>1 DEF Beside, Below
    <2>4. EndOK(m) BY <2>1 DEF EndOK
    <2>5. SlotsOK(m) BY <2>1 DEF SlotsOK
    <2>6. Lane0(m) BY <1>3, <2>1, <2>3 DEF Lane0
    <2>7. Lane1(m) BY <1>3, <2>1, <2>3 DEF Lane1
    <2>8. LaneY(m) BY <1>3, <2>1, <2>3 DEF LaneY
    <2> QED BY <2>1, <2>4, <2>5, <2>6, <2>7, <2>8 DEF LanesOK
  <1> QED BY <1>2, <1>4 DEF SquareInv

LEMMA SquareStep == SquareInv /\ [Next]_vars => SquareInv'
  <1> SUFFICES ASSUME SquareInv, [Next]_vars PROVE SquareInv' OBVIOUS
  <1>1. TypeOK BY DEF SquareInv
  <1>2. ASSUME NEW m \in Mesh, Offer(m) PROVE SquareInv'
    BY <1>1, <1>2, OfferKeeps, OfferTypes DEF SquareInv
  <1>3. ASSUME NEW m \in Mesh, SendHdr(m) PROVE SquareInv'
    BY <1>1, <1>3, SendHdrKeeps, SendHdrTypes DEF SquareInv
  <1>4. ASSUME NEW m \in Mesh, SendBeat(m) PROVE SquareInv'
    <2>1. demux[m] \in {"X0", "X1", "Y"} BY <1>4, SendBeatParts
    <2>2. ASSUME NEW r \in Mesh PROVE EndOK(r)' /\ SlotsOK(r)' /\ LanesOK(r)'
      <3>1. CASE demux[m] = "X0"
        <4>1. demux[m] = IF "C0" = "C0" THEN "X0" ELSE "X1" BY <3>1
        <4> QED BY <1>4, <2>2, <4>1, SendBeatX
      <3>2. CASE demux[m] = "X1"
        <4>1. demux[m] = IF "C1" = "C0" THEN "X0" ELSE "X1" BY <3>2
        <4> QED BY <1>4, <2>2, <4>1, SendBeatX
      <3>3. CASE demux[m] = "Y" BY <1>4, <2>2, <3>3, SendBeatY
      <3> QED BY <2>1, <3>1, <3>2, <3>3
    <2> QED BY <1>4, <2>2, SendBeatTypes DEF SquareInv
  <1>5. ASSUME NEW m \in Mesh, ForwardHdr(m) PROVE SquareInv'
    BY <1>1, <1>5, ForwardHdrKeeps, ForwardHdrTypes DEF SquareInv
  <1>6. ASSUME NEW m \in Mesh, ForwardBeat(m) PROVE SquareInv'
    BY <1>1, <1>6, ForwardBeatKeeps, ForwardBeatTypes DEF SquareInv
  <1>7. ASSUME NEW m \in Mesh, NEW s \in {"a", "b"}, TakeHdr(m, s) \/ TakeBeat(m, s) PROVE SquareInv'
    <2>1. TypeOK' BY <1>1, <1>7, TakeHdrTypes, TakeBeatTypes
    <2>2. \A r \in Mesh : EndOK(r)' /\ SlotsOK(r)' /\ LanesOK(r)' BY <1>7, TakeKeeps
    <2> QED BY <2>1, <2>2 DEF SquareInv
  <1>8. ASSUME NEW m \in Mesh, NEW l \in LinkNo, NEW c \in Class, Grant(m, l, c) PROVE SquareInv'
    <2>1. TypeOK' BY <1>1, <1>8, GrantTypes
    <2>2. CASE l = 0 BY <1>8, <2>1, <2>2, GrantX DEF SquareInv
    <2>3. CASE l = 1 BY <1>8, <2>1, <2>3, GrantY DEF SquareInv
    <2> QED BY <1>8, <2>2, <2>3 DEF LinkNo
  <1>9. CASE UNCHANGED vars
    <2>1. UNCHANGED <<ltx, demux, ymux, yrr, lmux, lrr, q, cur, rx, offered, incoming, got>>
      BY <1>9 DEF vars
    <2>2. TypeOK' BY <1>1, <2>1 DEF TypeOK
    <2>3. ASSUME NEW r \in Mesh PROVE EndOK(r)' /\ SlotsOK(r)' /\ LanesOK(r)'
      <3>1. /\ EndOK(r)' /\ SlotsOK(r)' /\ Lane1(r)' /\ rx'[<<r, 1, 1>>] = <<>>
            /\ Beside(r, "C0")' = Beside(r, "C0") /\ Below(r)' = Below(r)
            /\ Lane0(r) /\ LaneY(r)
        BY <2>1, <2>3, TakeStill
      <3>2. Lane0(r)' BY <2>1, <3>1, Still0
      <3>3. LaneY(r)' BY <2>1, <3>1, StillY
      <3> QED BY <3>1, <3>2, <3>3 DEF LanesOK
    <2> QED BY <2>2, <2>3 DEF SquareInv
  <1>10. CASE Next
    <2>1. PICK m \in Mesh : Moves(m) \/ \E l \in LinkNo, c \in Class : Grant(m, l, c) BY <1>10 DEF Next
    <2>2. CASE Moves(m) BY <1>2, <1>3, <1>4, <1>5, <1>6, <1>7, <2>2 DEF Moves
    <2>3. CASE \E l \in LinkNo, c \in Class : Grant(m, l, c) BY <1>8, <2>3
    <2> QED BY <2>1, <2>2, <2>3
  <1> QED BY <1>9, <1>10

(* What the invariant says of one lane.                                    *)
LEMMA WholeStream ==
  ASSUME NEW s \in Seq(Item), NEW lock, NEW side, NEW f, Stream(s, lock, side, f), NEW inc,
         lock = side => Cursor(s, f).pkt = inc
  PROVE  /\ \A i \in 1 .. Len(s) - 1 : Follows(s[i], s[i + 1])
         /\ s # <<>> => /\ Head(s) = s[1]
                        /\ Head(s).hdr <=> lock # side
                        /\ ~Head(s).hdr => Head(s).pkt = inc
  <1>1. \A i \in 1 .. Len(s) - 1 : Follows(s[i], s[i + 1]) BY DEF Stream, Whole
  <1>2. s # <<>> => Head(s) = s[1] OBVIOUS
  <1>3. s # <<>> => (s[1].hdr <=> lock # side) BY DEF Stream, Whole
  <1>4. s # <<>> => Cursor(s, f).pkt = s[1].pkt BY DEF Cursor
  <1> QED BY <1>1, <1>2, <1>3, <1>4

LEMMA SquareWhole == SquareInv => PacketsWhole
  <1> SUFFICES ASSUME SquareInv PROVE PacketsWhole OBVIOUS
  <1>1. TypeOK BY DEF SquareInv
  <1>2. NoYTurn BY DEF SquareInv, LanesOK, NoYTurn
  <1>3. ASSUME NEW m \in Mesh, NEW l \in LinkNo, NEW c \in Class
        PROVE  LET k == <<m, l, c>>
               IN  /\ \A i \in 1 .. Len(rx[k]) - 1 : Follows(rx[k][i], rx[k][i + 1])
                   /\ rx[k] # <<>> => (Head(rx[k]).hdr <=> ~Locked(k))
                   /\ BeatAt(k) => Head(rx[k]).pkt = Passing(k)
    <2>1. Lane0(m) /\ Lane1(m) /\ LaneY(m) /\ rx[<<m, 1, 1>>] = <<>> BY <1>3 DEF SquareInv, LanesOK
    <2>2. /\ rx[<<m, 0, 0>>] \in Seq(Item) /\ rx[<<m, 0, 1>>] \in Seq(Item)
          /\ rx[<<m, 1, 0>>] \in Seq(Item)
      BY <1>1, <1>3, MeshTypes
    <2>3. CASE l = 0 /\ c = 0
      <3> DEFINE s == rx[<<m, 0, 0>>]
                 f == Beside(m, "C0")
      <3>1. Stream(s, lmux[m], "a", f) /\ (lmux[m] = "a" => Cursor(s, f).pkt = incoming[m])
        BY <2>1 DEF Lane0
      <3>2. s \in Seq(Item) BY <2>2
      <3> HIDE DEF s, f
      <3>3. /\ \A i \in 1 .. Len(s) - 1 : Follows(s[i], s[i + 1])
            /\ s # <<>> => (Head(s).hdr <=> lmux[m] # "a") /\ (~Head(s).hdr => Head(s).pkt = incoming[m])
        BY <3>1, <3>2, WholeStream, ZenonT(60)
      <3> QED BY <2>3, <3>3 DEF s, Locked, Passing, BeatAt
    <2>4. CASE l = 0 /\ c = 1
      <3> DEFINE s == rx[<<m, 0, 1>>]
                 f == Beside(m, "C1")
                 inc == Cursor(s, f).pkt
      <3>1. Stream(s, ymux[m], "b", f) BY <2>1 DEF Lane1
      <3>2. s \in Seq(Item) BY <2>2
      <3> HIDE DEF s, f
      <3>3. /\ \A i \in 1 .. Len(s) - 1 : Follows(s[i], s[i + 1])
            /\ s # <<>> => Head(s) = s[1] /\ (Head(s).hdr <=> ymux[m] # "b")
        BY <3>1, <3>2, WholeStream, ZenonT(60)
      <3> QED BY <2>4, <3>3 DEF s, Locked, Passing, BeatAt
    <2>5. CASE l = 1 /\ c = 0
      <3> DEFINE s == rx[<<m, 1, 0>>]
                 f == Below(m)
      <3>1. Stream(s, lmux[m], "b", f) /\ (lmux[m] = "b" => Cursor(s, f).pkt = incoming[m])
        BY <2>1 DEF LaneY
      <3>2. s \in Seq(Item) BY <2>2
      <3> HIDE DEF s, f
      <3>3. /\ \A i \in 1 .. Len(s) - 1 : Follows(s[i], s[i + 1])
            /\ s # <<>> => (Head(s).hdr <=> lmux[m] # "b") /\ (~Head(s).hdr => Head(s).pkt = incoming[m])
        BY <3>1, <3>2, WholeStream, ZenonT(60)
      <3> QED BY <2>5, <3>3, SMTT(40) DEF s, Locked, Passing, BeatAt
    <2>6. CASE l = 1 /\ c = 1
      <3>1. rx[<<m, l, c>>] = <<>> /\ Len(<<>>) = 0 BY <2>1, <2>6
      <3> QED BY <3>1 DEF BeatAt
    <2> QED BY <1>3, <2>3, <2>4, <2>5, <2>6 DEF LinkNo, Class
  <1>4. StreamsWhole
    <2>1. \A k \in Lane : \E m \in Mesh, l \in LinkNo, c \in Class : k = <<m, l, c>> BY DEF Lane
    <2>2. \A k \in Lane :
            /\ \A i \in 1 .. Len(rx[k]) - 1 : Follows(rx[k][i], rx[k][i + 1])
            /\ rx[k] # <<>> => (Head(rx[k]).hdr <=> ~Locked(k))
            /\ BeatAt(k) => Head(rx[k]).pkt = Passing(k)
      BY <1>3, <2>1
    <2> QED BY <2>2 DEF StreamsWhole, Follows
  <1> QED BY <1>1, <1>2, <1>4 DEF PacketsWhole

(* However the four meshes send to one another, packets never interleave   *)
(* in any queue of any switch, no queue is ever too full, and nothing that *)
(* came by link 1 goes on (il_pkt_arb.v, mag_switch.v).                    *)
THEOREM NeverInterleave == Spec => []PacketsWhole
  <1>1. Init => SquareInv BY SquareInit
  <1>2. SquareInv /\ [Next]_vars => SquareInv' BY SquareStep
  <1>3. SquareInv => PacketsWhole BY SquareWhole
  <1> QED BY <1>1, <1>2, <1>3, PTL DEF Spec

-----------------------------------------------------------------------------
(***************************************************************************)
(* Refinement: each flow is a channel (ImplementsChannel).  The packets of *)
(* a flow are six sequences one after the other; a step moves a packet     *)
(* from the head of one to the end of the one before it, puts one into the *)
(* last, takes one out of the first, or leaves them alone.                 *)
(***************************************************************************)
With(s, n) == Append(s, n)
Leads(n, s, r) == s # <<>> /\ s[1] = n /\ Tail(s) = r
Cat(a, b) == a \o b

(* Putting together sequences of S gives one; the empty one adds nothing.  *)
LEMMA CatLaws ==
  ASSUME NEW S, NEW a \in Seq(S), NEW b \in Seq(S)
  PROVE  /\ Cat(a, b) \in Seq(S)
         /\ Cat(<<>>, a) = a /\ Cat(a, <<>>) = a
  <1>1. a \o b \in Seq(S) BY ConcatProperties
  <1>2. <<>> \o a = a /\ a \o <<>> = a BY ConcatEmptySeq
  <1> QED BY <1>1, <1>2, Zenon DEF Cat

(* The order of putting together makes no odds.                            *)
LEMMA CatAssoc ==
  ASSUME NEW S, NEW a \in Seq(S), NEW b \in Seq(S), NEW c \in Seq(S)
  PROVE  Cat(Cat(a, b), c) = Cat(a, Cat(b, c))
  <1>1. (a \o b) \o c = a \o (b \o c) BY ConcatAssociative
  <1> QED BY <1>1, Zenon DEF Cat

(* A sequence with an element added is the sequence and the element.       *)
LEMMA WithLast ==
  ASSUME NEW S, NEW a \in Seq(S), NEW n \in S
  PROVE  <<n>> \in Seq(S) /\ With(a, n) \in Seq(S) /\ With(a, n) = Cat(a, <<n>>)
  <1>1. <<n>> \in Seq(S) OBVIOUS
  <1>2. Append(a, n) \in Seq(S) BY AppendProperties
  <1>3. a \o <<n>> = Append(a, n) BY AppendIsConcat
  <1> QED BY <1>1, <1>2, <1>3, Zenon DEF With, Cat

(* An element goes from the head of one to the end of the other.           *)
LEMMA CatMove ==
  ASSUME NEW S, NEW a \in Seq(S), NEW b \in Seq(S), NEW n \in S
  PROVE  Cat(With(a, n), b) = Cat(a, Cat(<<n>>, b))
  <1> DEFINE u == <<n>>
  <1>1. With(a, n) = Cat(a, u) /\ u \in Seq(S) BY WithLast
  <1> HIDE DEF u
  <1>2. Cat(Cat(a, u), b) = Cat(a, Cat(u, b)) BY <1>1, CatAssoc
  <1> QED BY <1>1, <1>2, Zenon DEF u

(* What ends with an element still does behind another sequence.           *)
LEMMA CatWith ==
  ASSUME NEW S, NEW a \in Seq(S), NEW b \in Seq(S), NEW n \in S
  PROVE  Cat(a, With(b, n)) = With(Cat(a, b), n)
  <1> DEFINE u == <<n>>
  <1>1. With(b, n) = Cat(b, u) /\ u \in Seq(S) BY WithLast
  <1>2. Cat(a, b) \in Seq(S) BY CatLaws
  <1>3. With(Cat(a, b), n) = Cat(Cat(a, b), u) BY <1>2, WithLast
  <1> HIDE DEF u
  <1>4. Cat(Cat(a, b), u) = Cat(a, Cat(b, u)) BY <1>1, CatAssoc
  <1> QED BY <1>1, <1>3, <1>4, Zenon

(* An element before a sequence leads it.                                  *)
LEMMA CatLeads ==
  ASSUME NEW S, NEW r \in Seq(S), NEW n \in S
  PROVE  Leads(n, Cat(<<n>>, r), r)
  <1> DEFINE s == <<n>> \o r
             t == Tail(s)
  <1>1. <<n>> \in Seq(S) /\ Len(<<n>>) = 1 /\ <<n>>[1] = n OBVIOUS
  <1>2. /\ s \in Seq(S) /\ Len(s) = 1 + Len(r) /\ Len(r) \in Nat
        /\ \A i \in 1 .. 1 + Len(r) : s[i] = IF i <= 1 THEN <<n>>[i] ELSE r[i - 1]
    BY <1>1, ConcatProperties, LenProperties
  <1> HIDE DEF s
  <1>3. s # <<>> /\ s[1] = n BY <1>1, <1>2, EmptySeq
  <1>4. /\ t \in Seq(S) /\ Len(t) = Len(s) - 1
        /\ \A i \in 1 .. Len(t) : t[i] = s[i + 1]
    BY <1>2, <1>3, HeadTailProperties
  <1> HIDE DEF t
  <1>5. Len(t) = Len(r) /\ \A i \in 1 .. Len(t) : t[i] = r[i] BY <1>2, <1>4
  <1>6. t = r BY <1>4, <1>5, SeqEqual
  <1> QED BY <1>3, <1>6, Zenon DEF s, t, Leads, Cat

(* Six sequences, one after the other.                                     *)
Six(a, b, c, d, e, g) == Cat(a, Cat(b, Cat(c, Cat(d, Cat(e, g)))))

(* They are sequences of S, and so are their tails.                        *)
LEMMA SixType ==
  ASSUME NEW S, NEW a \in Seq(S), NEW b \in Seq(S), NEW c \in Seq(S),
         NEW d \in Seq(S), NEW e \in Seq(S), NEW g \in Seq(S)
  PROVE  /\ Cat(e, g) \in Seq(S) /\ Cat(d, Cat(e, g)) \in Seq(S)
         /\ Cat(c, Cat(d, Cat(e, g))) \in Seq(S)
         /\ Cat(b, Cat(c, Cat(d, Cat(e, g)))) \in Seq(S)
         /\ Six(a, b, c, d, e, g) \in Seq(S)
  <1>1. Cat(e, g) \in Seq(S) BY CatLaws
  <1>2. Cat(d, Cat(e, g)) \in Seq(S) BY <1>1, CatLaws
  <1>3. Cat(c, Cat(d, Cat(e, g))) \in Seq(S) BY <1>2, CatLaws
  <1>4. Cat(b, Cat(c, Cat(d, Cat(e, g)))) \in Seq(S) BY <1>3, CatLaws
  <1>5. Six(a, b, c, d, e, g) \in Seq(S) BY <1>4, CatLaws DEF Six
  <1> QED BY <1>1, <1>2, <1>3, <1>4, <1>5

(* In whatever order they are put together.                                *)
LEMMA SixConcat ==
  ASSUME NEW S, NEW a \in Seq(S), NEW b \in Seq(S), NEW c \in Seq(S),
         NEW d \in Seq(S), NEW e \in Seq(S), NEW g \in Seq(S)
  PROVE  Cat(Cat(Cat(Cat(Cat(a, b), c), d), e), g) = Six(a, b, c, d, e, g)
  <1>2. /\ Cat(e, g) \in Seq(S) /\ Cat(d, Cat(e, g)) \in Seq(S)
        /\ Cat(c, Cat(d, Cat(e, g))) \in Seq(S)
    BY SixType
  <1>3. Cat(a, b) \in Seq(S) BY CatLaws
  <1>4. Cat(Cat(a, b), c) \in Seq(S) BY <1>3, CatLaws
  <1>5. Cat(Cat(Cat(a, b), c), d) \in Seq(S) BY <1>4, CatLaws
  <1>6. Cat(Cat(Cat(Cat(Cat(a, b), c), d), e), g) = Cat(Cat(Cat(Cat(a, b), c), d), Cat(e, g))
    BY <1>5, CatAssoc
  <1>7. Cat(Cat(Cat(Cat(a, b), c), d), Cat(e, g)) = Cat(Cat(Cat(a, b), c), Cat(d, Cat(e, g)))
    BY <1>2, <1>4, CatAssoc
  <1>8. Cat(Cat(Cat(a, b), c), Cat(d, Cat(e, g))) = Cat(Cat(a, b), Cat(c, Cat(d, Cat(e, g))))
    BY <1>2, <1>3, CatAssoc
  <1>9. Cat(Cat(a, b), Cat(c, Cat(d, Cat(e, g)))) = Six(a, b, c, d, e, g)
    <2> DEFINE w == Cat(c, Cat(d, Cat(e, g)))
    <2>1. w \in Seq(S) BY SixType
    <2> HIDE DEF w
    <2>2. Cat(Cat(a, b), w) = Cat(a, Cat(b, w)) BY <2>1, CatAssoc
    <2> QED BY <2>2, Zenon DEF Six, w
  <1> QED BY <1>6, <1>7, <1>8, <1>9, Zenon

(* A packet enters the last.                                               *)
LEMMA SixEnter ==
  ASSUME NEW S, NEW a \in Seq(S), NEW b \in Seq(S), NEW c \in Seq(S),
         NEW d \in Seq(S), NEW e \in Seq(S), NEW n \in S
  PROVE  Six(a, b, c, d, e, <<n>>) = With(Six(a, b, c, d, e, <<>>), n)
  <1>1. <<>> \in Seq(S) /\ <<n>> \in Seq(S) OBVIOUS
  <1>2. With(<<>>, n) = <<n>> BY DEF With
  <1> DEFINE z == <<>>
  <1> HIDE DEF z
  <1>3. z \in Seq(S) BY <1>1 DEF z
  <1>4. Cat(e, With(z, n)) = With(Cat(e, z), n) BY <1>3, CatWith
  <1>5. /\ Cat(e, z) \in Seq(S) /\ Cat(d, Cat(e, z)) \in Seq(S)
        /\ Cat(c, Cat(d, Cat(e, z))) \in Seq(S)
        /\ Cat(b, Cat(c, Cat(d, Cat(e, z)))) \in Seq(S)
    BY <1>3, SixType
  <1>6. Cat(d, With(Cat(e, z), n)) = With(Cat(d, Cat(e, z)), n) BY <1>5, CatWith
  <1>7. Cat(c, With(Cat(d, Cat(e, z)), n)) = With(Cat(c, Cat(d, Cat(e, z))), n) BY <1>5, CatWith
  <1>8. Cat(b, With(Cat(c, Cat(d, Cat(e, z))), n)) = With(Cat(b, Cat(c, Cat(d, Cat(e, z)))), n)
    BY <1>5, CatWith
  <1>9. Cat(a, With(Cat(b, Cat(c, Cat(d, Cat(e, z)))), n))
          = With(Cat(a, Cat(b, Cat(c, Cat(d, Cat(e, z))))), n)
    BY <1>5, CatWith
  <1>10. Six(a, b, c, d, e, With(z, n)) = With(Six(a, b, c, d, e, z), n)
    BY <1>4, <1>6, <1>7, <1>8, <1>9, Zenon DEF Six
  <1> QED BY <1>2, <1>10, Zenon DEF z

(* A packet leaves the first.                                              *)
LEMMA SixLeave ==
  ASSUME NEW S, NEW b \in Seq(S), NEW c \in Seq(S), NEW d \in Seq(S),
         NEW e \in Seq(S), NEW g \in Seq(S), NEW n \in S
  PROVE  Leads(n, Six(<<n>>, b, c, d, e, g), Six(<<>>, b, c, d, e, g))
  <1> DEFINE r == Cat(b, Cat(c, Cat(d, Cat(e, g))))
  <1>1. r \in Seq(S) BY SixType
  <1>2. Six(<<n>>, b, c, d, e, g) = Cat(<<n>>, r) BY Zenon DEF Six
  <1>3. Six(<<>>, b, c, d, e, g) = Cat(<<>>, r) BY Zenon DEF Six
  <1> HIDE DEF r
  <1>4. Cat(<<>>, r) = r BY <1>1, CatLaws
  <1>5. Leads(n, Cat(<<n>>, r), r) BY <1>1, CatLeads
  <1> QED BY <1>2, <1>3, <1>4, <1>5, Zenon

(* A packet moves on: from being offered to the first slot.                *)
LEMMA SixOffered ==
  ASSUME NEW S, NEW a \in Seq(S), NEW b \in Seq(S), NEW c \in Seq(S),
         NEW d \in Seq(S), NEW e \in Seq(S), NEW g \in Seq(S), NEW n \in S
  PROVE  Six(a, b, c, d, <<>>, <<n>>) = Six(a, b, c, d, <<n>>, <<>>)
  <1> DEFINE z == <<>>
             u == <<n>>
  <1>1. z \in Seq(S) /\ u \in Seq(S) OBVIOUS
  <1> HIDE DEF z, u
  <1>3. \A s \in Seq(S) : Cat(z, s) = s /\ Cat(s, z) = s BY <1>1, CatLaws DEF z
  <1>4. Six(a, b, c, d, z, u) = Six(a, b, c, d, u, z)
    <2>1. Cat(z, u) = u /\ Cat(u, z) = u BY <1>1, <1>3
    <2> QED BY <2>1, Zenon DEF Six
  <1> QED BY <1>4, Zenon DEF z, u

(* From the first slot to the first queue.                                 *)
LEMMA SixGrantedFirst ==
  ASSUME NEW S, NEW a \in Seq(S), NEW b \in Seq(S), NEW c \in Seq(S),
         NEW d \in Seq(S), NEW e \in Seq(S), NEW g \in Seq(S), NEW n \in S
  PROVE  Six(a, b, c, d, <<n>>, g) = Six(a, b, c, With(d, n), <<>>, g)
  <1> DEFINE z == <<>>
             u == <<n>>
  <1>1. z \in Seq(S) /\ u \in Seq(S) OBVIOUS
  <1> HIDE DEF z, u
  <1>3. \A s \in Seq(S) : Cat(z, s) = s /\ Cat(s, z) = s BY <1>1, CatLaws DEF z
  <1>4. Six(a, b, c, d, u, g) = Six(a, b, c, With(d, n), z, g)
    <2>1. Cat(With(d, n), g) = Cat(d, Cat(u, g)) BY CatMove DEF u
    <2>2. Cat(z, g) = g BY <1>3
    <2> QED BY <2>1, <2>2, Zenon DEF Six
  <1> QED BY <1>4, Zenon DEF z, u

(* From the first queue to the last slot.                                  *)
LEMMA SixForwarded ==
  ASSUME NEW S, NEW a \in Seq(S), NEW b \in Seq(S), NEW c \in Seq(S),
         NEW d \in Seq(S), NEW e \in Seq(S), NEW g \in Seq(S), NEW n \in S
  PROVE  Six(a, b, <<>>, Cat(<<n>>, d), e, g) = Six(a, b, <<n>>, d, e, g)
  <1> DEFINE z == <<>>
             u == <<n>>
  <1>1. z \in Seq(S) /\ u \in Seq(S) OBVIOUS
  <1> HIDE DEF z, u
  <1>2. /\ Cat(e, g) \in Seq(S) /\ Cat(d, Cat(e, g)) \in Seq(S)
        /\ Cat(c, Cat(d, Cat(e, g))) \in Seq(S)
        /\ Cat(b, Cat(c, Cat(d, Cat(e, g)))) \in Seq(S)
    BY SixType
  <1>3. \A s \in Seq(S) : Cat(z, s) = s /\ Cat(s, z) = s BY <1>1, CatLaws DEF z
  <1>4. Six(a, b, z, Cat(u, d), e, g) = Six(a, b, u, d, e, g)
    <2> DEFINE w == Cat(d, Cat(e, g))
    <2>1. Cat(Cat(u, d), Cat(e, g)) = Cat(u, w) BY <1>1, <1>2, CatAssoc
    <2>2. Cat(u, w) \in Seq(S)
      <3>1. w \in Seq(S) BY <1>2
      <3> HIDE DEF w
      <3> QED BY <1>1, <3>1, CatLaws
    <2>3. Cat(z, Cat(u, w)) = Cat(u, w) BY <1>3, <2>2
    <2> QED BY <2>1, <2>3, Zenon DEF Six
  <1> QED BY <1>4, Zenon DEF z, u

(* From the last slot to the last queue.                                   *)
LEMMA SixGrantedLast ==
  ASSUME NEW S, NEW a \in Seq(S), NEW b \in Seq(S), NEW c \in Seq(S),
         NEW d \in Seq(S), NEW e \in Seq(S), NEW g \in Seq(S), NEW n \in S
  PROVE  Six(a, b, <<n>>, d, e, g) = Six(a, With(b, n), <<>>, d, e, g)
  <1> DEFINE z == <<>>
             u == <<n>>
  <1>1. z \in Seq(S) /\ u \in Seq(S) OBVIOUS
  <1> HIDE DEF z, u
  <1>2. /\ Cat(e, g) \in Seq(S) /\ Cat(d, Cat(e, g)) \in Seq(S)
        /\ Cat(c, Cat(d, Cat(e, g))) \in Seq(S)
        /\ Cat(b, Cat(c, Cat(d, Cat(e, g)))) \in Seq(S)
    BY SixType
  <1>3. \A s \in Seq(S) : Cat(z, s) = s /\ Cat(s, z) = s BY <1>1, CatLaws DEF z
  <1>4. Six(a, b, u, d, e, g) = Six(a, With(b, n), z, d, e, g)
    <2> DEFINE w == Cat(d, Cat(e, g))
    <2>1. w \in Seq(S) BY <1>2
    <2> HIDE DEF w
    <2>2. Cat(With(b, n), w) = Cat(b, Cat(u, w)) BY <2>1, CatMove DEF u
    <2>3. Cat(z, w) = w BY <1>3, <2>1
    <2> QED BY <2>2, <2>3, Zenon DEF Six, w
  <1> QED BY <1>4, Zenon DEF z, u

(* From the last queue to the one it is delivered to.                      *)
LEMMA SixTaken ==
  ASSUME NEW S, NEW a \in Seq(S), NEW b \in Seq(S), NEW c \in Seq(S),
         NEW d \in Seq(S), NEW e \in Seq(S), NEW g \in Seq(S), NEW n \in S
  PROVE  Six(<<>>, Cat(<<n>>, b), c, d, e, g) = Six(<<n>>, b, c, d, e, g)
  <1> DEFINE z == <<>>
             u == <<n>>
  <1>1. z \in Seq(S) /\ u \in Seq(S) OBVIOUS
  <1> HIDE DEF z, u
  <1>2. /\ Cat(e, g) \in Seq(S) /\ Cat(d, Cat(e, g)) \in Seq(S)
        /\ Cat(c, Cat(d, Cat(e, g))) \in Seq(S)
        /\ Cat(b, Cat(c, Cat(d, Cat(e, g)))) \in Seq(S)
    BY SixType
  <1>3. \A s \in Seq(S) : Cat(z, s) = s /\ Cat(s, z) = s BY <1>1, CatLaws DEF z
  <1>4. Six(z, Cat(u, b), c, d, e, g) = Six(u, b, c, d, e, g)
    <2> DEFINE w == Cat(c, Cat(d, Cat(e, g)))
    <2>1. w \in Seq(S) BY <1>2
    <2> HIDE DEF w
    <2>2. Cat(Cat(u, b), w) = Cat(u, Cat(b, w)) BY <1>1, <2>1, CatAssoc
    <2>3. Cat(b, w) \in Seq(S) BY <2>1, CatLaws
    <2>4. Cat(u, Cat(b, w)) \in Seq(S) BY <1>1, <2>3, CatLaws
    <2>5. Cat(z, Cat(u, Cat(b, w))) = Cat(u, Cat(b, w)) BY <1>3, <2>4
    <2> QED BY <2>2, <2>5, Zenon DEF Six, w
  <1> QED BY <1>4, Zenon DEF z, u

-----------------------------------------------------------------------------
(***************************************************************************)
(* The places of a flow.                                                   *)
(***************************************************************************)
Num == 1 .. MaxPkts

(* A packet at a place is in the sequence of its own flow and of no other. *)
LEMMA AtOf ==
  ASSUME NEW f \in Flow, NEW p \in Packet \cup {NoPkt}
  PROVE  /\ At(f, p) \in Seq(Num)
         /\ At(f, NoPkt) = <<>>
         /\ p.flow # f => At(f, p) = <<>>
         /\ p.flow = f => p \in Packet /\ At(f, p) = <<p.n>> /\ p.n \in Num
  <1>1. NoPkt.flow # f
    <2>1. f \in Mesh \X Mesh BY SwitchAssumption
    <2>2. NoPkt.flow = <<>> BY DEF NoPkt
    <2>3. Len(f) = 2 BY <2>1
    <2>4. Len(<<>>) = 0 OBVIOUS
    <2> QED BY <2>2, <2>3, <2>4
  <1>2. At(f, NoPkt) = <<>> BY <1>1 DEF At
  <1>3. p.flow # f => At(f, p) = <<>> BY DEF At
  <1>4. p.flow = f => p \in Packet /\ At(f, p) = <<p.n>> /\ p.n \in Num
    <2> SUFFICES ASSUME p.flow = f PROVE p \in Packet /\ At(f, p) = <<p.n>> /\ p.n \in Num OBVIOUS
    <2>1. p \in Packet BY <1>1
    <2>2. p.n \in Num BY <2>1 DEF Packet, Num
    <2>3. At(f, p) = <<p.n>> BY DEF At
    <2> QED BY <2>1, <2>2, <2>3
  <1>5. At(f, p) \in Seq(Num)
    <2>1. CASE p.flow = f
      <3>1. At(f, p) = <<p.n>> /\ p.n \in Num BY <1>4, <2>1
      <3> QED BY <3>1, WithLast
    <2>2. CASE p.flow # f
      <3>1. At(f, p) = <<>> BY <1>3, <2>2
      <3> QED BY <3>1
    <2> QED BY <2>1, <2>2
  <1> QED BY <1>2, <1>3, <1>4, <1>5

(* The headers of a flow in a queue.                                       *)
Nums(s) == [i \in DOMAIN s |-> s[i].pkt.n]
Hdrs(f, s) == {i \in DOMAIN s : s[i].hdr /\ s[i].pkt.flow = f}

(* What is filed of a flow is the numbers of its headers, in their order.  *)
LEMMA FiledOf ==
  ASSUME NEW f, NEW s \in Seq(Item)
  PROVE  /\ Filed(f, s) = Picked(Nums(s), Hdrs(f, s))
         /\ Nums(s) \in Seq(Num) /\ Len(Nums(s)) = Len(s)
         /\ Hdrs(f, s) \in SUBSET (1 .. Len(s))
         /\ Filed(f, s) \in Seq(Num)
  <1>1. Filed(f, s) = Picked(Nums(s), Hdrs(f, s)) BY Zenon DEF Filed, Nums, Hdrs
  <1>2. DOMAIN s = 1 .. Len(s) /\ Len(s) \in Nat BY LenProperties
  <1>3. \A i \in 1 .. Len(s) : s[i].pkt.n \in Num
    <2> TAKE i \in 1 .. Len(s)
    <2>1. s[i] \in Item BY ElementOfSeq
    <2>2. s[i].pkt \in Packet BY <2>1 DEF Item
    <2> QED BY <2>2 DEF Packet, Num
  <1>4. Nums(s) = [i \in 1 .. Len(s) |-> s[i].pkt.n] BY <1>2 DEF Nums
  <1>5. Nums(s) \in Seq(Num) /\ Len(Nums(s)) = Len(s)
    <2>1. [i \in 1 .. Len(s) |-> s[i].pkt.n] \in Seq(Num) BY <1>2, <1>3, IsASeq
    <2>2. DOMAIN [i \in 1 .. Len(s) |-> s[i].pkt.n] = 1 .. Len(s) OBVIOUS
    <2> QED BY <1>2, <1>4, <2>1, <2>2, LenProperties
  <1>6. Hdrs(f, s) \in SUBSET (1 .. Len(s)) BY <1>2 DEF Hdrs
  <1>7. Picked(Nums(s), Hdrs(f, s)) \in Seq(Num) BY <1>5, <1>6, PickedType
  <1> QED BY <1>1, <1>5, <1>6, <1>7

(* Nothing is filed in an empty queue.                                     *)
LEMMA FiledNone == ASSUME NEW f PROVE Filed(f, <<>>) = <<>>
  <1>1. {i \in DOMAIN <<>> : <<>>[i].hdr /\ <<>>[i].pkt.flow = f} = {} OBVIOUS
  <1>2. Filed(f, <<>>) = Picked(Nums(<<>>), {}) BY <1>1, Zenon DEF Filed, Nums
  <1> QED BY <1>2, PickedNone

(* A header of the flow filed is its last; anything else makes no odds.    *)
LEMMA FiledAppend ==
  ASSUME NEW f, NEW s \in Seq(Item), NEW x \in Item
  PROVE  Filed(f, Append(s, x)) = IF x.hdr /\ x.pkt.flow = f
                                  THEN With(Filed(f, s), x.pkt.n) ELSE Filed(f, s)
  <1> DEFINE t == Append(s, x)
             n == Len(s)
  <1>1. /\ n \in Nat /\ DOMAIN s = 1 .. n
        /\ t \in Seq(Item) /\ Len(t) = n + 1 /\ t[n + 1] = x
        /\ \A i \in 1 .. n : t[i] = s[i]
    BY LenProperties, AppendProperties
  <1>2. DOMAIN t = 1 .. n + 1 BY <1>1, LenProperties
  <1>3. x.pkt.n \in Num
    <2>1. x.pkt \in Packet BY DEF Item
    <2> QED BY <2>1 DEF Packet, Num
  <1>4. /\ Filed(f, s) = Picked(Nums(s), Hdrs(f, s))
        /\ Nums(s) \in Seq(Num) /\ Len(Nums(s)) = n /\ Hdrs(f, s) \in SUBSET (1 .. n)
    BY FiledOf
  <1>5. Filed(f, t) = Picked(Nums(t), Hdrs(f, t)) /\ Nums(t) \in Seq(Num) /\ Len(Nums(t)) = n + 1
    BY <1>1, FiledOf
  <1> HIDE DEF t
  <1>6. Nums(t) = Append(Nums(s), x.pkt.n)
    <2> DEFINE r == Append(Nums(s), x.pkt.n)
    <2>1. /\ r \in Seq(Num) /\ Len(r) = n + 1 /\ r[n + 1] = x.pkt.n
          /\ \A i \in 1 .. n : r[i] = Nums(s)[i]
      BY <1>3, <1>4, AppendProperties
    <2> HIDE DEF r, n
    <2>2. \A i \in 1 .. n : Nums(s)[i] = s[i].pkt.n BY <1>1 DEF Nums
    <2>3. \A i \in 1 .. n + 1 : Nums(t)[i] = t[i].pkt.n BY <1>2 DEF Nums
    <2>4. \A i \in 1 .. n + 1 : Nums(t)[i] = r[i]
      <3> TAKE i \in 1 .. n + 1
      <3>1. i \in 1 .. n \/ i = n + 1 BY <1>1
      <3>2. CASE i \in 1 .. n
        <4>1. Nums(t)[i] = t[i].pkt.n /\ t[i] = s[i] /\ r[i] = Nums(s)[i] /\ Nums(s)[i] = s[i].pkt.n
          BY <1>1, <2>1, <2>2, <2>3, <3>2
        <4> QED BY <4>1
      <3>3. CASE i = n + 1
        <4>1. Nums(t)[n + 1] = t[n + 1].pkt.n BY <2>3, <3>3
        <4> QED BY <1>1, <2>1, <3>3, <4>1
      <3> QED BY <3>1, <3>2, <3>3
    <2>5. Nums(t) = r BY <1>5, <2>1, <2>4, SeqEqual
    <2> QED BY <2>5 DEF r
  <1>7. Hdrs(f, t) = IF x.hdr /\ x.pkt.flow = f THEN Hdrs(f, s) \cup {n + 1} ELSE Hdrs(f, s)
    <2> HIDE DEF n
    <2>1. \A i \in 1 .. n : i \in Hdrs(f, t) <=> i \in Hdrs(f, s) BY <1>1, <1>2 DEF Hdrs
    <2>2. n + 1 \in Hdrs(f, t) <=> x.hdr /\ x.pkt.flow = f BY <1>1, <1>2 DEF Hdrs
    <2>3. Hdrs(f, t) \subseteq 1 .. n + 1 /\ Hdrs(f, s) \subseteq 1 .. n BY <1>1, <1>2 DEF Hdrs
    <2>4. \A i \in 1 .. n + 1 : i \in 1 .. n \/ i = n + 1 BY <1>1
    <2>5. CASE x.hdr /\ x.pkt.flow = f
      <3>1. Hdrs(f, t) = Hdrs(f, s) \cup {n + 1} BY <2>1, <2>2, <2>3, <2>4, <2>5
      <3> QED BY <2>5, <3>1
    <2>6. CASE ~(x.hdr /\ x.pkt.flow = f)
      <3>1. Hdrs(f, t) = Hdrs(f, s) BY <2>1, <2>2, <2>3, <2>4, <2>6
      <3> QED BY <2>6, <3>1
    <2> QED BY <2>5, <2>6
  <1>8. /\ Picked(Append(Nums(s), x.pkt.n), Hdrs(f, s)) = Picked(Nums(s), Hdrs(f, s))
        /\ Picked(Append(Nums(s), x.pkt.n), Hdrs(f, s) \cup {n + 1})
             = With(Picked(Nums(s), Hdrs(f, s)), x.pkt.n)
    <2>1. Len(Nums(s)) + 1 = n + 1 BY <1>4
    <2> HIDE DEF n
    <2>2. Hdrs(f, s) \in SUBSET (1 .. Len(Nums(s))) BY <1>4
    <2> DEFINE ns == Nums(s)
               P == Hdrs(f, s)
               y == x.pkt.n
    <2>3. ns \in Seq(Num) /\ y \in Num /\ P \in SUBSET (1 .. Len(ns)) BY <1>3, <1>4, <2>2
    <2> HIDE DEF ns, P, y
    <2>4. Picked(Append(ns, y), P) = Picked(ns, P) BY <2>3, PickedAppend, ZenonT(40)
    <2>5. Picked(Append(ns, y), P \cup {Len(ns) + 1}) = With(Picked(ns, P), y)
      BY <2>3, PickedAppend, SMTT(40) DEF With
    <2> QED BY <2>1, <2>4, <2>5, Zenon DEF ns, P, y
  <1> HIDE DEF n
  <1>9. CASE x.hdr /\ x.pkt.flow = f
    <2>1. Hdrs(f, t) = Hdrs(f, s) \cup {n + 1} BY <1>7, <1>9
    <2>2. Filed(f, t) = With(Filed(f, s), x.pkt.n) BY <1>4, <1>5, <1>6, <1>8, <2>1, Zenon
    <2> QED BY <1>9, <2>2 DEF t
  <1>10. CASE ~(x.hdr /\ x.pkt.flow = f)
    <2>1. Hdrs(f, t) = Hdrs(f, s) BY <1>7, <1>10
    <2>2. Filed(f, t) = Filed(f, s) BY <1>4, <1>5, <1>6, <1>8, <2>1, Zenon
    <2> QED BY <1>10, <2>2 DEF t
  <1> QED BY <1>9, <1>10

(* A header of the flow drawn was its first.                               *)
LEMMA FiledTail ==
  ASSUME NEW f, NEW s \in Seq(Item), s # <<>>
  PROVE  Filed(f, s) = IF s[1].hdr /\ s[1].pkt.flow = f
                       THEN Cat(<<s[1].pkt.n>>, Filed(f, Tail(s))) ELSE Filed(f, Tail(s))
  <1> DEFINE t == Tail(s)
             n == Len(s)
  <1>1. /\ n \in Nat /\ n >= 1 /\ n - 1 \in Nat /\ DOMAIN s = 1 .. n
        /\ t \in Seq(Item) /\ Len(t) = n - 1
        /\ \A i \in 1 .. n - 1 : t[i] = s[i + 1]
    <2>1. n \in Nat /\ n # 0 /\ DOMAIN s = 1 .. n BY LenProperties, EmptySeq
    <2>2. t \in Seq(Item) /\ Len(t) = n - 1 /\ \A i \in 1 .. Len(t) : t[i] = s[i + 1]
      BY HeadTailProperties
    <2> HIDE DEF n, t
    <2> QED BY <2>1, <2>2
  <1>2. DOMAIN t = 1 .. n - 1 BY <1>1, LenProperties
  <1>3. /\ Filed(f, s) = Picked(Nums(s), Hdrs(f, s))
        /\ Nums(s) \in Seq(Num) /\ Len(Nums(s)) = n /\ Hdrs(f, s) \in SUBSET (1 .. n)
    BY FiledOf
  <1>4. /\ Filed(f, t) = Picked(Nums(t), Hdrs(f, t))
        /\ Nums(t) \in Seq(Num) /\ Len(Nums(t)) = n - 1 /\ Hdrs(f, t) \in SUBSET (1 .. n - 1)
        /\ Filed(f, t) \in Seq(Num)
    <2>1. t \in Seq(Item) BY <1>1
    <2> HIDE DEF t
    <2>2. /\ Filed(f, t) = Picked(Nums(t), Hdrs(f, t))
          /\ Nums(t) \in Seq(Num) /\ Len(Nums(t)) = Len(t) /\ Hdrs(f, t) \in SUBSET (1 .. Len(t))
          /\ Filed(f, t) \in Seq(Num)
      BY <2>1, FiledOf
    <2> QED BY <1>1, <2>2
  <1> HIDE DEF n
  <1>5. Nums(s) # <<>> /\ Nums(s)[1] = s[1].pkt.n
    <2>1. Nums(s) # <<>> BY <1>1, <1>3, EmptySeq
    <2>2. 1 \in DOMAIN s BY <1>1
    <2> QED BY <2>1, <2>2 DEF Nums
  <1> HIDE DEF t
  <1>6. Nums(t) = Tail(Nums(s))
    <2> DEFINE r == Tail(Nums(s))
    <2>1. r \in Seq(Num) /\ Len(r) = n - 1 /\ \A i \in 1 .. n - 1 : r[i] = Nums(s)[i + 1]
      <3>1. r \in Seq(Num) /\ Len(r) = Len(Nums(s)) - 1 /\ \A i \in 1 .. Len(r) : r[i] = Nums(s)[i + 1]
        BY <1>3, <1>5, HeadTailProperties
      <3> HIDE DEF r
      <3> QED BY <1>3, <3>1
    <2> HIDE DEF r
    <2>2. \A i \in 1 .. n - 1 : i + 1 \in 1 .. n BY <1>1
    <2>3. \A i \in 1 .. n - 1 : Nums(t)[i] = r[i]
      <3> TAKE i \in 1 .. n - 1
      <3>1. Nums(t)[i] = t[i].pkt.n BY <1>2 DEF Nums
      <3>2. Nums(s)[i + 1] = s[i + 1].pkt.n BY <1>1, <2>2 DEF Nums
      <3>3. t[i] = s[i + 1] /\ r[i] = Nums(s)[i + 1] BY <1>1, <2>1
      <3> QED BY <3>1, <3>2, <3>3, Zenon
    <2>4. Nums(t) = r BY <1>4, <2>1, <2>3, SeqEqual
    <2> QED BY <2>4 DEF r
  <1>7. \A i \in 1 .. n - 1 : i \in Hdrs(f, t) <=> i + 1 \in Hdrs(f, s)
    <2> TAKE i \in 1 .. n - 1
    <2>1. t[i] = s[i + 1] /\ i + 1 \in 1 .. n BY <1>1
    <2> QED BY <1>1, <1>2, <2>1 DEF Hdrs
  <1>8. Picked(Nums(s), Hdrs(f, s))
          = (IF 1 \in Hdrs(f, s) THEN <<Nums(s)[1]>> ELSE <<>>) \o Picked(Tail(Nums(s)), Hdrs(f, t))
    <2>1. /\ Hdrs(f, s) \in SUBSET (1 .. Len(Nums(s)))
          /\ Hdrs(f, t) \in SUBSET (1 .. Len(Nums(s)) - 1)
          /\ \A i \in 1 .. Len(Nums(s)) - 1 : i \in Hdrs(f, t) <=> i + 1 \in Hdrs(f, s)
      BY <1>3, <1>4, <1>7
    <2> QED BY <1>3, <1>5, <2>1, PickedTail
  <1>9. 1 \in Hdrs(f, s) <=> s[1].hdr /\ s[1].pkt.flow = f
    <2>1. 1 \in DOMAIN s BY <1>1
    <2> QED BY <2>1 DEF Hdrs
  <1>10. CASE s[1].hdr /\ s[1].pkt.flow = f
    <2>1. 1 \in Hdrs(f, s) BY <1>9, <1>10
    <2>2. Picked(Nums(s), Hdrs(f, s)) = <<Nums(s)[1]>> \o Picked(Tail(Nums(s)), Hdrs(f, t))
      BY <1>8, <2>1, Zenon
    <2>3. Filed(f, s) = Cat(<<s[1].pkt.n>>, Filed(f, t))
      BY <1>3, <1>4, <1>5, <1>6, <2>2, Zenon DEF Cat
    <2> QED BY <1>10, <2>3 DEF t
  <1>11. CASE ~(s[1].hdr /\ s[1].pkt.flow = f)
    <2>1. 1 \notin Hdrs(f, s) BY <1>9, <1>11
    <2>2. Picked(Nums(s), Hdrs(f, s)) = <<>> \o Picked(Tail(Nums(s)), Hdrs(f, t))
      BY <1>8, <2>1, Zenon
    <2>3. <<>> \o Filed(f, t) = Filed(f, t) BY <1>4, ConcatEmptySeq
    <2>4. Filed(f, s) = Filed(f, t) BY <1>3, <1>4, <1>6, <2>2, <2>3, Zenon
    <2> QED BY <1>11, <2>4 DEF t
  <1> QED BY <1>10, <1>11

(* The way of a flow.                                                      *)
LEMMA Way ==
  ASSUME NEW f \in Flow
  PROVE  /\ f[1] \in Mesh /\ f[2] \in Mesh /\ f[1] # f[2] /\ Via(f) \in Mesh
         /\ LastQueue(f) \in Lane /\ LastSlot(f) \in Lane
         /\ FirstQueue(f) \in Lane /\ FirstSlot(f) \in Lane
         /\ LastQueue(f)[1] = f[2] /\ LastQueue(f)[3] = 0 /\ LastSlot(f)[3] = 0
         /\ TwoLinks(f) => /\ Egress(f[1], f[2]) = "X1"
                           /\ LastSlot(f) = <<Via(f), 1, 0>>
                           /\ Peer(f[1], 0) # f[2]
         /\ ~TwoLinks(f) => /\ Egress(f[1], f[2]) # "X1"
                            /\ LaneOf(f[1], Egress(f[1], f[2])) = LastSlot(f)
         /\ LastSlot(f)[1] \in Mesh /\ LastSlot(f)[2] \in LinkNo
         /\ LastSlot(f) = <<LastSlot(f)[1], LastSlot(f)[2], 0>>
         /\ Peer(LastSlot(f)[1], LastSlot(f)[2]) = f[2]
         /\ LastQueue(f) = <<f[2], LastSlot(f)[2], 0>>
  <1>1. f \in Mesh \X Mesh /\ f[1] # f[2] BY SwitchAssumption
  <1> DEFINE s == f[1]
             d == f[2]
  <1>2. s \in Mesh /\ d \in Mesh /\ s # d BY <1>1
  <1>3. s = 0 \/ s = 1 \/ s = 2 \/ s = 3 BY <1>2 DEF Mesh
  <1>4. d = 0 \/ d = 1 \/ d = 2 \/ d = 3 BY <1>2 DEF Mesh
  <1>5. /\ Peer(s, 0) \in Mesh /\ Peer(d, 1) \in Mesh /\ Peer(Peer(d, 1), 1) = d BY <1>2, Square
  <1>6. /\ X(d) # X(s) /\ d # Peer(s, 0) => Peer(d, 1) = Peer(s, 0) /\ Egress(s, d) = "X1"
        /\ X(d) = X(s) => Peer(d, 1) = s /\ Egress(s, d) = "Y" /\ d # Peer(s, 0)
        /\ d = Peer(s, 0) => Egress(s, d) = "X0" /\ X(d) # X(s)
    <2> HIDE DEF s, d
    <2> QED BY <1>2, <1>3, <1>4, SMTT(60) DEF Egress, Peer, X, Y
  <1>7. Via(f) = Peer(s, 0) /\ (TwoLinks(f) <=> X(d) # X(s) /\ d # Peer(s, 0)) BY DEF Via, TwoLinks
  <1>8. /\ d = Peer(s, 0) => LastQueue(f) = <<d, 0, 0>> /\ LastSlot(f) = <<s, 0, 0>>
        /\ d # Peer(s, 0) => LastQueue(f) = <<d, 1, 0>> /\ LastSlot(f) = <<Peer(d, 1), 1, 0>>
    BY <1>7 DEF LastQueue, LastSlot
  <1>9. FirstQueue(f) = <<Peer(s, 0), 0, 1>> /\ FirstSlot(f) = <<s, 0, 1>>
    BY <1>7 DEF FirstQueue, FirstSlot
  <1>10. /\ LaneOf(s, "X0") = <<s, 0, 0>> /\ LaneOf(s, "Y") = <<s, 1, 0>> BY DEF LaneOf
  <1> HIDE DEF s, d
  <1>11. FirstQueue(f) \in Lane /\ FirstSlot(f) \in Lane BY <1>2, <1>5, <1>9, Lanes
  <1>12. CASE d = Peer(s, 0)
    <2>1. LastQueue(f) = <<d, 0, 0>> /\ LastSlot(f) = <<s, 0, 0>> BY <1>8, <1>12
    <2>2. LastQueue(f) \in Lane /\ LastSlot(f) \in Lane BY <1>2, <2>1, Lanes
    <2>3. ~TwoLinks(f) /\ Egress(s, d) = "X0" BY <1>6, <1>7, <1>12
    <2>4. LaneOf(s, Egress(s, d)) = LastSlot(f) BY <1>10, <2>1, <2>3
    <2>5. 0 \in LinkNo BY DEF LinkNo
    <2> QED BY <1>2, <1>5, <1>7, <1>11, <1>12, <2>1, <2>2, <2>3, <2>4, <2>5 DEF s, d
  <1>13. CASE d # Peer(s, 0)
    <2>1. LastQueue(f) = <<d, 1, 0>> /\ LastSlot(f) = <<Peer(d, 1), 1, 0>> BY <1>8, <1>13
    <2>2. LastQueue(f) \in Lane /\ LastSlot(f) \in Lane BY <1>2, <1>5, <2>1, Lanes
    <2>3. 1 \in LinkNo BY DEF LinkNo
    <2>4. TwoLinks(f) => Egress(s, d) = "X1" /\ Peer(d, 1) = Via(f) BY <1>6, <1>7
    <2>5. ~TwoLinks(f) => Egress(s, d) = "Y" /\ Peer(d, 1) = s BY <1>6, <1>7, <1>13
    <2>6. ~TwoLinks(f) => LaneOf(s, Egress(s, d)) = LastSlot(f) BY <1>10, <2>1, <2>5
    <2> QED BY <1>2, <1>5, <1>7, <1>11, <1>13, <2>1, <2>2, <2>3, <2>4, <2>5, <2>6 DEF s, d
  <1> QED BY <1>12, <1>13

(* The packets of a flow, in the six places.                               *)
Chan(f) == Six(Delivering(f), LastQueued(f), LastHeld(f),
               FirstQueued(f), FirstHeld(f), Offering(f))

(* Each of the six places holds a sequence of numbers.                     *)
LEMMA PartTypes ==
  ASSUME TypeOK, NEW f \in Flow
  PROVE  /\ Delivering(f) \in Seq(Num) /\ LastQueued(f) \in Seq(Num) /\ LastHeld(f) \in Seq(Num)
         /\ FirstQueued(f) \in Seq(Num) /\ FirstHeld(f) \in Seq(Num) /\ Offering(f) \in Seq(Num)
  <1>1. /\ f[1] \in Mesh /\ f[2] \in Mesh
        /\ LastQueue(f) \in Lane /\ LastSlot(f) \in Lane
        /\ FirstQueue(f) \in Lane /\ FirstSlot(f) \in Lane
    BY Way
  <1>2. <<>> \in Seq(Num) OBVIOUS
  <1>3. incoming[f[2]] \in Packet \cup {NoPkt} BY <1>1 DEF TypeOK
  <1>4. q[LastSlot(f)] \in Packet \cup {NoPkt} BY <1>1 DEF TypeOK
  <1>5. q[FirstSlot(f)] \in Packet \cup {NoPkt} BY <1>1 DEF TypeOK
  <1>6. ltx[f[1]].pkt \in Packet \cup {NoPkt} BY <1>1, MeshTypes
  <1>7. rx[LastQueue(f)] \in Seq(Item) BY <1>1 DEF TypeOK
  <1>8. rx[FirstQueue(f)] \in Seq(Item) BY <1>1 DEF TypeOK
  <1>9. Delivering(f) \in Seq(Num) BY <1>3, AtOf DEF Delivering
  <1>10. LastQueued(f) \in Seq(Num) BY <1>7, FiledOf DEF LastQueued
  <1>11. LastHeld(f) \in Seq(Num) BY <1>4, AtOf DEF LastHeld
  <1>12. FirstQueued(f) \in Seq(Num)
    <2>1. Filed(f, rx[FirstQueue(f)]) \in Seq(Num) BY <1>8, FiledOf
    <2> QED BY <1>2, <2>1, Zenon DEF FirstQueued
  <1>13. FirstHeld(f) \in Seq(Num)
    <2>1. At(f, q[FirstSlot(f)]) \in Seq(Num) BY <1>5, AtOf
    <2> QED BY <1>2, <2>1, Zenon DEF FirstHeld
  <1>14. Offering(f) \in Seq(Num)
    <2>1. At(f, ltx[f[1]].pkt) \in Seq(Num) BY <1>6, AtOf
    <2> QED BY <1>2, <2>1, Zenon DEF Offering
  <1> QED BY <1>9, <1>10, <1>11, <1>12, <1>13, <1>14

(* They are what the channel has in flight.                                *)
LEMMA ChanIs == TypeOK => \A f \in Flow : InFlight[f] = Chan(f)
  <1> SUFFICES ASSUME TypeOK, NEW f \in Flow PROVE InFlight[f] = Chan(f) OBVIOUS
  <1> DEFINE a == Delivering(f)
             b == LastQueued(f)
             c == LastHeld(f)
             d == FirstQueued(f)
             e == FirstHeld(f)
             g == Offering(f)
  <1>1. InFlight[f] = a \o b \o c \o d \o e \o g BY DEF InFlight
  <1>2. /\ a \in Seq(Num) /\ b \in Seq(Num) /\ c \in Seq(Num)
        /\ d \in Seq(Num) /\ e \in Seq(Num) /\ g \in Seq(Num)
    BY PartTypes
  <1>3. Chan(f) = Six(a, b, c, d, e, g) BY Zenon DEF Chan
  <1> HIDE DEF a, b, c, d, e, g
  <1>4. Cat(Cat(Cat(Cat(Cat(a, b), c), d), e), g) = Six(a, b, c, d, e, g) BY <1>2, SixConcat
  <1>5. Cat(Cat(Cat(Cat(Cat(a, b), c), d), e), g) = a \o b \o c \o d \o e \o g BY Zenon DEF Cat
  <1> QED BY <1>1, <1>3, <1>4, <1>5, Zenon

(* And after a step as well.                                               *)
LEMMA ChanNow == TypeOK' => (\A f \in Flow : InFlight[f] = Chan(f))'
  BY ChanIs, PTL

(* What a step may do to a flow.                                           *)
Kept(f)     == Chan(f)' = Chan(f) /\ got'[f] = got[f]
Accepts(f)  == (\E n \in Num : Chan(f)' = With(Chan(f), n)) /\ got'[f] = got[f]
Delivers(f) == (\E n \in Num : Leads(n, Chan(f), Chan(f)')) /\ got'[f] = got[f] + 1
ChanStep(f) == Kept(f) \/ Accepts(f) \/ Delivers(f)

(* What leaves places alone.                                               *)
LEMMA SameChan ==
  ASSUME NEW f \in Flow,
         Delivering(f)' = Delivering(f), LastQueued(f)' = LastQueued(f), LastHeld(f)' = LastHeld(f),
         FirstQueued(f)' = FirstQueued(f), FirstHeld(f)' = FirstHeld(f), Offering(f)' = Offering(f)
  PROVE  Chan(f)' = Chan(f)
  <1>1. Chan(f)' = Six(Delivering(f)', LastQueued(f)', LastHeld(f)',
                       FirstQueued(f)', FirstHeld(f)', Offering(f)')
    BY Zenon DEF Chan, Six
  <1> QED BY <1>1, Zenon DEF Chan

(* Queues that stay leave the filed headers alone.                         *)
LEMMA SameQueues ==
  ASSUME NEW f \in Flow, \A k \in Lane : Filed(f, rx'[k]) = Filed(f, rx[k])
  PROVE  LastQueued(f)' = LastQueued(f) /\ FirstQueued(f)' = FirstQueued(f)
  <1>1. LastQueue(f) \in Lane /\ FirstQueue(f) \in Lane BY Way
  <1>2. LastQueued(f)' = Filed(f, rx'[LastQueue(f)]) BY Zenon DEF LastQueued, Filed, LastQueue, Via
  <1>3. FirstQueued(f)' = IF TwoLinks(f) THEN Filed(f, rx'[FirstQueue(f)]) ELSE <<>>
    BY Zenon DEF FirstQueued
  <1>4. LastQueued(f)' = LastQueued(f) BY <1>1, <1>2, Zenon DEF LastQueued
  <1>5. FirstQueued(f)' = FirstQueued(f) BY <1>1, <1>3, Zenon DEF FirstQueued
  <1> QED BY <1>4, <1>5

(* And slots that stay the held ones.                                      *)
LEMMA SameSlots ==
  ASSUME NEW f \in Flow, \A k \in Lane : At(f, q'[k]) = At(f, q[k])
  PROVE  LastHeld(f)' = LastHeld(f) /\ FirstHeld(f)' = FirstHeld(f)
  <1>1. LastSlot(f) \in Lane /\ FirstSlot(f) \in Lane BY Way
  <1>2. LastHeld(f)' = LastHeld(f) BY <1>1, Zenon DEF LastHeld
  <1>3. FirstHeld(f)' = FirstHeld(f) BY <1>1, Zenon DEF FirstHeld
  <1> QED BY <1>2, <1>3

(* What a lane has, once one has changed.                                  *)
LEMMA RxExcept ==
  ASSUME TypeOK, NEW k \in Lane, NEW s, rx' = [rx EXCEPT ![k] = s], NEW f
  PROVE  /\ rx'[k] = s /\ \A j \in Lane : j # k => rx'[j] = rx[j]
         /\ Filed(f, s) = Filed(f, rx[k]) => \A j \in Lane : Filed(f, rx'[j]) = Filed(f, rx[j])
  <1>1. rx \in [Lane -> Seq(Item)] BY DEF TypeOK
  <1>2. rx'[k] = s /\ \A j \in Lane : j # k => rx'[j] = rx[j] BY <1>1
  <1> QED BY <1>2, Zenon

(* And a slot, once one has changed.                                       *)
LEMMA QExcept ==
  ASSUME TypeOK, NEW k \in Lane, NEW p, q' = [q EXCEPT ![k] = p], NEW f
  PROVE  /\ q'[k] = p /\ \A j \in Lane : j # k => q'[j] = q[j]
         /\ At(f, p) = At(f, q[k]) => \A j \in Lane : At(f, q'[j]) = At(f, q[j])
  <1>1. q \in [Lane -> Packet \cup {NoPkt}] BY DEF TypeOK
  <1>2. q'[k] = p /\ \A j \in Lane : j # k => q'[j] = q[j] BY <1>1
  <1> QED BY <1>2, Zenon

(* A beat in or out of a queue leaves its headers alone.                   *)
LEMMA FiledBeat ==
  ASSUME NEW f, NEW s \in Seq(Item)
  PROVE  /\ \A x \in Item : ~x.hdr => Filed(f, Append(s, x)) = Filed(f, s)
         /\ s # <<>> /\ ~Head(s).hdr => Filed(f, Tail(s)) = Filed(f, s)
  <1>1. \A x \in Item : ~x.hdr => Filed(f, Append(s, x)) = Filed(f, s) BY FiledAppend, Zenon
  <1>2. s # <<>> /\ ~Head(s).hdr => Filed(f, Tail(s)) = Filed(f, s)
    <2> SUFFICES ASSUME s # <<>>, ~Head(s).hdr PROVE Filed(f, Tail(s)) = Filed(f, s) OBVIOUS
    <2>1. ~s[1].hdr BY HeadTailProperties
    <2> QED BY <2>1, FiledTail, Zenon
  <1> QED BY <1>1, <1>2

-----------------------------------------------------------------------------
(***************************************************************************)
(* Each step, for every flow.                                              *)
(***************************************************************************)
RouteInv == SquareInv /\ OnRoute

(* An endpoint offers a packet: it is accepted.                            *)
LEMMA OfferMoves ==
  ASSUME RouteInv, NEW m \in Mesh, Offer(m), TypeOK'
  PROVE  OnRoute' /\ \A g \in Flow : ChanStep(g)
  <1>1. TypeOK /\ EndOK(m) BY DEF RouteInv, SquareInv
  <1>2. PICK f \in Flow : LET n == offered[f] + 1
                          IN  /\ f[1] = m /\ n <= MaxPkts
                              /\ ltx' = [ltx EXCEPT ![m] =
                                           [pkt |-> [flow |-> f, n |-> n, len |-> Lens[n]],
                                            left |-> Lens[n] + 1]]
                              /\ offered' = [offered EXCEPT ![f] = n]
    BY DEF Offer
  <1> DEFINE n == offered[f] + 1
             p == [flow |-> f, n |-> n, len |-> Lens[n]]
  <1>3. UNCHANGED <<demux, lmux, q, rx, incoming, got>> /\ ltx[m].pkt = NoPkt BY DEF Offer
  <1>4. OnRoute' BY <1>3 DEF RouteInv, OnRoute
  <1>5. p.flow = f /\ p.n = n OBVIOUS
  <1>6. ltx' = [ltx EXCEPT ![m] = [pkt |-> p, left |-> Lens[n] + 1]] BY <1>2
  <1>7. n \in Num
    <2>1. offered[f] \in 0 .. MaxPkts BY <1>1 DEF TypeOK
    <2>2. MaxPkts \in Nat BY SwitchAssumption DEF MaxPkts
    <2> QED BY <1>2, <2>1, <2>2 DEF Num
  <1> HIDE DEF n, p
  <1>8. ltx'[m].pkt = p /\ \A r \in Mesh : r # m => ltx'[r] = ltx[r]
    <2>1. ltx \in [Mesh -> [pkt : Packet \cup {NoPkt}, left : 0 .. MAX_BEATS]] BY <1>1 DEF TypeOK
    <2> QED BY <1>6, <2>1
  <1>9. p \in Packet
    <2>1. ltx' \in [Mesh -> [pkt : Packet \cup {NoPkt}, left : 0 .. MAX_BEATS]] BY DEF TypeOK
    <2>2. p \in Packet \cup {NoPkt} BY <1>8, <2>1
    <2> QED BY <1>5, <2>2, AtOf
  <1>10. demux[m] = "NONE"
    <2>1. ltx[m] = Idle
      <3>1. NoPkt \notin Packet BY PacketDst
      <3> QED BY <1>1, <1>3, <3>1 DEF EndOK
    <2> QED BY <1>1, <2>1 DEF EndOK
  <1>11. ASSUME NEW g \in Flow PROVE ChanStep(g)
    <2>1. /\ Delivering(g)' = Delivering(g) /\ LastQueued(g)' = LastQueued(g)
          /\ LastHeld(g)' = LastHeld(g) /\ FirstQueued(g)' = FirstQueued(g)
          /\ FirstHeld(g)' = FirstHeld(g)
      BY <1>3 DEF Delivering, LastQueued, LastHeld, FirstQueued, FirstHeld
    <2>2. got'[g] = got[g] BY <1>3
    <2>3. CASE g # f
      <3>1. Offering(g)' = Offering(g)
        <4>1. CASE g[1] # m
          <5>1. g[1] \in Mesh BY Way
          <5>2. ltx'[g[1]] = ltx[g[1]] BY <1>8, <4>1, <5>1
          <5> QED BY <1>3, <5>2 DEF Offering, LocalHdr
        <4>2. CASE g[1] = m
          <5>1. At(g, p) = <<>> BY <1>5, <1>9, <2>3, AtOf
          <5>2. Offering(g)' = <<>> BY <1>8, <4>2, <5>1 DEF Offering
          <5>3. Offering(g) = <<>> BY <1>3, <4>2 DEF Offering, LocalHdr
          <5> QED BY <5>2, <5>3
        <4> QED BY <4>1, <4>2
      <3>2. Chan(g)' = Chan(g) BY <2>1, <3>1, SameChan
      <3> QED BY <2>2, <3>2 DEF ChanStep, Kept
    <2>4. CASE g = f
      <3>1. Offering(f) = <<>> BY <1>2, <1>3 DEF Offering, LocalHdr
      <3>2. Offering(f)' = <<n>>
        <4>1. At(f, p) = <<n>> BY <1>5, <1>9, AtOf
        <4>2. LocalHdr(m)'
          <5>1. p # NoPkt BY <1>9, PacketDst
          <5> QED BY <1>3, <1>8, <1>10, <5>1 DEF LocalHdr
        <4> QED BY <1>2, <1>8, <4>1, <4>2 DEF Offering
      <3> DEFINE a == Delivering(f)
                 b == LastQueued(f)
                 c == LastHeld(f)
                 d == FirstQueued(f)
                 e == FirstHeld(f)
      <3>3. a \in Seq(Num) /\ b \in Seq(Num) /\ c \in Seq(Num) /\ d \in Seq(Num) /\ e \in Seq(Num)
        BY <1>1, PartTypes
      <3>4. Chan(f) = Six(a, b, c, d, e, <<>>) BY <3>1, Zenon DEF Chan
      <3>5. Chan(f)' = Six(a, b, c, d, e, <<n>>) BY <2>1, <2>4, <3>2, Zenon DEF Chan, Six
      <3> HIDE DEF a, b, c, d, e
      <3>6. Six(a, b, c, d, e, <<n>>) = With(Six(a, b, c, d, e, <<>>), n)
        BY <1>7, <3>3, SixEnter
      <3>7. Chan(f)' = With(Chan(f), n) BY <3>4, <3>5, <3>6, Zenon
      <3> QED BY <1>7, <2>2, <2>4, <3>7 DEF ChanStep, Accepts
    <2> QED BY <2>3, <2>4
  <1> QED BY <1>4, <1>11

(* Its header enters the slot of its lane: the first slot of its flow.     *)
LEMMA SendHdrMoves ==
  ASSUME RouteInv, NEW m \in Mesh, SendHdr(m)
  PROVE  OnRoute' /\ \A g \in Flow : ChanStep(g)
  <1>1. TypeOK /\ EndOK(m) /\ OnRoute BY DEF RouteInv, SquareInv
  <1>0. PICK p \in Packet : p = ltx[m].pkt /\ p.flow[1] = m
    <2>1. LocalHdr(m) BY DEF SendHdr
    <2>2. ltx[m].pkt # NoPkt BY <2>1 DEF LocalHdr
    <2> QED BY <1>1, <2>2 DEF EndOK, Idle
  <1> DEFINE f == p.flow
             out == Egress(m, Dst(p))
             k == LaneOf(m, out)
  <1>2. /\ LocalHdr(m) /\ q[k] = NoPkt
        /\ demux' = [demux EXCEPT ![m] = out] /\ q' = [q EXCEPT ![k] = p]
        /\ UNCHANGED <<ltx, lmux, rx, incoming, got>>
    BY <1>0 DEF SendHdr
  <1>3. p \in Packet /\ f[1] = m BY <1>0
  <1>4. f \in Flow /\ f[2] = Dst(p) /\ p.n \in Num BY <1>3 DEF Packet, Dst, Num
  <1>5. out \in {"X0", "X1", "Y"} BY DEF Egress
  <1>6. k \in Lane BY <1>5, Lanes DEF LaneOf
  <1>7. demux'[m] = out /\ \A r \in Mesh : r # m => demux'[r] = demux[r]
    <2>1. demux \in [Mesh -> {"NONE", "X0", "X1", "Y"}] BY <1>1 DEF TypeOK
    <2> QED BY <1>2, <2>1
  <1>8. /\ TwoLinks(f) => k = FirstSlot(f)
        /\ ~TwoLinks(f) => k = LastSlot(f)
    <2>1. TwoLinks(f) => out = "X1" BY <1>3, <1>4, Way
    <2>2. LaneOf(m, "X1") = <<m, 0, 1>> BY DEF LaneOf
    <2>3. TwoLinks(f) => k = <<m, 0, 1>> BY <2>1, <2>2
    <2>4. FirstSlot(f) = <<m, 0, 1>> BY <1>3 DEF FirstSlot
    <2>5. ~TwoLinks(f) => k = LastSlot(f) BY <1>3, <1>4, Way
    <2> QED BY <2>3, <2>4, <2>5
  <1> HIDE DEF f, k, out
  <1>9. q'[k] = p /\ \A j \in Lane : j # k => q'[j] = q[j] BY <1>1, <1>2, <1>6, QExcept
  <1>10. OnRoute'
    <2>1. \A j \in Lane : q'[j] # NoPkt =>
            j = LastSlot(q'[j].flow) \/ (TwoLinks(q'[j].flow) /\ j = FirstSlot(q'[j].flow))
      <3> TAKE j \in Lane
      <3>1. CASE j = k
        <4>1. q'[j].flow = f BY <1>9, <3>1 DEF f
        <4> QED BY <1>8, <3>1, <4>1
      <3>2. CASE j # k
        <4>1. q'[j] = q[j] BY <1>9, <3>2
        <4> QED BY <1>1, <4>1 DEF OnRoute
      <3> QED BY <3>1, <3>2
    <2>2. /\ \A r \in Mesh : incoming'[r] # NoPkt => lmux'[r] # "NONE" /\ Dst(incoming'[r]) = r
          /\ \A j \in Lane : \A i \in DOMAIN rx'[j] : rx'[j][i].hdr =>
               LET h == rx'[j][i].pkt.flow
               IN  j = LastQueue(h) \/ (TwoLinks(h) /\ j = FirstQueue(h))
      BY <1>1, <1>2 DEF OnRoute
    <2> QED BY <2>1, <2>2 DEF OnRoute
  <1>11. ASSUME NEW g \in Flow PROVE ChanStep(g)
    <2>1. /\ Delivering(g)' = Delivering(g) /\ LastQueued(g)' = LastQueued(g)
          /\ FirstQueued(g)' = FirstQueued(g) /\ got'[g] = got[g]
      BY <1>2 DEF Delivering, LastQueued, FirstQueued
    <2>2. CASE g # f
      <3>1. At(g, p) = <<>> /\ At(g, NoPkt) = <<>> BY <1>3, <2>2, AtOf DEF f
      <3>2. \A j \in Lane : At(g, q'[j]) = At(g, q[j]) BY <1>1, <1>2, <1>6, <3>1, QExcept
      <3>3. LastHeld(g)' = LastHeld(g) /\ FirstHeld(g)' = FirstHeld(g) BY <3>2, SameSlots
      <3>4. Offering(g)' = Offering(g)
        <4>1. CASE g[1] # m
          <5>1. g[1] \in Mesh BY Way
          <5>2. demux'[g[1]] = demux[g[1]] BY <1>7, <4>1, <5>1
          <5> QED BY <1>2, <5>2 DEF Offering, LocalHdr
        <4>2. CASE g[1] = m
          <5>1. At(g, ltx[m].pkt) = <<>> BY <1>0, <3>1
          <5>2. Offering(g) = <<>> BY <4>2, <5>1 DEF Offering
          <5>3. Offering(g)' = <<>> BY <1>2, <4>2, <5>1 DEF Offering
          <5> QED BY <5>2, <5>3
        <4> QED BY <4>1, <4>2
      <3>5. Chan(g)' = Chan(g) BY <2>1, <3>3, <3>4, SameChan
      <3> QED BY <2>1, <3>5 DEF ChanStep, Kept
    <2>3. CASE g = f
      <3> DEFINE n == p.n
                 a == Delivering(f)
                 b == LastQueued(f)
                 c == LastHeld(f)
                 d == FirstQueued(f)
                 e == FirstHeld(f)
      <3>1. a \in Seq(Num) /\ b \in Seq(Num) /\ c \in Seq(Num) /\ d \in Seq(Num) /\ e \in Seq(Num)
        BY <1>1, <1>4, PartTypes
      <3>2. At(f, p) = <<n>> /\ At(f, NoPkt) = <<>> BY <1>3, <1>4, AtOf DEF f
      <3>3. Offering(f) = <<n>> BY <1>0, <1>2, <1>3, <3>2 DEF Offering
      <3>4. Offering(f)' = <<>>
        <4>1. ~LocalHdr(m)' BY <1>5, <1>7 DEF LocalHdr
        <4> QED BY <1>3, <4>1 DEF Offering
      <3>5. Chan(f) = Six(a, b, c, d, e, <<n>>) BY <3>3, Zenon DEF Chan
      <3>6. LastSlot(f) \in Lane /\ FirstSlot(f) \in Lane BY <1>4, Way
      <3>7. CASE TwoLinks(f)
        <4>1. k = FirstSlot(f) /\ k # LastSlot(f)
          <5>1. LastSlot(f)[3] = 0 BY <1>4, Way
          <5>2. FirstSlot(f)[3] = 1 BY DEF FirstSlot
          <5> QED BY <1>8, <3>7, <5>1, <5>2
        <4>2. LastHeld(f)' = c
          <5>1. q'[LastSlot(f)] = q[LastSlot(f)] BY <1>9, <3>6, <4>1
          <5> QED BY <5>1 DEF LastHeld
        <4>3. FirstHeld(f)' = <<n>> BY <1>9, <3>2, <3>7, <4>1 DEF FirstHeld
        <4>4. e = <<>> BY <1>2, <3>2, <3>7, <4>1 DEF FirstHeld
        <4>5. Chan(f)' = Six(a, b, c, d, <<n>>, <<>>)
          BY <2>1, <2>3, <3>4, <4>2, <4>3, Zenon DEF Chan, Six
        <4>6. n \in Num BY <1>4
        <4>7. Chan(f) = Six(a, b, c, d, <<>>, <<n>>) BY <3>5, <4>4, Zenon
        <4> HIDE DEF a, b, c, d, e, n
        <4>8. Six(a, b, c, d, <<>>, <<n>>) = Six(a, b, c, d, <<n>>, <<>>)
          BY <3>1, <4>6, SixOffered, SMTT(40)
        <4>9. Chan(f)' = Chan(f) BY <4>5, <4>7, <4>8, Zenon
        <4> QED BY <2>1, <2>3, <4>9 DEF ChanStep, Kept
      <3>8. CASE ~TwoLinks(f)
        <4>1. k = LastSlot(f) BY <1>8, <3>8
        <4>2. LastHeld(f)' = <<n>> BY <1>9, <3>2, <4>1 DEF LastHeld
        <4>3. c = <<>> BY <1>2, <3>2, <4>1 DEF LastHeld
        <4>4. d = <<>> /\ e = <<>> /\ FirstHeld(f)' = <<>> BY <3>8 DEF FirstQueued, FirstHeld
        <4>5. Chan(f)' = Six(a, b, <<n>>, <<>>, <<>>, <<>>)
          BY <2>1, <2>3, <3>4, <4>2, <4>4, Zenon DEF Chan, Six
        <4> HIDE DEF a, b, c, d, e, n
        <4>6. <<n>> \in Seq(Num) /\ <<>> \in Seq(Num) BY <1>4, WithLast DEF n
        <4>7. Cat(<<>>, <<n>>) = <<n>> /\ Cat(<<n>>, <<>>) = <<n>> /\ Cat(<<>>, <<>>) = <<>>
          BY <4>6, CatLaws
        <4>8. Six(a, b, <<>>, <<>>, <<>>, <<n>>) = Six(a, b, <<n>>, <<>>, <<>>, <<>>)
          BY <4>7, Zenon DEF Six
        <4>9. Chan(f)' = Chan(f) BY <3>5, <4>3, <4>4, <4>5, <4>8, Zenon
        <4> QED BY <2>1, <2>3, <4>9 DEF ChanStep, Kept
      <3> QED BY <3>7, <3>8
    <2> QED BY <2>2, <2>3
  <1> QED BY <1>10, <1>11

(* A step that moves beats only, and leaves the endpoint's header alone.   *)
LEMMA BeatsMove ==
  ASSUME RouteInv, NEW m \in Mesh,
         UNCHANGED <<lmux, q, incoming, got>>,
         \A r \in Mesh : r # m => ltx'[r] = ltx[r] /\ demux'[r] = demux[r],
         LocalHdr(m)' = LocalHdr(m), LocalHdr(m) => ltx'[m] = ltx[m],
         \A g \in Flow, k \in Lane : Filed(g, rx'[k]) = Filed(g, rx[k]),
         \A k \in Lane : \A i \in DOMAIN rx'[k] : rx'[k][i].hdr =>
            \E j \in DOMAIN rx[k] : rx[k][j] = rx'[k][i]
  PROVE  OnRoute' /\ \A g \in Flow : ChanStep(g)
  <1>1. TypeOK /\ OnRoute BY DEF RouteInv, SquareInv
  <1>2. OnRoute'
    <2>1. ASSUME NEW k \in Lane, NEW i \in DOMAIN rx'[k], rx'[k][i].hdr
          PROVE  LET h == rx'[k][i].pkt.flow
                 IN  k = LastQueue(h) \/ (TwoLinks(h) /\ k = FirstQueue(h))
      <3>1. PICK j \in DOMAIN rx[k] : rx[k][j] = rx'[k][i] BY <2>1
      <3>2. rx[k][j].hdr BY <2>1, <3>1
      <3>3. LET h == rx[k][j].pkt.flow
            IN  k = LastQueue(h) \/ (TwoLinks(h) /\ k = FirstQueue(h))
        BY <1>1, <2>1, <3>2 DEF OnRoute
      <3> QED BY <3>1, <3>3
    <2>2. /\ \A r \in Mesh : incoming'[r] # NoPkt => lmux'[r] # "NONE" /\ Dst(incoming'[r]) = r
          /\ \A j \in Lane : q'[j] # NoPkt =>
               LET h == q'[j].flow IN j = LastSlot(h) \/ (TwoLinks(h) /\ j = FirstSlot(h))
      BY <1>1 DEF OnRoute
    <2> QED BY <2>1, <2>2 DEF OnRoute
  <1>3. ASSUME NEW g \in Flow PROVE ChanStep(g)
    <2>1. Delivering(g)' = Delivering(g) /\ LastHeld(g)' = LastHeld(g) /\ FirstHeld(g)' = FirstHeld(g)
      BY DEF Delivering, LastHeld, FirstHeld
    <2>2. LastQueued(g)' = LastQueued(g) /\ FirstQueued(g)' = FirstQueued(g) BY SameQueues
    <2>3. Offering(g)' = Offering(g)
      <3>1. CASE g[1] # m
        <4>1. g[1] \in Mesh BY Way
        <4>2. ltx'[g[1]] = ltx[g[1]] /\ demux'[g[1]] = demux[g[1]] BY <3>1, <4>1
        <4> QED BY <4>2 DEF Offering, LocalHdr
      <3>2. CASE g[1] = m BY <3>2 DEF Offering
      <3> QED BY <3>1, <3>2
    <2>4. Chan(g)' = Chan(g) BY <2>1, <2>2, <2>3, SameChan
    <2> QED BY <2>4 DEF ChanStep, Kept
  <1> QED BY <1>2, <1>3

(* A beat that arrives brings no header.                                   *)
LEMMA HdrsAfter ==
  ASSUME NEW s \in Seq(Item), NEW x \in Item
  PROVE  /\ \A i \in DOMAIN Append(s, x) : Append(s, x)[i] = x \/ \E j \in DOMAIN s : s[j] = Append(s, x)[i]
         /\ s # <<>> => \A i \in DOMAIN Tail(s) : \E j \in DOMAIN s : s[j] = Tail(s)[i]
  <1>1. Len(s) \in Nat /\ DOMAIN s = 1 .. Len(s) BY LenProperties
  <1>2. \A i \in DOMAIN Append(s, x) : Append(s, x)[i] = x \/ \E j \in DOMAIN s : s[j] = Append(s, x)[i]
    <2>1. /\ Append(s, x) \in Seq(Item) /\ Len(Append(s, x)) = Len(s) + 1
          /\ Append(s, x)[Len(s) + 1] = x /\ \A i \in 1 .. Len(s) : Append(s, x)[i] = s[i]
      BY AppendProperties
    <2>2. DOMAIN Append(s, x) = 1 .. Len(s) + 1 BY <2>1, LenProperties
    <2> QED BY <1>1, <2>1, <2>2
  <1>3. s # <<>> => \A i \in DOMAIN Tail(s) : \E j \in DOMAIN s : s[j] = Tail(s)[i]
    <2> SUFFICES ASSUME s # <<>> PROVE \A i \in DOMAIN Tail(s) : \E j \in DOMAIN s : s[j] = Tail(s)[i]
      OBVIOUS
    <2>1. /\ Tail(s) \in Seq(Item) /\ Len(Tail(s)) = Len(s) - 1
          /\ \A i \in 1 .. Len(Tail(s)) : Tail(s)[i] = s[i + 1]
      BY HeadTailProperties
    <2>2. DOMAIN Tail(s) = 1 .. Len(Tail(s)) BY <2>1, LenProperties
    <2>3. \A i \in DOMAIN Tail(s) : i + 1 \in DOMAIN s BY <1>1, <2>1, <2>2
    <2> QED BY <2>1, <2>2, <2>3
  <1> QED BY <1>2, <1>3

(* A beat on its way to the mesh beside carries no header.                 *)
LEMMA SendBeatMoves ==
  ASSUME RouteInv, NEW m \in Mesh, SendBeat(m)
  PROVE  OnRoute' /\ \A g \in Flow : ChanStep(g)
  <1> DEFINE p == ltx[m].pkt
             l == IF demux[m] = "Y" THEN 1 ELSE 0
             last == ltx[m].left = 1
             k == FarLane(m, l, p)
             x == Beat(p, ltx[m].left - 1)
  <1>1. TypeOK BY DEF RouteInv, SquareInv
  <1>2. /\ demux[m] # "NONE"
        /\ rx' = [rx EXCEPT ![k] = Append(rx[k], x)]
        /\ ltx' = [ltx EXCEPT ![m] = IF last THEN Idle ELSE [pkt |-> p, left |-> @.left - 1]]
        /\ demux' = IF last THEN [demux EXCEPT ![m] = "NONE"] ELSE demux
        /\ UNCHANGED <<lmux, q, incoming, got>>
    BY DEF SendBeat, LocalSends
  <1>3. p \in Packet /\ ltx[m].left \in 1 .. p.len + 1 BY <1>2, EndOf DEF RouteInv
  <1>4. k \in Lane
    <2>1. Peer(m, l) \in Mesh BY Square
    <2>2. l \in LinkNo BY DEF LinkNo
    <2> QED BY <2>1, <2>2 DEF Lane, FarLane, Class
  <1>5. x \in Item /\ ~x.hdr
    <2>1. ltx[m].left - 1 \in 0 .. MAX_BEATS
      <3> DEFINE w == ltx[m].left
                 len == p.len
      <3>1. len \in 0 .. MAX_BEATS - 1 /\ w \in 1 .. len + 1 BY <1>3, PacketDst
      <3> HIDE DEF w, len
      <3>2. w - 1 \in 0 .. MAX_BEATS BY <3>1, SwitchAssumption, SMTT(40)
      <3> QED BY <3>2 DEF w
    <2> QED BY <1>3, <2>1, ItemTypes
  <1>6. rx[k] \in Seq(Item) BY <1>1, <1>4 DEF TypeOK
  <1>7. \A r \in Mesh : r # m => ltx'[r] = ltx[r] /\ demux'[r] = demux[r]
    <2>1. /\ ltx \in [Mesh -> [pkt : Packet \cup {NoPkt}, left : 0 .. MAX_BEATS]]
          /\ demux \in [Mesh -> {"NONE", "X0", "X1", "Y"}]
      BY <1>1 DEF TypeOK
    <2>2. \A r \in Mesh : r # m => ltx'[r] = ltx[r] BY <1>2, <2>1
    <2>3. \A r \in Mesh : r # m => demux'[r] = demux[r] BY <1>2, <2>1
    <2> QED BY <2>2, <2>3
  <1>8. ~LocalHdr(m) BY <1>2 DEF LocalHdr
  <1>9. ~LocalHdr(m)'
    <2>1. CASE last
      <3>1. ltx'[m] = Idle
        <4>1. ltx \in [Mesh -> [pkt : Packet \cup {NoPkt}, left : 0 .. MAX_BEATS]] BY <1>1 DEF TypeOK
        <4> QED BY <1>2, <2>1, <4>1
      <3> QED BY <3>1, IdleParts DEF LocalHdr
    <2>2. CASE ~last BY <1>2, <2>2 DEF LocalHdr
    <2> QED BY <2>1, <2>2
  <1> HIDE DEF k, x, p, l, last
  <1>10. ASSUME NEW g \in Flow, NEW j \in Lane PROVE Filed(g, rx'[j]) = Filed(g, rx[j])
    <2>1. Filed(g, Append(rx[k], x)) = Filed(g, rx[k]) BY <1>5, <1>6, FiledBeat
    <2> QED BY <1>1, <1>2, <1>4, <1>10, <2>1, RxExcept
  <1>11. ASSUME NEW j \in Lane, NEW i \in DOMAIN rx'[j], rx'[j][i].hdr
         PROVE  \E h \in DOMAIN rx[j] : rx[j][h] = rx'[j][i]
    <2>1. rx'[k] = Append(rx[k], x) /\ (j # k => rx'[j] = rx[j])
      BY <1>1, <1>2, <1>4, <1>11, RxExcept
    <2>2. CASE j = k
      <3>1. Append(rx[k], x)[i] = x \/ \E h \in DOMAIN rx[k] : rx[k][h] = Append(rx[k], x)[i]
        BY <1>5, <1>6, <1>11, <2>1, <2>2, HdrsAfter
      <3> QED BY <1>5, <1>11, <2>1, <2>2, <3>1
    <2>3. CASE j # k BY <1>11, <2>1, <2>3
    <2> QED BY <2>2, <2>3
  <1>12. LocalHdr(m)' = LocalHdr(m)
    <2>1. LocalHdr(m)' = FALSE /\ LocalHdr(m) = FALSE BY <1>8, <1>9 DEF LocalHdr
    <2> QED BY <2>1
  <1> QED BY <1>2, <1>7, <1>8, <1>10, <1>11, <1>12, BeatsMove, Zenon

(* Nor does one forwarded.                                                 *)
LEMMA ForwardBeatMoves ==
  ASSUME RouteInv, NEW m \in Mesh, ForwardBeat(m)
  PROVE  OnRoute' /\ \A g \in Flow : ChanStep(g)
  <1> DEFINE from == <<m, 0, 1>>
             b == Head(rx[from])
             to == FarLane(m, 1, b.pkt)
             s == rx[from]
             t == rx[to]
  <1>1. TypeOK BY DEF RouteInv, SquareInv
  <1>2. /\ rx' = [rx EXCEPT ![to] = Append(@, b), ![from] = Tail(@)]
        /\ rx[from] # <<>> /\ ~b.hdr
        /\ UNCHANGED <<ltx, demux, lmux, q, incoming, got>>
    BY DEF ForwardBeat, BeatAt
  <1>3. from \in Lane /\ to \in Lane /\ from # to
    <2>1. Peer(m, 1) \in Mesh BY Square
    <2> QED BY <2>1, Lanes DEF Lane, FarLane, Class, LinkNo
  <1>4. s \in Seq(Item) /\ t \in Seq(Item) /\ b \in Item
    <2>1. Head(rx[from]) \in Item BY <1>1, <1>2, <1>3, TailKept
    <2> QED BY <1>1, <1>3, <2>1 DEF TypeOK
  <1> HIDE DEF from, to, b
  <1>5. rx'[to] = Append(t, b) /\ rx'[from] = Tail(s)
        /\ \A j \in Lane : j # to /\ j # from => rx'[j] = rx[j]
    <2>1. rx \in [Lane -> Seq(Item)] BY <1>1 DEF TypeOK
    <2> QED BY <1>2, <1>3, <2>1
  <1>6. ASSUME NEW g \in Flow, NEW j \in Lane PROVE Filed(g, rx'[j]) = Filed(g, rx[j])
    <2>1. Filed(g, Append(t, b)) = Filed(g, t) BY <1>2, <1>4, FiledBeat
    <2>2. Filed(g, Tail(s)) = Filed(g, s)
      <3>1. s # <<>> /\ ~Head(s).hdr BY <1>2 DEF b
      <3> HIDE DEF s
      <3> QED BY <1>4, <3>1, FiledBeat
    <2> QED BY <1>5, <1>6, <2>1, <2>2, Zenon
  <1>7. ASSUME NEW j \in Lane, NEW i \in DOMAIN rx'[j], rx'[j][i].hdr
        PROVE  \E h \in DOMAIN rx[j] : rx[j][h] = rx'[j][i]
    <2>1. CASE j = to
      <3>1. Append(t, b)[i] = b \/ \E h \in DOMAIN t : t[h] = Append(t, b)[i]
        <4>1. i \in DOMAIN Append(t, b) BY <1>5, <1>7, <2>1
        <4> HIDE DEF t
        <4> QED BY <1>4, <4>1, HdrsAfter, ZenonT(40)
      <3>2. rx'[j] = Append(t, b) /\ rx[j] = t BY <1>5, <2>1, Zenon
      <3>3. Append(t, b)[i] # b BY <1>2, <1>7, <3>2, Zenon DEF b
      <3> QED BY <3>1, <3>2, <3>3, Zenon
    <2>2. CASE j = from
      <3>1. \E h \in DOMAIN s : s[h] = Tail(s)[i]
        <4>1. i \in DOMAIN Tail(s) /\ s # <<>> BY <1>2, <1>5, <1>7, <2>2
        <4> HIDE DEF s
        <4> QED BY <1>4, <4>1, HdrsAfter, ZenonT(40)
      <3> QED BY <1>5, <2>2, <3>1
    <2>3. CASE j # to /\ j # from BY <1>5, <1>7, <2>3
    <2> QED BY <2>1, <2>2, <2>3
  <1> HIDE DEF s, t
  <1>8. /\ \A r \in Mesh : r # m => ltx'[r] = ltx[r] /\ demux'[r] = demux[r]
        /\ LocalHdr(m)' = LocalHdr(m) /\ ltx'[m] = ltx[m]
    BY <1>2 DEF LocalHdr
  <1> QED BY <1>2, <1>6, <1>7, <1>8, BeatsMove, Zenon

(* A header in a queue, and its flow.                                      *)
LEMMA HdrOf ==
  ASSUME RouteInv, NEW k \in Lane, HdrAt(k)
  PROVE  /\ rx[k] \in Seq(Item) /\ rx[k] # <<>> /\ Head(rx[k]) = rx[k][1]
         /\ rx[k][1].hdr /\ rx[k][1].pkt \in Packet
         /\ LET f == rx[k][1].pkt.flow
            IN  f \in Flow /\ (k = LastQueue(f) \/ (TwoLinks(f) /\ k = FirstQueue(f)))
         /\ rx[k][1].pkt.n \in Num
         /\ \A g : Filed(g, rx[k]) = IF rx[k][1].pkt.flow = g
                                     THEN Cat(<<rx[k][1].pkt.n>>, Filed(g, Tail(rx[k])))
                                     ELSE Filed(g, Tail(rx[k]))
         /\ Tail(rx[k]) \in Seq(Item)
         /\ \A i \in DOMAIN Tail(rx[k]) : \E j \in DOMAIN rx[k] : rx[k][j] = Tail(rx[k])[i]
  <1>1. TypeOK /\ OnRoute BY DEF RouteInv, SquareInv
  <1>2. rx[k] \in Seq(Item) /\ rx[k] # <<>> /\ Head(rx[k]).hdr BY <1>1 DEF TypeOK, HdrAt
  <1> DEFINE s == rx[k]
  <1> HIDE DEF s
  <1>3. s \in Seq(Item) /\ s # <<>> /\ Head(s).hdr BY <1>2 DEF s
  <1>4. Head(s) = s[1] /\ Tail(s) \in Seq(Item) /\ 1 \in DOMAIN s
    <2>1. Head(s) = s[1] /\ Tail(s) \in Seq(Item) BY <1>3, HeadTailProperties
    <2>2. DOMAIN s = 1 .. Len(s) /\ Len(s) \in Nat /\ Len(s) # 0 BY <1>3, LenProperties, EmptySeq
    <2> QED BY <2>1, <2>2
  <1>5. s[1] \in Item BY <1>3, <1>4, ElementOfSeq, LenProperties
  <1>6. s[1].hdr /\ s[1].pkt \in Packet BY <1>3, <1>4, <1>5 DEF Item
  <1>7. s[1].pkt.flow \in Flow /\ s[1].pkt.n \in Num BY <1>6 DEF Packet, Num
  <1>8. LET f == s[1].pkt.flow IN k = LastQueue(f) \/ (TwoLinks(f) /\ k = FirstQueue(f))
    BY <1>1, <1>4, <1>6 DEF OnRoute, s
  <1>9. \A g : Filed(g, s) = IF s[1].pkt.flow = g THEN Cat(<<s[1].pkt.n>>, Filed(g, Tail(s)))
                                                  ELSE Filed(g, Tail(s))
    <2> TAKE g
    <2>1. Filed(g, s) = IF s[1].hdr /\ s[1].pkt.flow = g
                        THEN Cat(<<s[1].pkt.n>>, Filed(g, Tail(s))) ELSE Filed(g, Tail(s))
      BY <1>3, FiledTail
    <2> QED BY <1>6, <2>1, Zenon
  <1>10. \A i \in DOMAIN Tail(s) : \E j \in DOMAIN s : s[j] = Tail(s)[i]
    BY <1>3, <1>5, HdrsAfter
  <1> QED BY <1>3, <1>4, <1>6, <1>7, <1>8, <1>9, <1>10 DEF s

(* A header forwarded: from the first queue of its flow to its last slot.  *)
LEMMA ForwardHdrMoves ==
  ASSUME RouteInv, NEW m \in Mesh, ForwardHdr(m)
  PROVE  OnRoute' /\ \A g \in Flow : ChanStep(g)
  <1> DEFINE from == <<m, 0, 1>>
             to == <<m, 1, 0>>
             s == rx[from]
  <1>1. TypeOK /\ OnRoute BY DEF RouteInv, SquareInv
  <1>2. from \in Lane /\ to \in Lane /\ from # to
    <2>1. from \in Lane /\ to \in Lane BY Lanes
    <2>2. from[2] = 0 /\ to[2] = 1 OBVIOUS
    <2> QED BY <2>1, <2>2
  <1>3. HdrAt(from) BY DEF ForwardHdr
  <1>0. PICK p \in Packet : p = rx[from][1].pkt BY <1>2, <1>3, HdrOf
  <1> DEFINE f == p.flow
             n == p.n
  <1>4. /\ s \in Seq(Item) /\ Head(s) = s[1] /\ p \in Packet /\ f \in Flow /\ n \in Num
        /\ from = LastQueue(f) \/ (TwoLinks(f) /\ from = FirstQueue(f))
        /\ \A i \in DOMAIN Tail(s) : \E j \in DOMAIN s : s[j] = Tail(s)[i]
        /\ Tail(s) \in Seq(Item)
    BY <1>0, <1>2, <1>3, HdrOf
  <1>5. \A g : Filed(g, s) = IF f = g THEN Cat(<<n>>, Filed(g, Tail(s))) ELSE Filed(g, Tail(s))
    <2>1. \A g : Filed(g, rx[from]) = IF rx[from][1].pkt.flow = g
                                 THEN Cat(<<rx[from][1].pkt.n>>, Filed(g, Tail(rx[from])))
                                 ELSE Filed(g, Tail(rx[from]))
      BY <1>2, <1>3, HdrOf
    <2>2. rx[from][1].pkt.flow = f /\ rx[from][1].pkt.n = n BY <1>0
    <2> QED BY <2>1, <2>2, Zenon
  <1>6. /\ q[to] = NoPkt /\ q' = [q EXCEPT ![to] = p]
        /\ rx' = [rx EXCEPT ![from] = Tail(s)]
        /\ UNCHANGED <<ltx, demux, lmux, incoming, got>>
    BY <1>0, <1>4 DEF ForwardHdr
  <1>7. TwoLinks(f) /\ from = FirstQueue(f) /\ from # LastQueue(f) /\ LastSlot(f) = to
    <2>1. LastQueue(f)[3] = 0 /\ (TwoLinks(f) => LastSlot(f) = <<Via(f), 1, 0>>) BY <1>4, Way
    <2>2. from[3] = 1 OBVIOUS
    <2>3. from # LastQueue(f) BY <2>1, <2>2
    <2>4. TwoLinks(f) /\ from = FirstQueue(f) BY <1>4, <2>3
    <2>5. m = Via(f) BY <2>4 DEF FirstQueue
    <2> QED BY <2>1, <2>3, <2>4, <2>5
  <1>8. TwoLinks(f) => FirstSlot(f) # to
    <2>1. FirstSlot(f)[3] = 1 BY DEF FirstSlot
    <2> QED BY <2>1
  <1>9. f = p.flow /\ n = p.n OBVIOUS
  <1> HIDE DEF from, to, s, f, n
  <1>10. q'[to] = p /\ \A j \in Lane : j # to => q'[j] = q[j] BY <1>1, <1>2, <1>6, QExcept
  <1>11. rx'[from] = Tail(s) /\ \A j \in Lane : j # from => rx'[j] = rx[j]
    BY <1>1, <1>2, <1>6, RxExcept
  <1>12. OnRoute'
    <2>1. \A r \in Mesh : incoming'[r] # NoPkt => lmux'[r] # "NONE" /\ Dst(incoming'[r]) = r
      BY <1>1, <1>6 DEF OnRoute
    <2>2. ASSUME NEW j \in Lane, q'[j] # NoPkt
          PROVE  LET h == q'[j].flow IN j = LastSlot(h) \/ (TwoLinks(h) /\ j = FirstSlot(h))
      <3>1. CASE j = to BY <1>7, <1>9, <1>10, <3>1
      <3>2. CASE j # to
        <4>1. q'[j] = q[j] BY <1>10, <2>2, <3>2
        <4> QED BY <1>1, <2>2, <4>1 DEF OnRoute
      <3> QED BY <3>1, <3>2
    <2>3. ASSUME NEW j \in Lane, NEW i \in DOMAIN rx'[j], rx'[j][i].hdr
          PROVE  LET h == rx'[j][i].pkt.flow IN j = LastQueue(h) \/ (TwoLinks(h) /\ j = FirstQueue(h))
      <3>1. \E h \in DOMAIN rx[j] : rx[j][h] = rx'[j][i]
        <4>1. CASE j = from
          <5>1. i \in DOMAIN Tail(s) BY <1>11, <2>3, <4>1
          <5> QED BY <1>4, <1>11, <4>1, <5>1 DEF s
        <4>2. CASE j # from BY <1>11, <2>3, <4>2
        <4> QED BY <4>1, <4>2
      <3>2. PICK h \in DOMAIN rx[j] : rx[j][h] = rx'[j][i] BY <3>1
      <3> QED BY <1>1, <2>3, <3>2 DEF OnRoute
    <2> QED BY <2>1, <2>2, <2>3 DEF OnRoute
  <1>13. ASSUME NEW g \in Flow PROVE ChanStep(g)
    <2>1. Delivering(g)' = Delivering(g) /\ Offering(g)' = Offering(g) /\ got'[g] = got[g]
      BY <1>6 DEF Delivering, Offering, LocalHdr
    <2>2. CASE g # f
      <3>1. At(g, p) = <<>> /\ At(g, NoPkt) = <<>> BY <1>4, <1>9, <2>2, AtOf
      <3>2. \A j \in Lane : At(g, q'[j]) = At(g, q[j]) BY <1>1, <1>2, <1>6, <3>1, QExcept
      <3>3. LastHeld(g)' = LastHeld(g) /\ FirstHeld(g)' = FirstHeld(g) BY <3>2, SameSlots
      <3>4. Filed(g, Tail(s)) = Filed(g, rx[from]) BY <1>5, <2>2, Zenon DEF s
      <3>5. \A j \in Lane : Filed(g, rx'[j]) = Filed(g, rx[j])
        BY <1>1, <1>2, <1>6, <3>4, RxExcept
      <3>6. LastQueued(g)' = LastQueued(g) /\ FirstQueued(g)' = FirstQueued(g) BY <3>5, SameQueues
      <3>7. Chan(g)' = Chan(g) BY <2>1, <3>3, <3>6, SameChan
      <3> QED BY <2>1, <3>7 DEF ChanStep, Kept
    <2>3. CASE g = f
      <3> DEFINE a == Delivering(f)
                 b == LastQueued(f)
                 d == Filed(f, Tail(s))
                 e == FirstHeld(f)
                 o == Offering(f)
      <3>1. a \in Seq(Num) /\ b \in Seq(Num) /\ e \in Seq(Num) /\ o \in Seq(Num)
        BY <1>1, <1>4, PartTypes
      <3>2. d \in Seq(Num) BY <1>4, FiledOf
      <3>3. At(f, p) = <<n>> /\ At(f, NoPkt) = <<>> BY <1>4, <1>9, AtOf
      <3>4. LastQueue(f) \in Lane /\ FirstSlot(f) \in Lane BY <1>4, Way
      <3>5. LastQueued(f)' = b
        <4>1. rx'[LastQueue(f)] = rx[LastQueue(f)] BY <1>7, <1>11, <3>4
        <4> QED BY <4>1 DEF LastQueued
      <3>6. LastHeld(f) = <<>> BY <1>6, <1>7, <3>3 DEF LastHeld
      <3>7. LastHeld(f)' = <<n>> BY <1>7, <1>10, <3>3 DEF LastHeld
      <3>8. FirstQueued(f) = Cat(<<n>>, d)
        <4>1. FirstQueued(f) = Filed(f, s) BY <1>7, Zenon DEF FirstQueued, s
        <4> QED BY <1>5, <4>1, Zenon
      <3>9. FirstQueued(f)' = d BY <1>7, <1>11, Zenon DEF FirstQueued
      <3>10. FirstHeld(f)' = e
        <4>1. q'[FirstSlot(f)] = q[FirstSlot(f)] BY <1>7, <1>8, <1>10, <3>4
        <4> QED BY <4>1 DEF FirstHeld
      <3>11. Chan(f) = Six(a, b, <<>>, Cat(<<n>>, d), e, o) BY <3>6, <3>8, Zenon DEF Chan
      <3>12. Chan(f)' = Six(a, b, <<n>>, d, e, o)
        BY <2>1, <2>3, <3>5, <3>7, <3>9, <3>10, Zenon DEF Chan, Six
      <3> HIDE DEF a, b, d, e, o
      <3>13. Six(a, b, <<>>, Cat(<<n>>, d), e, o) = Six(a, b, <<n>>, d, e, o)
        BY <1>4, <3>1, <3>2, SixForwarded, SMTT(40)
      <3>14. Chan(f)' = Chan(f) BY <3>11, <3>12, <3>13, Zenon
      <3> QED BY <2>1, <2>3, <3>14 DEF ChanStep, Kept
    <2> QED BY <2>2, <2>3
  <1> QED BY <1>12, <1>13

(* A link is granted: the packet in the slot is filed at the far end.      *)
LEMMA GrantMoves ==
  ASSUME RouteInv, NEW m \in Mesh, NEW l \in LinkNo, NEW c \in Class, Grant(m, l, c)
  PROVE  OnRoute' /\ \A g \in Flow : ChanStep(g)
  <1> DEFINE k == <<m, l, c>>
  <1>1. TypeOK /\ OnRoute BY DEF RouteInv, SquareInv
  <1>0. PICK p \in Packet : p = q[k]
    <2>1. k \in Lane BY DEF Lane
    <2>2. q[k] # NoPkt BY DEF Grant, CanGrant, Fits
    <2> QED BY <1>1, <2>1, <2>2 DEF TypeOK
  <1> DEFINE f == p.flow
             n == p.n
             to == FarLane(m, l, p)
             s == rx[to]
             x == Header(p)
  <1>2. k \in Lane /\ to \in Lane
    <2>1. Peer(m, l) \in Mesh BY Square DEF LinkNo
    <2> QED BY <2>1 DEF Lane, FarLane, Class
  <1>3. /\ p # NoPkt /\ q' = [q EXCEPT ![k] = NoPkt]
        /\ rx' = [rx EXCEPT ![to] = Append(s, x)]
        /\ UNCHANGED <<ltx, demux, lmux, incoming, got>>
    BY <1>0 DEF Grant, CanGrant, Fits
  <1>4. p \in Packet OBVIOUS
  <1>5. f \in Flow /\ n \in Num /\ Dst(p) = f[2] BY <1>4 DEF Packet, Num, Dst
  <1>6. s \in Seq(Item) /\ x \in Item /\ x.hdr /\ x.pkt = p
    <2>1. s \in Seq(Item) BY <1>1, <1>2 DEF TypeOK
    <2>2. x \in Item /\ x.hdr /\ x.pkt = p BY <1>4, SwitchAssumption, ItemTypes
    <2> QED BY <2>1, <2>2
  <1>7. k = LastSlot(f) \/ (TwoLinks(f) /\ k = FirstSlot(f)) BY <1>0, <1>1, <1>2, <1>3 DEF OnRoute
  <1>8. k = LastSlot(f) => to = LastQueue(f)
    <2> SUFFICES ASSUME k = LastSlot(f) PROVE to = LastQueue(f) OBVIOUS
    <2>1. /\ Peer(LastSlot(f)[1], LastSlot(f)[2]) = f[2] /\ LastQueue(f) = <<f[2], LastSlot(f)[2], 0>>
      BY <1>5, Way
    <2>2. LastSlot(f)[1] = m /\ LastSlot(f)[2] = l OBVIOUS
    <2>3. Peer(m, l) = f[2] /\ LastQueue(f) = <<f[2], l, 0>> BY <2>1, <2>2
    <2> QED BY <1>5, <2>3 DEF FarLane
  <1>9. TwoLinks(f) /\ k = FirstSlot(f) => to = FirstQueue(f)
    <2> SUFFICES ASSUME TwoLinks(f), k = FirstSlot(f) PROVE to = FirstQueue(f) OBVIOUS
    <2>1. m = f[1] /\ l = 0 BY DEF FirstSlot
    <2>2. Peer(f[1], 0) # f[2] BY <1>5, Way
    <2> QED BY <1>5, <2>1, <2>2 DEF FarLane, FirstQueue, Via
  <1>10. /\ LastSlot(f) # FirstSlot(f) /\ LastQueue(f) # FirstQueue(f)
         /\ LastSlot(f) \in Lane /\ FirstSlot(f) \in Lane
         /\ LastQueue(f) \in Lane /\ FirstQueue(f) \in Lane
    <2>1. LastSlot(f)[3] = 0 /\ LastQueue(f)[3] = 0 BY <1>5, Way
    <2>2. FirstSlot(f)[3] = 1 /\ FirstQueue(f)[3] = 1 BY DEF FirstSlot, FirstQueue
    <2>3. LastSlot(f) # FirstSlot(f) /\ LastQueue(f) # FirstQueue(f) BY <2>1, <2>2
    <2> QED BY <1>5, <2>3, Way
  <1>11. f = p.flow /\ n = p.n /\ p = q[k] BY <1>0
  <1> HIDE DEF k, f, n, to, s, x
  <1>12. q'[k] = NoPkt /\ \A j \in Lane : j # k => q'[j] = q[j] BY <1>1, <1>2, <1>3, QExcept
  <1>13. rx'[to] = Append(s, x) /\ \A j \in Lane : j # to => rx'[j] = rx[j]
    BY <1>1, <1>2, <1>3, RxExcept
  <1>14. OnRoute'
    <2>1. \A r \in Mesh : incoming'[r] # NoPkt => lmux'[r] # "NONE" /\ Dst(incoming'[r]) = r
      BY <1>1, <1>3 DEF OnRoute
    <2>2. ASSUME NEW j \in Lane, q'[j] # NoPkt
          PROVE  LET h == q'[j].flow IN j = LastSlot(h) \/ (TwoLinks(h) /\ j = FirstSlot(h))
      <3>1. q'[j] = q[j] BY <1>12, <2>2
      <3> QED BY <1>1, <2>2, <3>1 DEF OnRoute
    <2>3. ASSUME NEW j \in Lane, NEW i \in DOMAIN rx'[j], rx'[j][i].hdr
          PROVE  LET h == rx'[j][i].pkt.flow IN j = LastQueue(h) \/ (TwoLinks(h) /\ j = FirstQueue(h))
      <3>1. CASE \E h \in DOMAIN rx[j] : rx[j][h] = rx'[j][i]
        <4>1. PICK h \in DOMAIN rx[j] : rx[j][h] = rx'[j][i] BY <3>1
        <4> QED BY <1>1, <2>3, <4>1 DEF OnRoute
      <3>2. CASE ~\E h \in DOMAIN rx[j] : rx[j][h] = rx'[j][i]
        <4>1. j = to BY <1>13, <2>3, <3>2
        <4>2. i \in DOMAIN Append(s, x) BY <1>13, <2>3, <4>1
        <4>3. rx'[j][i] = x BY <1>6, <1>13, <3>2, <4>1, <4>2, HdrsAfter DEF s
        <4>4. rx'[j][i].pkt.flow = f BY <1>6, <1>11, <4>3
        <4> QED BY <1>7, <1>8, <1>9, <4>1, <4>4
      <3> QED BY <3>1, <3>2
    <2> QED BY <2>1, <2>2, <2>3 DEF OnRoute
  <1>15. ASSUME NEW g \in Flow PROVE ChanStep(g)
    <2>1. Delivering(g)' = Delivering(g) /\ Offering(g)' = Offering(g) /\ got'[g] = got[g]
      BY <1>3 DEF Delivering, Offering, LocalHdr
    <2>2. Filed(g, Append(s, x)) = IF f = g THEN With(Filed(g, s), n) ELSE Filed(g, s)
      <3>1. Filed(g, Append(s, x)) = IF x.hdr /\ x.pkt.flow = g
                                     THEN With(Filed(g, s), x.pkt.n) ELSE Filed(g, s)
        BY <1>6, FiledAppend
      <3> QED BY <1>6, <1>11, <3>1, Zenon
    <2>3. CASE g # f
      <3>1. At(g, p) = <<>> /\ At(g, NoPkt) = <<>> BY <1>4, <1>11, <2>3, AtOf
      <3>2. At(g, NoPkt) = At(g, q[k]) BY <1>11, <3>1
      <3>3. \A j \in Lane : At(g, q'[j]) = At(g, q[j]) BY <1>1, <1>2, <1>3, <3>2, QExcept
      <3>4. LastHeld(g)' = LastHeld(g) /\ FirstHeld(g)' = FirstHeld(g) BY <3>3, SameSlots
      <3>5. Filed(g, Append(s, x)) = Filed(g, rx[to]) BY <2>2, <2>3, Zenon DEF s
      <3>6. \A j \in Lane : Filed(g, rx'[j]) = Filed(g, rx[j]) BY <1>1, <1>2, <1>3, <3>5, RxExcept
      <3>7. LastQueued(g)' = LastQueued(g) /\ FirstQueued(g)' = FirstQueued(g) BY <3>6, SameQueues
      <3>8. Chan(g)' = Chan(g) BY <2>1, <3>4, <3>7, SameChan
      <3> QED BY <2>1, <3>8 DEF ChanStep, Kept
    <2>4. CASE g = f
      <3> DEFINE a == Delivering(f)
                 b == LastQueued(f)
                 h == LastHeld(f)
                 d == FirstQueued(f)
                 e == FirstHeld(f)
                 o == Offering(f)
      <3>1. /\ a \in Seq(Num) /\ b \in Seq(Num) /\ h \in Seq(Num)
            /\ d \in Seq(Num) /\ e \in Seq(Num) /\ o \in Seq(Num)
        BY <1>1, <1>5, PartTypes
      <3>2. At(f, p) = <<n>> /\ At(f, NoPkt) = <<>> BY <1>4, <1>5, <1>11, AtOf
      <3>3. Filed(f, rx'[to]) = With(Filed(f, s), n) BY <1>13, <2>2, <2>4, Zenon
      <3>4. CASE k = LastSlot(f)
        <4>1. to = LastQueue(f) /\ to # FirstQueue(f) /\ k # FirstSlot(f) BY <1>8, <1>10, <3>4
        <4>2. LastHeld(f) = <<n>> BY <1>11, <3>2, <3>4 DEF LastHeld
        <4>3. LastHeld(f)' = <<>> BY <1>12, <3>2, <3>4 DEF LastHeld
        <4>4. LastQueued(f)' = With(b, n) BY <3>3, <4>1, Zenon DEF LastQueued, s
        <4>5. rx'[FirstQueue(f)] = rx[FirstQueue(f)] /\ q'[FirstSlot(f)] = q[FirstSlot(f)]
          BY <1>10, <1>12, <1>13, <4>1
        <4>6. FirstQueued(f)' = d BY <4>5, Zenon DEF FirstQueued
        <4>7. FirstHeld(f)' = e BY <4>5, Zenon DEF FirstHeld
        <4>8. Chan(f) = Six(a, b, <<n>>, d, e, o) BY <4>2, Zenon DEF Chan
        <4>9. Chan(f)' = Six(a, With(b, n), <<>>, d, e, o)
          BY <2>1, <2>4, <4>3, <4>4, <4>6, <4>7, Zenon DEF Chan, Six
        <4> HIDE DEF a, b, h, d, e, o
        <4>10. Six(a, b, <<n>>, d, e, o) = Six(a, With(b, n), <<>>, d, e, o)
          BY <1>5, <3>1, SixGrantedLast, SMTT(40)
        <4>11. Chan(f)' = Chan(f) BY <4>8, <4>9, <4>10, Zenon
        <4> QED BY <2>1, <2>4, <4>11 DEF ChanStep, Kept
      <3>5. CASE TwoLinks(f) /\ k = FirstSlot(f)
        <4>1. to = FirstQueue(f) /\ to # LastQueue(f) /\ k # LastSlot(f) BY <1>9, <1>10, <3>5
        <4>2. FirstHeld(f) = <<n>> BY <1>11, <3>2, <3>5 DEF FirstHeld
        <4>3. FirstHeld(f)' = <<>> BY <1>12, <3>2, <3>5 DEF FirstHeld
        <4>4. FirstQueued(f)' = With(d, n) BY <3>3, <3>5, <4>1, Zenon DEF FirstQueued, s
        <4>5. rx'[LastQueue(f)] = rx[LastQueue(f)] /\ q'[LastSlot(f)] = q[LastSlot(f)]
          BY <1>10, <1>12, <1>13, <4>1
        <4>6. LastQueued(f)' = b BY <4>5, Zenon DEF LastQueued
        <4>7. LastHeld(f)' = h BY <4>5, Zenon DEF LastHeld
        <4>8. Chan(f) = Six(a, b, h, d, <<n>>, o) BY <4>2, Zenon DEF Chan
        <4>9. Chan(f)' = Six(a, b, h, With(d, n), <<>>, o)
          BY <2>1, <2>4, <4>3, <4>4, <4>6, <4>7, Zenon DEF Chan, Six
        <4> HIDE DEF a, b, h, d, e, o
        <4>10. Six(a, b, h, d, <<n>>, o) = Six(a, b, h, With(d, n), <<>>, o)
          BY <1>5, <3>1, SixGrantedFirst, SMTT(40)
        <4>11. Chan(f)' = Chan(f) BY <4>8, <4>9, <4>10, Zenon
        <4> QED BY <2>1, <2>4, <4>11 DEF ChanStep, Kept
      <3> QED BY <1>7, <3>4, <3>5
    <2> QED BY <2>3, <2>4
  <1> QED BY <1>14, <1>15

(* An endpoint draws a header: the oldest of its flow that was filed.      *)
LEMMA TakeHdrMoves ==
  ASSUME RouteInv, NEW m \in Mesh, NEW t \in {"a", "b"}, TakeHdr(m, t)
  PROVE  OnRoute' /\ \A g \in Flow : ChanStep(g)
  <1> DEFINE k == Ingress(m, t)
             s == rx[k]
  <1>1. TypeOK /\ OnRoute BY DEF RouteInv, SquareInv
  <1>2. k \in Lane /\ k[1] = m /\ k[3] = 0 BY Lanes DEF Ingress
  <1>3. HdrAt(k) BY DEF TakeHdr
  <1>0. PICK p \in Packet : p = rx[k][1].pkt BY <1>2, <1>3, HdrOf
  <1> DEFINE f == p.flow
             n == p.n
  <1>4. /\ s \in Seq(Item) /\ Head(s) = s[1] /\ p \in Packet /\ f \in Flow /\ n \in Num
        /\ k = LastQueue(f) \/ (TwoLinks(f) /\ k = FirstQueue(f))
        /\ \A i \in DOMAIN Tail(s) : \E j \in DOMAIN s : s[j] = Tail(s)[i]
        /\ Tail(s) \in Seq(Item)
    BY <1>0, <1>2, <1>3, HdrOf
  <1>5. \A g : Filed(g, s) = IF f = g THEN Cat(<<n>>, Filed(g, Tail(s))) ELSE Filed(g, Tail(s))
    <2>1. \A g : Filed(g, rx[k]) = IF rx[k][1].pkt.flow = g
                                 THEN Cat(<<rx[k][1].pkt.n>>, Filed(g, Tail(rx[k])))
                                 ELSE Filed(g, Tail(rx[k]))
      BY <1>2, <1>3, HdrOf
    <2>2. rx[k][1].pkt.flow = f /\ rx[k][1].pkt.n = n BY <1>0
    <2> QED BY <2>1, <2>2, Zenon
  <1>6. /\ lmux[m] = "NONE" /\ lmux' = [lmux EXCEPT ![m] = t]
        /\ rx' = [rx EXCEPT ![k] = Tail(s)]
        /\ incoming' = [incoming EXCEPT ![m] = p]
        /\ UNCHANGED <<ltx, demux, q, got>>
    BY <1>0, <1>4 DEF TakeHdr, IdleMux
  <1>7. k = LastQueue(f) /\ k # FirstQueue(f) /\ f[2] = m
    <2>1. FirstQueue(f)[3] = 1 BY DEF FirstQueue
    <2>2. k # FirstQueue(f) BY <1>2, <2>1
    <2>3. LastQueue(f)[1] = f[2] BY <1>4, Way
    <2> QED BY <1>2, <1>4, <2>2, <2>3
  <1>8. f = p.flow /\ n = p.n /\ Dst(p) = f[2] BY DEF Dst
  <1> HIDE DEF k, s, f, n
  <1>9. incoming[m] = NoPkt BY <1>1, <1>6 DEF OnRoute
  <1>10. /\ incoming'[m] = p /\ \A r \in Mesh : r # m => incoming'[r] = incoming[r]
         /\ lmux'[m] = t /\ \A r \in Mesh : r # m => lmux'[r] = lmux[r]
    <2>1. incoming \in [Mesh -> Packet \cup {NoPkt}] BY <1>1 DEF TypeOK
    <2>2. lmux \in [Mesh -> {"NONE", "a", "b"}] BY <1>1 DEF TypeOK
    <2>3. incoming'[m] = p /\ \A r \in Mesh : r # m => incoming'[r] = incoming[r] BY <1>6, <2>1
    <2>4. lmux'[m] = t /\ \A r \in Mesh : r # m => lmux'[r] = lmux[r] BY <1>6, <2>2
    <2> QED BY <2>3, <2>4
  <1>11. rx'[k] = Tail(s) /\ \A j \in Lane : j # k => rx'[j] = rx[j] BY <1>1, <1>2, <1>6, RxExcept
  <1>12. OnRoute'
    <2>1. ASSUME NEW r \in Mesh, incoming'[r] # NoPkt
          PROVE  lmux'[r] # "NONE" /\ Dst(incoming'[r]) = r
      <3>1. CASE r = m BY <1>7, <1>8, <1>10, <3>1
      <3>2. CASE r # m BY <1>1, <1>10, <2>1, <3>2 DEF OnRoute
      <3> QED BY <3>1, <3>2
    <2>2. \A j \in Lane : q'[j] # NoPkt =>
            LET h == q'[j].flow IN j = LastSlot(h) \/ (TwoLinks(h) /\ j = FirstSlot(h))
      BY <1>1, <1>6 DEF OnRoute
    <2>3. ASSUME NEW j \in Lane, NEW i \in DOMAIN rx'[j], rx'[j][i].hdr
          PROVE  LET h == rx'[j][i].pkt.flow IN j = LastQueue(h) \/ (TwoLinks(h) /\ j = FirstQueue(h))
      <3>1. \E h \in DOMAIN rx[j] : rx[j][h] = rx'[j][i]
        <4>1. CASE j = k
          <5>1. i \in DOMAIN Tail(s) BY <1>11, <2>3, <4>1
          <5> QED BY <1>4, <1>11, <4>1, <5>1 DEF s
        <4>2. CASE j # k BY <1>11, <2>3, <4>2
        <4> QED BY <4>1, <4>2
      <3>2. PICK h \in DOMAIN rx[j] : rx[j][h] = rx'[j][i] BY <3>1
      <3> QED BY <1>1, <2>3, <3>2 DEF OnRoute
    <2> QED BY <2>1, <2>2, <2>3 DEF OnRoute
  <1>13. ASSUME NEW g \in Flow PROVE ChanStep(g)
    <2>1. /\ LastHeld(g)' = LastHeld(g) /\ FirstHeld(g)' = FirstHeld(g)
          /\ Offering(g)' = Offering(g) /\ got'[g] = got[g]
      BY <1>6 DEF LastHeld, FirstHeld, Offering, LocalHdr
    <2>2. CASE g # f
      <3>1. At(g, p) = <<>> /\ At(g, NoPkt) = <<>> BY <1>4, <1>8, <2>2, AtOf
      <3>2. Delivering(g)' = Delivering(g)
        <4>1. g[2] \in Mesh BY Way
        <4>2. CASE g[2] = m BY <1>9, <1>10, <3>1, <4>2 DEF Delivering
        <4>3. CASE g[2] # m BY <1>10, <4>1, <4>3 DEF Delivering
        <4> QED BY <4>2, <4>3
      <3>3. Filed(g, Tail(s)) = Filed(g, rx[k]) BY <1>5, <2>2, Zenon DEF s
      <3>4. \A j \in Lane : Filed(g, rx'[j]) = Filed(g, rx[j]) BY <1>1, <1>2, <1>6, <3>3, RxExcept
      <3>5. LastQueued(g)' = LastQueued(g) /\ FirstQueued(g)' = FirstQueued(g) BY <3>4, SameQueues
      <3>6. Chan(g)' = Chan(g) BY <2>1, <3>2, <3>5, SameChan
      <3> QED BY <2>1, <3>6 DEF ChanStep, Kept
    <2>3. CASE g = f
      <3> DEFINE b == Filed(f, Tail(s))
                 c == LastHeld(f)
                 d == FirstQueued(f)
                 e == FirstHeld(f)
                 o == Offering(f)
      <3>1. c \in Seq(Num) /\ d \in Seq(Num) /\ e \in Seq(Num) /\ o \in Seq(Num)
        BY <1>1, <1>4, PartTypes
      <3>2. b \in Seq(Num) BY <1>4, FiledOf
      <3>3. At(f, p) = <<n>> /\ At(f, NoPkt) = <<>> BY <1>4, <1>8, AtOf
      <3>4. Delivering(f) = <<>> BY <1>7, <1>9, <3>3 DEF Delivering
      <3>5. Delivering(f)' = <<n>> BY <1>7, <1>10, <3>3 DEF Delivering
      <3>6. LastQueued(f) = Cat(<<n>>, b)
        <4>1. LastQueued(f) = Filed(f, s) BY <1>7, Zenon DEF LastQueued, s
        <4> QED BY <1>5, <4>1, Zenon
      <3>7. LastQueued(f)' = b BY <1>7, <1>11, Zenon DEF LastQueued
      <3>8. FirstQueued(f)' = d
        <4>1. FirstQueue(f) \in Lane BY <1>4, Way
        <4>2. rx'[FirstQueue(f)] = rx[FirstQueue(f)] BY <1>7, <1>11, <4>1
        <4> QED BY <4>2, Zenon DEF FirstQueued
      <3>9. Chan(f) = Six(<<>>, Cat(<<n>>, b), c, d, e, o) BY <3>4, <3>6, Zenon DEF Chan
      <3>10. Chan(f)' = Six(<<n>>, b, c, d, e, o)
        BY <2>1, <2>3, <3>5, <3>7, <3>8, Zenon DEF Chan, Six
      <3> HIDE DEF b, c, d, e, o
      <3>12. Six(<<>>, Cat(<<n>>, b), c, d, e, o) = Six(<<n>>, b, c, d, e, o)
        BY <1>4, <3>1, <3>2, SixTaken, SMTT(40)
      <3>14. Chan(f)' = Chan(f) BY <3>9, <3>10, <3>12, Zenon
      <3> QED BY <2>1, <2>3, <3>14 DEF ChanStep, Kept
    <2> QED BY <2>2, <2>3
  <1> QED BY <1>12, <1>13

(* An endpoint draws a beat: with the last one its packet is delivered.    *)
LEMMA TakeBeatMoves ==
  ASSUME RouteInv, NEW m \in Mesh, NEW t \in {"a", "b"}, TakeBeat(m, t)
  PROVE  OnRoute' /\ \A g \in Flow : ChanStep(g)
  <1> DEFINE k == Ingress(m, t)
             s == rx[k]
             b == Head(rx[k])
  <1>1. TypeOK /\ OnRoute BY DEF RouteInv, SquareInv
  <1>2. k \in Lane /\ k[1] = m /\ k[3] = 0 BY Lanes DEF Ingress
  <1>0. PICK p \in Packet : p = b.pkt
    <2>1. rx[k] # <<>> BY DEF TakeBeat, BeatAt
    <2> QED BY <1>1, <1>2, <2>1, TailKept
  <1> DEFINE f == p.flow
             n == p.n
  <1>3. /\ lmux[m] = t /\ s # <<>> /\ ~b.hdr
        /\ rx' = [rx EXCEPT ![k] = Tail(s)]
        /\ lmux' = IF b.left = 0 THEN [lmux EXCEPT ![m] = "NONE"] ELSE lmux
        /\ incoming' = IF b.left = 0 THEN [incoming EXCEPT ![m] = NoPkt] ELSE incoming
        /\ got' = IF b.left = 0 /\ Dst(p) = m THEN [got EXCEPT ![f] = @ + 1] ELSE got
        /\ UNCHANGED <<ltx, demux, q>>
    BY <1>0 DEF TakeBeat, BeatAt
  <1>4. s \in Seq(Item) /\ p \in Packet BY <1>1, <1>2 DEF TypeOK
  <1>5. incoming[m] = p
    <2>1. StreamsWhole BY SquareWhole DEF RouteInv, PacketsWhole
    <2>2. BeatAt(k) => Head(rx[k]).pkt = Passing(k) BY <1>2, <2>1 DEF StreamsWhole
    <2>3. BeatAt(k) BY <1>3 DEF BeatAt
    <2>4. Passing(k) = incoming[m] BY <1>2 DEF Passing
    <2> QED BY <1>0, <2>2, <2>3, <2>4
  <1>6. f \in Flow /\ n \in Num /\ Dst(p) = f[2] /\ f[2] = m
    <2>1. p # NoPkt BY <1>4, PacketDst
    <2>2. Dst(p) = m BY <1>1, <1>5, <2>1 DEF OnRoute
    <2> QED BY <1>4, <2>2 DEF Packet, Num, Dst
  <1>7. f = p.flow /\ n = p.n OBVIOUS
  <1>8. \A g : Filed(g, Tail(s)) = Filed(g, s)
    <2> TAKE g
    <2>1. s # <<>> /\ ~Head(s).hdr BY <1>3
    <2> HIDE DEF s
    <2> QED BY <1>4, <2>1, FiledBeat
  <1>9. \A i \in DOMAIN Tail(s) : \E j \in DOMAIN s : s[j] = Tail(s)[i]
    <2>1. b \in Item BY <1>1, <1>2, <1>3, TailKept
    <2>2. s # <<>> BY <1>3
    <2> HIDE DEF s, b
    <2> QED BY <1>4, <2>1, <2>2, HdrsAfter
  <1> DEFINE last == b.left = 0
  <1>10. /\ last => incoming' = [incoming EXCEPT ![m] = NoPkt] /\ lmux' = [lmux EXCEPT ![m] = "NONE"]
                    /\ got' = [got EXCEPT ![f] = @ + 1]
         /\ ~last => incoming' = incoming /\ lmux' = lmux /\ got' = got
    BY <1>3, <1>6
  <1> HIDE DEF k, s, b, f, n, last
  <1>11. /\ last => incoming'[m] = NoPkt
         /\ \A r \in Mesh : r # m => incoming'[r] = incoming[r] /\ lmux'[r] = lmux[r]
    <2>1. incoming \in [Mesh -> Packet \cup {NoPkt}] BY <1>1 DEF TypeOK
    <2>2. lmux \in [Mesh -> {"NONE", "a", "b"}] BY <1>1 DEF TypeOK
    <2>3. \A r \in Mesh : r # m => incoming'[r] = incoming[r] BY <1>10, <2>1
    <2>4. \A r \in Mesh : r # m => lmux'[r] = lmux[r] BY <1>10, <2>2
    <2>5. last => incoming'[m] = NoPkt BY <1>10, <2>1
    <2> QED BY <2>3, <2>4, <2>5
  <1>12. rx'[k] = Tail(s) /\ \A j \in Lane : j # k => rx'[j] = rx[j] BY <1>1, <1>2, <1>3, RxExcept
  <1>13. OnRoute'
    <2>1. ASSUME NEW r \in Mesh, incoming'[r] # NoPkt
          PROVE  lmux'[r] # "NONE" /\ Dst(incoming'[r]) = r
      <3>1. CASE r = m
        <4>1. ~last BY <1>11, <2>1, <3>1
        <4>2. incoming' = incoming /\ lmux' = lmux BY <1>10, <4>1
        <4> QED BY <1>1, <2>1, <4>2 DEF OnRoute
      <3>2. CASE r # m BY <1>1, <1>11, <2>1, <3>2 DEF OnRoute
      <3> QED BY <3>1, <3>2
    <2>2. \A j \in Lane : q'[j] # NoPkt =>
            LET h == q'[j].flow IN j = LastSlot(h) \/ (TwoLinks(h) /\ j = FirstSlot(h))
      BY <1>1, <1>3 DEF OnRoute
    <2>3. ASSUME NEW j \in Lane, NEW i \in DOMAIN rx'[j], rx'[j][i].hdr
          PROVE  LET h == rx'[j][i].pkt.flow IN j = LastQueue(h) \/ (TwoLinks(h) /\ j = FirstQueue(h))
      <3>1. \E h \in DOMAIN rx[j] : rx[j][h] = rx'[j][i]
        <4>1. CASE j = k
          <5>1. i \in DOMAIN Tail(s) BY <1>12, <2>3, <4>1
          <5> QED BY <1>9, <1>12, <4>1, <5>1 DEF s
        <4>2. CASE j # k BY <1>12, <2>3, <4>2
        <4> QED BY <4>1, <4>2
      <3>2. PICK h \in DOMAIN rx[j] : rx[j][h] = rx'[j][i] BY <3>1
      <3> QED BY <1>1, <2>3, <3>2 DEF OnRoute
    <2> QED BY <2>1, <2>2, <2>3 DEF OnRoute
  <1>14. ASSUME NEW g \in Flow PROVE ChanStep(g)
    <2>1. /\ LastHeld(g)' = LastHeld(g) /\ FirstHeld(g)' = FirstHeld(g) /\ Offering(g)' = Offering(g)
      BY <1>3 DEF LastHeld, FirstHeld, Offering, LocalHdr
    <2>2. LastQueued(g)' = LastQueued(g) /\ FirstQueued(g)' = FirstQueued(g)
      <3>1. Filed(g, Tail(s)) = Filed(g, rx[k]) BY <1>8, Zenon DEF s
      <3>2. \A j \in Lane : Filed(g, rx'[j]) = Filed(g, rx[j]) BY <1>1, <1>2, <1>3, <3>1, RxExcept
      <3> QED BY <3>2, SameQueues
    <2>3. got \in [Flow -> Nat] BY <1>1 DEF TypeOK
    <2>4. CASE ~last \/ g # f
      <3>1. got'[g] = got[g] BY <1>10, <2>3, <2>4
      <3>2. Delivering(g)' = Delivering(g)
        <4>1. CASE ~last BY <1>10, <4>1 DEF Delivering
        <4>2. CASE last /\ g # f
          <5>1. g[2] \in Mesh BY Way
          <5>2. CASE g[2] = m
            <6>1. At(g, p) = <<>> /\ At(g, NoPkt) = <<>> BY <1>4, <1>7, <4>2, AtOf
            <6> QED BY <1>5, <1>11, <4>2, <5>2, <6>1 DEF Delivering
          <5>3. CASE g[2] # m BY <1>11, <5>1, <5>3 DEF Delivering
          <5> QED BY <5>2, <5>3
        <4> QED BY <2>4, <4>1, <4>2
      <3>3. Chan(g)' = Chan(g) BY <2>1, <2>2, <3>2, SameChan
      <3> QED BY <3>1, <3>3 DEF ChanStep, Kept
    <2>5. CASE last /\ g = f
      <3> DEFINE bb == LastQueued(f)
                 c == LastHeld(f)
                 d == FirstQueued(f)
                 e == FirstHeld(f)
                 o == Offering(f)
      <3>1. bb \in Seq(Num) /\ c \in Seq(Num) /\ d \in Seq(Num) /\ e \in Seq(Num) /\ o \in Seq(Num)
        BY <1>1, <1>6, PartTypes
      <3>2. got'[f] = got[f] + 1 BY <1>6, <1>10, <2>3, <2>5
      <3>3. At(f, p) = <<n>> /\ At(f, NoPkt) = <<>> BY <1>4, <1>6, <1>7, AtOf
      <3>4. Delivering(f) = <<n>> BY <1>5, <1>6, <3>3 DEF Delivering
      <3>5. Delivering(f)' = <<>> BY <1>6, <1>11, <2>5, <3>3 DEF Delivering
      <3>6. Chan(f) = Six(<<n>>, bb, c, d, e, o) BY <3>4, Zenon DEF Chan
      <3>7. Chan(f)' = Six(<<>>, bb, c, d, e, o)
        BY <2>1, <2>2, <2>5, <3>5, Zenon DEF Chan, Six
      <3> HIDE DEF bb, c, d, e, o
      <3>8. Leads(n, Six(<<n>>, bb, c, d, e, o), Six(<<>>, bb, c, d, e, o))
        <4>1. <<n>> \in Seq(Num) BY <1>6, WithLast
        <4> QED BY <1>6, <3>1, <4>1, SixLeave
      <3>9. Leads(n, Chan(f), Chan(f)') BY <3>6, <3>7, <3>8, Zenon
      <3> QED BY <1>6, <2>5, <3>2, <3>9 DEF ChanStep, Delivers
    <2> QED BY <2>4, <2>5
  <1> QED BY <1>13, <1>14

(* Every step keeps the invariant and is a step of each flow.              *)
LEMMA RouteStep ==
  ASSUME RouteInv, [Next]_vars
  PROVE  OnRoute' /\ \A g \in Flow : ChanStep(g)
  <1>1. TypeOK'
    <2>1. SquareInv' BY SquareStep DEF RouteInv
    <2> QED BY <2>1 DEF SquareInv
  <1>2. CASE UNCHANGED vars
    <2>1. UNCHANGED <<ltx, demux, lmux, q, rx, incoming, got>> BY <1>2 DEF vars
    <2>2. OnRoute' BY <2>1 DEF RouteInv, OnRoute
    <2>3. ASSUME NEW g \in Flow PROVE ChanStep(g)
      <3>1. /\ Delivering(g)' = Delivering(g) /\ LastQueued(g)' = LastQueued(g)
            /\ LastHeld(g)' = LastHeld(g) /\ FirstQueued(g)' = FirstQueued(g)
            /\ FirstHeld(g)' = FirstHeld(g) /\ Offering(g)' = Offering(g)
        BY <2>1 DEF Delivering, LastQueued, LastHeld, FirstQueued, FirstHeld, Offering, LocalHdr
      <3>2. Chan(g)' = Chan(g) BY <3>1, SameChan
      <3> QED BY <2>1, <3>2 DEF ChanStep, Kept
    <2> QED BY <2>2, <2>3
  <1>3. CASE Next
    <2>1. PICK m \in Mesh : Moves(m) \/ \E l \in LinkNo, c \in Class : Grant(m, l, c) BY <1>3 DEF Next
    <2>2. CASE Offer(m) BY <1>1, <2>2, OfferMoves
    <2>3. CASE SendHdr(m) BY <2>3, SendHdrMoves
    <2>4. CASE SendBeat(m) BY <2>4, SendBeatMoves
    <2>5. CASE ForwardHdr(m) BY <2>5, ForwardHdrMoves
    <2>6. CASE ForwardBeat(m) BY <2>6, ForwardBeatMoves
    <2>7. CASE \E s \in {"a", "b"} : TakeHdr(m, s) \/ TakeBeat(m, s)
      BY <2>7, TakeHdrMoves, TakeBeatMoves
    <2>8. CASE \E l \in LinkNo, c \in Class : Grant(m, l, c) BY <2>8, GrantMoves
    <2> QED BY <2>1, <2>2, <2>3, <2>4, <2>5, <2>6, <2>7, <2>8 DEF Moves
  <1> QED BY <1>2, <1>3

(* At first no flow has a packet anywhere.                                 *)
LEMMA RouteInit ==
  ASSUME Init
  PROVE  RouteInv /\ \A f \in Flow : InFlight[f] = <<>> /\ got[f] = 0
  <1>1. SquareInv BY SquareInit
  <1>2. /\ ltx = [m \in Mesh |-> Idle] /\ incoming = [m \in Mesh |-> NoPkt]
        /\ q = [k \in Lane |-> NoPkt] /\ rx = [k \in Lane |-> <<>>]
        /\ got = [f \in Flow |-> 0]
    BY DEF Init
  <1>3. OnRoute BY <1>2 DEF OnRoute
  <1>4. ASSUME NEW f \in Flow PROVE InFlight[f] = <<>> /\ got[f] = 0
    <2>1. /\ f[1] \in Mesh /\ f[2] \in Mesh
          /\ LastQueue(f) \in Lane /\ LastSlot(f) \in Lane
          /\ FirstQueue(f) \in Lane /\ FirstSlot(f) \in Lane
      BY Way
    <2>2. At(f, NoPkt) = <<>> BY AtOf
    <2>3. Filed(f, <<>>) = <<>> BY FiledNone
    <2>4. Delivering(f) = <<>> BY <1>2, <2>1, <2>2 DEF Delivering
    <2>5. LastQueued(f) = <<>> BY <1>2, <2>1, <2>3 DEF LastQueued
    <2>6. LastHeld(f) = <<>> BY <1>2, <2>1, <2>2 DEF LastHeld
    <2>7. FirstQueued(f) = <<>> BY <1>2, <2>1, <2>3 DEF FirstQueued
    <2>8. FirstHeld(f) = <<>> BY <1>2, <2>1, <2>2 DEF FirstHeld
    <2>9. Offering(f) = <<>>
      <3>1. ltx[f[1]].pkt = NoPkt BY <1>2, <2>1, IdleParts
      <3> QED BY <3>1 DEF Offering, LocalHdr
    <2>10. InFlight[f] = Chan(f) BY <1>1, ChanIs DEF SquareInv
    <2>11. <<>> \in Seq(Num) OBVIOUS
    <2>12. Cat(<<>>, <<>>) = <<>> BY <2>11, CatLaws
    <2>13. Chan(f) = <<>> BY <2>4, <2>5, <2>6, <2>7, <2>8, <2>9, <2>12, Zenon DEF Chan, Six
    <2> QED BY <1>2, <2>10, <2>13
  <1> QED BY <1>1, <1>3, <1>4 DEF RouteInv

(* A step of the square is a step of the channel, or a stutter.            *)
LEMMA StepIsChannelStep ==
  ASSUME RouteInv, [Next]_vars
  PROVE  RouteInv' /\ Abstract!ChanNext
  <1>1. OnRoute' /\ \A g \in Flow : ChanStep(g) BY RouteStep
  <1>2. SquareInv' BY SquareStep DEF RouteInv
  <1>3. ASSUME NEW f \in Flow PROVE Abstract!Keep(f) \/ Abstract!Deliver(f) \/ Abstract!Accept(f)
    <2>1. InFlight[f] = Chan(f) BY ChanIs DEF RouteInv, SquareInv
    <2>2. InFlight[f]' = Chan(f)'
      <3>1. TypeOK' BY <1>2 DEF SquareInv
      <3> QED BY <3>1, ChanNow
    <2>3. InFlight'[f] = InFlight[f]' OBVIOUS
    <2>4. CASE Kept(f)
      <3>1. InFlight'[f] = InFlight[f] /\ got'[f] = got[f] BY <2>1, <2>2, <2>3, <2>4, Zenon DEF Kept
      <3> QED BY <3>1, Zenon DEF Abstract!Keep
    <2>5. CASE Accepts(f)
      <3>1. PICK n \in Num : Chan(f)' = With(Chan(f), n) BY <2>5 DEF Accepts
      <3>2. InFlight'[f] = Append(InFlight[f], n) BY <2>1, <2>2, <2>3, <3>1, Zenon DEF With
      <3>3. got'[f] = got[f] BY <2>5 DEF Accepts
      <3> QED BY <3>2, <3>3, Zenon DEF Abstract!Accept, Num
    <2>6. CASE Delivers(f)
      <3>1. PICK n \in Num : Leads(n, Chan(f), Chan(f)') BY <2>6 DEF Delivers
      <3>2. InFlight[f] # <<>> /\ InFlight'[f] = Tail(InFlight[f])
        BY <2>1, <2>2, <2>3, <3>1, Zenon DEF Leads
      <3>3. got'[f] = got[f] + 1 BY <2>6 DEF Delivers
      <3> QED BY <3>2, <3>3, Zenon DEF Abstract!Deliver
    <2> QED BY <1>1, <2>4, <2>5, <2>6 DEF ChanStep
  <1>4. DOMAIN InFlight' = Flow BY DEF InFlight
  <1> QED BY <1>1, <1>2, <1>3, <1>4 DEF RouteInv, Abstract!ChanNext

(* The square is a channel: over one link or two, whatever else the        *)
(* switches carry, each flow delivers every packet it accepted, once, in   *)
(* order and at the mesh it is for; for every set of flows, every length   *)
(* of packet and every depth of queue.                                     *)
THEOREM SquareIsChannel == Spec => ImplementsChannel
  <1>1. Init => RouteInv /\ Abstract!ChanInit
    <2> SUFFICES ASSUME Init PROVE RouteInv /\ Abstract!ChanInit OBVIOUS
    <2>1. RouteInv /\ \A f \in Flow : InFlight[f] = <<>> /\ got[f] = 0 BY RouteInit
    <2>2. InFlight = [f \in Flow |-> <<>>]
      <3>1. InFlight = [f \in Flow |-> InFlight[f]] BY DEF InFlight
      <3> QED BY <2>1, <3>1
    <2>3. got = [f \in Flow |-> 0] BY DEF Init
    <2> QED BY <2>1, <2>2, <2>3 DEF Abstract!ChanInit
  <1>2. RouteInv /\ [Next]_vars => RouteInv' /\ Abstract!ChanNext BY StepIsChannelStep
  <1> QED BY <1>1, <1>2, PTL DEF Spec, ImplementsChannel, Abstract!Channel
=============================================================================
