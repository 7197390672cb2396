-------------------------- MODULE MagILinkTheorems --------------------------
(***************************************************************************)
(* What one mesh sends another, for every number of ports and senders,     *)
(* every length of burst and packet and every depth of the crossing:       *)
(* packets arrive whole, a packet is of one burst of one sender, the       *)
(* address of a write stays with its data, a doorbell is counted when the  *)
(* writes before it have landed, and every stream is a channel.            *)
(***************************************************************************)
EXTENDS MagILink, TotalsTheorems, WellFoundedInduction

(***************************************************************************)
(* The line is what the crossing holds and, after it, what the outbound    *)
(* arbiter has still to send of the packet whose header it has sent.       *)
(***************************************************************************)
KindOf(w) == CASE w = 0 -> "WR" [] w = 1 -> "FLIT" [] w = 2 -> "DOOR"
FlitLoad(f) == [kind |-> "FLIT", src |-> f.src, n |-> f.n]

ToSend(st, left, dat, fifo) ==
  IF st = "DAT"
  THEN [j \in 1 .. left |-> [hdr  |-> FALSE,
                             load |-> IF j = 1 THEN dat ELSE FlitLoad(fifo[j - 1]),
                             last |-> j = left]]
  ELSE <<>>

Line == cross \o ToSend(obst, ob_left, ltx_dat, ef)

(* The headers made here: only bursts have packets of several beats.       *)
HeaderOK(h) ==
  /\ h.len \in 0 .. MAX_BEATS - 1
  /\ IF h.load.kind = "FLIT" THEN h.load.src \in Sender ELSE h.len = 0

(* y is the k-th beat of the packet of header h.                           *)
BeatOf(h, k, y) ==
  /\ ~y.hdr
  /\ y.last <=> k = h.len + 1
  /\ y.load.kind = h.load.kind
  /\ h.load.kind = "FLIT" => /\ y.load.src = h.load.src
                             /\ y.load.n = h.load.n + k - 1
                             /\ BurstOf(y.load) = BurstOf(h.load)

(* The left last beats of h's packet come in q after position i, and then  *)
(* nothing or a header.                                                    *)
BeatsAt(q, i, h, left) ==
  /\ i + left <= Len(q)
  /\ \A j \in 1 .. left : BeatOf(h, h.len + 1 - left + j, q[i + j])
  /\ i + left < Len(q) => q[i + left + 1].hdr

(* q is what a receiver in state st reads: the rest of the packet it is in *)
(* and then whole packets.                                                 *)
Framed(q, st, h, left) ==
  /\ \A i \in 1 .. Len(q) : q[i].hdr => HeaderOK(q[i]) /\ BeatsAt(q, i, q[i], q[i].len + 1)
  /\ st = "HDR" => (q # <<>> => q[1].hdr)
  /\ st # "HDR" => /\ HeaderOK(h) /\ h.load.kind = st /\ left \in 1 .. h.len + 1
                   /\ BeatsAt(q, 0, h, left)

(* Flits that are consecutive flits of one burst.                          *)
Run(q) ==
  \A i \in 1 .. Len(q) : /\ q[i].src = q[1].src
                         /\ q[i].n = q[1].n + i - 1
                         /\ BurstOf(q[i]) = BurstOf(q[1])

(* A port holds the last flit that its sender has presented.               *)
Waiting(s) == port[PortOf[s]].src = s
PortsOK ==
  \A p \in Ports :
    LET f == port[p] IN f # NoFlit => PortOf[f.src] = p /\ f.n = flits[f.src] /\ f.n > 0

(* The FIFO is filled with one packet, and refilled when that is sent.     *)
EncOK ==
  /\ Run(ef)
  /\ acc_ready => /\ acc_open = Nobody /\ acc_beats = 0 /\ acc_nb > 0
                  /\ ~(obst = "DAT" /\ ob_who = 1) => Len(ef) = acc_nb
  /\ ~acc_ready => Len(ef) = acc_beats /\ (obst # "IDLE" => ob_who # 1)
  /\ acc_open = Nobody /\ ~acc_ready => acc_beats = 0
  /\ acc_open # Nobody =>
       /\ ~acc_ready /\ acc_beats > 0
       /\ LET f == ef[acc_beats]
          IN  /\ f.src = acc_open /\ ~IsLast(f)
              /\ f.n = flits[acc_open] - (IF Waiting(acc_open) THEN 1 ELSE 0)

(* The packet being sent.                                                  *)
OutOK ==
  /\ obst # "IDLE" => /\ HeaderOK(ltx_hdr) /\ ltx_hdr.load.kind = KindOf(ob_who)
                      /\ ob_left \in 1 .. ltx_hdr.len + 1
  /\ obst = "HDR" => /\ ob_left = ltx_hdr.len + 1
                     /\ ob_who = 1 => Len(ef) = ob_left /\ ltx_hdr.load = FlitLoad(ef[1])
  /\ obst = "DAT" /\ ob_who = 1 => Len(ef) = ob_left - 1

ILinkInv ==
  /\ TypeOK
  /\ WritesPaired
  /\ PortsOK
  /\ EncOK
  /\ OutOK
  /\ Framed(Line, inst, in_hdr, in_left)


-----------------------------------------------------------------------------
(***************************************************************************)
(* Reading and extending a line.                                           *)
(***************************************************************************)
Item == Header \cup Beat

(* What a header is made of.                                               *)
LEMMA HeaderParts ==
  ASSUME NEW h, HeaderOK(h)
  PROVE  h.len \in Nat /\ h.len + 1 \in 1 .. MAX_BEATS
  BY ILinkAssumption DEF HeaderOK

(* A sequence without its first element.                                   *)
LEMMA TailParts ==
  ASSUME NEW T, NEW s \in Seq(T), s # <<>>
  PROVE  /\ Len(s) \in Nat \ {0} /\ Tail(s) \in Seq(T) /\ Len(Tail(s)) = Len(s) - 1
         /\ \A i \in 1 .. Len(s) - 1 : Tail(s)[i] = s[i + 1]
         /\ Head(s) = s[1] /\ s[1] \in T
  OBVIOUS

(* An element after a sequence, and a sequence after that.                 *)
Joined(z, q, x, r) ==
  /\ z \in Seq(Item) /\ Len(q) \in Nat /\ Len(r) \in Nat
  /\ Len(z) = Len(q) + 1 + Len(r)
  /\ \A i \in 1 .. Len(q) : z[i] = q[i]
  /\ z[Len(q) + 1] = x
  /\ \A j \in 1 .. Len(r) : z[Len(q) + 1 + j] = r[j]

(* Append and concatenation join them so.                                  *)
LEMMA JoinParts ==
  ASSUME NEW q \in Seq(Item), NEW x \in Item, NEW r \in Seq(Item)
  PROVE  Joined(Append(q, x) \o r, q, x, r)
  <1>1. Append(q, x) \in Seq(Item) /\ Len(q) \in Nat /\ Len(r) \in Nat OBVIOUS
  <1>2. Append(q, x) \o r \in Seq(Item) BY <1>1
  <1>3. Len(Append(q, x)) = Len(q) + 1 OBVIOUS
  <1>4. Len(Append(q, x) \o r) = Len(q) + 1 + Len(r) BY <1>1, <1>3
  <1>5. \A i \in 1 .. Len(q) + 1 : (Append(q, x) \o r)[i] = Append(q, x)[i] BY <1>1, <1>3
  <1>6. \A i \in 1 .. Len(q) : Append(q, x)[i] = q[i] OBVIOUS
  <1>7. Append(q, x)[Len(q) + 1] = x OBVIOUS
  <1>8. \A j \in 1 .. Len(r) : (Append(q, x) \o r)[Len(q) + 1 + j] = r[j] BY <1>1, <1>3
  <1>9. (Append(q, x) \o r)[Len(q) + 1] = x BY <1>1, <1>5, <1>7
  <1>10. \A i \in 1 .. Len(q) : (Append(q, x) \o r)[i] = q[i] BY <1>1, <1>5, <1>6
  <1> QED BY <1>1, <1>2, <1>4, <1>8, <1>9, <1>10, Zenon DEF Joined

(* The beats of a packet when the line moves on by one.                    *)
LEMMA BeatsTail ==
  ASSUME NEW q \in Seq(Item), q # <<>>, NEW i \in Nat, NEW h, NEW left \in Nat,
         BeatsAt(q, i + 1, h, left)
  PROVE  BeatsAt(Tail(q), i, h, left)
  <1>1. /\ Len(q) \in Nat \ {0} /\ Len(Tail(q)) = Len(q) - 1
        /\ \A j \in 1 .. Len(q) - 1 : Tail(q)[j] = q[j + 1]
    BY TailParts
  <1>2. i + left <= Len(Tail(q)) BY <1>1 DEF BeatsAt
  <1>3. ASSUME NEW j \in 1 .. left PROVE BeatOf(h, h.len + 1 - left + j, Tail(q)[i + j])
    <2>1. i + j \in 1 .. Len(q) - 1 BY <1>1, <1>2
    <2>2. Tail(q)[i + j] = q[(i + 1) + j] BY <1>1, <2>1
    <2> QED BY <2>2 DEF BeatsAt
  <1>4. ASSUME i + left < Len(Tail(q)) PROVE Tail(q)[i + left + 1].hdr
    <2>1. i + left + 1 \in 1 .. Len(q) - 1 /\ (i + 1) + left < Len(q) BY <1>1, <1>4
    <2>2. Tail(q)[i + left + 1] = q[(i + 1) + left + 1] BY <1>1, <2>1
    <2> QED BY <2>1, <2>2 DEF BeatsAt
  <1> QED BY <1>2, <1>3, <1>4 DEF BeatsAt

(* The packets that follow stay whole when a line moves on.                *)
LEMMA HeadersTail ==
  ASSUME NEW q \in Seq(Item), q # <<>>, NEW st, NEW h, NEW left, Framed(q, st, h, left)
  PROVE  \A i \in 1 .. Len(Tail(q)) :
           Tail(q)[i].hdr => /\ HeaderOK(Tail(q)[i])
                             /\ BeatsAt(Tail(q), i, Tail(q)[i], Tail(q)[i].len + 1)
  <1> TAKE i \in 1 .. Len(Tail(q))
  <1> HAVE Tail(q)[i].hdr
  <1>1. i \in Nat /\ i + 1 \in 1 .. Len(q) /\ Tail(q)[i] = q[i + 1] BY TailParts
  <1>2. HeaderOK(q[i + 1]) /\ BeatsAt(q, i + 1, q[i + 1], q[i + 1].len + 1)
    BY <1>1 DEF Framed
  <1>3. q[i + 1].len + 1 \in Nat BY <1>2, HeaderParts
  <1> QED BY <1>1, <1>2, <1>3, BeatsTail

(* A header is read between packets, and its packet follows.               *)
LEMMA ReadHeader ==
  ASSUME NEW q \in Seq(Item), q # <<>>, NEW h, NEW left, Framed(q, "HDR", h, left)
  PROVE  /\ q[1].hdr /\ HeaderOK(q[1])
         /\ q[1].load.kind # "HDR" => Framed(Tail(q), q[1].load.kind, q[1], q[1].len + 1)
  <1>1. q[1].hdr /\ 1 \in 1 .. Len(q) BY TailParts DEF Framed
  <1>2. HeaderOK(q[1]) /\ BeatsAt(q, 1, q[1], q[1].len + 1) BY <1>1 DEF Framed
  <1>3. q[1].len + 1 \in Nat /\ q[1].len + 1 \in 1 .. q[1].len + 1 BY <1>2, HeaderParts
  <1>4. BeatsAt(Tail(q), 0, q[1], q[1].len + 1) BY <1>2, <1>3, BeatsTail
  <1> QED BY <1>1, <1>2, <1>3, <1>4, HeadersTail DEF Framed

(* A beat is read inside one, and what is left of it follows.              *)
LEMMA ReadBeat ==
  ASSUME NEW q \in Seq(Item), q # <<>>, NEW st, st # "HDR", NEW h, NEW left,
         Framed(q, st, h, left)
  PROVE  /\ left \in Nat \ {0} /\ BeatOf(h, h.len + 2 - left, q[1])
         /\ left = 1 => \A k, n : Framed(Tail(q), "HDR", k, n)
         /\ left # 1 => Framed(Tail(q), st, h, left - 1)
  <1>1. /\ HeaderOK(h) /\ h.load.kind = st /\ left \in 1 .. h.len + 1
        /\ BeatsAt(q, 0, h, left)
    BY DEF Framed
  <1>2. h.len \in Nat /\ left \in Nat \ {0} BY <1>1, HeaderParts
  <1>3. /\ Len(q) \in Nat \ {0} /\ Len(Tail(q)) = Len(q) - 1 /\ Tail(q) \in Seq(Item)
        /\ \A j \in 1 .. Len(q) - 1 : Tail(q)[j] = q[j + 1]
    BY TailParts
  <1>4. BeatOf(h, h.len + 2 - left, q[1])
    <2>1. BeatOf(h, h.len + 1 - left + 1, q[0 + 1]) BY <1>1, <1>2 DEF BeatsAt
    <2>2. h.len + 1 - left + 1 = h.len + 2 - left BY <1>2
    <2> QED BY <2>1, <2>2
  <1>5. ASSUME left = 1 PROVE Tail(q) # <<>> => Tail(q)[1].hdr
    <2>1. Tail(q) # <<>> => 0 + left < Len(q) BY <1>2, <1>3, <1>5
    <2>2. Tail(q) # <<>> => Tail(q)[1] = q[0 + left + 1] BY <1>3, <1>5
    <2> QED BY <1>1, <2>1, <2>2 DEF BeatsAt
  <1>6. ASSUME left # 1 PROVE BeatsAt(Tail(q), 0, h, left - 1)
    <2>1. 0 + (left - 1) <= Len(Tail(q)) BY <1>1, <1>2, <1>3 DEF BeatsAt
    <2>2. ASSUME NEW j \in 1 .. left - 1
          PROVE  BeatOf(h, h.len + 1 - (left - 1) + j, Tail(q)[0 + j])
      <3>1. j + 1 \in 1 .. left /\ j \in 1 .. Len(q) - 1 BY <1>2, <1>3, <2>1
      <3>2. BeatOf(h, h.len + 1 - left + (j + 1), q[0 + (j + 1)]) BY <1>1, <3>1 DEF BeatsAt
      <3>3. /\ h.len + 1 - left + (j + 1) = h.len + 1 - (left - 1) + j
            /\ Tail(q)[0 + j] = q[0 + (j + 1)]
        BY <1>2, <1>3, <3>1, SMTT(40)
      <3> QED BY <3>2, <3>3
    <2>3. ASSUME 0 + (left - 1) < Len(Tail(q)) PROVE Tail(q)[0 + (left - 1) + 1].hdr
      <3>1. 0 + left < Len(q) /\ 0 + (left - 1) + 1 \in 1 .. Len(q) - 1 BY <1>2, <1>3, <2>3
      <3>2. Tail(q)[0 + (left - 1) + 1] = q[0 + left + 1] BY <1>2, <1>3, <3>1
      <3> QED BY <1>1, <3>1, <3>2 DEF BeatsAt
    <2> QED BY <2>1, <2>2, <2>3 DEF BeatsAt
  <1>7. left # 1 => left - 1 \in 1 .. h.len + 1 BY <1>1, <1>2
  <1>8. \A i \in 1 .. Len(Tail(q)) :
          Tail(q)[i].hdr => /\ HeaderOK(Tail(q)[i])
                            /\ BeatsAt(Tail(q), i, Tail(q)[i], Tail(q)[i].len + 1)
    BY HeadersTail
  <1>9. left = 1 => \A k, n : Framed(Tail(q), "HDR", k, n) BY <1>5, <1>8 DEF Framed
  <1>10. left # 1 => Framed(Tail(q), st, h, left - 1) BY <1>1, <1>6, <1>7, <1>8 DEF Framed
  <1> QED BY <1>2, <1>4, <1>9, <1>10

(* A packet after a line that is between packets, or will be.              *)
LEMMA AppendPacket ==
  ASSUME NEW q \in Seq(Item), NEW st, NEW h, NEW left, Framed(q, st, h, left),
         NEW x \in Item, x.hdr, HeaderOK(x),
         NEW r \in Seq(Item), Len(r) = x.len + 1,
         \A j \in 1 .. x.len + 1 : BeatOf(x, j, r[j]),
         NEW z, Joined(z, q, x, r)
  PROVE  Framed(z, st, h, left)
  <1> DEFINE n == Len(q)
             m == Len(r)
  <1>1. /\ z \in Seq(Item) /\ n \in Nat /\ m \in Nat /\ Len(z) = n + 1 + m
        /\ \A i \in 1 .. n : z[i] = q[i]
        /\ z[n + 1] = x
        /\ \A j \in 1 .. m : z[n + 1 + j] = r[j]
    BY DEF Joined
  <1>2. x.len \in Nat /\ m = x.len + 1 BY HeaderParts
  <1> HIDE DEF n, m
  <1>3. ASSUME NEW i \in Nat, NEW k, NEW l \in Nat, BeatsAt(q, i, k, l)
        PROVE  BeatsAt(z, i, k, l)
    <2>1. i + l <= n BY <1>3 DEF BeatsAt, n
    <2>2. ASSUME NEW j \in 1 .. l PROVE BeatOf(k, k.len + 1 - l + j, z[i + j])
      <3>1. i + j \in 1 .. n BY <1>1, <2>1
      <3>2. z[i + j] = q[i + j] BY <1>1, <3>1
      <3> QED BY <1>3, <3>2 DEF BeatsAt
    <2>3. z[i + l + 1].hdr
      <3>1. CASE i + l = n BY <1>1, <3>1
      <3>2. CASE i + l # n
        <4>1. i + l < n /\ i + l + 1 \in 1 .. n BY <1>1, <2>1, <3>2
        <4>2. z[i + l + 1] = q[i + l + 1] BY <1>1, <4>1
        <4> QED BY <1>3, <4>1, <4>2 DEF BeatsAt, n
      <3> QED BY <3>1, <3>2
    <2>4. i + l <= Len(z) BY <1>1, <2>1
    <2> QED BY <2>2, <2>3, <2>4 DEF BeatsAt
  <1>4. BeatsAt(z, n + 1, x, x.len + 1)
    <2>1. (n + 1) + (x.len + 1) = Len(z) BY <1>1, <1>2
    <2>2. ASSUME NEW j \in 1 .. x.len + 1
          PROVE  BeatOf(x, x.len + 1 - (x.len + 1) + j, z[(n + 1) + j])
      <3>1. x.len + 1 - (x.len + 1) + j = j BY <1>2, SMTT(40)
      <3>2. z[(n + 1) + j] = r[j] BY <1>1, <1>2
      <3> QED BY <3>1, <3>2
    <2>3. ~((n + 1) + (x.len + 1) < Len(z)) BY <1>1, <1>2, <2>1
    <2>4. (n + 1) + (x.len + 1) <= Len(z) BY <1>1, <1>2, <2>1
    <2> QED BY <2>2, <2>3, <2>4, Zenon DEF BeatsAt
  <1>5. ASSUME NEW i \in 1 .. Len(z), z[i].hdr
        PROVE  HeaderOK(z[i]) /\ BeatsAt(z, i, z[i], z[i].len + 1)
    <2>1. CASE i \in 1 .. n
      <3>1. z[i] = q[i] /\ i \in Nat BY <1>1, <2>1
      <3>2. HeaderOK(q[i]) /\ BeatsAt(q, i, q[i], q[i].len + 1) BY <1>5, <2>1, <3>1 DEF Framed, n
      <3>3. q[i].len + 1 \in Nat BY <3>2, HeaderParts
      <3> QED BY <1>3, <3>1, <3>2, <3>3
    <2>2. CASE i = n + 1 BY <1>1, <1>4, <2>2
    <2>3. CASE i \notin 1 .. n + 1
      <3>1. PICK j \in 1 .. m : i = n + 1 + j
        <4>1. i - n - 1 \in 1 .. m /\ i = n + 1 + (i - n - 1) BY <1>1, <2>3
        <4> QED BY <4>1
      <3>2. z[i] = r[j] /\ j \in 1 .. x.len + 1 BY <1>1, <1>2, <3>1
      <3>3. ~z[i].hdr BY <3>2 DEF BeatOf
      <3> QED BY <1>5, <3>3
    <2> QED BY <1>1, <2>1, <2>2, <2>3
  <1>6. st = "HDR" => z[1].hdr
    <2>1. CASE n = 0 BY <1>1, <2>1
    <2>2. CASE n # 0
      <3>1. q # <<>> /\ z[1] = q[1] BY <1>1, <2>2 DEF n
      <3> QED BY <3>1 DEF Framed
    <2> QED BY <2>1, <2>2
  <1>7. st # "HDR" => /\ HeaderOK(h) /\ h.load.kind = st /\ left \in 1 .. h.len + 1
                      /\ BeatsAt(z, 0, h, left)
    <2> HAVE st # "HDR"
    <2>1. HeaderOK(h) /\ h.load.kind = st /\ left \in 1 .. h.len + 1 /\ BeatsAt(q, 0, h, left)
      BY DEF Framed
    <2>2. left \in Nat BY <2>1, HeaderParts
    <2> QED BY <1>3, <2>1, <2>2
  <1> QED BY <1>5, <1>6, <1>7 DEF Framed

-----------------------------------------------------------------------------
(***************************************************************************)
(* Numbers.                                                                *)
(***************************************************************************)

(* Consecutive numbers have the same quotient, except at a multiple.       *)
LEMMA SameQuotient ==
  ASSUME NEW n \in Nat \ {0}, NEW b \in Nat \ {0}, n % b # 0
  PROVE  n \div b = (n - 1) \div b
  <1> DEFINE k == n \div b
             r == n % b
  <1>1. n = b * k + r /\ k \in Int /\ r \in 0 .. b - 1 OBVIOUS
  <1>2. n - 1 = b * k + (r - 1) /\ r - 1 \in 0 .. b - 1 BY <1>1
  <1> HIDE DEF k, r
  <1>3. ASSUME NEW j \in Int, NEW s \in 0 .. b - 1, NEW m \in Int, m = b * j + s
        PROVE  m \div b = j
    BY <1>3
  <1> QED BY <1>1, <1>2, <1>3

(* A set of numbers has a least element.                                   *)
LEMMA LeastNat ==
  ASSUME NEW S, S \subseteq Nat, S # {}
  PROVE  \E m \in S : \A k \in S : m <= k
  <1> DEFINE Before == {pr \in Nat \X Nat : pr[1] < pr[2]}
  <1>1. IsWellFoundedOn(Before, Nat) BY NatLessThanWellFounded DEF OpToRel
  <1>2. PICK m \in S : \A k \in S : <<k, m>> \notin Before
    <2> HIDE DEF Before
    <2> QED BY <1>1, WFMin
  <1>3. ASSUME NEW k \in S PROVE m <= k
    <2>1. <<k, m>> \in Nat \X Nat /\ <<k, m>> \notin Before BY <1>2
    <2>2. ~(k < m) BY <2>1
    <2> QED BY <2>1, <2>2
  <1> QED BY <1>3

(* The parts of the type invariant, by the step that writes them.          *)
MoverTypes ==
  /\ {aw_got, w_got, rem_r, bpend, loc_aw, loc_w, ob_wr_req} \subseteq BOOLEAN
  /\ {d_r, mv, wrote, answered} \subseteq Nat
EncTypes ==
  /\ port \in [Ports -> Flit \cup {NoFlit}] /\ enc_rr \in Ports
  /\ acc_open \in Sender \cup {Nobody} /\ acc_ready \in BOOLEAN
  /\ acc_beats \in 0 .. MAX_BEATS - 1 /\ acc_nb \in 0 .. MAX_BEATS
  /\ ef \in Seq(Flit) /\ Len(ef) <= MAX_BEATS
OutTypes ==
  /\ obst \in {"IDLE", "HDR", "DAT"} /\ {ob_who, ob_rr} \subseteq 0 .. 2
  /\ ob_left \in 0 .. MAX_BEATS
  /\ ltx_hdr \in Header /\ ltx_dat \in Load
LineTypes == cross \in Seq(Item) /\ Len(cross) <= CAP
HostTypes == door_req \in BOOLEAN /\ {door_txn, rung} \subseteq Nat
SentTypes == flits \in [Sender -> Nat]
InTypes ==
  /\ inst \in {"HDR"} \cup Kind /\ in_hdr \in Header
  /\ in_left \in 0 .. MAX_BEATS /\ dbell_n \in Nat
FarTypes ==
  /\ wr_out \in 0 .. WR_MOD - 1 /\ inj \in Flit \cup {NoFlit}
  /\ {lk_aw, lk_w, landed} \subseteq Nat
  /\ {aws, ws} \subseteq Seq(Nat) /\ injected \in [Sender -> Nat]

(* The type invariant is the conjunction of its eight parts.                *)
LEMMA TypeParts ==
  TypeOK <=> /\ MoverTypes /\ EncTypes /\ OutTypes /\ LineTypes
             /\ HostTypes /\ SentTypes /\ InTypes /\ FarTypes
  BY DEF TypeOK, MoverTypes, EncTypes, OutTypes, LineTypes, HostTypes, SentTypes, InTypes,
         FarTypes, Item

(* The same of the state a step leads to.                                  *)
LEMMA TypePartsNext ==
  ASSUME MoverTypes', EncTypes', OutTypes', LineTypes',
         HostTypes', SentTypes', InTypes', FarTypes'
  PROVE  TypeOK'
  <1>1. /\ {aw_got', w_got', rem_r', bpend', loc_aw', loc_w', ob_wr_req'} \subseteq BOOLEAN
        /\ door_req' \in BOOLEAN /\ acc_ready' \in BOOLEAN
    BY DEF MoverTypes, HostTypes, EncTypes
  <1>2. {aw_got', w_got', rem_r', bpend', loc_aw', loc_w', ob_wr_req', door_req',
         acc_ready'} \subseteq BOOLEAN
    BY <1>1
  <1>3. {d_r', door_txn', lk_aw', lk_w', dbell_n', mv', wrote', answered', rung', landed'}
          \subseteq Nat
    BY DEF MoverTypes, HostTypes, InTypes, FarTypes
  <1>4. {flits', injected'} \subseteq [Sender -> Nat] /\ {aws', ws'} \subseteq Seq(Nat)
    BY DEF SentTypes, FarTypes
  <1> QED BY <1>2, <1>3, <1>4
          DEF TypeOK, EncTypes, OutTypes, LineTypes, InTypes, FarTypes, Item

(* A flit has a sender, which "nobody" is not.                             *)
LEMMA FlitParts ==
  ASSUME NEW f \in Flit \cup {NoFlit}
  PROVE  /\ f # NoFlit => f \in Flit /\ f.src \in Sender /\ f.n \in Nat /\ f.src # Nobody
         /\ f = NoFlit => f.src = Nobody
         /\ f \in Flit => f # NoFlit /\ FlitLoad(f) \in Load
  <1>1. f = NoFlit => f.src = Nobody BY DEF NoFlit
  <1>2. f \in Flit => f.src \in Sender /\ f.n \in Nat BY DEF Flit
  <1>3. Nobody \notin Sender BY ILinkAssumption
  <1>4. f \in Flit => FlitLoad(f) \in Load
    <2> HAVE f \in Flit
    <2> DEFINE s == f.src
               k == f.n
    <2>1. s \in Sender \cup {Nobody} /\ k \in Nat BY <1>2
    <2> HIDE DEF s, k
    <2>2. [kind |-> "FLIT", src |-> s, n |-> k] \in Load BY <2>1 DEF Load, Kind
    <2> QED BY <2>2 DEF FlitLoad, s, k
  <1> QED BY <1>1, <1>2, <1>3, <1>4

(* The ports' arbiter chooses a port that holds a flit.                    *)
LEMMA EncSelHolds ==
  ASSUME EncTypes, EncAny
  PROVE  /\ EncSel \in Ports /\ port[EncSel] # NoFlit /\ port[EncSel] \in Flit
  <1> DEFINE T == {p \in Ports : port[p] # NoFlit}
             S == {Turn(p) : p \in T}
  <1>1. \A p \in Ports : Turn(p) \in Nat
    <2> TAKE p \in Ports
    <2>1. p - enc_rr \in Int /\ MEM_PORTS \in Nat \ {0}
      BY ILinkAssumption DEF EncTypes, Ports
    <2> QED BY <2>1 DEF Turn
  <1>2. S \subseteq Nat /\ S # {} BY <1>1 DEF EncAny
  <1>3. PICK m \in S : \A k \in S : m <= k
    <2> HIDE DEF S
    <2> QED BY <1>2, LeastNat
  <1>4. PICK p \in T : Turn(p) = m OBVIOUS
  <1>5. \A r \in Ports : port[r] # NoFlit => Turn(p) <= Turn(r) BY <1>3, <1>4
  <1>6. EncSel \in Ports /\ port[EncSel] # NoFlit BY <1>4, <1>5 DEF EncSel
  <1>7. port[EncSel] \in Flit BY <1>6 DEF EncTypes
  <1> QED BY <1>6, <1>7

(* The outbound arbiter chooses a source that asks.                        *)
LEMMA PickAsks ==
  ASSUME ob_rr \in 0 .. 2, \E w \in 0 .. 2 : Req(w)
  PROVE  Pick \in 0 .. 2 /\ Req(Pick)
  <1> DEFINE D(w) == (w - ob_rr) % 3
             S == {D(w) : w \in {v \in 0 .. 2 : Req(v)}}
  <1>1. \A w \in 0 .. 2 : D(w) \in Nat OBVIOUS
  <1>2. S \subseteq Nat /\ S # {} BY <1>1
  <1>3. PICK m \in S : \A k \in S : m <= k
    <2> HIDE DEF S
    <2> QED BY <1>2, LeastNat
  <1>4. PICK w \in 0 .. 2 : Req(w) /\ D(w) = m OBVIOUS
  <1>5. \A v \in 0 .. 2 : Req(v) => D(w) <= D(v) BY <1>3, <1>4
  <1> QED BY <1>4, <1>5 DEF Pick

-----------------------------------------------------------------------------
(***************************************************************************)
(* The beginning.                                                          *)
(***************************************************************************)
LEMMA InitILink == Init => ILinkInv
  <1> SUFFICES ASSUME Init PROVE ILinkInv OBVIOUS
  <1> USE DEF Init
  <1>1. NoLoad \in Load BY DEF NoLoad, Load, Kind
  <1>2. NoHdr \in Header BY <1>1 DEF NoHdr, Header
  <1>3. TypeOK
    <2>1. MoverTypes
      <3>1. {aw_got, w_got, rem_r, bpend, loc_aw, loc_w, ob_wr_req} \subseteq BOOLEAN BY Zenon
      <3>2. {d_r, mv, wrote, answered} \subseteq Nat OBVIOUS
      <3> QED BY <3>1, <3>2, Zenon DEF MoverTypes
    <2>2. EncTypes
      <3>1. port \in [Ports -> Flit \cup {NoFlit}] OBVIOUS
      <3>2. enc_rr \in Ports /\ acc_beats \in 0 .. MAX_BEATS - 1 /\ acc_nb \in 0 .. MAX_BEATS
        BY ILinkAssumption DEF Ports
      <3>3. acc_open \in Sender \cup {Nobody} OBVIOUS
      <3>4. acc_ready \in BOOLEAN BY Zenon
      <3>5. ef \in Seq(Flit) /\ Len(ef) <= MAX_BEATS BY ILinkAssumption
      <3> QED BY <3>1, <3>2, <3>3, <3>4, <3>5, Zenon DEF EncTypes
    <2>3. OutTypes BY <1>1, <1>2, ILinkAssumption DEF OutTypes
    <2>4. LineTypes BY ILinkAssumption DEF LineTypes
    <2>5. HostTypes /\ SentTypes
      <3>1. {door_txn, rung} \subseteq Nat /\ flits \in [Sender -> Nat] OBVIOUS
      <3>2. door_req \in BOOLEAN BY Zenon
      <3> QED BY <3>1, <3>2, Zenon DEF HostTypes, SentTypes
    <2>6. InTypes BY <1>2, ILinkAssumption DEF InTypes
    <2>7. FarTypes BY ILinkAssumption DEF FarTypes
    <2> QED BY <2>1, <2>2, <2>3, <2>4, <2>5, <2>6, <2>7, TypeParts
  <1>4. WritesPaired BY DEF WritesPaired, Held
  <1>5. PortsOK BY DEF PortsOK
  <1>6. EncOK BY DEF EncOK, Run
  <1>7. OutOK BY DEF OutOK
  <1>8. Framed(Line, inst, in_hdr, in_left)
    <2>1. Line = <<>> BY DEF Line, ToSend
    <2> QED BY <2>1 DEF Framed
  <1> QED BY <1>3, <1>4, <1>5, <1>6, <1>7, <1>8 DEF ILinkInv

-----------------------------------------------------------------------------
(***************************************************************************)
(* A clock edge of the sending mesh.                                       *)
(***************************************************************************)
LEMMA MoverKeeps ==
  ASSUME MoverTypes, NEW m, NEW l \in LocalMem, MoverSplit(m, l)
  PROVE  MoverTypes'
  <1>1. {aw_got', w_got', rem_r', bpend', loc_aw', loc_w', ob_wr_req'} \subseteq BOOLEAN
    BY ZenonT(40) DEF MoverSplit, MoverTypes
  <1>2. {d_r', mv', wrote', answered'} \subseteq Nat BY DEF MoverSplit, MoverTypes
  <1> QED BY <1>1, <1>2 DEF MoverTypes

(* The encapsulator takes a flit, or gives one to be sent, or neither.     *)
TakesOne ==
  LET f == port[EncSel]
  IN  /\ ~acc_ready /\ ~EfPop /\ Len(ef) < MAX_BEATS /\ acc_open \in {Nobody, f.src}
      /\ EncSel \in Ports /\ f \in Flit
      /\ port' = [port EXCEPT ![EncSel] = NoFlit]
      /\ enc_rr' \in Ports
      /\ ef' = Append(ef, f)
      /\ acc_open' = IF AccClose(f) THEN Nobody ELSE f.src
      /\ acc_beats' = IF AccClose(f) THEN 0 ELSE acc_beats + 1
      /\ acc_ready' = AccClose(f)
      /\ acc_nb' = IF AccClose(f) THEN acc_beats + 1 ELSE acc_nb
GivesOne ==
  /\ acc_ready /\ acc_ready' /\ EfPop /\ ef # <<>> /\ ef' = Tail(ef)
  /\ UNCHANGED <<port, enc_rr, acc_open, acc_beats, acc_nb>>
Waits ==
  /\ ~EfPop /\ ef' = ef /\ acc_ready' = (acc_ready /\ ~(LastTaken /\ ob_who = 1))
  /\ UNCHANGED <<port, enc_rr, acc_open, acc_beats, acc_nb>>

(* What the encapsulator does is one of the three.                         *)
LEMMA EncapsulateCases ==
  ASSUME EncTypes, OutTypes, EncOK, OutOK, Encapsulate
  PROVE  TakesOne \/ GivesOne \/ Waits
  <1>1. EfPop => acc_ready /\ ef # <<>> /\ ~LastTaken
    <2> HAVE EfPop
    <2>1. CASE HdrTaken /\ ob_who = 1
      <3>1. obst = "HDR" /\ ob_left \in Nat \ {0} /\ Len(ef) = ob_left
        BY <2>1, HeaderParts DEF HdrTaken, OutOK
      <3>2. acc_ready BY <2>1, <3>1 DEF EncOK, EncTypes
      <3>3. ef # <<>> BY <3>1 DEF EncTypes
      <3> QED BY <3>1, <3>2, <3>3 DEF LastTaken, BeatTaken
    <2>2. CASE BeatTaken /\ ob_left # 1 /\ ob_who = 1
      <3>1. obst = "DAT" /\ ob_left \in Nat \ {0} /\ Len(ef) = ob_left - 1
        BY <2>2, HeaderParts DEF BeatTaken, OutOK
      <3>2. acc_ready BY <2>2, <3>1 DEF EncOK, EncTypes
      <3>3. ef # <<>> BY <2>2, <3>1 DEF EncTypes
      <3> QED BY <2>2, <3>2, <3>3 DEF LastTaken
    <2> QED BY <2>1, <2>2 DEF EfPop
  <1>2. CASE EncTake
    <2>1. EncSel \in Ports /\ port[EncSel] \in Flit BY <1>2, EncSelHolds DEF EncTake
    <2>2. ~EfPop BY <1>1, <1>2 DEF EncTake
    <2>3. (EncSel + 1) % MEM_PORTS \in Ports BY <2>1, ILinkAssumption DEF Ports
    <2>4. TakesOne BY <1>2, <2>1, <2>2, <2>3 DEF Encapsulate, TakesOne, EncTake
    <2> QED BY <2>4
  <1>3. CASE ~EncTake /\ EfPop
    <2>1. GivesOne BY <1>1, <1>3 DEF Encapsulate, GivesOne, EncTypes
    <2> QED BY <2>1
  <1>4. CASE ~EncTake /\ ~EfPop
    <2>1. Waits BY <1>4 DEF Encapsulate, Waits
    <2> QED BY <2>1
  <1> QED BY <1>2, <1>3, <1>4

(* The encapsulator's registers keep their types.                          *)
LEMMA EncTypesKeep ==
  ASSUME EncTypes, EncOK, TakesOne \/ GivesOne \/ Waits
  PROVE  EncTypes'
  <1>1. CASE TakesOne
    <2> DEFINE f == port[EncSel]
    <2>1. f \in Flit /\ f.src \in Sender /\ EncSel \in Ports
      BY <1>1, FlitParts DEF TakesOne
    <2>2. port' \in [Ports -> Flit \cup {NoFlit}] BY <1>1, <2>1 DEF TakesOne, EncTypes
    <2>3. ef' \in Seq(Flit) /\ Len(ef') <= MAX_BEATS
      BY <1>1, <2>1, ILinkAssumption DEF TakesOne, EncTypes
    <2>4. AccClose(f) \in BOOLEAN BY DEF AccClose, IsLast
    <2>5. ~AccClose(f) => acc_beats + 1 \in 0 .. MAX_BEATS - 1
      BY ILinkAssumption, SMTT(40) DEF AccClose, EncTypes
    <2>6. acc_beats + 1 \in 0 .. MAX_BEATS BY ILinkAssumption DEF EncTypes
    <2>7. 0 \in 0 .. MAX_BEATS - 1 BY ILinkAssumption
    <2> HIDE DEF f
    <2> QED BY <1>1, <2>1, <2>2, <2>3, <2>4, <2>5, <2>6, <2>7 DEF TakesOne, EncTypes, f
  <1>2. CASE GivesOne
    <2>1. Tail(ef) \in Seq(Flit) /\ Len(Tail(ef)) <= MAX_BEATS
      BY <1>2, TailParts, ILinkAssumption DEF GivesOne, EncTypes
    <2> QED BY <1>2, <2>1 DEF GivesOne, EncTypes
  <1>3. CASE Waits BY <1>3 DEF Waits, EncTypes
  <1> QED BY <1>1, <1>2, <1>3

(* Runs of flits.                                                          *)
LEMMA SameBurst ==
  ASSUME NEW f \in Flit, NEW g \in Flit, ~IsLast(f), f.n > 0, g.src = f.src, g.n = f.n + 1
  PROVE  BurstOf(g) = BurstOf(f)
  <1>1. f.n \in Nat \ {0} /\ BurstLen[f.src] \in Nat \ {0} BY ILinkAssumption DEF Flit
  <1>2. f.n % BurstLen[f.src] # 0 BY DEF IsLast
  <1>3. f.n \div BurstLen[f.src] = (f.n - 1) \div BurstLen[f.src] BY <1>1, <1>2, SameQuotient
  <1>4. g.n - 1 = f.n BY <1>1
  <1> QED BY <1>3, <1>4 DEF BurstOf

(* A flit of the same burst that comes next prolongs a run of flits.       *)
LEMMA RunAppend ==
  ASSUME NEW q \in Seq(Flit), Run(q), NEW f \in Flit,
         q # <<>> => /\ f.src = q[Len(q)].src
                     /\ f.n = q[Len(q)].n + 1
                     /\ BurstOf(f) = BurstOf(q[Len(q)])
  PROVE  Run(Append(q, f))
  <1> DEFINE a == Append(q, f)
             n == Len(q)
  <1>1. /\ n \in Nat /\ Len(a) = n + 1 /\ a[n + 1] = f
        /\ \A i \in 1 .. n : a[i] = q[i]
        /\ q = <<>> <=> n = 0
    OBVIOUS
  <1> HIDE DEF a
  <1>2. ASSUME NEW i \in 1 .. n
        PROVE  a[i].src = a[1].src /\ a[i].n = a[1].n + i - 1 /\ BurstOf(a[i]) = BurstOf(a[1])
    <2>1. a[i] = q[i] /\ a[1] = q[1] BY <1>1
    <2> QED BY <2>1 DEF Run
  <1>3. /\ a[n + 1].src = a[1].src /\ a[n + 1].n = a[1].n + (n + 1) - 1
        /\ BurstOf(a[n + 1]) = BurstOf(a[1])
    <2>1. CASE n = 0
      <3>1. a[n + 1] = a[1] /\ a[1].n \in Nat BY <1>1, <2>1 DEF Flit
      <3> QED BY <2>1, <3>1
    <2>2. CASE n # 0
      <3>1. n \in 1 .. n /\ q # <<>> /\ a[n] = q[n] BY <1>1, <2>2
      <3>2. a[1] = q[1] /\ q[1] \in Flit BY <1>1, <3>1
      <3>3. a[n].src = a[1].src /\ a[n].n = a[1].n + n - 1 /\ BurstOf(a[n]) = BurstOf(a[1])
        BY <1>2, <3>1
      <3>4. f.src = a[1].src /\ BurstOf(f) = BurstOf(a[1]) BY <3>1, <3>3
      <3>5. f.n = a[n].n + 1 /\ a[1].n \in Nat BY <3>1, <3>2 DEF Flit
      <3>6. f.n = a[1].n + (n + 1) - 1 BY <1>1, <3>3, <3>5
      <3> QED BY <1>1, <3>4, <3>6
    <2> QED BY <2>1, <2>2
  <1>4. ASSUME NEW i \in 1 .. Len(a)
        PROVE  a[i].src = a[1].src /\ a[i].n = a[1].n + i - 1 /\ BurstOf(a[i]) = BurstOf(a[1])
    <2>1. i \in 1 .. n \/ i = n + 1 BY <1>1
    <2> QED BY <1>2, <1>3, <2>1
  <1> QED BY <1>4 DEF Run, a

(* A run of flits without its first is a run.                              *)
LEMMA RunTail ==
  ASSUME NEW q \in Seq(Flit), q # <<>>, Run(q)
  PROVE  Run(Tail(q))
  <1>1. /\ Len(q) \in Nat \ {0} /\ Len(Tail(q)) = Len(q) - 1 /\ q[1].n \in Nat
        /\ \A i \in 1 .. Len(q) - 1 : Tail(q)[i] = q[i + 1]
    <2>1. q[1] \in Flit BY TailParts
    <2> QED BY <2>1, TailParts DEF Flit
  <1>2. ASSUME NEW i \in 1 .. Len(Tail(q))
        PROVE  /\ Tail(q)[i].src = Tail(q)[1].src
               /\ Tail(q)[i].n = Tail(q)[1].n + i - 1
               /\ BurstOf(Tail(q)[i]) = BurstOf(Tail(q)[1])
    <2>1. Tail(q)[i] = q[i + 1] /\ Tail(q)[1] = q[1 + 1] BY <1>1
    <2>2. i + 1 \in 1 .. Len(q) /\ 1 + 1 \in 1 .. Len(q) BY <1>1
    <2>3. q[i + 1].src = q[1].src /\ q[1 + 1].src = q[1].src BY <2>2 DEF Run
    <2>4. BurstOf(q[i + 1]) = BurstOf(q[1]) /\ BurstOf(q[1 + 1]) = BurstOf(q[1])
      BY <2>2 DEF Run
    <2>5. q[i + 1].n = q[1].n + (i + 1) - 1 /\ q[1 + 1].n = q[1].n + (1 + 1) - 1
      BY <2>2 DEF Run
    <2>6. q[i + 1].n = q[1 + 1].n + i - 1 BY <1>1, <2>2, <2>5
    <2> QED BY <2>1, <2>3, <2>4, <2>6
  <1> QED BY <1>2 DEF Run

(* What the outbound arbiter does to the burst it may be sending.          *)
LEMMA OutboundMeans ==
  ASSUME OutTypes, Outbound
  PROVE  /\ obst' # "IDLE" /\ ob_who' = 1 =>
              (obst # "IDLE" /\ ob_who = 1) \/ (obst = "IDLE" /\ acc_ready)
         /\ EfPop => obst' = "DAT" /\ ob_who' = 1
         /\ LastTaken => obst' = "IDLE"
         /\ obst = "DAT" /\ ob_who = 1 /\ ~LastTaken => obst' = "DAT" /\ ob_who' = 1
  <1>1. CASE obst = "IDLE"
    <2>1. (\E w \in 0 .. 2 : Req(w)) => Req(Pick) BY PickAsks DEF OutTypes
    <2>2. (ob_who' = Pick /\ \E w \in 0 .. 2 : Req(w)) \/ obst' = "IDLE"
      BY <1>1 DEF Outbound, HdrTaken, BeatTaken, obVars
    <2>3. ob_who' = 1 /\ obst' # "IDLE" => acc_ready
      <3> HAVE ob_who' = 1 /\ obst' # "IDLE"
      <3>1. Req(Pick) /\ Pick = 1 BY <2>1, <2>2
      <3>2. Req(1) BY <3>1
      <3> QED BY <3>2 DEF Req
    <2> QED BY <1>1, <2>3 DEF EfPop, HdrTaken, BeatTaken, LastTaken
  <1>2. CASE obst = "HDR"
    <2>1. \/ HdrTaken /\ obst' = "DAT" /\ ob_who' = ob_who
          \/ ~Room /\ obst' = obst /\ ob_who' = ob_who
      BY <1>2 DEF Outbound, HdrTaken, BeatTaken, obVars
    <2> QED BY <1>2, <2>1 DEF EfPop, HdrTaken, BeatTaken, LastTaken
  <1>3. CASE obst = "DAT"
    <2>1. \/ BeatTaken /\ ob_left = 1 /\ obst' = "IDLE" /\ ob_who' = ob_who
          \/ BeatTaken /\ ob_left # 1 /\ obst' = obst /\ ob_who' = ob_who
          \/ ~Room /\ obst' = obst /\ ob_who' = ob_who
      BY <1>3 DEF Outbound, HdrTaken, BeatTaken, obVars
    <2> QED BY <1>3, <2>1 DEF EfPop, HdrTaken, BeatTaken, LastTaken
  <1> QED BY <1>1, <1>2, <1>3 DEF OutTypes

(* The FIFO stays filled with one run of one burst, and what waits at the  *)
(* ports stays the last flit each sender has presented.                    *)
LEMMA EncKeeps ==
  ASSUME EncTypes, OutTypes, SentTypes, PortsOK, EncOK, OutOK, Outbound, flits' = flits,
         TakesOne \/ GivesOne \/ Waits
  PROVE  EncOK' /\ PortsOK'
  <1>1. CASE TakesOne
    <2> PICK f : f = port[EncSel] OBVIOUS
    <2> PICK s : s = f.src OBVIOUS
    <2> PICK close : close = AccClose(f) OBVIOUS
    <2>1. /\ EncSel \in Ports /\ f \in Flit /\ f # NoFlit /\ s \in Sender /\ f.n \in Nat
          /\ s # Nobody /\ acc_open \in {Nobody, s} /\ ~acc_ready
          /\ PortOf[s] = EncSel /\ f.n = flits[s] /\ f.n > 0
      BY <1>1, FlitParts DEF TakesOne, PortsOK
    <2>2. /\ port' = [port EXCEPT ![EncSel] = NoFlit] /\ port'[EncSel] = NoFlit
          /\ ef' = Append(ef, f)
          /\ acc_open' = (IF close THEN Nobody ELSE s)
          /\ acc_beats' = (IF close THEN 0 ELSE acc_beats + 1)
          /\ acc_ready' = close
          /\ acc_nb' = (IF close THEN acc_beats + 1 ELSE acc_nb)
      BY <1>1 DEF TakesOne, EncTypes
    <2>3. /\ ef \in Seq(Flit) /\ Len(ef) = acc_beats /\ acc_beats \in Nat
          /\ ef'[acc_beats + 1] = f /\ Len(ef') = acc_beats + 1
          /\ ef = <<>> <=> acc_beats = 0
      BY <2>1, <2>2 DEF EncTypes, EncOK
    <2>4. port[PortOf[s]].src = s BY <2>1
    <2>5. Run(ef')
      <3>1. ASSUME ef # <<>>
            PROVE  /\ f.src = ef[Len(ef)].src /\ f.n = ef[Len(ef)].n + 1
                   /\ BurstOf(f) = BurstOf(ef[Len(ef)])
        <4> DEFINE last == ef[acc_beats]
        <4>1. acc_open # Nobody /\ acc_open = s BY <2>1, <2>3, <3>1 DEF EncOK
        <4>2. last.src = s /\ ~IsLast(last) /\ last.n = flits[s] - 1
          BY <2>1, <2>4, <4>1 DEF EncOK, Waiting
        <4>3. last \in Flit
          <5>1. acc_beats \in 1 .. Len(ef) BY <2>3, <3>1
          <5> QED BY <2>3, <5>1
        <4>4. Run(ef) /\ last.n = ef[1].n + acc_beats - 1
          <5>1. acc_beats \in 1 .. Len(ef) BY <2>3, <3>1
          <5>2. Run(ef) BY DEF EncOK
          <5> QED BY <5>1, <5>2 DEF Run
        <4>5. last.n \in Nat /\ last.n + 1 = f.n BY <2>1, <4>2, <4>3 DEF Flit
        <4>6. last.n > 0
          <5>1. last.n = 0 => IsLast(last)
            <6>1. BurstLen[last.src] \in Nat \ {0} BY <4>3, ILinkAssumption DEF Flit
            <6>2. 0 % BurstLen[last.src] = 0 BY <6>1
            <6> QED BY <6>2 DEF IsLast
          <5>2. last.n # 0 BY <4>2, <5>1
          <5> HIDE DEF last
          <5> QED BY <4>5, <5>2
        <4>7. f.src = last.src BY <4>2
        <4>8. BurstOf(f) = BurstOf(last) BY <2>1, <4>2, <4>3, <4>5, <4>6, <4>7, SameBurst
        <4> QED BY <2>3, <4>5, <4>7, <4>8
      <3>2. Run(ef) BY DEF EncOK
      <3> QED BY <2>1, <2>2, <2>3, <3>1, <3>2, RunAppend
    <2>6. obst' # "IDLE" => ob_who' # 1 BY <2>1, OutboundMeans DEF EncOK
    <2>7. ~close => ~IsLast(f) BY DEF AccClose
    <2>8. close \in BOOLEAN BY DEF AccClose, IsLast
    <2>9. ~close => f.n = flits'[s] - (IF Waiting(s)' THEN 1 ELSE 0)
      <3>1. ~Waiting(s)'
        <4>1. port'[PortOf[s]] = NoFlit BY <2>1, <2>2
        <4>2. NoFlit.src = Nobody BY DEF NoFlit
        <4> QED BY <2>1, <4>1, <4>2 DEF Waiting
      <3>2. flits' = flits OBVIOUS
      <3> QED BY <2>1, <3>1, <3>2
    <2>10. EncOK'
      <3>1. CASE close
        <4>1. acc_open' = Nobody /\ acc_beats' = 0 /\ acc_ready' /\ acc_nb' = acc_beats + 1
          BY <2>2, <3>1
        <4> QED BY <2>3, <2>5, <4>1 DEF EncOK
      <3>2. CASE ~close
        <4>1. acc_open' = s /\ acc_beats' = acc_beats + 1 /\ ~acc_ready' BY <2>2, <3>2
        <4>2. ef'[acc_beats'] = f /\ Len(ef') = acc_beats' /\ acc_beats' > 0 BY <2>3, <4>1
        <4>3. ef'[acc_beats'].src = acc_open' BY <4>1, <4>2
        <4>4. ~IsLast(ef'[acc_beats']) BY <2>7, <3>2, <4>2
        <4>5. ef'[acc_beats'].n = flits'[acc_open'] - (IF Waiting(acc_open)' THEN 1 ELSE 0)
          <5>1. Waiting(acc_open)' <=> Waiting(s)' BY <4>1 DEF Waiting
          <5> QED BY <2>9, <3>2, <4>1, <4>2, <5>1
        <4> QED BY <2>1, <2>5, <2>6, <4>1, <4>2, <4>3, <4>4, <4>5 DEF EncOK
      <3> QED BY <3>1, <3>2
    <2>11. PortsOK'
      <3>1. \A p \in Ports : port'[p] = port[p] \/ port'[p] = NoFlit BY <2>2 DEF EncTypes
      <3> QED BY <3>1 DEF PortsOK
    <2> QED BY <2>10, <2>11
  <1>2. CASE GivesOne
    <2>1. /\ acc_ready /\ acc_ready' /\ obst' = "DAT" /\ ob_who' = 1
          /\ ef # <<>> /\ ef' = Tail(ef) /\ ef \in Seq(Flit)
          /\ port' = port /\ acc_open' = acc_open /\ acc_beats' = acc_beats /\ acc_nb' = acc_nb
      BY <1>2, OutboundMeans DEF GivesOne, EncTypes
    <2>2. Run(ef') BY <2>1, RunTail DEF EncOK
    <2>3. acc_open = Nobody /\ acc_beats = 0 /\ acc_nb > 0 BY <2>1 DEF EncOK
    <2>4. EncOK' BY <2>1, <2>2, <2>3 DEF EncOK
    <2>5. PortsOK' BY <2>1 DEF PortsOK
    <2> QED BY <2>4, <2>5
  <1>3. CASE Waits
    <2>1. /\ ef' = ef /\ acc_ready' = (acc_ready /\ ~(LastTaken /\ ob_who = 1)) /\ ~EfPop
          /\ port' = port /\ acc_open' = acc_open /\ acc_beats' = acc_beats /\ acc_nb' = acc_nb
      BY <1>3 DEF Waits
    <2>2. PortsOK' BY <2>1 DEF PortsOK
    <2>3. acc_open # Nobody => ~acc_ready' BY <2>1 DEF EncOK
    <2>4. Waiting(acc_open)' <=> Waiting(acc_open) BY <2>1 DEF Waiting
    <2>5. CASE acc_ready /\ LastTaken /\ ob_who = 1
      <3>1. ~acc_ready' /\ obst' = "IDLE" BY <2>1, <2>5, OutboundMeans
      <3>2. acc_open = Nobody /\ acc_beats = 0 BY <2>5 DEF EncOK
      <3>3. Len(ef) = 0 BY <2>5 DEF OutOK, LastTaken, BeatTaken
      <3> QED BY <2>1, <2>2, <3>1, <3>2, <3>3 DEF EncOK
    <2>6. CASE acc_ready /\ ~(LastTaken /\ ob_who = 1)
      <3>1. acc_ready' BY <2>1, <2>6
      <3>2. acc_open = Nobody /\ acc_beats = 0 /\ acc_nb > 0 BY <2>6 DEF EncOK
      <3>3. ~(obst' = "DAT" /\ ob_who' = 1) => Len(ef) = acc_nb
        <4>1. obst = "DAT" /\ ob_who = 1 => obst' = "DAT" /\ ob_who' = 1
          BY <2>6, OutboundMeans
        <4> QED BY <2>6, <4>1 DEF EncOK
      <3> QED BY <2>1, <2>2, <3>1, <3>2, <3>3 DEF EncOK
    <2>7. CASE ~acc_ready
      <3>1. ~acc_ready' BY <2>1, <2>7
      <3>2. obst' # "IDLE" => ob_who' # 1 BY <2>7, OutboundMeans DEF EncOK
      <3> QED BY <2>1, <2>2, <2>4, <2>7, <3>1, <3>2 DEF EncOK
    <2> QED BY <2>5, <2>6, <2>7
  <1> QED BY <1>1, <1>2, <1>3

(* The outbound arbiter takes up a packet, sends its header, a beat that   *)
(* is not its last, its last, or nothing.                                  *)
Starts ==
  /\ obst = "IDLE" /\ obst' = "HDR" /\ Pick \in 0 .. 2 /\ Req(Pick) /\ ob_who' = Pick
  /\ ltx_hdr' = [hdr |-> TRUE, load |-> ObLoad(Pick), len |-> Beats(Pick) - 1]
  /\ ob_left' = Beats(Pick)
  /\ UNCHANGED <<ob_rr, ltx_dat, cross>>
SendsHeader ==
  /\ obst = "HDR" /\ Room /\ obst' = "DAT" /\ cross' = Append(cross, ltx_hdr)
  /\ ltx_dat' = ObLoad(ob_who)
  /\ UNCHANGED <<ob_who, ob_rr, ob_left, ltx_hdr>>
SendsBeat ==
  /\ obst = "DAT" /\ Room /\ ob_left # 1 /\ obst' = "DAT" /\ cross' = Append(cross, ObBeat)
  /\ ob_left' = ob_left - 1 /\ ltx_dat' = ObLoad(ob_who)
  /\ UNCHANGED <<ob_who, ob_rr, ltx_hdr>>
SendsLast ==
  /\ obst = "DAT" /\ Room /\ ob_left = 1 /\ obst' = "IDLE" /\ cross' = Append(cross, ObBeat)
  /\ ob_rr' = ob_who
  /\ UNCHANGED <<ob_who, ob_left, ltx_hdr, ltx_dat>>
SendsNothing ==
  /\ obst # "IDLE" => ~Room
  /\ UNCHANGED <<obst, ob_who, ob_rr, ob_left, ltx_hdr, ltx_dat, cross>>

(* What the outbound arbiter does is one of the five.                      *)
LEMMA OutboundCases ==
  ASSUME OutTypes, Outbound
  PROVE  Starts \/ SendsHeader \/ SendsBeat \/ SendsLast \/ SendsNothing
  <1>1. CASE obst = "IDLE" /\ \E w \in 0 .. 2 : Req(w)
    <2>1. Pick \in 0 .. 2 /\ Req(Pick) BY <1>1, PickAsks DEF OutTypes
    <2>2. Starts BY <1>1, <2>1 DEF Outbound, HdrTaken, BeatTaken, Starts
    <2> QED BY <2>2
  <1>2. CASE obst = "IDLE" /\ ~\E w \in 0 .. 2 : Req(w)
    <2>1. SendsNothing BY <1>2 DEF Outbound, HdrTaken, BeatTaken, SendsNothing, obVars
    <2> QED BY <2>1
  <1>3. CASE obst = "HDR"
    <2>1. SendsHeader \/ SendsNothing
      BY <1>3 DEF Outbound, HdrTaken, BeatTaken, SendsHeader, SendsNothing, obVars
    <2> QED BY <2>1
  <1>4. CASE obst = "DAT"
    <2>1. SendsBeat \/ SendsLast \/ SendsNothing
      BY <1>4 DEF Outbound, HdrTaken, BeatTaken, SendsBeat, SendsLast, SendsNothing, obVars
    <2> QED BY <2>1
  <1> QED BY <1>1, <1>2, <1>3, <1>4 DEF OutTypes

(* What is loaded to be sent.                                              *)
LEMMA LoadParts ==
  ASSUME MoverTypes, HostTypes, EncTypes, NEW w \in 0 .. 2, w = 1 => ef # <<>>
  PROVE  /\ ObLoad(w) \in Load /\ ObLoad(w).kind = KindOf(w)
         /\ w = 1 => /\ ObLoad(w) = FlitLoad(ef[1]) /\ ef[1] \in Flit
                     /\ ObLoad(w).src \in Sender
  <1>1. d_r \in Nat /\ door_txn \in Nat BY DEF MoverTypes, HostTypes
  <1>2. CASE w = 0 \/ w = 2
    <2>1. PICK n \in Nat : ObLoad(w) = [kind |-> KindOf(w), src |-> Nobody, n |-> n]
      BY <1>1, <1>2 DEF ObLoad, KindOf
    <2>2. [kind |-> KindOf(w), src |-> Nobody, n |-> n] \in Load
      BY <1>2 DEF KindOf, Load, Kind
    <2> QED BY <1>2, <2>1, <2>2
  <1>3. CASE w = 1
    <2>1. Head(ef) = ef[1] /\ ef[1] \in Flit BY <1>3, TailParts DEF EncTypes
    <2>2. ObLoad(w) = FlitLoad(ef[1]) BY <1>3, <2>1 DEF ObLoad, FlitLoad
    <2>3. FlitLoad(ef[1]) \in Load BY <2>1, FlitParts
    <2>4. FlitLoad(ef[1]).kind = KindOf(w) /\ FlitLoad(ef[1]).src = ef[1].src
      BY <1>3 DEF FlitLoad, KindOf
    <2>5. ef[1].src \in Sender BY <2>1 DEF Flit
    <2> QED BY <2>1, <2>2, <2>3, <2>4, <2>5
  <1> QED BY <1>2, <1>3

(* While a burst is being sent, what happens to the FIFO is known.         *)
LEMMA BurstKept ==
  ASSUME OutTypes, EncTypes, EncOK, TakesOne \/ GivesOne \/ Waits
  PROVE  /\ obst # "IDLE" /\ ob_who = 1 => acc_ready
         /\ acc_ready => ef' = IF EfPop THEN Tail(ef) ELSE ef
  <1>1. obst # "IDLE" /\ ob_who = 1 => acc_ready BY DEF EncOK, EncTypes
  <1>2. acc_ready => ef' = IF EfPop THEN Tail(ef) ELSE ef BY DEF TakesOne, GivesOne, Waits
  <1> QED BY <1>1, <1>2

(* The packet being sent and its count stay in agreement.                  *)
LEMMA OutKeeps ==
  ASSUME MoverTypes, HostTypes, EncTypes, OutTypes, EncOK, OutOK, Outbound,
         TakesOne \/ GivesOne \/ Waits
  PROVE  OutTypes' /\ OutOK'
  <1>1. CASE Starts
    <2>1. PICK w \in 0 .. 2 : w = Pick /\ Req(w) BY <1>1 DEF Starts
    <2>2. w = 1 => acc_ready /\ Len(ef) = acc_nb /\ acc_nb > 0 /\ ef # <<>>
      BY <1>1, <2>1 DEF Req, EncOK, EncTypes, Starts
    <2>3. /\ ObLoad(w) \in Load /\ ObLoad(w).kind = KindOf(w)
          /\ w = 1 => ObLoad(w) = FlitLoad(ef[1]) /\ ObLoad(w).src \in Sender
      BY <2>2, LoadParts
    <2>4. Beats(w) \in 1 .. MAX_BEATS /\ (w # 1 => Beats(w) = 1)
      BY <2>2, ILinkAssumption DEF Beats, EncTypes
    <2> PICK h : h = [hdr |-> TRUE, load |-> ObLoad(w), len |-> Beats(w) - 1] OBVIOUS
    <2>5. h.load = ObLoad(w) /\ h.len = Beats(w) - 1 /\ h.len \in Nat /\ h \in Header
      BY <2>3, <2>4, ILinkAssumption DEF Header
    <2>6. HeaderOK(h) /\ h.load.kind = KindOf(w)
      <3>1. h.len \in 0 .. MAX_BEATS - 1 BY <2>4, <2>5, ILinkAssumption
      <3>2. KindOf(w) = "FLIT" => w = 1 BY DEF KindOf
      <3>3. h.load.kind = "FLIT" => h.load.src \in Sender BY <2>3, <2>5, <3>2
      <3>4. h.load.kind # "FLIT" => h.len = 0 BY <2>3, <2>4, <2>5 DEF KindOf
      <3> QED BY <2>3, <2>5, <3>1, <3>3, <3>4 DEF HeaderOK
    <2>7. /\ obst' = "HDR" /\ ob_who' = w /\ ltx_hdr' = h /\ ob_left' = Beats(w)
          /\ ob_rr' = ob_rr /\ ltx_dat' = ltx_dat
      BY <1>1, <2>1 DEF Starts
    <2>8. w = 1 => ef' = ef
      <3>1. ~EfPop BY <1>1 DEF Starts, EfPop, HdrTaken, BeatTaken
      <3> QED BY <2>2, <3>1, BurstKept
    <2>9. ob_left' = h.len + 1 /\ ob_left' \in 1 .. h.len + 1 /\ ob_left' \in 0 .. MAX_BEATS
      BY <2>4, <2>5, <2>7, ILinkAssumption
    <2>10. w = 1 => Len(ef') = ob_left' /\ h.load = FlitLoad(ef'[1])
      <3>1. w = 1 => Beats(w) = acc_nb BY DEF Beats
      <3> QED BY <2>2, <2>3, <2>5, <2>7, <2>8, <3>1
    <2>11. OutTypes' BY <2>5, <2>7, <2>9 DEF OutTypes
    <2>12. OutOK' BY <2>6, <2>7, <2>9, <2>10 DEF OutOK
    <2> QED BY <2>11, <2>12
  <1>2. CASE SendsHeader
    <2>1. ob_who = 1 => acc_ready /\ ef # <<>> /\ Len(ef) = ob_left /\ EfPop
      BY <1>2, BurstKept, HeaderParts
         DEF SendsHeader, OutOK, EncTypes, EfPop, HdrTaken
    <2>2. ObLoad(ob_who) \in Load BY <2>1, LoadParts DEF OutTypes
    <2>3. ob_who = 1 => Len(ef') = ob_left - 1
      BY <2>1, BurstKept, TailParts DEF EncTypes
    <2>4. OutTypes' BY <1>2, <2>2 DEF SendsHeader, OutTypes
    <2>5. OutOK' BY <1>2, <2>3 DEF SendsHeader, OutOK
    <2> QED BY <2>4, <2>5
  <1>3. CASE SendsBeat
    <2>1. HeaderOK(ltx_hdr) /\ ltx_hdr.load.kind = KindOf(ob_who)
          /\ ob_left \in 1 .. ltx_hdr.len + 1 /\ ltx_hdr.len \in Nat
      BY <1>3, HeaderParts DEF SendsBeat, OutOK
    <2>2. ob_who = 1 BY <1>3, <2>1 DEF SendsBeat, HeaderOK, KindOf, OutTypes
    <2>3. acc_ready /\ ef # <<>> /\ Len(ef) = ob_left - 1 /\ EfPop
      BY <1>3, <2>1, <2>2, BurstKept
         DEF SendsBeat, OutOK, EncTypes, EfPop, BeatTaken
    <2>4. ObLoad(ob_who) \in Load BY <2>3, LoadParts DEF OutTypes
    <2>5. Len(ef') = ob_left' - 1
      <3>1. ef' = Tail(ef) BY <2>3, BurstKept
      <3> QED BY <1>3, <2>1, <2>3, <3>1, TailParts DEF EncTypes, SendsBeat
    <2>6. ob_left' \in 1 .. ltx_hdr.len + 1 /\ ob_left' \in 0 .. MAX_BEATS
      BY <1>3, <2>1, ILinkAssumption, SMTT(40) DEF SendsBeat, OutTypes
    <2>7. OutTypes' BY <1>3, <2>4, <2>6 DEF SendsBeat, OutTypes
    <2>8. OutOK' BY <1>3, <2>1, <2>5, <2>6 DEF SendsBeat, OutOK
    <2> QED BY <2>7, <2>8
  <1>4. CASE SendsLast
    <2>1. OutTypes' BY <1>4 DEF SendsLast, OutTypes
    <2>2. OutOK' BY <1>4 DEF SendsLast, OutOK
    <2> QED BY <2>1, <2>2
  <1>5. CASE SendsNothing
    <2>1. OutTypes' BY <1>5 DEF SendsNothing, OutTypes
    <2>2. obst # "IDLE" /\ ob_who = 1 => ef' = ef
      <3>1. obst # "IDLE" => ~EfPop BY <1>5 DEF SendsNothing, EfPop, HdrTaken, BeatTaken
      <3> QED BY <3>1, BurstKept
    <2>3. OutOK' BY <1>5, <2>2 DEF SendsNothing, OutOK
    <2> QED BY <2>1, <2>3
  <1> QED BY <1>1, <1>2, <1>3, <1>4, <1>5, OutboundCases

(* What is still to be sent is a sequence of beats.                        *)
SentAs(r, left, dat, fifo) ==
  /\ r \in Seq(Item) /\ Len(r) = left
  /\ r[1] = [hdr |-> FALSE, load |-> dat, last |-> left = 1]
  /\ \A j \in 2 .. left :
       r[j] = [hdr |-> FALSE, load |-> FlitLoad(fifo[j - 1]), last |-> j = left]

(* ToSend makes those.                                                     *)
LEMMA ToSendParts ==
  ASSUME NEW left \in Nat \ {0}, NEW dat \in Load, NEW fifo \in Seq(Flit),
         left = 1 \/ Len(fifo) = left - 1
  PROVE  SentAs(ToSend("DAT", left, dat, fifo), left, dat, fifo)
  <1> DEFINE B(j) == [hdr  |-> FALSE,
                      load |-> IF j = 1 THEN dat ELSE FlitLoad(fifo[j - 1]),
                      last |-> j = left]
             r == [j \in 1 .. left |-> B(j)]
  <1>1. ToSend("DAT", left, dat, fifo) = r BY DEF ToSend
  <1>2. ASSUME NEW j \in 1 .. left PROVE B(j) \in Item
    <2> PICK l : l = IF j = 1 THEN dat ELSE FlitLoad(fifo[j - 1]) OBVIOUS
    <2>1. l \in Load
      <3>1. CASE j = 1 BY <3>1
      <3>2. CASE j # 1
        <4>1. j - 1 \in 1 .. Len(fifo) BY <3>2
        <4>2. fifo[j - 1] \in Flit BY <4>1
        <4> QED BY <3>2, <4>2, FlitParts
      <3> QED BY <3>1, <3>2
    <2>2. [hdr |-> FALSE, load |-> l, last |-> j = left] \in Beat
      <3>1. (j = left) \in BOOLEAN OBVIOUS
      <3> QED BY <2>1, <3>1, Zenon DEF Beat
    <2> QED BY <2>2 DEF Item
  <1> HIDE DEF B
  <1>3. r \in [1 .. left -> Item] BY <1>2
  <1>4. r \in Seq(Item) /\ Len(r) = left BY <1>3
  <1>5. r[1] = B(1) /\ \A j \in 2 .. left : r[j] = B(j) OBVIOUS
  <1>6. B(1) = [hdr |-> FALSE, load |-> dat, last |-> left = 1]
    <2>1. (1 = left) = (left = 1) OBVIOUS
    <2> QED BY <2>1 DEF B
  <1>7. \A j \in 2 .. left :
          B(j) = [hdr |-> FALSE, load |-> FlitLoad(fifo[j - 1]), last |-> j = left]
    <2> TAKE j \in 2 .. left
    <2>1. j # 1 OBVIOUS
    <2> QED BY <2>1, Zenon DEF B
  <1> HIDE DEF r
  <1> QED BY <1>1, <1>4, <1>5, <1>6, <1>7 DEF SentAs

(* Moving the first element of one sequence to the end of another.         *)
LEMMA Regroup ==
  ASSUME NEW q \in Seq(Item), NEW r \in Seq(Item), r # <<>>
  PROVE  Append(q, r[1]) \o Tail(r) = q \o r
  <1>1. /\ Len(r) \in Nat \ {0} /\ Tail(r) \in Seq(Item) /\ Len(Tail(r)) = Len(r) - 1
        /\ \A i \in 1 .. Len(r) - 1 : Tail(r)[i] = r[i + 1]
        /\ r[1] \in Item
    BY TailParts
  <1> DEFINE a == Append(q, r[1]) \o Tail(r)
             b == q \o r
             n == Len(q)
  <1>2. Joined(a, q, r[1], Tail(r)) BY <1>1, JoinParts
  <1>3. /\ b \in Seq(Item) /\ n \in Nat /\ Len(b) = n + Len(r)
        /\ \A i \in 1 .. n : b[i] = q[i]
        /\ \A j \in 1 .. Len(r) : b[n + j] = r[j]
    OBVIOUS
  <1> HIDE DEF a, b
  <1>4. Len(a) = n + Len(r) /\ a \in Seq(Item) BY <1>1, <1>2, <1>3 DEF Joined
  <1>5. ASSUME NEW i \in 1 .. n + Len(r) PROVE a[i] = b[i]
    <2>1. CASE i \in 1 .. n BY <1>2, <1>3, <2>1 DEF Joined
    <2>2. CASE i = n + 1 BY <1>1, <1>2, <1>3, <2>2 DEF Joined
    <2>3. CASE i \notin 1 .. n + 1
      <3>1. PICK j \in 1 .. Len(r) - 1 : i = n + 1 + j
        <4>1. i - n - 1 \in 1 .. Len(r) - 1 /\ i = n + 1 + (i - n - 1) BY <1>1, <1>3, <2>3
        <4> QED BY <4>1
      <3>2. a[i] = Tail(r)[j] BY <1>1, <1>2, <3>1 DEF Joined
      <3>3. b[n + (j + 1)] = r[j + 1] /\ n + (j + 1) = i BY <1>1, <1>3, <3>1
      <3> QED BY <1>1, <3>1, <3>2, <3>3
    <2> QED BY <1>1, <1>3, <2>1, <2>2, <2>3
  <1>6. a = b
    <2>1. Len(a) = Len(b) BY <1>3, <1>4
    <2>2. \A i \in 1 .. Len(a) : a[i] = b[i] BY <1>4, <1>5
    <2> QED BY <1>3, <1>4, <2>1, <2>2, SeqEqual
  <1> QED BY <1>6 DEF a, b

(* Sending a beat moves it from what is to be sent to the crossing.        *)
LEMMA ToSendTail ==
  ASSUME NEW left \in Nat \ {0, 1}, NEW dat \in Load, NEW fifo \in Seq(Flit),
         Len(fifo) = left - 1
  PROVE  /\ fifo # <<>> /\ FlitLoad(fifo[1]) \in Load
         /\ ToSend("DAT", left - 1, FlitLoad(fifo[1]), Tail(fifo))
              = Tail(ToSend("DAT", left, dat, fifo))
  <1>1. /\ fifo # <<>> /\ fifo[1] \in Flit /\ Tail(fifo) \in Seq(Flit)
        /\ Len(Tail(fifo)) = left - 1 - 1
        /\ \A i \in 1 .. Len(fifo) - 1 : Tail(fifo)[i] = fifo[i + 1]
    <2>1. fifo # <<>> OBVIOUS
    <2> QED BY <2>1, TailParts
  <1>2. FlitLoad(fifo[1]) \in Load BY <1>1, FlitParts
  <1> DEFINE r == ToSend("DAT", left, dat, fifo)
             t == ToSend("DAT", left - 1, FlitLoad(fifo[1]), Tail(fifo))
  <1>a. SentAs(r, left, dat, fifo) BY ToSendParts
  <1>b. SentAs(t, left - 1, FlitLoad(fifo[1]), Tail(fifo))
    <2>1. left - 1 \in Nat \ {0} OBVIOUS
    <2> QED BY <1>1, <1>2, <2>1, ToSendParts, Zenon
  <1> HIDE DEF r, t
  <1>3. /\ r \in Seq(Item) /\ Len(r) = left
        /\ \A j \in 2 .. left :
             r[j] = [hdr |-> FALSE, load |-> FlitLoad(fifo[j - 1]), last |-> j = left]
    BY <1>a DEF SentAs
  <1>4. /\ t \in Seq(Item) /\ Len(t) = left - 1
        /\ t[1] = [hdr |-> FALSE, load |-> FlitLoad(fifo[1]), last |-> left - 1 = 1]
        /\ \A j \in 2 .. left - 1 :
             t[j] = [hdr |-> FALSE, load |-> FlitLoad(Tail(fifo)[j - 1]), last |-> j = left - 1]
    BY <1>b DEF SentAs
  <1>5. r # <<>> BY <1>3
  <1>6. /\ Tail(r) \in Seq(Item) /\ Len(Tail(r)) = left - 1
        /\ \A i \in 1 .. left - 1 : Tail(r)[i] = r[i + 1]
    BY <1>3, <1>5, TailParts
  <1>7. ASSUME NEW j \in 1 .. left - 1 PROVE t[j] = Tail(r)[j]
    <2>1. j + 1 \in 2 .. left /\ (j + 1) - 1 = j /\ ((j + 1 = left) = (j = left - 1)) OBVIOUS
    <2>2. Tail(r)[j] = [hdr |-> FALSE, load |-> FlitLoad(fifo[j]), last |-> j = left - 1]
      <3>1. r[j + 1] = [hdr |-> FALSE, load |-> FlitLoad(fifo[(j + 1) - 1]), last |-> j + 1 = left]
        BY <1>3, <2>1
      <3> QED BY <1>6, <2>1, <3>1
    <2>3. CASE j = 1
      <3>1. (left - 1 = 1) = (j = left - 1) BY <2>3
      <3> QED BY <1>4, <2>2, <2>3, <3>1
    <2>4. CASE j # 1
      <3>1. j \in 2 .. left - 1 /\ j - 1 \in 1 .. Len(fifo) - 1 /\ (j - 1) + 1 = j BY <2>4
      <3>2. Tail(fifo)[j - 1] = fifo[j] BY <1>1, <3>1
      <3> QED BY <1>4, <2>2, <3>1, <3>2, ZenonT(40)
    <2> QED BY <2>3, <2>4
  <1>8. t = Tail(r) BY <1>4, <1>6, <1>7
  <1> QED BY <1>1, <1>2, <1>8 DEF r, t

(* The fields of a beat.                                                   *)
LEMMA BeatParts ==
  ASSUME NEW l, NEW b \in BOOLEAN, NEW y, y = [hdr |-> FALSE, load |-> l, last |-> b]
  PROVE  ~y.hdr /\ (y.last <=> b) /\ y.load = l
  <1>1. y.hdr = FALSE /\ y.last = b /\ y.load = l OBVIOUS
  <1> QED BY <1>1, Zenon

(* A packet of one beat is sent whatever the FIFO holds.                   *)
LEMMA OneBeat ==
  ASSUME NEW dat, NEW f, NEW g
  PROVE  ToSend("DAT", 1, dat, f) = ToSend("DAT", 1, dat, g)
  <1> DEFINE B(j, q) == [hdr  |-> FALSE,
                         load |-> IF j = 1 THEN dat ELSE FlitLoad(q[j - 1]),
                         last |-> j = 1]
  <1>1. \A j \in 1 .. 1 : B(j, f) = B(j, g)
    <2> TAKE j \in 1 .. 1
    <2>1. j = 1 OBVIOUS
    <2> QED BY <2>1, Zenon
  <1> HIDE DEF B
  <1>2. [j \in 1 .. 1 |-> B(j, f)] = [j \in 1 .. 1 |-> B(j, g)] BY <1>1
  <1> QED BY <1>2, Zenon DEF ToSend, B

(* A clock edge of the sender leaves the line as it is or adds a whole     *)
(* packet to it: the header goes out when the beats are known.             *)
LEMMA LineKeeps ==
  ASSUME MoverTypes, HostTypes, EncTypes, OutTypes, LineTypes, InTypes, EncOK, OutOK, Outbound,
         TakesOne \/ GivesOne \/ Waits, Framed(Line, inst, in_hdr, in_left),
         inst' = inst, in_hdr' = in_hdr, in_left' = in_left
  PROVE  LineTypes' /\ Framed(Line', inst', in_hdr', in_left')
  <1>1. cross \in Seq(Item) /\ Len(cross) \in Nat /\ cross \o <<>> = cross
        /\ ef \in Seq(Flit)
    BY DEF LineTypes, EncTypes
  <1>2. Room => Len(cross) + 1 <= CAP BY <1>1, ILinkAssumption DEF Room
  <1>3. ASSUME cross' = cross, Line' = Line
        PROVE  LineTypes' /\ Framed(Line', inst', in_hdr', in_left')
    BY <1>3 DEF LineTypes
  <1>4. ASSUME Room, NEW x \in Item, cross' = Append(cross, x) PROVE LineTypes'
    BY <1>1, <1>2, <1>4 DEF LineTypes
  <1>5. CASE Starts
    <2>1. cross' = cross /\ Line = cross \o <<>> /\ Line' = cross' \o <<>>
      BY <1>5 DEF Starts, Line, ToSend
    <2> QED BY <1>3, <2>1
  <1>6. CASE SendsHeader
    <2> PICK h : h = ltx_hdr OBVIOUS
    <2> PICK dat : dat = ObLoad(ob_who) OBVIOUS
    <2>1. /\ HeaderOK(h) /\ h.load.kind = KindOf(ob_who) /\ h.len \in Nat
          /\ ob_left = h.len + 1 /\ h \in Header /\ h \in Item /\ h.hdr
      BY <1>6, HeaderParts DEF SendsHeader, OutOK, OutTypes, Item, Header
    <2>2. ob_who = 1 => acc_ready /\ ef # <<>> /\ Len(ef) = ob_left /\ EfPop
                        /\ h.load = FlitLoad(ef[1])
      BY <1>6, <2>1, BurstKept DEF SendsHeader, OutOK, EncTypes, EfPop, HdrTaken
    <2>3. /\ dat \in Load /\ dat.kind = KindOf(ob_who)
          /\ ob_who = 1 => dat = FlitLoad(ef[1])
      BY <2>2, LoadParts DEF OutTypes
    <2>4. ob_who # 1 => ob_left = 1 /\ h.load.kind # "FLIT"
      BY <2>1 DEF HeaderOK, KindOf, OutTypes
    <2>5. ob_who = 1 => ef' = Tail(ef) BY <2>2, BurstKept
    <2> PICK fifo : fifo = IF ob_who = 1 THEN Tail(ef) ELSE <<>> OBVIOUS
    <2>6. /\ fifo \in Seq(Flit) /\ (ob_left = 1 \/ Len(fifo) = ob_left - 1)
          /\ ob_who = 1 => \A i \in 1 .. Len(fifo) : fifo[i] = ef[i + 1]
      BY <1>1, <2>2, <2>4, TailParts
    <2> DEFINE r == ToSend("DAT", ob_left, dat, fifo)
    <2>7. SentAs(r, ob_left, dat, fifo) 
      <3>1. ob_left \in Nat \ {0} BY <2>1
      <3> QED BY <2>3, <2>6, <3>1, ToSendParts, Zenon
    <2>8. Line' = Append(cross, h) \o r
      <3>1. Line' = Append(cross, h) \o ToSend("DAT", ob_left, dat, ef')
        BY <1>6 DEF SendsHeader, Line
      <3>2. ToSend("DAT", ob_left, dat, ef') = r
        <4>1. CASE ob_who = 1 BY <2>5, <4>1
        <4>2. CASE ob_who # 1
          <5>1. ob_left = 1 BY <2>4, <4>2
          <5> QED BY <5>1, OneBeat
        <4> QED BY <4>1, <4>2
      <3> QED BY <3>1, <3>2
    <2>9. Line = cross BY <1>1, <1>6 DEF SendsHeader, Line, ToSend
    <2> HIDE DEF r
    <2>10. r \in Seq(Item) /\ Len(r) = h.len + 1 BY <2>1, <2>7 DEF SentAs
    <2>11. ASSUME NEW j \in 1 .. h.len + 1 PROVE BeatOf(h, j, r[j])
      <3>1. ~r[j].hdr /\ (r[j].last <=> j = ob_left)
            /\ r[j].load = IF j = 1 THEN dat ELSE FlitLoad(fifo[j - 1])
        <4>1. PICK l : l = IF j = 1 THEN dat ELSE FlitLoad(fifo[j - 1]) OBVIOUS
        <4>2. PICK b \in BOOLEAN : b = (j = ob_left) OBVIOUS
        <4>3. r[j] = [hdr |-> FALSE, load |-> l, last |-> b]
          <5>1. CASE j = 1
            <6>1. r[1] = [hdr |-> FALSE, load |-> dat, last |-> ob_left = 1]
              BY <2>7 DEF SentAs
            <6>2. (ob_left = 1) = (j = ob_left) BY <5>1
            <6>3. l = dat BY <4>1, <5>1
            <6> QED BY <4>2, <5>1, <6>1, <6>2, <6>3
          <5>2. CASE j # 1
            <6>1. j \in 2 .. ob_left BY <2>1, <5>2
            <6>2. r[j] = [hdr |-> FALSE, load |-> FlitLoad(fifo[j - 1]), last |-> j = ob_left]
              BY <2>7, <6>1 DEF SentAs
            <6>3. l = FlitLoad(fifo[j - 1]) BY <4>1, <5>2
            <6> QED BY <4>2, <6>2, <6>3
          <5> QED BY <5>1, <5>2
        <4>4. ~r[j].hdr /\ (r[j].last <=> b) /\ r[j].load = l BY <4>3, BeatParts
        <4> QED BY <4>1, <4>2, <4>4
      <3>2. CASE ob_who = 1
        <4>1. j \in 1 .. Len(ef) BY <2>1, <2>2, <3>2
        <4>2. r[j].load = FlitLoad(ef[j])
          <5>1. CASE j = 1 BY <2>3, <3>1, <3>2, <5>1
          <5>2. CASE j # 1
            <6>1. j - 1 \in 1 .. Len(fifo) /\ (j - 1) + 1 = j
              BY <2>1, <2>6, <5>2
            <6>2. fifo[j - 1] = ef[j] BY <2>6, <3>2, <6>1
            <6> QED BY <3>1, <5>2, <6>2
          <5> QED BY <5>1, <5>2
        <4>3. ef[j].src = ef[1].src /\ ef[j].n = ef[1].n + j - 1 /\ BurstOf(ef[j]) = BurstOf(ef[1])
          BY <4>1 DEF EncOK, Run
        <4>4. \A f : FlitLoad(f).kind = "FLIT" /\ FlitLoad(f).src = f.src /\ FlitLoad(f).n = f.n
                     /\ BurstOf(FlitLoad(f)) = BurstOf(f)
          BY DEF FlitLoad, BurstOf
        <4>5. h.load = FlitLoad(ef[1]) BY <2>2, <3>2
        <4>6. /\ r[j].load.kind = h.load.kind /\ r[j].load.src = h.load.src
              /\ r[j].load.n = h.load.n + j - 1 /\ BurstOf(r[j].load) = BurstOf(h.load)
          BY <4>2, <4>3, <4>4, <4>5
        <4>7. ~r[j].hdr /\ (r[j].last <=> j = h.len + 1) BY <2>1, <3>1
        <4> QED BY <4>6, <4>7 DEF BeatOf
      <3>3. CASE ob_who # 1
        <4>1. j = 1 /\ r[j].load = dat BY <2>1, <2>4, <3>1, <3>3
        <4>2. r[j].load.kind = h.load.kind /\ h.load.kind # "FLIT" BY <2>1, <2>3, <2>4, <3>3, <4>1
        <4>3. ~r[j].hdr /\ (r[j].last <=> j = h.len + 1) BY <2>1, <3>1
        <4> QED BY <4>2, <4>3 DEF BeatOf
      <3> QED BY <3>2, <3>3
    <2>12. Joined(Append(cross, h) \o r, cross, h, r) BY <1>1, <2>1, <2>10, JoinParts
    <2>13. Framed(Append(cross, h) \o r, inst, in_hdr, in_left)
      BY <1>1, <2>1, <2>9, <2>10, <2>11, <2>12, AppendPacket
    <2>14. LineTypes' BY <1>4, <1>6, <2>1 DEF SendsHeader
    <2> QED BY <2>8, <2>13, <2>14
  <1>7. CASE SendsBeat
    <2>1. HeaderOK(ltx_hdr) /\ ltx_hdr.load.kind = KindOf(ob_who)
          /\ ob_left \in 1 .. ltx_hdr.len + 1 /\ ltx_hdr.len \in Nat
      BY <1>7, HeaderParts DEF SendsBeat, OutOK
    <2>2. ob_who = 1 /\ ob_left \in Nat \ {0, 1}
      BY <1>7, <2>1 DEF SendsBeat, HeaderOK, KindOf, OutTypes
    <2>3. acc_ready /\ Len(ef) = ob_left - 1 /\ EfPop
      BY <1>7, <2>1, <2>2, BurstKept DEF SendsBeat, OutOK, EfPop, BeatTaken
    <2>4. ef' = Tail(ef) BY <2>3, BurstKept
    <2>5. ltx_dat \in Load BY DEF OutTypes
    <2> PICK left : left = ob_left OBVIOUS
    <2> PICK dat : dat = ltx_dat OBVIOUS
    <2> DEFINE r == ToSend("DAT", left, dat, ef)
    <2>6. ef # <<>> /\ ToSend("DAT", left - 1, FlitLoad(ef[1]), Tail(ef)) = Tail(r)
      BY <1>1, <2>2, <2>3, <2>5, ToSendTail
    <2>7. SentAs(r, left, dat, ef) BY <1>1, <2>2, <2>3, <2>5, ToSendParts
    <2>8. ObLoad(ob_who) = FlitLoad(ef[1]) BY <2>2, <2>6, LoadParts
    <2>9. Line' = Append(cross, ObBeat) \o Tail(r)
      BY <1>7, <2>4, <2>6, <2>8 DEF SendsBeat, Line
    <2>10. Line = cross \o r BY <1>7 DEF SendsBeat, Line
    <2> HIDE DEF r
    <2>11. r \in Seq(Item) /\ r # <<>> /\ r[1] = ObBeat /\ r[1] \in Item
      BY <2>2, <2>7, TailParts DEF SentAs, ObBeat
    <2>12. Line' = Line BY <1>1, <2>9, <2>10, <2>11, Regroup
    <2>13. LineTypes' BY <1>4, <1>7, <2>11 DEF SendsBeat
    <2> QED BY <2>12, <2>13
  <1>8. CASE SendsLast
    <2>1. ltx_dat \in Load /\ 1 \in Nat \ {0} BY DEF OutTypes
    <2> PICK dat : dat = ltx_dat OBVIOUS
    <2> DEFINE r == ToSend("DAT", 1, dat, ef)
    <2>2. SentAs(r, 1, dat, ef) BY <1>1, <2>1, ToSendParts
    <2>3. Line = cross \o r BY <1>8 DEF SendsLast, Line
    <2>4. Line' = Append(cross, ObBeat) \o <<>> BY <1>8 DEF SendsLast, Line, ToSend
    <2> HIDE DEF r
    <2>a. r[1] = [hdr |-> FALSE, load |-> dat, last |-> 1 = 1] BY <2>2 DEF SentAs
    <2>d. r \in Seq(Item) /\ Len(r) = 1 BY <2>2 DEF SentAs
    <2>b. r # <<>> /\ r[1] \in Item
      <3>0. \A q \in Seq(Item) : Len(q) = 1 => q # <<>> OBVIOUS
      <3>1. r # <<>> BY <2>d, <3>0, Zenon
      <3> QED BY <2>d, <3>1, TailParts, Zenon
    <2>c. ObBeat = [hdr |-> FALSE, load |-> dat, last |-> 1 = 1]
      BY <1>8 DEF ObBeat, SendsLast
    <2>5. r \in Seq(Item) /\ r # <<>> /\ r[1] = ObBeat /\ r[1] \in Item
      BY <2>a, <2>b, <2>c, <2>d
    <2>6. Tail(r) = <<>>
      <3>1. Tail(r) \in Seq(Item) /\ Len(Tail(r)) = Len(r) - 1 BY <2>b, <2>d, TailParts, Zenon
      <3>2. Len(Tail(r)) = 0 BY <2>d, <3>1
      <3>3. \A q \in Seq(Item) : Len(q) = 0 => q = <<>> OBVIOUS
      <3> QED BY <3>1, <3>2, <3>3, Zenon
    <2>7. Line' = Line BY <1>1, <2>3, <2>4, <2>5, <2>6, Regroup
    <2>8. LineTypes' BY <1>4, <1>8, <2>5 DEF SendsLast
    <2> QED BY <2>7, <2>8
  <1>9. CASE SendsNothing
    <2>1. /\ cross' = cross /\ obst' = obst /\ ob_left' = ob_left /\ ltx_dat' = ltx_dat
          /\ obst # "IDLE" => ~EfPop
      BY <1>9 DEF SendsNothing, EfPop, HdrTaken, BeatTaken
    <2>2. ToSend(obst, ob_left, ltx_dat, ef') = ToSend(obst, ob_left, ltx_dat, ef)
      <3>1. CASE obst # "DAT" BY <3>1 DEF ToSend
      <3>2. CASE obst = "DAT" /\ ob_who = 1
        <4>1. ef' = ef BY <2>1, <3>2, BurstKept
        <4> QED BY <4>1
      <3>3. CASE obst = "DAT" /\ ob_who # 1
        <4>1. ob_left = 1 BY <3>3, HeaderParts DEF OutOK, HeaderOK, KindOf, OutTypes
        <4> QED BY <4>1, <3>3, OneBeat
      <3> QED BY <3>1, <3>2, <3>3 DEF OutTypes
    <2>3. Line' = Line BY <2>1, <2>2 DEF Line
    <2> QED BY <1>3, <2>1, <2>3
  <1> QED BY <1>5, <1>6, <1>7, <1>8, <1>9, OutboundCases

(* All of a clock edge of the sending mesh.                                *)
LEMMA TxClockKeeps ==
  ASSUME ILinkInv, TxClock
  PROVE  ILinkInv'
  <1>1. PICK m \in {"NONE", "LOCAL", "REMOTE"}, l \in LocalMem : MoverSplit(m, l)
    BY DEF TxClock
  <1>2. /\ Encapsulate /\ Outbound /\ door_req' = (door_req /\ ~(LastTaken /\ ob_who = 2))
        /\ inst' = inst /\ in_hdr' = in_hdr /\ in_left' = in_left /\ dbell_n' = dbell_n
        /\ wr_out' = wr_out /\ inj' = inj /\ lk_aw' = lk_aw /\ lk_w' = lk_w
        /\ landed' = landed /\ aws' = aws /\ ws' = ws /\ injected' = injected
        /\ flits' = flits /\ door_txn' = door_txn /\ rung' = rung
    BY DEF TxClock, rxVars
  <1>3. /\ MoverTypes /\ EncTypes /\ OutTypes /\ LineTypes
        /\ HostTypes /\ SentTypes /\ InTypes /\ FarTypes
    BY TypeParts DEF ILinkInv
  <1>4. /\ WritesPaired /\ PortsOK /\ EncOK /\ OutOK /\ Framed(Line, inst, in_hdr, in_left)
    BY DEF ILinkInv
  <1>5. TakesOne \/ GivesOne \/ Waits BY <1>2, <1>3, <1>4, EncapsulateCases
  <1>6. MoverTypes' BY <1>1, <1>3, MoverKeeps
  <1>7. EncTypes' BY <1>3, <1>4, <1>5, EncTypesKeep
  <1>8. EncOK' /\ PortsOK' BY <1>2, <1>3, <1>4, <1>5, EncKeeps
  <1>9. OutTypes' /\ OutOK' BY <1>2, <1>3, <1>4, <1>5, OutKeeps
  <1>10. LineTypes' /\ Framed(Line', inst', in_hdr', in_left')
    BY <1>2, <1>3, <1>4, <1>5, LineKeeps
  <1>11. HostTypes'
    <2>1. door_req' \in BOOLEAN BY <1>2
    <2> QED BY <1>2, <1>3, <2>1 DEF HostTypes
  <1>12. SentTypes' /\ InTypes' /\ FarTypes'
    BY <1>2, <1>3 DEF SentTypes, InTypes, FarTypes
  <1>13. WritesPaired' BY <1>2, <1>4 DEF WritesPaired
  <1>14. TypeOK' BY <1>6, <1>7, <1>9, <1>10, <1>11, <1>12, TypePartsNext
  <1> QED BY <1>8, <1>9, <1>10, <1>13, <1>14 DEF ILinkInv

(***************************************************************************)
(* The host, and the NoC that brings flits.                                *)
(***************************************************************************)
LEMMA RingKeeps ==
  ASSUME ILinkInv, Ring
  PROVE  ILinkInv'
  <1>1. /\ door_req' = TRUE /\ door_txn' = answered /\ rung' = rung + 1
        /\ UNCHANGED <<moverVars, encVars, obVars, rxVars, port, flits, cross>>
    BY DEF Ring
  <1>2. /\ MoverTypes /\ EncTypes /\ OutTypes /\ LineTypes
        /\ HostTypes /\ SentTypes /\ InTypes /\ FarTypes
    BY TypeParts DEF ILinkInv
  <1>3. HostTypes' BY <1>1, <1>2 DEF HostTypes, MoverTypes
  <1>4. MoverTypes' BY <1>1, <1>2 DEF MoverTypes, moverVars
  <1>5. EncTypes' /\ OutTypes' /\ LineTypes' /\ SentTypes' /\ InTypes' /\ FarTypes'
    BY <1>1, <1>2
       DEF EncTypes, OutTypes, LineTypes, SentTypes, InTypes, FarTypes, encVars, obVars, rxVars
  <1>6. TypeOK' BY <1>3, <1>4, <1>5, TypePartsNext
  <1>7. WritesPaired' BY <1>1 DEF ILinkInv, WritesPaired, rxVars
  <1>8. PortsOK' /\ EncOK' /\ OutOK'
    BY <1>1 DEF ILinkInv, PortsOK, EncOK, OutOK, Waiting, encVars, obVars
  <1>9. Line' = Line /\ inst' = inst /\ in_hdr' = in_hdr /\ in_left' = in_left
    BY <1>1 DEF Line, encVars, obVars, rxVars
  <1>10. Framed(Line', inst', in_hdr', in_left') BY <1>9 DEF ILinkInv
  <1> QED BY <1>6, <1>7, <1>8, <1>10 DEF ILinkInv

(* The NoC brings a flit to a port: it is the next of its sender.          *)
LEMMA PresentKeeps ==
  ASSUME ILinkInv, NEW s \in Sender, Present(s)
  PROVE  ILinkInv'
  <1> DEFINE p == PortOf[s]
             f == [src |-> s, n |-> flits[s] + 1]
  <1>1. /\ port[p] = NoFlit /\ port' = [port EXCEPT ![p] = f]
        /\ flits' = [flits EXCEPT ![s] = @ + 1]
        /\ UNCHANGED <<moverVars, encVars, obVars, rxVars, door_req, door_txn, rung, cross>>
    BY DEF Present
  <1>2. /\ MoverTypes /\ EncTypes /\ OutTypes /\ LineTypes
        /\ HostTypes /\ SentTypes /\ InTypes /\ FarTypes
    BY TypeParts DEF ILinkInv
  <1>3. p \in Ports /\ flits[s] \in Nat /\ f \in Flit /\ f.src = s /\ f.n = flits[s] + 1
    BY <1>2, ILinkAssumption DEF SentTypes, Flit
  <1>4. /\ port'[p] = f /\ \A r \in Ports \ {p} : port'[r] = port[r]
        /\ flits'[s] = flits[s] + 1 /\ \A t \in Sender \ {s} : flits'[t] = flits[t]
        /\ port' \in [Ports -> Flit \cup {NoFlit}] /\ flits' \in [Sender -> Nat]
    BY <1>1, <1>2, <1>3 DEF EncTypes, SentTypes
  <1> HIDE DEF f
  <1>5. SentTypes' /\ EncTypes'
    BY <1>1, <1>2, <1>4 DEF SentTypes, EncTypes, encVars
  <1>6. MoverTypes' /\ HostTypes' BY <1>1, <1>2 DEF MoverTypes, HostTypes, moverVars
  <1>7. OutTypes' /\ LineTypes' /\ InTypes' /\ FarTypes'
    BY <1>1, <1>2 DEF OutTypes, LineTypes, InTypes, FarTypes, obVars, rxVars
  <1>8. TypeOK' BY <1>5, <1>6, <1>7, TypePartsNext
  <1>9. WritesPaired' BY <1>1 DEF ILinkInv, WritesPaired, rxVars
  <1>10. PortsOK'
    <2> SUFFICES ASSUME NEW r \in Ports, port'[r] # NoFlit
                 PROVE  /\ PortOf[port'[r].src] = r /\ port'[r].n = flits'[port'[r].src]
                        /\ port'[r].n > 0
      BY DEF PortsOK
    <2>1. CASE r = p BY <1>3, <1>4, <2>1
    <2>2. CASE r # p
      <3>1. port'[r] = port[r] /\ PortOf[port[r].src] = r /\ port[r].n = flits[port[r].src]
            /\ port[r].n > 0
        BY <1>4, <2>2 DEF ILinkInv, PortsOK
      <3>2. port[r] \in Flit BY <1>2, <2>2, <3>1 DEF EncTypes
      <3>3. port[r].src \in Sender \ {s} BY <2>2, <3>1, <3>2 DEF Flit
      <3> QED BY <1>4, <3>1, <3>3
    <2> QED BY <2>1, <2>2
  <1>11. EncOK'
    <2>1. /\ EncOK /\ acc_open' = acc_open /\ acc_beats' = acc_beats /\ acc_ready' = acc_ready
          /\ acc_nb' = acc_nb /\ ef' = ef /\ obst' = obst /\ ob_who' = ob_who
      BY <1>1 DEF ILinkInv, encVars, obVars
    <2>2. ASSUME acc_open # Nobody
          PROVE  flits'[acc_open] - (IF port'[PortOf[acc_open]].src = acc_open THEN 1 ELSE 0)
                   = flits[acc_open] - (IF port[PortOf[acc_open]].src = acc_open THEN 1 ELSE 0)
      <3>1. acc_open \in Sender /\ PortOf[acc_open] \in Ports
        BY <1>2, <2>2, ILinkAssumption DEF EncTypes
      <3>2. CASE acc_open = s
        <4>1. port[p].src = Nobody BY <1>1 DEF NoFlit
        <4>2. port[PortOf[acc_open]].src # acc_open BY <2>2, <3>2, <4>1
        <4>3. port'[PortOf[acc_open]].src = acc_open BY <1>3, <1>4, <3>2
        <4> QED BY <1>3, <1>4, <3>2, <4>2, <4>3
      <3>3. CASE acc_open # s
        <4>1. flits'[acc_open] = flits[acc_open] BY <1>4, <3>1, <3>3
        <4>2. port'[PortOf[acc_open]].src = acc_open <=> port[PortOf[acc_open]].src = acc_open
          <5>1. CASE PortOf[acc_open] # p BY <1>4, <3>1, <5>1
          <5>2. CASE PortOf[acc_open] = p
            <6>1. port[p].src = Nobody BY <1>1 DEF NoFlit
            <6> QED BY <1>3, <1>4, <2>2, <3>3, <5>2, <6>1
          <5> QED BY <5>1, <5>2
        <4> QED BY <4>1, <4>2
      <3> QED BY <3>2, <3>3
    <2> QED BY <2>1, <2>2 DEF EncOK, Waiting
  <1>12. OutOK' BY <1>1 DEF ILinkInv, OutOK, encVars, obVars
  <1>13. Line' = Line /\ inst' = inst /\ in_hdr' = in_hdr /\ in_left' = in_left
    BY <1>1 DEF Line, encVars, obVars, rxVars
  <1>14. Framed(Line', inst', in_hdr', in_left') BY <1>13 DEF ILinkInv
  <1> QED BY <1>8, <1>9, <1>10, <1>11, <1>12, <1>14 DEF ILinkInv

-----------------------------------------------------------------------------
(***************************************************************************)
(* A clock edge of the receiving mesh.                                     *)
(***************************************************************************)

(* The first element of a sequence followed by another.                    *)
LEMMA TailOfJoin ==
  ASSUME NEW T, NEW q \in Seq(T), NEW r \in Seq(T), q # <<>>
  PROVE  /\ q \o r \in Seq(T) /\ q \o r # <<>> /\ (q \o r)[1] = Head(q)
         /\ Tail(q \o r) = Tail(q) \o r
  <1> DEFINE z == q \o r
  <1>1. /\ Len(q) \in Nat \ {0} /\ Tail(q) \in Seq(T) /\ Len(Tail(q)) = Len(q) - 1
        /\ \A i \in 1 .. Len(q) - 1 : Tail(q)[i] = q[i + 1]
        /\ Head(q) = q[1]
    BY TailParts
  <1>2. /\ z \in Seq(T) /\ Len(r) \in Nat /\ Len(z) = Len(q) + Len(r)
        /\ \A i \in 1 .. Len(q) : z[i] = q[i]
        /\ \A i \in 1 .. Len(r) : z[Len(q) + i] = r[i]
    OBVIOUS
  <1> DEFINE t == Tail(q) \o r
  <1>3. /\ t \in Seq(T) /\ Len(t) = Len(q) - 1 + Len(r)
        /\ \A i \in 1 .. Len(q) - 1 : t[i] = Tail(q)[i]
        /\ \A i \in 1 .. Len(r) : t[Len(q) - 1 + i] = r[i]
    BY <1>1
  <1> HIDE DEF z, t
  <1>4. z # <<>> BY <1>1, <1>2
  <1>5. /\ Tail(z) \in Seq(T) /\ Len(Tail(z)) = Len(z) - 1
        /\ \A i \in 1 .. Len(z) - 1 : Tail(z)[i] = z[i + 1]
    BY <1>2, <1>4, TailParts
  <1>6. ASSUME NEW i \in 1 .. Len(q) - 1 + Len(r) PROVE Tail(z)[i] = t[i]
    <2>1. Tail(z)[i] = z[i + 1] BY <1>1, <1>2, <1>5
    <2>2. CASE i \in 1 .. Len(q) - 1 BY <1>1, <1>2, <1>3, <2>1, <2>2
    <2>3. CASE i \notin 1 .. Len(q) - 1
      <3>1. PICK j \in 1 .. Len(r) : i = Len(q) - 1 + j
        <4>1. i - (Len(q) - 1) \in 1 .. Len(r) /\ i = Len(q) - 1 + (i - (Len(q) - 1))
          BY <1>1, <1>2, <2>3
        <4> QED BY <4>1
      <3>2. i + 1 = Len(q) + j BY <1>1, <3>1
      <3> QED BY <1>2, <1>3, <2>1, <3>1, <3>2
    <2> QED BY <2>2, <2>3
  <1>7. Tail(z) = t BY <1>1, <1>2, <1>3, <1>5, <1>6
  <1>8. z[1] = Head(q) BY <1>1, <1>2
  <1> QED BY <1>2, <1>4, <1>7, <1>8 DEF z, t

(* The receiver reads what the crossing holds first.                       *)
LEMMA LineParts ==
  ASSUME LineTypes, EncTypes, OutTypes, OutOK
  PROVE  /\ Line \in Seq(Item)
         /\ cross # <<>> => /\ Line # <<>> /\ Line[1] = Head(cross)
                            /\ Tail(Line) = Tail(cross) \o ToSend(obst, ob_left, ltx_dat, ef)
  <1> DEFINE r == ToSend(obst, ob_left, ltx_dat, ef)
  <1>1. r \in Seq(Item)
    <2>1. CASE obst = "DAT"
      <3>1. /\ ob_left \in Nat \ {0} /\ ltx_dat \in Load /\ ef \in Seq(Flit)
            /\ ob_left = 1 \/ Len(ef) = ob_left - 1
        BY <2>1, HeaderParts DEF OutOK, OutTypes, EncTypes, HeaderOK, KindOf
      <3>2. SentAs(ToSend("DAT", ob_left, ltx_dat, ef), ob_left, ltx_dat, ef)
        BY <3>1, ToSendParts
      <3> QED BY <2>1, <3>2 DEF SentAs
    <2>2. CASE obst # "DAT" BY <2>2 DEF ToSend
    <2> QED BY <2>1, <2>2
  <1>2. cross \in Seq(Item) BY DEF LineTypes
  <1> HIDE DEF r
  <1>3. Line = cross \o r BY DEF Line, r
  <1>4. Line \in Seq(Item) BY <1>1, <1>2, <1>3
  <1>5. cross # <<>> => Line # <<>> /\ Line[1] = Head(cross) /\ Tail(Line) = Tail(cross) \o r
    BY <1>1, <1>2, <1>3, TailOfJoin
  <1> QED BY <1>4, <1>5 DEF r

(* A header or a beat is read: what is left is framed as before.           *)
LEMMA ReceiveKeeps ==
  ASSUME InTypes, LineTypes, EncTypes, OutTypes, OutOK, Framed(Line, inst, in_hdr, in_left),
         NEW x \in Far, Receive(x), ef' = ef, UNCHANGED obVars
  PROVE  InTypes' /\ LineTypes' /\ Framed(Line', inst', in_hdr', in_left')
  <1>1. Line' = cross' \o ToSend(obst, ob_left, ltx_dat, ef) BY DEF Line, obVars
  <1>2. Line \in Seq(Item) BY LineParts
  <1>3. ASSUME cross # <<>>, cross' = Tail(cross)
        PROVE  /\ Line # <<>> /\ Line[1] = Head(cross) /\ Line[1] \in Item
               /\ Line' = Tail(Line) /\ LineTypes'
    <2>1. Line # <<>> /\ Line[1] = Head(cross) /\ Line' = Tail(Line)
      BY <1>1, <1>3, LineParts
    <2>2. Line[1] \in Item BY <1>2, <2>1, TailParts
    <2>3. LineTypes' BY <1>3, TailParts, ILinkAssumption DEF LineTypes
    <2> QED BY <2>1, <2>2, <2>3
  <1>4. CASE /\ inst = "HDR" /\ HdrIn
             /\ in_hdr' = Head(cross) /\ in_left' = Head(cross).len + 1
             /\ inst' = Head(cross).load.kind /\ cross' = Tail(cross) /\ dbell_n' = dbell_n
    <2>1. Line # <<>> /\ Line[1] = Head(cross) /\ Line[1] \in Item /\ Line' = Tail(Line)
          /\ LineTypes'
      BY <1>3, <1>4 DEF HdrIn
    <2>2. Line[1] \in Header BY <1>4, <2>1 DEF HdrIn, Item, Header, Beat
    <2>3. Line[1].load.kind \in Kind BY <2>2 DEF Header, Load
    <2>4. HeaderOK(Line[1]) /\ Framed(Tail(Line), Line[1].load.kind, Line[1], Line[1].len + 1)
      BY <1>2, <1>4, <2>1, <2>3, ReadHeader DEF Kind
    <2>5. Line[1].len + 1 \in 0 .. MAX_BEATS BY <2>4, HeaderParts
    <2>6. InTypes' BY <1>4, <2>1, <2>2, <2>3, <2>5 DEF InTypes
    <2> QED BY <1>4, <2>1, <2>4, <2>6
  <1>5. CASE /\ ActWr(x) \/ ActFl(x)
             /\ inst' = IF in_left = 1 THEN "HDR" ELSE inst
             /\ in_left' = IF in_left = 1 THEN in_left ELSE in_left - 1
             /\ cross' = Tail(cross) /\ in_hdr' = in_hdr /\ dbell_n' = dbell_n
    <2>1. cross # <<>> /\ inst # "HDR" BY <1>5 DEF ActWr, ActFl, BeatIn
    <2>2. Line # <<>> /\ Line' = Tail(Line) /\ LineTypes' BY <1>3, <1>5, <2>1
    <2>3. /\ in_left \in Nat \ {0}
          /\ in_left = 1 => \A k, n : Framed(Tail(Line), "HDR", k, n)
          /\ in_left # 1 => Framed(Tail(Line), inst, in_hdr, in_left - 1)
      BY <1>2, <2>1, <2>2, ReadBeat
    <2>4. Framed(Line', inst', in_hdr', in_left') BY <1>5, <2>2, <2>3
    <2>5. in_left' \in 0 .. MAX_BEATS BY <1>5, <2>3, ILinkAssumption DEF InTypes
    <2>6. inst' \in {"HDR"} \cup Kind BY <1>5 DEF InTypes
    <2>7. InTypes' BY <1>5, <2>5, <2>6 DEF InTypes
    <2> QED BY <2>2, <2>4, <2>7
  <1>6. CASE /\ ActDoor /\ dbell_n' = dbell_n + 1 /\ inst' = "HDR" /\ cross' = Tail(cross)
             /\ in_hdr' = in_hdr /\ in_left' = in_left
    <2>1. cross # <<>> /\ inst = "DOOR" BY <1>6 DEF ActDoor, BeatIn
    <2>2. Line # <<>> /\ Line' = Tail(Line) /\ LineTypes' BY <1>3, <1>6, <2>1
    <2>3. in_left = 1 BY <2>1 DEF Framed, HeaderOK
    <2>4. \A k, n : Framed(Tail(Line), "HDR", k, n) BY <1>2, <2>1, <2>2, <2>3, ReadBeat
    <2>5. Framed(Line', inst', in_hdr', in_left') BY <1>6, <2>2, <2>4
    <2>6. InTypes' BY <1>6 DEF InTypes
    <2> QED BY <2>2, <2>5, <2>6
  <1>7. CASE UNCHANGED <<inst, in_hdr, in_left, cross, dbell_n>>
    <2>1. Line' = Line BY <1>1, <1>7 DEF Line
    <2> QED BY <1>7, <2>1 DEF InTypes, LineTypes
  <1> QED BY <1>4, <1>5, <1>6, <1>7 DEF Receive

(* The address or data l that is held leaves for the memory's queue q,     *)
(* which answers the oldest, and that of the next write, n, takes its      *)
(* place: q and l together are a queue from which one is taken and to      *)
(* which one is added.                                                     *)
Kept(l, n, take, put) == IF put THEN n ELSE IF take THEN 0 ELSE l
Queued(q, l, b, take) == (IF b THEN Tail(q) ELSE q) \o (IF take THEN <<l>> ELSE <<>>)
Passed(q, l, n, b, take, put) ==
  /\ Queued(q, l, b, take) \in Seq(Nat) /\ Kept(l, n, take, put) \in Nat
  /\ Queued(q, l, b, take) \o Held(Kept(l, n, take, put))
       = (IF b THEN Tail(q \o Held(l)) ELSE q \o Held(l))
           \o (IF put THEN Held(n) ELSE <<>>)

(* Taking and adding are those of the queue.                               *)
LEMMA ChannelMoves ==
  ASSUME NEW q \in Seq(Nat), NEW l \in Nat, NEW n \in Nat,
         NEW b \in BOOLEAN, NEW take \in BOOLEAN, NEW put \in BOOLEAN,
         b => q # <<>>, take => l # 0, put => l = 0 \/ take
  PROVE  Passed(q, l, n, b, take, put)
  <1> DEFINE u == IF b THEN Tail(q) ELSE q
             v == IF b THEN Tail(q \o Held(l)) ELSE q \o Held(l)
  <1> PICK m : m = Kept(l, n, take, put) OBVIOUS
  <1> PICK r : r = Queued(q, l, b, take) OBVIOUS
  <1>1. Held(l) \in Seq(Nat) /\ Held(n) \in Seq(Nat) BY DEF Held
  <1>2. u \in Seq(Nat) BY TailParts
  <1>3. v = u \o Held(l) BY <1>1, TailOfJoin, ZenonT(40)
  <1> HIDE DEF u, v
  <1>4. \A w \in Seq(Nat) : w \o <<>> = w OBVIOUS
  <1>5. u \o Held(l) \in Seq(Nat) BY <1>1, <1>2
  <1>6. m \in Nat BY DEF Kept
  <1>a. r = u \o (IF take THEN <<l>> ELSE <<>>) BY DEF u, Queued
  <1>b. m = IF put THEN n ELSE IF take THEN 0 ELSE l BY DEF Kept
  <1>c. SUFFICES /\ r \in Seq(Nat) /\ m \in Nat
                 /\ r \o Held(m) = v \o (IF put THEN Held(n) ELSE <<>>)
    BY DEF Passed, v
  <1>7. CASE take
    <2>1. Held(l) = <<l>> BY <1>7 DEF Held
    <2>2. r = u \o Held(l) BY <1>7, <1>a, <2>1
    <2>3. CASE put BY <1>3, <1>5, <1>6, <1>7, <1>b, <2>2, <2>3
    <2>4. CASE ~put
      <3>1. Held(m) = <<>> BY <1>7, <1>b, <2>4 DEF Held
      <3> QED BY <1>3, <1>4, <1>5, <1>6, <2>2, <2>4, <3>1
    <2> QED BY <2>3, <2>4
  <1>8. CASE ~take
    <2>1. r = u BY <1>2, <1>4, <1>8, <1>a
    <2>2. CASE put
      <3>1. Held(l) = <<>> /\ m = n BY <1>8, <1>b, <2>2 DEF Held
      <3>2. v = u BY <1>2, <1>3, <1>4, <3>1
      <3> QED BY <1>2, <1>6, <2>1, <2>2, <3>1, <3>2
    <2>3. CASE ~put
      <3>1. m = l BY <1>8, <1>b, <2>3
      <3>2. r \o Held(m) = v \o <<>> BY <1>3, <1>4, <1>5, <2>1, <3>1
      <3> QED BY <1>2, <1>6, <2>1, <2>3, <3>2
    <2> QED BY <2>2, <2>3
  <1> QED BY <1>7, <1>8

(* The registers of a write's address and data, and the memory behind them. *)
LEMMA MemoryKeeps ==
  ASSUME InTypes, FarTypes, LineTypes, EncTypes, OutTypes, OutOK, WritesPaired,
         Framed(Line, inst, in_hdr, in_left),
         NEW x \in Far, Memory(x), Issue(x)
  PROVE  FarTypes' /\ WritesPaired'
  <1> DEFINE load == Head(cross).load
  <1>1. cross # <<>> => load \in Load
    <2> HAVE cross # <<>>
    <2>1. Head(cross) \in Item BY TailParts DEF LineTypes
    <2> QED BY <2>1 DEF Item, Header, Beat
  <1>2. ActFl(x) => load.src \in Sender
    <2> HAVE ActFl(x)
    <2>1. cross # <<>> /\ inst = "FLIT" BY DEF ActFl, BeatIn
    <2>2. Line \in Seq(Item) /\ Line # <<>> /\ Line[1] = Head(cross) BY <2>1, LineParts
    <2>3. BeatOf(in_hdr, in_hdr.len + 2 - in_left, Line[1]) BY <2>1, <2>2, ReadBeat
    <2>4. HeaderOK(in_hdr) /\ in_hdr.load.kind = "FLIT" BY <2>1 DEF Framed
    <2> QED BY <2>2, <2>3, <2>4 DEF BeatOf, HeaderOK
  <1> DEFINE n == IF ActWr(x) THEN load.n ELSE 0
  <1>3. n \in Nat
    <2>1. ActWr(x) => cross # <<>> BY DEF ActWr, BeatIn
    <2> QED BY <1>1, <2>1 DEF Load
  <1>4. inj' \in Flit \cup {NoFlit}
    <2>1. ActFl(x) => [src |-> load.src, n |-> load.n] \in Flit
      <3>1. ActFl(x) => load.n \in Nat BY <1>1 DEF ActFl, BeatIn, Load
      <3> QED BY <1>2, <3>1 DEF Flit
    <2> QED BY <2>1 DEF Issue, FarTypes
  <1>5. wr_out' \in 0 .. WR_MOD - 1
    <2>1. NextWrOut(x) \in 0 .. WR_MOD - 1 BY ILinkAssumption, SMTT(40) DEF NextWrOut, FarTypes
    <2> QED BY <2>1 DEF Issue
  <1>6. injected' \in [Sender -> Nat] /\ landed' \in Nat
    <2>1. landed' \in Nat BY DEF Memory, FarTypes
    <2>2. injected \in [Sender -> Nat] BY DEF FarTypes
    <2>3. CASE x.inj
      <3>1. inj.src \in Sender BY <2>3 DEF Memory, FarTypes, Flit
      <3>2. injected' = [injected EXCEPT ![inj.src] = injected[inj.src] + 1]
        BY <2>3 DEF Memory
      <3>3. injected[inj.src] + 1 \in Nat BY <2>2, <3>1
      <3> QED BY <2>1, <2>2, <3>2, <3>3
    <2>4. CASE ~x.inj BY <2>1, <2>2, <2>4 DEF Memory
    <2> QED BY <2>3, <2>4
  <1>7. /\ x.b \in BOOLEAN /\ x.aw \in BOOLEAN /\ x.w \in BOOLEAN /\ ActWr(x) \in BOOLEAN
        /\ x.b => aws # <<>>
        /\ x.b => ws # <<>>
        /\ x.aw => lk_aw # 0
        /\ x.w => lk_w # 0
        /\ ActWr(x) => lk_aw = 0 \/ x.aw
        /\ ActWr(x) => lk_w = 0 \/ x.w
    BY DEF Far, Memory, ActWr, LkFree
  <1>8. /\ lk_aw' = Kept(lk_aw, n, x.aw, ActWr(x)) /\ lk_w' = Kept(lk_w, n, x.w, ActWr(x))
        /\ aws' = Queued(aws, lk_aw, x.b, x.aw) /\ ws' = Queued(ws, lk_w, x.b, x.w)
    BY DEF Issue, Memory, Kept, Queued
  <1>9. aws \in Seq(Nat) /\ ws \in Seq(Nat) /\ lk_aw \in Nat /\ lk_w \in Nat BY DEF FarTypes
  <1> HIDE DEF n, load
  <1>10. Passed(aws, lk_aw, n, x.b, x.aw, ActWr(x)) BY <1>3, <1>7, <1>9, ChannelMoves, ZenonT(40)
  <1>11. Passed(ws, lk_w, n, x.b, x.w, ActWr(x)) BY <1>3, <1>7, <1>9, ChannelMoves, ZenonT(40)
  <1>12. aws' \o Held(lk_aw') = ws' \o Held(lk_w')
    <2>1. aws \o Held(lk_aw) = ws \o Held(lk_w) BY DEF WritesPaired
    <2>2. aws' \o Held(lk_aw')
            = (IF x.b THEN Tail(aws \o Held(lk_aw)) ELSE aws \o Held(lk_aw))
                \o (IF ActWr(x) THEN Held(n) ELSE <<>>)
      BY <1>8, <1>10 DEF Passed
    <2>3. ws' \o Held(lk_w')
            = (IF x.b THEN Tail(ws \o Held(lk_w)) ELSE ws \o Held(lk_w))
                \o (IF ActWr(x) THEN Held(n) ELSE <<>>)
      BY <1>8, <1>11 DEF Passed
    <2> QED BY <2>1, <2>2, <2>3
  <1>13. WritesPaired' BY <1>12, Zenon DEF WritesPaired, Held
  <1>14. aws' \in Seq(Nat) /\ ws' \in Seq(Nat) /\ lk_aw' \in Nat /\ lk_w' \in Nat
    BY <1>8, <1>10, <1>11 DEF Passed
  <1>15. FarTypes' BY <1>4, <1>5, <1>6, <1>14 DEF FarTypes
  <1> QED BY <1>13, <1>15

(* All of a clock edge of the receiving mesh.                              *)
LEMMA RxClockKeeps ==
  ASSUME ILinkInv, RxClock
  PROVE  ILinkInv'
  <1>1. PICK x \in Far : Memory(x) /\ Receive(x) /\ Issue(x) BY DEF RxClock
  <1>2. UNCHANGED <<moverVars, encVars, obVars, port, flits, door_req, door_txn, rung>>
    BY DEF RxClock
  <1>3. /\ MoverTypes /\ EncTypes /\ OutTypes /\ LineTypes
        /\ HostTypes /\ SentTypes /\ InTypes /\ FarTypes
    BY TypeParts DEF ILinkInv
  <1>4. /\ WritesPaired /\ PortsOK /\ EncOK /\ OutOK /\ Framed(Line, inst, in_hdr, in_left)
    BY DEF ILinkInv
  <1>5. ef' = ef /\ UNCHANGED obVars BY <1>2 DEF encVars
  <1>6. InTypes' /\ LineTypes' /\ Framed(Line', inst', in_hdr', in_left')
    BY <1>1, <1>3, <1>4, <1>5, ReceiveKeeps
  <1>7. FarTypes' /\ WritesPaired' BY <1>1, <1>3, <1>4, MemoryKeeps
  <1>8. MoverTypes' /\ EncTypes' BY <1>2, <1>3 DEF MoverTypes, EncTypes, moverVars, encVars
  <1>9. OutTypes' /\ HostTypes' /\ SentTypes'
    BY <1>2, <1>3 DEF OutTypes, HostTypes, SentTypes, obVars
  <1>10. TypeOK' BY <1>6, <1>7, <1>8, <1>9, TypePartsNext
  <1>11. PortsOK' /\ EncOK' /\ OutOK'
    BY <1>2, <1>4 DEF PortsOK, EncOK, OutOK, Waiting, encVars, obVars
  <1> QED BY <1>6, <1>7, <1>10, <1>11 DEF ILinkInv

-----------------------------------------------------------------------------
(***************************************************************************)
(* The invariant, and what it says of the next item to arrive.             *)
(***************************************************************************)
LEMMA ILinkStep == ILinkInv /\ [Next]_vars => ILinkInv'
  <1> SUFFICES ASSUME ILinkInv, [Next]_vars PROVE ILinkInv' OBVIOUS
  <1>1. CASE TxClock BY <1>1, TxClockKeeps
  <1>2. CASE RxClock BY <1>2, RxClockKeeps
  <1>3. CASE Ring BY <1>3, RingKeeps
  <1>4. ASSUME NEW s \in Sender, Present(s) PROVE ILinkInv' BY <1>4, PresentKeeps
  <1>5. CASE UNCHANGED vars
    <2>1. /\ MoverTypes /\ EncTypes /\ OutTypes /\ LineTypes
          /\ HostTypes /\ SentTypes /\ InTypes /\ FarTypes
      BY TypeParts DEF ILinkInv
    <2>2. MoverTypes' /\ EncTypes' /\ OutTypes' /\ LineTypes'
      BY <1>5, <2>1
         DEF vars, moverVars, encVars, obVars, MoverTypes, EncTypes, OutTypes, LineTypes
    <2>3. HostTypes' /\ SentTypes' /\ InTypes' /\ FarTypes'
      BY <1>5, <2>1 DEF vars, rxVars, HostTypes, SentTypes, InTypes, FarTypes
    <2>4. TypeOK' BY <2>2, <2>3, TypePartsNext
    <2>5. WritesPaired' /\ PortsOK' BY <1>5 DEF ILinkInv, vars, rxVars, WritesPaired, PortsOK
    <2>6. EncOK' /\ OutOK'
      BY <1>5 DEF ILinkInv, vars, encVars, obVars, EncOK, OutOK, Waiting
    <2>7. Line' = Line /\ inst' = inst /\ in_hdr' = in_hdr /\ in_left' = in_left
      BY <1>5 DEF vars, encVars, obVars, rxVars, Line
    <2>8. Framed(Line', inst', in_hdr', in_left') BY <2>7 DEF ILinkInv
    <2> QED BY <2>4, <2>5, <2>6, <2>8 DEF ILinkInv
  <1> QED BY <1>1, <1>2, <1>3, <1>4, <1>5 DEF Next

(* The first item of the line is the first of the crossing.                *)
LEMMA ILinkWhole == ILinkInv => PacketsWhole
  <1> SUFFICES ASSUME ILinkInv PROVE PacketsWhole OBVIOUS
  <1>1. LineTypes /\ EncTypes /\ OutTypes /\ OutOK /\ TypeOK /\ WritesPaired
        /\ Framed(Line, inst, in_hdr, in_left)
    BY TypeParts DEF ILinkInv
  <1>2. FramesWhole
    <2> SUFFICES ASSUME cross # <<>> PROVE FramesWhole BY DEF FramesWhole
    <2> DEFINE x == Head(cross)
               h == in_hdr.load
    <2>1. Line \in Seq(Item) /\ Line # <<>> /\ Line[1] = x BY <1>1, LineParts
    <2>2. inst = "HDR" => x.hdr BY <1>1, <2>1, ReadHeader
    <2>3. ASSUME inst # "HDR"
          PROVE  /\ ~x.hdr /\ (x.last <=> in_left = 1) /\ x.load.kind = inst
                 /\ inst = "FLIT" => /\ x.load.src = h.src
                                     /\ x.load.n = h.n + in_hdr.len + 1 - in_left
                                     /\ BurstOf(x.load) = BurstOf(h)
      <3> PICK k : k = in_hdr.len + 2 - in_left OBVIOUS
      <3>0. in_left \in Nat \ {0} /\ BeatOf(in_hdr, k, Line[1])
        BY <1>1, <2>1, <2>3, ReadBeat
      <3>1. in_left \in Nat \ {0} /\ BeatOf(in_hdr, k, x) BY <2>1, <3>0
      <3>2. HeaderOK(in_hdr) /\ h.kind = inst BY <1>1, <2>3 DEF Framed
      <3>3. in_hdr.len \in Nat /\ h.n \in Nat
        BY <1>1, <3>2, HeaderParts DEF TypeOK, Header, Load
      <3>4. /\ k = in_hdr.len + 1 <=> in_left = 1
            /\ h.n + k - 1 = h.n + in_hdr.len + 1 - in_left
        <4>1. \A a, b, n \in Int : /\ a + 2 - b = a + 1 <=> b = 1
                                   /\ n + (a + 2 - b) - 1 = n + a + 1 - b
          OBVIOUS
        <4>2. in_left \in Int /\ in_hdr.len \in Int /\ h.n \in Int BY <3>1, <3>3
        <4> QED BY <4>1, <4>2
      <3> HIDE DEF x
      <3>5. ~x.hdr /\ (x.last <=> in_left = 1) /\ x.load.kind = inst
        BY <3>1, <3>2, <3>4 DEF BeatOf
      <3>6. inst = "FLIT" => /\ x.load.src = h.src
                             /\ x.load.n = h.n + in_hdr.len + 1 - in_left
                             /\ BurstOf(x.load) = BurstOf(h)
        BY <3>1, <3>2, <3>4 DEF BeatOf
      <3> QED BY <3>5, <3>6
    <2> QED BY <2>2, <2>3 DEF FramesWhole
  <1> QED BY <1>1, <1>2 DEF PacketsWhole

(***************************************************************************)
(* What the receiver takes for a packet is one, of one burst of one        *)
(* sender, and the memory takes the address and the data of the same       *)
(* write: the flits accumulated into ef, the header made from acc_nb, the  *)
(* count ob_left and the receiver's in_left agree in every state           *)
(* (mag_ilink.v:288-319, 395-472, 503-560).                                *)
(***************************************************************************)
THEOREM FramedAndPaired == Spec => []PacketsWhole
  <1>1. Init => ILinkInv BY InitILink
  <1>2. ILinkInv /\ [Next]_vars => ILinkInv' BY ILinkStep
  <1>3. ILinkInv => PacketsWhole BY ILinkWhole
  <1> QED BY <1>1, <1>2, <1>3, PTL DEF Spec

-----------------------------------------------------------------------------
(***************************************************************************)
(* Doorbells.  Sent counts the remote writes whose header has left, and    *)
(* Received those whose address and data the receiver has taken.           *)
(***************************************************************************)
One(b) == IF b THEN 1 ELSE 0

Sent == answered + One(bpend /\ rem_r)
Received == landed + Len(ws) + One(lk_w # 0)

WriteHdr(x) == x.hdr /\ x.load.kind = "WR"
DoorHdr(x)  == x.hdr /\ x.load.kind = "DOOR"

(* f counts the writes up to each place of q, from lo to hi, and no        *)
(* doorbell speaks of more writes than went ahead of it.                   *)
Counts(f, q, lo, hi) ==
  /\ f \in [0 .. Len(q) -> Nat] /\ f[0] = lo /\ f[Len(q)] = hi
  /\ \A i \in 1 .. Len(q) : /\ f[i] = f[i - 1] + One(WriteHdr(q[i]))
                            /\ DoorHdr(q[i]) => q[i].load.n <= f[i]

(* A write that asks for the link has its address and its data and has not *)
(* been answered.                                                          *)
MoverOK ==
  /\ w_got => aw_got
  /\ bpend => w_got
  /\ ob_wr_req => w_got /\ rem_r /\ ~bpend /\ d_r > 0
  /\ obst = "HDR" /\ ob_who = 0 => ob_wr_req

(* Writes are numbered from one; 0 stands for none.                        *)
NumbersOK ==
  /\ obst = "DAT" /\ ltx_dat.kind = "WR" => ltx_dat.n > 0
  /\ \A i \in 1 .. Len(cross) :
       ~cross[i].hdr /\ cross[i].load.kind = "WR" => cross[i].load.n > 0

(* A doorbell that is rung, or sent, or read, speaks of writes ahead of it.*)
DoorsOK ==
  /\ door_req => door_txn <= Sent
  /\ obst = "HDR" /\ ob_who = 2 => ltx_hdr.load.n <= Sent
  /\ inst = "DOOR" => in_hdr.load.n <= Received
  /\ \E f : Counts(f, cross, Received + One(inst = "WR"), Sent)

DoorInv ==
  /\ ILinkInv
  /\ MoverOK
  /\ NumbersOK
  /\ DoorsOK
  /\ wr_out = Len(aws)

(* wr_out counts modulo WR_MOD, and lk_free keeps it from one value only.  *)
FewAddresses == Len(aws) < WR_MOD
(* Counting goes on when something is added to the line.                   *)
LEMMA CountsAppend ==
  ASSUME NEW q \in Seq(Item), NEW x \in Item, NEW lo, NEW hi \in Nat, NEW f,
         Counts(f, q, lo, hi),
         DoorHdr(x) => x.load.n <= hi
  PROVE  \E g : Counts(g, Append(q, x), lo, hi + One(WriteHdr(x)))
  <1> DEFINE n == Len(q)
             c == hi + One(WriteHdr(x))
             g == [i \in 0 .. n + 1 |-> IF i = n + 1 THEN c ELSE f[i]]
             z == Append(q, x)
  <1>1. n \in Nat /\ Len(z) = n + 1 /\ z[n + 1] = x /\ \A i \in 1 .. n : z[i] = q[i] OBVIOUS
  <1>2. One(WriteHdr(x)) \in {0, 1} BY DEF One
  <1>3. c \in Nat /\ (DoorHdr(x) => x.load.n <= c)
    <2>1. DoorHdr(x) => ~WriteHdr(x) BY DEF DoorHdr, WriteHdr
    <2>2. DoorHdr(x) => c = hi BY <2>1 DEF One
    <2> QED BY <1>2, <2>2
  <1>4. /\ f \in [0 .. n -> Nat] /\ f[0] = lo /\ f[n] = hi
        /\ \A i \in 1 .. n : /\ f[i] = f[i - 1] + One(WriteHdr(q[i]))
                             /\ DoorHdr(q[i]) => q[i].load.n <= f[i]
    BY DEF Counts
  <1> HIDE DEF n, z
  <1>5. g \in [0 .. n + 1 -> Nat]
    <2>1. \A i \in 0 .. n + 1 : i # n + 1 => i \in 0 .. n BY <1>1
    <2> HIDE DEF c
    <2> QED BY <1>3, <1>4, <2>1
  <1>6. g[n + 1] = c /\ \A i \in 0 .. n : g[i] = f[i] BY <1>1
  <1> HIDE DEF g
  <1>7. ASSUME NEW i \in 1 .. n + 1
        PROVE  g[i] = g[i - 1] + One(WriteHdr(z[i])) /\ (DoorHdr(z[i]) => z[i].load.n <= g[i])
    <2>1. CASE i = n + 1
      <3>1. z[i] = x /\ g[i] = c /\ g[i - 1] = hi BY <1>1, <1>4, <1>6, <2>1
      <3> QED BY <1>3, <3>1
    <2>2. CASE i # n + 1
      <3>1. i \in 1 .. n /\ i \in 0 .. n /\ i - 1 \in 0 .. n BY <1>1, <2>2
      <3>2. z[i] = q[i] /\ g[i] = f[i] /\ g[i - 1] = f[i - 1] BY <1>1, <1>6, <3>1
      <3> QED BY <1>4, <3>1, <3>2
    <2> QED BY <2>1, <2>2
  <1>8. g[0] = lo BY <1>1, <1>4, <1>6
  <1>9. Counts(g, z, lo, c) BY <1>1, <1>5, <1>6, <1>7, <1>8 DEF Counts
  <1> QED BY <1>9 DEF z

(* And from the next place on when the first is read.                      *)
LEMMA CountsTail ==
  ASSUME NEW q \in Seq(Item), q # <<>>, NEW lo \in Nat, NEW hi, NEW f, Counts(f, q, lo, hi)
  PROVE  /\ \E g : Counts(g, Tail(q), lo + One(WriteHdr(q[1])), hi)
         /\ DoorHdr(q[1]) => q[1].load.n <= lo
  <1> DEFINE n == Len(q) - 1
             z == Tail(q)
             g == [i \in 0 .. n |-> f[i + 1]]
  <1>1. n \in Nat /\ Len(q) = n + 1 /\ Len(z) = n /\ \A i \in 1 .. n : z[i] = q[i + 1]
    BY TailParts
  <1>2. /\ f \in [0 .. n + 1 -> Nat] /\ f[0] = lo /\ f[n + 1] = hi
        /\ \A i \in 1 .. n + 1 : /\ f[i] = f[i - 1] + One(WriteHdr(q[i]))
                                 /\ DoorHdr(q[i]) => q[i].load.n <= f[i]
    BY <1>1 DEF Counts
  <1> HIDE DEF n, z
  <1>3. f[1] = lo + One(WriteHdr(q[1])) /\ (DoorHdr(q[1]) => q[1].load.n <= f[1])
    <2>1. 1 \in 1 .. n + 1 /\ 1 - 1 = 0 BY <1>1
    <2> QED BY <1>2, <2>1
  <1>4. g \in [0 .. n -> Nat] /\ \A i \in 0 .. n : g[i] = f[i + 1] BY <1>1, <1>2
  <1> HIDE DEF g
  <1>5. ASSUME NEW i \in 1 .. n
        PROVE  g[i] = g[i - 1] + One(WriteHdr(z[i])) /\ (DoorHdr(z[i]) => z[i].load.n <= g[i])
    <2>1. i \in 0 .. n /\ i - 1 \in 0 .. n /\ i + 1 \in 1 .. n + 1 BY <1>1
    <2>2. z[i] = q[i + 1] /\ g[i] = f[i + 1] /\ g[i - 1] = f[(i + 1) - 1]
      BY <1>1, <1>4, <2>1, SMTT(40)
    <2> QED BY <1>2, <2>1, <2>2
  <1>6. g[0] = f[1] /\ g[n] = hi BY <1>1, <1>2, <1>4
  <1>7. Counts(g, z, lo + One(WriteHdr(q[1])), hi) BY <1>1, <1>3, <1>4, <1>5, <1>6 DEF Counts
  <1>8. DoorHdr(q[1]) => q[1].load.n <= lo
    <2> HAVE DoorHdr(q[1])
    <2>1. ~WriteHdr(q[1]) BY DEF DoorHdr, WriteHdr
    <2>2. f[1] = lo BY <1>3, <2>1 DEF One
    <2> QED BY <1>3, <2>2
  <1> QED BY <1>7, <1>8 DEF z

(* A write is answered once, when its header has left; Sent counts it from *)
(* then on.                                                                *)
LEMMA MoverCounts ==
  ASSUME MoverTypes, OutTypes, HostTypes, EncTypes, MoverOK,
         NEW m \in {"NONE", "LOCAL", "REMOTE"}, NEW l \in LocalMem, MoverSplit(m, l), Outbound
  PROVE  MoverOK' /\ Sent' = Sent + One(HdrTaken /\ ob_who = 0) /\ Sent \in Nat
  <1> DEFINE ack == HdrTaken /\ ob_who = 0
             aw == m # "NONE"
             w == aw_got /\ ~w_got
  <1>1. /\ w_got => aw_got
        /\ bpend => w_got
        /\ ob_wr_req => w_got /\ rem_r /\ ~bpend /\ d_r > 0
        /\ ack => ob_wr_req
    BY DEF MoverOK, HdrTaken
  <1>2. /\ aw => ~aw_got
        /\ l.b => w_got /\ ~rem_r /\ ~bpend
        /\ rem_r' = IF aw THEN m = "REMOTE" ELSE rem_r
        /\ aw_got' = (~bpend /\ (aw_got \/ aw))
        /\ w_got' = (~bpend /\ (w_got \/ w))
        /\ d_r' = IF w /\ rem_r THEN wrote + 1 ELSE d_r
        /\ ob_wr_req' = ((ob_wr_req /\ ~ack) \/ (w /\ rem_r))
        /\ bpend' = ((bpend /\ ~bpend) \/ (l.b \/ ack))
        /\ answered' = IF bpend /\ rem_r THEN answered + 1 ELSE answered
    BY DEF MoverSplit
  <1>3. answered \in Nat /\ wrote \in Nat BY DEF MoverTypes
  <1> HIDE DEF ack, aw, w
  <1>4. /\ w_got' => aw_got'
        /\ bpend' => w_got'
    <2>1. w => aw_got BY DEF w
    <2>2. w_got' => aw_got' BY <1>1, <1>2, <2>1, Zenon
    <2>3. bpend' => w_got' BY <1>1, <1>2, Zenon
    <2> QED BY <2>2, <2>3
  <1>5. ob_wr_req' => w_got' /\ rem_r' /\ ~bpend' /\ d_r' > 0
    <2> HAVE ob_wr_req'
    <2>1. CASE ob_wr_req /\ ~ack
      <3>1. w_got /\ rem_r /\ ~bpend /\ d_r > 0 /\ aw_got /\ ~aw /\ ~w /\ ~l.b
        BY <1>1, <1>2, <2>1, Zenon DEF w
      <3>2. rem_r' = rem_r /\ d_r' = d_r BY <1>2, <3>1
      <3>3. w_got' /\ ~bpend' BY <1>2, <2>1, <3>1, Zenon
      <3> QED BY <3>1, <3>2, <3>3
    <2>2. CASE w /\ rem_r
      <3>1. aw_got /\ ~w_got BY <2>2 DEF w
      <3>2. ~bpend /\ ~aw /\ ~l.b /\ ~ack BY <1>1, <1>2, <3>1, Zenon
      <3>3. rem_r' = rem_r /\ d_r' = wrote + 1 BY <1>2, <2>2, <3>2
      <3>4. w_got' /\ ~bpend' BY <1>2, <2>2, <3>2, Zenon
      <3>5. wrote + 1 > 0 BY <1>3
      <3> QED BY <2>2, <3>3, <3>4, <3>5
    <2> QED BY <1>2, <2>1, <2>2
  <1>6. obst' = "HDR" /\ ob_who' = 0 => ob_wr_req'
    <2> HAVE obst' = "HDR" /\ ob_who' = 0
    <2>1. ob_wr_req /\ ~ack
      <3>1. CASE Starts
        <4>1. Req(0) /\ obst = "IDLE" BY <3>1 DEF Starts
        <4>2. ob_wr_req BY <4>1 DEF Req
        <4> QED BY <4>1, <4>2 DEF ack, HdrTaken
      <3>2. CASE SendsNothing
        <4>1. obst = "HDR" /\ ob_who = 0 /\ ~Room BY <3>2 DEF SendsNothing
        <4> QED BY <4>1 DEF ack, HdrTaken, MoverOK
      <3>3. ~SendsHeader /\ ~SendsBeat /\ ~SendsLast BY DEF SendsHeader, SendsBeat, SendsLast
      <3> QED BY <3>1, <3>2, <3>3, OutboundCases
    <2> QED BY <1>2, <2>1, Zenon
  <1>7. Sent' = Sent + One(ack)
    <2>1. CASE ack
      <3>1. w_got /\ rem_r /\ ~bpend /\ aw_got /\ ~aw /\ bpend' BY <1>1, <1>2, <2>1, Zenon
      <3>2. rem_r' = rem_r /\ answered' = answered BY <1>2, <3>1
      <3>3. One(bpend /\ rem_r) = 0 BY <3>1 DEF One
      <3>4. One(bpend /\ rem_r)' = 1 BY <3>1, <3>2 DEF One
      <3>5. One(ack) = 1 BY <2>1 DEF One
      <3> QED BY <1>3, <3>2, <3>3, <3>4, <3>5 DEF Sent
    <2>2. CASE ~ack /\ bpend
      <3>1. ~aw /\ ~l.b /\ ~bpend' BY <1>1, <1>2, <2>2, Zenon
      <3>2. One(bpend /\ rem_r)' = 0 BY <3>1 DEF One
      <3>3. One(ack) = 0 BY <2>2 DEF One
      <3>4. answered' = answered + One(bpend /\ rem_r) BY <1>2, <1>3, <2>2 DEF One
      <3> QED BY <1>3, <3>2, <3>3, <3>4 DEF Sent
    <2>3. CASE ~ack /\ ~bpend
      <3>1. bpend' => ~rem_r'
        <4> HAVE bpend'
        <4>1. l.b /\ aw_got /\ ~rem_r BY <1>1, <1>2, <2>3, Zenon
        <4>2. ~aw BY <1>2, <4>1
        <4> QED BY <1>2, <4>1, <4>2
      <3>2. One(bpend /\ rem_r)' = 0 BY <3>1 DEF One
      <3>3. One(ack) = 0 /\ One(bpend /\ rem_r) = 0 BY <2>3 DEF One
      <3>4. answered' = answered BY <1>2, <2>3
      <3> QED BY <1>3, <3>2, <3>3, <3>4 DEF Sent
    <2> QED BY <2>1, <2>2, <2>3
  <1>8. Sent \in Nat BY <1>3 DEF Sent, One
  <1>9. MoverOK' BY <1>4, <1>5, <1>6 DEF MoverOK
  <1> QED BY <1>7, <1>8, <1>9 DEF ack

(* What DoorInv says of the types, and of what is being sent.              *)
LEMMA DoorParts ==
  ASSUME DoorInv
  PROVE  /\ MoverTypes /\ EncTypes /\ OutTypes /\ LineTypes
         /\ HostTypes /\ SentTypes /\ InTypes /\ FarTypes
         /\ EncOK /\ OutOK /\ WritesPaired /\ Framed(Line, inst, in_hdr, in_left)
         /\ Sent \in Nat /\ Received \in Nat
  <1>1. /\ MoverTypes /\ EncTypes /\ OutTypes /\ LineTypes
        /\ HostTypes /\ SentTypes /\ InTypes /\ FarTypes
    BY TypeParts DEF ILinkInv, DoorInv
  <1>2. EncOK /\ OutOK /\ WritesPaired /\ Framed(Line, inst, in_hdr, in_left)
    BY DEF ILinkInv, DoorInv
  <1>3. \A b : One(b) \in Nat BY DEF One
  <1>4. Sent \in Nat BY <1>1, <1>3 DEF Sent, MoverTypes
  <1>5. landed \in Nat /\ Len(ws) \in Nat BY <1>1 DEF FarTypes
  <1>6. Received \in Nat BY <1>3, <1>5 DEF Received
  <1> QED BY <1>1, <1>2, <1>4, <1>6

(* A clock edge of the sending mesh adds to the line what it counts.       *)
LEMMA DoorTxKeeps ==
  ASSUME DoorInv, ILinkInv', TxClock
  PROVE  DoorInv'
  <1>1. PICK m \in {"NONE", "LOCAL", "REMOTE"}, l \in LocalMem : MoverSplit(m, l)
    BY DEF TxClock
  <1>2. /\ Outbound /\ door_req' = (door_req /\ ~(LastTaken /\ ob_who = 2))
        /\ inst' = inst /\ in_hdr' = in_hdr /\ door_txn' = door_txn
        /\ wr_out' = wr_out /\ aws' = aws /\ Received' = Received
    BY DEF TxClock, rxVars, Received, One
  <1>3. /\ MoverTypes /\ EncTypes /\ OutTypes /\ LineTypes /\ HostTypes
        /\ EncOK /\ OutOK /\ Sent \in Nat /\ Received \in Nat
    BY DoorParts
  <1>4. MoverOK /\ NumbersOK /\ DoorsOK /\ wr_out = Len(aws) BY DEF DoorInv
  <1>5. MoverOK' /\ Sent' = Sent + One(HdrTaken /\ ob_who = 0)
    BY <1>1, <1>2, <1>3, <1>4, MoverCounts
  <1>6. Sent' \in Nat /\ Sent' >= Sent
    <2>1. One(HdrTaken /\ ob_who = 0) \in Nat BY DEF One
    <2> QED BY <1>3, <1>5, <2>1
  <1>7. cross \in Seq(Item) /\ ltx_hdr \in Item /\ ltx_hdr.hdr /\ ltx_dat \in Load
    BY <1>3 DEF LineTypes, OutTypes, Item, Header
  <1>8. PICK f : Counts(f, cross, Received + One(inst = "WR"), Sent) BY <1>4 DEF DoorsOK
  <1> DEFINE Whole == /\ NumbersOK'
                      /\ obst' = "HDR" /\ ob_who' = 2 => ltx_hdr'.load.n <= Sent'
                      /\ \E g : Counts(g, cross', Received + One(inst = "WR"), Sent')
  <1>9. ASSUME NEW b, ~b.hdr, b \in Item, b.load = ltx_dat, obst = "DAT", ~HdrTaken,
               cross' = Append(cross, b), obst' # "HDR",
               obst' = "DAT" /\ ltx_dat'.kind = "WR" => ltx_dat'.n > 0
        PROVE  Whole
    <2>1. Sent' = Sent + One(WriteHdr(b)) /\ ~DoorHdr(b)
      BY <1>3, <1>5, <1>9 DEF One, WriteHdr, DoorHdr
    <2>2. \E g : Counts(g, cross', Received + One(inst = "WR"), Sent')
      BY <1>3, <1>7, <1>8, <1>9, <2>1, CountsAppend
    <2>3. ASSUME NEW i \in 1 .. Len(cross')
          PROVE  ~cross'[i].hdr /\ cross'[i].load.kind = "WR" => cross'[i].load.n > 0
      <3>1. CASE i \in 1 .. Len(cross)
        <4>1. cross'[i] = cross[i] BY <1>7, <1>9, <3>1
        <4> QED BY <1>4, <3>1, <4>1 DEF NumbersOK
      <3>2. CASE i = Len(cross) + 1
        <4>1. cross'[i] = b BY <1>7, <1>9, <3>2
        <4> QED BY <1>4, <1>9, <4>1 DEF NumbersOK
      <3> QED BY <1>7, <1>9, <3>1, <3>2
    <2>4. NumbersOK' BY <1>9, <2>3 DEF NumbersOK
    <2> QED BY <1>9, <2>2, <2>4
  <1>10. ASSUME cross' = cross, ~HdrTaken, obst' = "DAT" => obst = "DAT" /\ ltx_dat' = ltx_dat,
                obst' = "HDR" /\ ob_who' = 2 => ltx_hdr'.load.n <= Sent
         PROVE  Whole
    <2>1. Sent' = Sent BY <1>3, <1>5, <1>10 DEF One
    <2>2. NumbersOK' BY <1>4, <1>10 DEF NumbersOK
    <2> QED BY <1>8, <1>10, <2>1, <2>2
  <1>11. Whole
    <2>1. CASE Starts
      <3>1. ob_who' = 2 => ltx_hdr'.load.n <= Sent
        <4> HAVE ob_who' = 2
        <4>1. Req(2) /\ ltx_hdr'.load = ObLoad(2) BY <2>1 DEF Starts
        <4>2. door_req /\ ltx_hdr'.load.n = door_txn BY <4>1 DEF Req, ObLoad
        <4> QED BY <1>4, <4>2 DEF DoorsOK
      <3>2. cross' = cross /\ ~HdrTaken /\ obst' # "DAT" BY <2>1 DEF Starts, HdrTaken
      <3> HIDE DEF Whole
      <3> QED BY <1>10, <3>1, <3>2
    <2>2. CASE SendsHeader
      <3>1. /\ HdrTaken /\ ltx_hdr.load.kind = KindOf(ob_who) /\ ob_who \in 0 .. 2
            /\ cross' = Append(cross, ltx_hdr) /\ obst' = "DAT" /\ ltx_dat' = ObLoad(ob_who)
            /\ HeaderOK(ltx_hdr) /\ ob_left \in 1 .. ltx_hdr.len + 1
        BY <1>3, <2>2 DEF SendsHeader, HdrTaken, OutOK, OutTypes
      <3>2. /\ (ob_who = 0) <=> (ltx_hdr.load.kind = "WR")
            /\ (ob_who = 2) <=> (ltx_hdr.load.kind = "DOOR")
        BY <3>1 DEF KindOf
      <3>3. One(HdrTaken /\ ob_who = 0) = One(WriteHdr(ltx_hdr))
        BY <1>7, <3>1, <3>2 DEF One, WriteHdr
      <3>4. DoorHdr(ltx_hdr) => ltx_hdr.load.n <= Sent
        BY <1>4, <2>2, <3>2 DEF DoorHdr, DoorsOK, SendsHeader
      <3>5. \E g : Counts(g, cross', Received + One(inst = "WR"), Sent')
        BY <1>3, <1>5, <1>7, <1>8, <3>1, <3>3, <3>4, CountsAppend
      <3>6. ASSUME ltx_dat'.kind = "WR" PROVE ltx_dat'.n > 0
        <4>1. ob_who = 0 BY <3>1, <3>6 DEF ObLoad
        <4>2. ltx_dat'.n = d_r /\ ob_wr_req
          BY <1>4, <2>2, <3>1, <4>1 DEF ObLoad, MoverOK, SendsHeader
        <4> QED BY <1>4, <4>2 DEF MoverOK
      <3>7. ASSUME NEW i \in 1 .. Len(cross')
            PROVE  ~cross'[i].hdr /\ cross'[i].load.kind = "WR" => cross'[i].load.n > 0
        <4>1. CASE i \in 1 .. Len(cross)
          <5>1. cross'[i] = cross[i] BY <1>7, <3>1, <4>1
          <5> QED BY <1>4, <4>1, <5>1 DEF NumbersOK
        <4>2. CASE i = Len(cross) + 1
          <5>1. cross'[i] = ltx_hdr BY <1>7, <3>1, <4>2
          <5> QED BY <1>7, <5>1
        <4> QED BY <1>7, <3>1, <4>1, <4>2
      <3>8. NumbersOK' BY <3>6, <3>7 DEF NumbersOK
      <3> QED BY <3>1, <3>5, <3>8
    <2>3. CASE SendsBeat \/ SendsLast
      <3>1. cross' = Append(cross, ObBeat) /\ obst = "DAT" /\ obst' # "HDR" /\ ~HdrTaken
        BY <2>3 DEF SendsBeat, SendsLast, HdrTaken
      <3>2. ~ObBeat.hdr /\ ObBeat.load = ltx_dat /\ ObBeat \in Item
        <4>1. (ob_left = 1) \in BOOLEAN OBVIOUS
        <4>2. ~ObBeat.hdr /\ ObBeat.load = ltx_dat BY BeatParts, <4>1 DEF ObBeat
        <4>3. ObBeat \in Beat BY <1>7, <4>1, Zenon DEF ObBeat, Beat
        <4> QED BY <4>2, <4>3 DEF Item
      <3>3. obst' = "DAT" /\ ltx_dat'.kind = "WR" => ltx_dat'.n > 0
        <4> HAVE obst' = "DAT" /\ ltx_dat'.kind = "WR"
        <4>1. SendsBeat /\ ltx_dat' = ObLoad(ob_who) /\ ob_left # 1
          BY <2>3 DEF SendsBeat, SendsLast
        <4>2. ob_who = 1
          BY <1>3, <3>1, <4>1, HeaderParts DEF OutOK, HeaderOK, KindOf, OutTypes
        <4>3. ltx_dat'.kind = "FLIT" BY <4>1, <4>2 DEF ObLoad
        <4> QED BY <4>3
      <3> HIDE DEF Whole
      <3> QED BY <1>9, <3>1, <3>2, <3>3
    <2>4. CASE SendsNothing
      <3>1. cross' = cross /\ ~HdrTaken /\ obst' = obst /\ ltx_dat' = ltx_dat
            /\ ob_who' = ob_who /\ ltx_hdr' = ltx_hdr
        BY <2>4 DEF SendsNothing, HdrTaken
      <3>2. obst' = "HDR" /\ ob_who' = 2 => ltx_hdr'.load.n <= Sent
        BY <1>4, <3>1 DEF DoorsOK
      <3> HIDE DEF Whole
      <3> QED BY <1>10, <3>1, <3>2
    <2> QED BY <1>2, <1>3, <2>1, <2>2, <2>3, <2>4, OutboundCases
  <1>12. DoorsOK'
    <2>1. door_req' => door_txn' <= Sent'
      <3>1. door_req' => door_req BY <1>2
      <3>2. door_txn \in Nat BY <1>3 DEF HostTypes
      <3> QED BY <1>2, <1>3, <1>4, <1>6, <3>1, <3>2 DEF DoorsOK
    <2>2. inst' = "DOOR" => in_hdr'.load.n <= Received' BY <1>2, <1>4 DEF DoorsOK
    <2>3. One(inst = "WR")' = One(inst = "WR") BY <1>2 DEF One
    <2>4. \E g : Counts(g, cross', Received' + One(inst = "WR")', Sent')
      BY <1>2, <1>11, <2>3
    <2> QED BY <1>11, <2>1, <2>2, <2>4 DEF DoorsOK
  <1> QED BY <1>2, <1>4, <1>5, <1>11, <1>12 DEF DoorInv

(* The receiver counts a write when it has taken its beat.                 *)
LEMMA ReceivedCounts ==
  ASSUME FarTypes, NEW x \in Far, Memory(x), Issue(x), ActWr(x) => Head(cross).load.n > 0
  PROVE  Received' = Received + One(ActWr(x))
  <1>1. /\ landed \in Nat /\ ws \in Seq(Nat) /\ lk_w \in Nat BY DEF FarTypes
  <1>2. /\ x.b => ws # <<>>
        /\ x.w => lk_w # 0
        /\ ActWr(x) => lk_w = 0 \/ x.w
        /\ lk_w' = IF ActWr(x) THEN Head(cross).load.n ELSE IF x.w THEN 0 ELSE lk_w
        /\ ws' = (IF x.b THEN Tail(ws) ELSE ws) \o (IF x.w THEN <<lk_w>> ELSE <<>>)
        /\ landed' = IF x.b THEN landed + 1 ELSE landed
    BY DEF Memory, Issue, ActWr, LkFree
  <1> DEFINE u == IF x.b THEN Tail(ws) ELSE ws
  <1>3. u \in Seq(Nat) /\ landed' + Len(u) = landed + Len(ws)
    <2>1. CASE x.b
      <3>1. Tail(ws) \in Seq(Nat) /\ Len(Tail(ws)) = Len(ws) - 1 /\ Len(ws) \in Nat
        BY <1>1, <1>2, <2>1, TailParts
      <3> QED BY <1>1, <1>2, <2>1, <3>1
    <2>2. CASE ~x.b BY <1>1, <1>2, <2>2
    <2> QED BY <2>1, <2>2
  <1>4. ws' = u \o (IF x.w THEN <<lk_w>> ELSE <<>>) BY <1>2
  <1> HIDE DEF u
  <1>5. Len(u) \in Nat /\ Len(ws') = Len(u) + One(x.w)
    <2>1. CASE x.w
      <3>1. ws' = u \o <<lk_w>> /\ One(x.w) = 1 BY <1>4, <2>1 DEF One
      <3> QED BY <1>1, <1>3, <3>1
    <2>2. CASE ~x.w
      <3>1. ws' = u \o <<>> /\ One(x.w) = 0 BY <1>4, <2>2 DEF One
      <3> QED BY <1>3, <3>1
    <2> QED BY <2>1, <2>2
  <1>6. One(x.w) + One(lk_w # 0)' = One(lk_w # 0) + One(ActWr(x))
    <2>1. CASE ActWr(x)
      <3>1. lk_w' > 0 BY <1>2, <2>1
      <3>2. One(lk_w # 0)' = 1 /\ One(ActWr(x)) = 1 BY <2>1, <3>1 DEF One
      <3>3. One(x.w) = One(lk_w # 0) BY <1>2, <2>1 DEF One
      <3>4. One(x.w) \in Nat BY DEF One
      <3> QED BY <3>2, <3>3, <3>4
    <2>2. CASE ~ActWr(x) /\ x.w BY <1>2, <2>2 DEF One
    <2>3. CASE ~ActWr(x) /\ ~x.w BY <1>2, <2>3 DEF One
    <2> QED BY <2>1, <2>2, <2>3
  <1>7. /\ One(x.w) \in Nat /\ One(lk_w # 0) \in Nat /\ One(lk_w # 0)' \in Nat
        /\ One(ActWr(x)) \in Nat
    BY DEF One
  <1>8. landed' \in Nat /\ Len(ws) \in Nat BY <1>1, <1>2
  <1>10. Received' = landed' + (Len(u) + One(x.w)) + One(lk_w # 0)' BY <1>5 DEF Received
  <1>11. landed' + (Len(u) + One(x.w)) + One(lk_w # 0)'
           = (landed' + Len(u)) + One(lk_w # 0) + One(ActWr(x))
    <2>1. /\ landed' \in Int /\ Len(u) \in Int /\ One(x.w) \in Int /\ One(lk_w # 0) \in Int
          /\ One(lk_w # 0)' \in Int /\ One(ActWr(x)) \in Int
      BY <1>5, <1>7, <1>8
    <2> PICK a \in Int : a = landed' BY <2>1
    <2> PICK b \in Int : b = Len(u) BY <2>1
    <2> PICK e \in Int : e = One(x.w) BY <2>1
    <2> PICK f \in Int : f = One(lk_w # 0)' BY <2>1
    <2> PICK d \in Int : d = One(lk_w # 0) BY <2>1
    <2> PICK h \in Int : h = One(ActWr(x)) BY <2>1
    <2>2. e + f = d + h BY <1>6
    <2>3. a + (b + e) + f = a + b + (e + f) BY SMTT(40)
    <2>4. a + b + (d + h) = (a + b) + d + h BY SMTT(40)
    <2> QED BY <2>2, <2>3, <2>4
  <1>12. Received' = (landed + Len(ws)) + One(lk_w # 0) + One(ActWr(x)) BY <1>3, <1>10, <1>11
  <1> QED BY <1>12 DEF Received

(* While the memory has less than WR_MOD addresses, wr_out is their number.*)
LEMMA OutstandingCounts ==
  ASSUME FarTypes, NEW x \in Far, Memory(x), Issue(x), wr_out = Len(aws),
         FewAddresses, FewAddresses'
  PROVE  wr_out' = Len(aws')
  <1>1. aws \in Seq(Nat) /\ lk_aw \in Nat /\ Len(aws) \in Nat BY DEF FarTypes
  <1>2. /\ x.b => aws # <<>>
        /\ aws' = (IF x.b THEN Tail(aws) ELSE aws) \o (IF x.aw THEN <<lk_aw>> ELSE <<>>)
        /\ wr_out' = IF x.aw /\ ~x.b THEN (wr_out + 1) % WR_MOD
                     ELSE IF x.b /\ ~x.aw THEN (wr_out - 1) % WR_MOD
                     ELSE wr_out
    BY DEF Memory, Issue, NextWrOut
  <1>3. WR_MOD \in Nat \ {0} BY ILinkAssumption
  <1>4. \A k \in Nat : k < WR_MOD => k % WR_MOD = k BY <1>3
  <1>5. Len(aws) < WR_MOD /\ Len(aws') < WR_MOD BY DEF FewAddresses
  <1>6. x.b => /\ Tail(aws) \in Seq(Nat) /\ Len(Tail(aws)) = Len(aws) - 1
               /\ Len(aws) - 1 \in Nat
    BY <1>1, <1>2, TailParts
  <1>7. CASE x.aw /\ ~x.b
    <2>1. aws' = aws \o <<lk_aw>> /\ wr_out' = (Len(aws) + 1) % WR_MOD BY <1>2, <1>7
    <2>2. Len(aws') = Len(aws) + 1 BY <1>1, <2>1
    <2> QED BY <1>1, <1>4, <1>5, <2>1, <2>2
  <1>8. CASE ~x.aw /\ x.b
    <2>1. aws' = Tail(aws) \o <<>> /\ wr_out' = (Len(aws) - 1) % WR_MOD BY <1>2, <1>8
    <2>2. Len(aws') = Len(aws) - 1 BY <1>6, <1>8, <2>1
    <2> QED BY <1>4, <1>5, <1>6, <1>8, <2>1, <2>2
  <1>9. CASE x.aw /\ x.b
    <2>1. aws' = Tail(aws) \o <<lk_aw>> /\ wr_out' = Len(aws) BY <1>2, <1>9
    <2>2. Len(aws') = Len(aws) BY <1>1, <1>6, <1>9, <2>1
    <2> QED BY <2>1, <2>2
  <1>10. CASE ~x.aw /\ ~x.b
    <2>1. aws' = aws \o <<>> /\ wr_out' = Len(aws) BY <1>2, <1>10
    <2>2. Len(aws') = Len(aws) BY <1>1, <2>1
    <2> QED BY <2>1, <2>2
  <1> QED BY <1>7, <1>8, <1>9, <1>10

(* A clock edge of the receiving mesh reads what has been counted.         *)
LEMMA DoorRxKeeps ==
  ASSUME DoorInv, ILinkInv', RxClock, FewAddresses, FewAddresses'
  PROVE  DoorInv'
  <1>1. PICK x \in Far : Memory(x) /\ Receive(x) /\ Issue(x) BY DEF RxClock
  <1>2. UNCHANGED <<moverVars, obVars, door_req, door_txn>> BY DEF RxClock
  <1>3. /\ LineTypes /\ EncTypes /\ OutTypes /\ OutOK /\ InTypes /\ FarTypes
        /\ Framed(Line, inst, in_hdr, in_left) /\ Sent \in Nat /\ Received \in Nat
    BY DoorParts
  <1>4. MoverOK /\ NumbersOK /\ DoorsOK /\ wr_out = Len(aws) BY DEF DoorInv
  <1>5. wr_out' = Len(aws') BY <1>1, <1>3, <1>4, OutstandingCounts DEF DoorInv
  <1>6. MoverOK' BY <1>2, <1>4 DEF MoverOK, moverVars, obVars
  <1>7. Sent' = Sent BY <1>2 DEF Sent, moverVars, One
  <1>8. /\ Line \in Seq(Item)
        /\ cross \in Seq(Item)
        /\ cross # <<>> => Line # <<>> /\ Line[1] = Head(cross)
    BY <1>3, LineParts DEF LineTypes
  <1>9. ActWr(x) => Head(cross).load.n > 0 /\ in_left = 1
    <2> HAVE ActWr(x)
    <2>1. cross # <<>> /\ ~Head(cross).hdr /\ inst = "WR" BY DEF ActWr, BeatIn
    <2>2. HeaderOK(in_hdr) /\ in_hdr.load.kind = "WR" /\ in_left \in 1 .. in_hdr.len + 1
      BY <1>3, <2>1 DEF Framed
    <2>3. BeatOf(in_hdr, in_hdr.len + 2 - in_left, Line[1])
      BY <1>3, <1>8, <2>1, ReadBeat
    <2>4. Head(cross).load.kind = "WR" BY <1>8, <2>1, <2>2, <2>3 DEF BeatOf
    <2>5. Head(cross) = cross[1] /\ 1 \in 1 .. Len(cross) BY <1>8, <2>1
    <2>6. Head(cross).load.n > 0 BY <1>4, <2>1, <2>4, <2>5 DEF NumbersOK
    <2> QED BY <2>2, <2>6 DEF HeaderOK
  <1>10. Received' = Received + One(ActWr(x)) BY <1>1, <1>3, <1>9, ReceivedCounts
  <1> DEFINE lo == Received + One(inst = "WR")
             lo2 == Received' + One(inst = "WR")'
  <1>11. lo \in Nat BY <1>3 DEF One
  <1>12. PICK f : Counts(f, cross, lo, Sent) BY <1>4 DEF DoorsOK
  <1>13. ASSUME cross # <<>>, cross' = Tail(cross)
         PROVE  /\ \A i \in 1 .. Len(cross') :
                     ~cross'[i].hdr /\ cross'[i].load.kind = "WR" => cross'[i].load.n > 0
                /\ \E g : Counts(g, cross', lo + One(WriteHdr(Head(cross))), Sent')
                /\ DoorHdr(Head(cross)) => Head(cross).load.n <= lo
    <2> HIDE DEF lo
    <2>1. Head(cross) = cross[1] /\ Len(cross') = Len(cross) - 1 /\ Len(cross) \in Nat
          /\ \A i \in 1 .. Len(cross) - 1 : cross'[i] = cross[i + 1]
      BY <1>8, <1>13, TailParts
    <2>2. ASSUME NEW i \in 1 .. Len(cross')
          PROVE  ~cross'[i].hdr /\ cross'[i].load.kind = "WR" => cross'[i].load.n > 0
      <3>1. i + 1 \in 1 .. Len(cross) /\ cross'[i] = cross[i + 1] BY <2>1
      <3> QED BY <1>4, <3>1 DEF NumbersOK
    <2>3. /\ \E g : Counts(g, Tail(cross), lo + One(WriteHdr(cross[1])), Sent)
          /\ DoorHdr(cross[1]) => cross[1].load.n <= lo
      BY <1>8, <1>11, <1>12, <1>13, CountsTail
    <2> QED BY <1>7, <1>13, <2>1, <2>2, <2>3
  <1>14. ASSUME cross' = Tail(cross), cross # <<>>,
                lo2 = lo + One(WriteHdr(Head(cross))),
                inst' = "DOOR" => in_hdr'.load.n <= Received'
         PROVE  NumbersOK' /\ DoorsOK'
    <2>1. NumbersOK' BY <1>2, <1>4, <1>13, <1>14 DEF NumbersOK, obVars
    <2>2. DoorsOK' 
      <3>1. \E g : Counts(g, cross', lo2, Sent')
        <4> HIDE DEF lo, lo2
        <4> QED BY <1>13, <1>14
      <3>2. (door_req' => door_txn' <= Sent')
            /\ (obst' = "HDR" /\ ob_who' = 2 => ltx_hdr'.load.n <= Sent')
        BY <1>2, <1>4, <1>7 DEF DoorsOK, obVars
      <3> QED BY <1>14, <3>1, <3>2 DEF DoorsOK
    <2> QED BY <2>1, <2>2
  <1>15. NumbersOK' /\ DoorsOK'
    <2>1. CASE /\ inst = "HDR" /\ HdrIn
               /\ in_hdr' = Head(cross) /\ inst' = Head(cross).load.kind
               /\ cross' = Tail(cross)
      <3>1. cross # <<>> /\ Head(cross).hdr BY <2>1 DEF HdrIn
      <3>2. ~ActWr(x) /\ Received' = Received
        BY <1>3, <1>10, <2>1 DEF ActWr, One
      <3>3. lo2 = lo + One(WriteHdr(Head(cross)))
        BY <1>3, <2>1, <3>1, <3>2 DEF One, WriteHdr
      <3>4. inst' = "DOOR" => in_hdr'.load.n <= Received'
        <4> HAVE inst' = "DOOR"
        <4>1. DoorHdr(Head(cross)) BY <2>1, <3>1 DEF DoorHdr
        <4>2. lo = Received BY <1>3, <2>1 DEF One
        <4> QED BY <1>13, <2>1, <3>1, <3>2, <4>1, <4>2
      <3> HIDE DEF lo, lo2
      <3> QED BY <1>14, <2>1, <3>1, <3>3, <3>4
    <2>2. CASE /\ ActWr(x) \/ ActFl(x)
               /\ inst' = IF in_left = 1 THEN "HDR" ELSE inst
               /\ cross' = Tail(cross) /\ in_hdr' = in_hdr
      <3>1. cross # <<>> /\ ~Head(cross).hdr /\ inst # "DOOR"
        BY <2>2 DEF ActWr, ActFl, BeatIn
      <3>2. lo2 = lo
        <4>1. CASE ActWr(x)
          <5>1. inst = "WR" /\ inst' = "HDR" BY <1>9, <2>2, <4>1 DEF ActWr
          <5>2. One(inst = "WR") = 1 /\ One(inst = "WR")' = 0 /\ One(ActWr(x)) = 1
            BY <4>1, <5>1 DEF One
          <5> QED BY <1>3, <1>10, <5>2
        <4>2. CASE ~ActWr(x)
          <5>1. inst = "FLIT" /\ inst' # "WR" BY <2>2, <4>2 DEF ActFl
          <5>2. One(inst = "WR") = 0 /\ One(inst = "WR")' = 0 /\ One(ActWr(x)) = 0
            BY <4>2, <5>1 DEF One
          <5> QED BY <1>3, <1>10, <5>2
        <4> QED BY <4>1, <4>2
      <3>3. lo2 = lo + One(WriteHdr(Head(cross))) BY <1>11, <3>1, <3>2 DEF One, WriteHdr
      <3>4. inst' # "DOOR" BY <2>2, <3>1
      <3> HIDE DEF lo, lo2
      <3> QED BY <1>14, <2>2, <3>1, <3>3, <3>4
    <2>3. CASE /\ ActDoor /\ inst' = "HDR" /\ cross' = Tail(cross)
      <3>1. cross # <<>> /\ ~Head(cross).hdr /\ inst = "DOOR" BY <2>3 DEF ActDoor, BeatIn
      <3>2. One(ActWr(x)) = 0 /\ One(inst = "WR") = 0 /\ One(inst = "WR")' = 0
        BY <2>3, <3>1 DEF One, ActWr
      <3>3. lo2 = lo + One(WriteHdr(Head(cross)))
        BY <1>3, <1>10, <3>1, <3>2 DEF One, WriteHdr
      <3> HIDE DEF lo, lo2
      <3> QED BY <1>14, <2>3, <3>1, <3>3
    <2>4. CASE /\ ~ActWr(x) /\ UNCHANGED <<inst, in_hdr, cross>>
      <3>1. Received' = Received /\ One(inst = "WR")' = One(inst = "WR")
        BY <1>3, <1>10, <2>4 DEF One
      <3>2. NumbersOK' BY <1>2, <1>4, <2>4 DEF NumbersOK, obVars
      <3>3. \E g : Counts(g, cross', Received' + One(inst = "WR")', Sent')
        BY <1>7, <1>12, <2>4, <3>1
      <3>4. DoorsOK' BY <1>2, <1>4, <1>7, <2>4, <3>1, <3>3 DEF DoorsOK, obVars
      <3> QED BY <3>2, <3>4
    <2> HIDE DEF lo, lo2
    <2> QED BY <1>1, <2>1, <2>2, <2>3, <2>4 DEF Receive
  <1> QED BY <1>5, <1>6, <1>15 DEF DoorInv

(* At the beginning nothing has been counted.                              *)
LEMMA InitDoor == Init => DoorInv
  <1> SUFFICES ASSUME Init PROVE DoorInv OBVIOUS
  <1>1. ILinkInv BY InitILink
  <1> USE DEF Init
  <1>2. MoverOK /\ NumbersOK /\ wr_out = Len(aws) BY DEF MoverOK, NumbersOK
  <1>3. Sent = 0 /\ Received = 0 /\ One(inst = "WR") = 0 BY DEF Sent, Received, One
  <1>4. Counts([i \in 0 .. 0 |-> 0], cross, Received + One(inst = "WR"), Sent)
    BY <1>3 DEF Counts
  <1>5. DoorsOK BY <1>4 DEF DoorsOK
  <1> QED BY <1>1, <1>2, <1>5 DEF DoorInv

(* A host that rings has had the answers that the doorbell speaks of.      *)
LEMMA DoorStep ==
  ASSUME DoorInv, [Next]_vars, FewAddresses, FewAddresses'
  PROVE  DoorInv'
  <1>1. ILinkInv' BY ILinkStep DEF DoorInv
  <1>2. CASE TxClock BY <1>1, <1>2, DoorTxKeeps
  <1>3. CASE RxClock BY <1>1, <1>3, DoorRxKeeps
  <1>4. ASSUME UNCHANGED <<moverVars, obVars, rxVars, cross>>,
               door_req' => door_txn' <= Sent
        PROVE  DoorInv'
    <2>1. MoverOK /\ NumbersOK /\ DoorsOK /\ wr_out = Len(aws) BY DEF DoorInv
    <2>2. MoverOK' /\ NumbersOK' /\ wr_out' = Len(aws')
      BY <1>4, <2>1 DEF MoverOK, NumbersOK, moverVars, obVars, rxVars
    <2>3. /\ Sent' = Sent /\ Received' = Received /\ One(inst = "WR")' = One(inst = "WR")
          /\ cross' = cross /\ inst' = inst /\ in_hdr' = in_hdr
          /\ obst' = obst /\ ob_who' = ob_who /\ ltx_hdr' = ltx_hdr
      BY <1>4 DEF Sent, Received, One, moverVars, obVars, rxVars
    <2>4. \E g : Counts(g, cross', Received' + One(inst = "WR")', Sent')
      BY <2>1, <2>3 DEF DoorsOK
    <2>5. DoorsOK' BY <1>4, <2>1, <2>3, <2>4 DEF DoorsOK
    <2> QED BY <1>1, <2>2, <2>5 DEF DoorInv
  <1>5. CASE Ring
    <2>1. door_txn' = answered /\ UNCHANGED <<moverVars, obVars, rxVars, cross>>
      BY <1>5 DEF Ring
    <2>2. answered \in Nat /\ One(bpend /\ rem_r) \in {0, 1}
      BY DoorParts DEF MoverTypes, One
    <2>3. answered <= Sent BY <2>2 DEF Sent
    <2> QED BY <1>4, <2>1, <2>3
  <1>6. ASSUME NEW s \in Sender, Present(s) PROVE DoorInv'
    <2>1. UNCHANGED <<moverVars, obVars, rxVars, cross, door_req, door_txn>>
      BY <1>6 DEF Present
    <2> QED BY <1>4, <2>1 DEF DoorInv, DoorsOK
  <1>7. CASE UNCHANGED vars
    <2>1. UNCHANGED <<moverVars, obVars, rxVars, cross, door_req, door_txn>>
      BY <1>7 DEF vars
    <2> QED BY <1>4, <2>1 DEF DoorInv, DoorsOK
  <1> QED BY <1>2, <1>3, <1>5, <1>6, <1>7 DEF Next

(* Only ActDoor counts a doorbell, and it waits for wr_out to be zero.     *)
LEMMA DoorCovered ==
  ASSUME DoorInv, [Next]_vars, dbell_n' # dbell_n
  PROVE  \/ landed >= in_hdr.load.n
         \/ landed = in_hdr.load.n - 1 /\ lk_aw # 0
  <1>1. RxClock
    <2>1. ~TxClock BY DEF TxClock, rxVars
    <2>2. ~Ring BY DEF Ring, rxVars
    <2>3. \A s \in Sender : ~Present(s) BY DEF Present, rxVars
    <2>4. ~UNCHANGED vars BY DEF vars, rxVars
    <2> QED BY <2>1, <2>2, <2>3, <2>4 DEF Next
  <1>2. ActDoor
    <2>1. PICK x \in Far : Receive(x) BY <1>1 DEF RxClock
    <2> QED BY <2>1 DEF Receive
  <1>3. inst = "DOOR" /\ Len(aws) = 0 /\ in_hdr.load.n <= Received
    BY <1>2 DEF ActDoor, DoorInv, DoorsOK
  <1>4. /\ FarTypes /\ InTypes /\ WritesPaired BY DoorParts
  <1>5. /\ aws \in Seq(Nat) /\ ws \in Seq(Nat) /\ lk_aw \in Nat /\ lk_w \in Nat
        /\ landed \in Nat /\ in_hdr.load.n \in Nat
    BY <1>4 DEF FarTypes, InTypes, Header, Load
  <1>6. Len(ws) + One(lk_w # 0) = One(lk_aw # 0)
    <2>1. \A l \in Nat : Held(l) \in Seq(Nat) /\ Len(Held(l)) = One(l # 0)
      BY DEF Held, One
    <2>2. \A q \in Seq(Nat), r \in Seq(Nat) : Len(q \o r) = Len(q) + Len(r) OBVIOUS
    <2>3. Len(aws \o Held(lk_aw)) = Len(aws) + One(lk_aw # 0)
      BY <1>5, <2>1, <2>2, ZenonT(40)
    <2>4. Len(ws \o Held(lk_w)) = Len(ws) + One(lk_w # 0)
      BY <1>5, <2>1, <2>2, ZenonT(40)
    <2>5. One(lk_aw # 0) \in Nat BY DEF One
    <2> QED BY <1>3, <1>4, <2>3, <2>4, <2>5 DEF WritesPaired
  <1>7. Len(ws) \in Nat /\ One(lk_w # 0) \in Nat /\ One(lk_aw # 0) \in Nat
    BY <1>5 DEF One
  <1>8. Received = landed + One(lk_aw # 0) BY <1>5, <1>6, <1>7 DEF Received
  <1>9. CASE lk_aw = 0
    <2>1. One(lk_aw # 0) = 0 BY <1>9 DEF One
    <2>2. Received = landed BY <1>5, <1>8, <2>1
    <2>3. in_hdr.load.n <= landed BY <1>3, <2>2
    <2>4. \A n, m \in Nat : n <= m => m >= n OBVIOUS
    <2> QED BY <1>5, <2>3, <2>4
  <1>10. CASE lk_aw # 0
    <2>1. One(lk_aw # 0) = 1 BY <1>10 DEF One
    <2>2. Received = landed + 1 BY <1>8, <2>1
    <2>3. in_hdr.load.n <= landed + 1 BY <1>3, <2>2
    <2>4. \A n, m \in Nat : n <= m + 1 => m >= n \/ m = n - 1 OBVIOUS
    <2>5. landed >= in_hdr.load.n \/ landed = in_hdr.load.n - 1
      BY <1>5, <2>3, <2>4
    <2> QED BY <1>10, <2>5, Zenon
  <1> QED BY <1>9, <1>10

(***************************************************************************)
(* A doorbell is counted when the writes answered before it was rung have  *)
(* landed, but for the last, whose address may still be on offer, as long  *)
(* as the memory never holds WR_MOD addresses that it has not answered.    *)
(* The premise is about the memory: lk_free compares wr_out with one value *)
(* only, so that the count can step over it and come round to zero         *)
(* (mag_ilink.v:503-504, 522-524, 550-554).                                *)
(***************************************************************************)
THEOREM DoorbellAfterWrites == Spec /\ []FewAddresses => DoorbellCovers
  <1>1. Init => DoorInv BY InitDoor
  <1>2. DoorInv /\ [Next]_vars /\ FewAddresses /\ FewAddresses' => DoorInv'
    BY DoorStep
  <1> DEFINE Covered == \/ landed >= in_hdr.load.n
                        \/ landed = in_hdr.load.n - 1 /\ lk_aw # 0
  <1>3. DoorInv /\ [Next]_vars => [dbell_n' # dbell_n => Covered]_vars
    BY DoorCovered
  <1> QED BY <1>1, <1>2, <1>3, PTL DEF Spec, DoorbellCovers

-----------------------------------------------------------------------------
(***************************************************************************)
(* Every stream is a channel.  What is in flight of a stream is in four    *)
(* places, one after the other; a clock edge of the sender passes packets  *)
(* from the later ones to the earlier, and one of the receiver likewise,   *)
(* whatever number of places it serves at once.                            *)
(***************************************************************************)
Cat(a, b) == a \o b
With(a, x) == Append(a, x)
Maybe(b, x) == IF b THEN <<x>> ELSE <<>>
Four(a, b, c, d) == Cat(Cat(Cat(a, b), c), d)

(* Concatenation stays a sequence, and the empty sequence adds nothing.     *)
LEMMA CatType ==
  ASSUME NEW S, NEW a \in Seq(S), NEW b \in Seq(S)
  PROVE  /\ Cat(a, b) \in Seq(S)
         /\ Cat(<<>>, a) = a /\ Cat(a, <<>>) = a
  <1>1. a \o b \in Seq(S) BY ConcatProperties
  <1>2. <<>> \o a = a /\ a \o <<>> = a BY ConcatEmptySeq
  <1> QED BY <1>1, <1>2, Zenon DEF Cat

(* Concatenation is associative.                                            *)
LEMMA CatAssoc ==
  ASSUME NEW S, NEW a \in Seq(S), NEW b \in Seq(S), NEW c \in Seq(S)
  PROVE  Cat(Cat(a, b), c) = Cat(a, Cat(b, c))
  <1>1. (a \o b) \o c = a \o (b \o c) BY ConcatAssociative
  <1> QED BY <1>1, Zenon DEF Cat

(* The tail of a concatenation is taken from its first part.                *)
LEMMA CatTail ==
  ASSUME NEW S, NEW a \in Seq(S), NEW b \in Seq(S), a # <<>>
  PROVE  Cat(a, b) # <<>> /\ Tail(Cat(a, b)) = Cat(Tail(a), b)
  <1>1. a \o b # <<>> /\ Tail(a \o b) = Tail(a) \o b BY TailOfJoin
  <1> QED BY <1>1, Zenon DEF Cat

Numbered(a, b, c, d) ==
  a \in Seq(Nat) /\ b \in Seq(Nat) /\ c \in Seq(Nat) /\ d \in Seq(Nat)

(* A clock edge of the sender: v enters the crossing, e is about to, and w *)
(* is new.                                                                 *)
LEMMA FourOut ==
  ASSUME NEW a, NEW b, NEW c, NEW d, Numbered(a, b, c, d),
         NEW v, NEW e, NEW f, NEW w, Numbered(v, e, f, w),
         Cat(c, d) = Cat(v, Cat(e, f))
  PROVE  Four(a, Cat(b, v), e, Cat(f, w)) = Cat(Four(a, b, c, d), w)
  <1> USE DEF Numbered
  <1> PICK p : p = Cat(a, b) OBVIOUS
  <1> PICK m : m = Cat(e, f) OBVIOUS
  <1> PICK g : g = Cat(f, w) OBVIOUS
  <1> PICK q : q = Cat(p, v) OBVIOUS
  <1> PICK h : h = Cat(v, m) OBVIOUS
  <1>1. p \in Seq(Nat) /\ m \in Seq(Nat) /\ g \in Seq(Nat) BY CatType
  <1>2. q \in Seq(Nat) /\ h \in Seq(Nat) BY <1>1, CatType
  <1>3. Four(a, Cat(b, v), e, g) = Cat(Cat(q, e), g)
    <2>1. Cat(a, Cat(b, v)) = q BY CatAssoc
    <2> QED BY <2>1, Zenon DEF Four
  <1>4. Cat(Cat(q, e), g) = Cat(q, Cat(m, w))
    <2>1. Cat(Cat(q, e), g) = Cat(q, Cat(e, g)) BY <1>1, <1>2, CatAssoc
    <2>2. Cat(e, g) = Cat(m, w) BY CatAssoc
    <2> QED BY <2>1, <2>2, Zenon
  <1>5. Cat(q, Cat(m, w)) = Cat(Cat(p, h), w)
    <2>1. Cat(Cat(q, m), w) = Cat(q, Cat(m, w)) BY <1>1, <1>2, CatAssoc
    <2>2. Cat(q, m) = Cat(p, h) BY <1>1, CatAssoc
    <2> QED BY <2>1, <2>2, Zenon
  <1>6. Four(a, b, c, d) = Cat(p, h)
    <2>1. Cat(Cat(p, c), d) = Cat(p, Cat(c, d)) BY <1>1, CatAssoc
    <2>2. Cat(c, d) = h BY Zenon
    <2> QED BY <2>1, <2>2, Zenon DEF Four
  <1> QED BY <1>3, <1>4, <1>5, <1>6, Zenon

(* A clock edge of the receiver: what is read of the crossing, u, arrives. *)
LEMMA FourIn ==
  ASSUME NEW a, NEW b, NEW c, NEW d, Numbered(a, b, c, d), NEW u \in Seq(Nat)
  PROVE  Four(Cat(a, u), b, c, d) = Four(a, Cat(u, b), c, d)
  <1>1. Cat(Cat(a, u), b) = Cat(a, Cat(u, b)) BY CatAssoc DEF Numbered
  <1> QED BY <1>1, Zenon DEF Four

(* What arrived first leaves.                                              *)
LEMMA FourLeave ==
  ASSUME NEW a, NEW b, NEW c, NEW d, Numbered(a, b, c, d), a # <<>>
  PROVE  /\ Four(a, b, c, d) # <<>>
         /\ Tail(Four(a, b, c, d)) = Four(Tail(a), b, c, d)
  <1> USE DEF Numbered
  <1> PICK p : p = Cat(a, b) OBVIOUS
  <1> PICK q : q = Cat(p, c) OBVIOUS
  <1>1. p \in Seq(Nat) /\ p # <<>> /\ Tail(p) = Cat(Tail(a), b) BY CatType, CatTail
  <1>2. q \in Seq(Nat) /\ q # <<>> /\ Tail(q) = Cat(Tail(p), c) BY <1>1, CatType, CatTail
  <1>3. Cat(q, d) # <<>> /\ Tail(Cat(q, d)) = Cat(Tail(q), d) BY <1>2, CatTail
  <1> QED BY <1>1, <1>2, <1>3, Zenon DEF Four

(* What is picked when a sequence has become longer, and when its first    *)
(* element is gone.                                                        *)
LEMMA PickedLonger ==
  ASSUME NEW S, NEW s \in Seq(S), NEW t \in Seq(S), Len(t) = Len(s) + 1,
         \A i \in 1 .. Len(s) : t[i] = s[i],
         NEW P \in SUBSET (1 .. Len(s)), NEW Q \in SUBSET (1 .. Len(t)),
         \A i \in 1 .. Len(s) : i \in Q <=> i \in P
  PROVE  Picked(t, Q) = Cat(Picked(s, P), Maybe(Len(t) \in Q, t[Len(t)]))
  <1> DEFINE n == Len(s)
             x == t[n + 1]
             r == Append(s, x)
  <1>1. n \in Nat /\ Len(t) = n + 1 /\ n + 1 \in 1 .. n + 1 BY LenProperties
  <1>2. x \in S BY <1>1, ElementOfSeq
  <1>3. t = r
    <2> HIDE DEF x
    <2>1. r \in Seq(S) /\ Len(r) = n + 1 /\ r[n + 1] = x /\ \A i \in 1 .. n : r[i] = s[i]
      BY <1>2, AppendProperties
    <2> HIDE DEF r, n
    <2>2. \A i \in 1 .. n + 1 : i \in 1 .. n \/ i = n + 1 BY <1>1
    <2>3. \A i \in 1 .. n : t[i] = r[i] BY <2>1 DEF n
    <2>4. t[n + 1] = r[n + 1] BY <2>1 DEF x
    <2> QED BY <1>1, <2>1, <2>2, <2>3, <2>4, SeqEqual
  <1>4. Picked(s, P) \in Seq(S) BY PickedType
  <1>5. Picked(r, P) = Picked(s, P) /\ Picked(r, P \cup {n + 1}) = Append(Picked(s, P), x)
    <2> HIDE DEF x, r
    <2>1. Picked(Append(s, x), P) = Picked(s, P) BY <1>2, PickedAppend, ZenonT(40)
    <2>2. Picked(Append(s, x), P \cup {Len(s) + 1}) = With(Picked(s, P), x)
      BY <1>2, PickedAppend, SMTT(40) DEF With
    <2> QED BY <2>1, <2>2, Zenon DEF r, n, With
  <1> HIDE DEF x, r
  <1>0. /\ P \in SUBSET (1 .. n) /\ Q \in SUBSET (1 .. n + 1)
        /\ \A i \in 1 .. n + 1 : i \in 1 .. n \/ i = n + 1
        /\ n + 1 \notin P /\ \A i \in 1 .. n : i \in Q <=> i \in P
    BY <1>1
  <1>9. Len(t) = n + 1 /\ x = t[Len(t)] BY <1>1, Zenon DEF x
  <1> HIDE DEF n
  <1> SUFFICES Picked(t, Q) = Cat(Picked(s, P), Maybe(n + 1 \in Q, x)) BY <1>9, Zenon
  <1>6. CASE n + 1 \in Q
    <2>1. Q = P \cup {n + 1} BY <1>0, <1>6
    <2>2. Append(Picked(s, P), x) = Picked(s, P) \o <<x>> BY <1>2, <1>4, AppendIsConcat
    <2>3. Picked(t, Q) = Picked(s, P) \o <<x>> BY <1>3, <1>5, <2>1, <2>2, Zenon
    <2>4. Maybe(n + 1 \in Q, x) = <<x>> BY <1>6, Zenon DEF Maybe
    <2> QED BY <2>3, <2>4, Zenon DEF Cat
  <1>7. CASE n + 1 \notin Q
    <2>1. Q = P BY <1>0, <1>7
    <2>2. Picked(s, P) \o <<>> = Picked(s, P) BY <1>4, ConcatEmptySeq
    <2>3. Picked(t, Q) = Picked(s, P) \o <<>> BY <1>3, <1>5, <2>1, <2>2, Zenon
    <2>4. Maybe(n + 1 \in Q, x) = <<>> BY <1>7, Zenon DEF Maybe
    <2> QED BY <2>3, <2>4, Zenon DEF Cat
  <1> QED BY <1>6, <1>7

Shorter(S, s, P, t, Q) ==
  /\ s \in Seq(S) /\ t \in Seq(S) /\ Len(s) = Len(t) + 1
  /\ P \in SUBSET (1 .. Len(s)) /\ Q \in SUBSET (1 .. Len(t))
  /\ \A i \in 1 .. Len(t) : t[i] = s[i + 1]
  /\ \A i \in 1 .. Len(t) : i \in Q <=> i + 1 \in P

(* Picking from a sequence that has lost its head.                          *)
LEMMA PickedShorter ==
  ASSUME NEW S, NEW s, NEW P, NEW t, NEW Q, Shorter(S, s, P, t, Q)
  PROVE  Picked(s, P) = Cat(Maybe(1 \in P, s[1]), Picked(t, Q))
  <1> USE DEF Shorter
  <1> DEFINE r == Tail(s)
  <1>1. Len(t) \in Nat /\ Len(s) - 1 = Len(t) /\ s # <<>> BY LenProperties, EmptySeq
  <1>2. t = r
    <2>1. r \in Seq(S) /\ Len(r) = Len(s) - 1 /\ \A i \in 1 .. Len(r) : r[i] = s[i + 1]
      BY <1>1, HeadTailProperties
    <2> HIDE DEF r
    <2> QED BY <1>1, <2>1, SeqEqual
  <1>3. /\ Q \in SUBSET (1 .. Len(s) - 1)
        /\ \A i \in 1 .. Len(s) - 1 : i \in Q <=> i + 1 \in P
    BY <1>1
  <1>4. Picked(s, P) = (IF 1 \in P THEN <<s[1]>> ELSE <<>>) \o Picked(r, Q)
    BY <1>1, <1>3, PickedTail
  <1>5. Maybe(1 \in P, s[1]) = IF 1 \in P THEN <<s[1]>> ELSE <<>> BY Zenon DEF Maybe
  <1> QED BY <1>2, <1>4, <1>5, Zenon DEF Cat

(***************************************************************************)
(* The items of the crossing, and the flits of the FIFO, that are of a     *)
(* stream.                                                                 *)
(***************************************************************************)
Loads(q) == [i \in DOMAIN q |-> q[i].load.n]
Marks(st, q) == {i \in DOMAIN q : Carries(st, q[i])}
Mark(st, x) == Maybe(Carries(st, x), x.load.n)

(* What crosses carries a number.                                           *)
LEMMA LoadNumber == ASSUME NEW x \in Item PROVE x.load.n \in Nat
  <1>1. x.load \in Load BY DEF Item, Header, Beat
  <1> QED BY <1>1 DEF Load

(* What the crossing carries for a stream, as a picking of its numbers.     *)
LEMMA CarriedType ==
  ASSUME NEW st, NEW q \in Seq(Item)
  PROVE  /\ Loads(q) \in Seq(Nat) /\ Len(Loads(q)) = Len(q) /\ Len(q) \in Nat
         /\ Marks(st, q) \in SUBSET (1 .. Len(q))
         /\ \A i \in 1 .. Len(q) : /\ Loads(q)[i] = q[i].load.n
                                   /\ i \in Marks(st, q) <=> Carries(st, q[i])
         /\ Carried(st, q) = Picked(Loads(q), Marks(st, q))
         /\ Carried(st, q) \in Seq(Nat)
  <1>1. DOMAIN q = 1 .. Len(q) /\ Len(q) \in Nat BY LenProperties
  <1>2. \A i \in 1 .. Len(q) : q[i].load.n \in Nat
    <2> TAKE i \in 1 .. Len(q)
    <2>1. q[i] \in Item BY ElementOfSeq
    <2> QED BY <2>1, LoadNumber
  <1>3. Loads(q) = [i \in 1 .. Len(q) |-> q[i].load.n] BY <1>1 DEF Loads
  <1>4. Loads(q) \in Seq(Nat) /\ Len(Loads(q)) = Len(q)
    <2>1. [i \in 1 .. Len(q) |-> q[i].load.n] \in Seq(Nat) BY <1>1, <1>2, IsASeq
    <2>2. DOMAIN [i \in 1 .. Len(q) |-> q[i].load.n] = 1 .. Len(q) OBVIOUS
    <2> QED BY <1>1, <1>3, <2>1, <2>2, LenProperties
  <1>5. Marks(st, q) \in SUBSET (1 .. Len(q)) BY <1>1 DEF Marks
  <1>6. \A i \in 1 .. Len(q) : Loads(q)[i] = q[i].load.n BY <1>3
  <1>7. \A i \in 1 .. Len(q) : i \in Marks(st, q) <=> Carries(st, q[i]) BY <1>1 DEF Marks
  <1>8. Carried(st, q) = Picked(Loads(q), Marks(st, q)) BY Zenon DEF Carried, Loads, Marks
  <1>9. Picked(Loads(q), Marks(st, q)) \in Seq(Nat) BY <1>4, <1>5, PickedType
  <1> QED BY <1>1, <1>4, <1>5, <1>6, <1>7, <1>8, <1>9

(* An item that enters the crossing, and one that is read.                 *)
LEMMA CarriedAppend ==
  ASSUME NEW st, NEW q \in Seq(Item), NEW x \in Item
  PROVE  Carried(st, Append(q, x)) = Cat(Carried(st, q), Mark(st, x))
  <1> DEFINE t == Append(q, x)
  <1>1. /\ t \in Seq(Item) /\ Len(t) = Len(q) + 1 /\ t[Len(q) + 1] = x
        /\ \A i \in 1 .. Len(q) : t[i] = q[i]
    BY AppendProperties
  <1> HIDE DEF t
  <1>2. /\ Loads(q) \in Seq(Nat) /\ Len(Loads(q)) = Len(q) /\ Len(q) \in Nat
        /\ Marks(st, q) \in SUBSET (1 .. Len(Loads(q)))
        /\ \A i \in 1 .. Len(q) : /\ Loads(q)[i] = q[i].load.n
                                  /\ i \in Marks(st, q) <=> Carries(st, q[i])
        /\ Carried(st, q) = Picked(Loads(q), Marks(st, q))
    BY CarriedType
  <1>3. /\ Loads(t) \in Seq(Nat) /\ Len(Loads(t)) = Len(t)
        /\ Marks(st, t) \in SUBSET (1 .. Len(Loads(t)))
        /\ \A i \in 1 .. Len(t) : /\ Loads(t)[i] = t[i].load.n
                                  /\ i \in Marks(st, t) <=> Carries(st, t[i])
        /\ Carried(st, t) = Picked(Loads(t), Marks(st, t))
    BY <1>1, CarriedType
  <1>4. \A i \in 1 .. Len(q) : i \in 1 .. Len(t) BY <1>1, <1>2
  <1>5. /\ \A i \in 1 .. Len(Loads(q)) : Loads(t)[i] = Loads(q)[i]
        /\ \A i \in 1 .. Len(Loads(q)) : i \in Marks(st, t) <=> i \in Marks(st, q)
    BY <1>1, <1>2, <1>3, <1>4
  <1>6. Len(Loads(t)) = Len(Loads(q)) + 1 BY <1>1, <1>2, <1>3
  <1>7. Picked(Loads(t), Marks(st, t))
          = Cat(Picked(Loads(q), Marks(st, q)),
                Maybe(Len(Loads(t)) \in Marks(st, t), Loads(t)[Len(Loads(t))]))
    <2> PICK a : a = Loads(q) OBVIOUS
    <2> PICK b : b = Loads(t) OBVIOUS
    <2> PICK P : P = Marks(st, q) OBVIOUS
    <2> PICK Q : Q = Marks(st, t) OBVIOUS
    <2>1. /\ a \in Seq(Nat) /\ b \in Seq(Nat) /\ Len(b) = Len(a) + 1
          /\ P \in SUBSET (1 .. Len(a)) /\ Q \in SUBSET (1 .. Len(b))
          /\ \A i \in 1 .. Len(a) : b[i] = a[i]
          /\ \A i \in 1 .. Len(a) : i \in Q <=> i \in P
      BY <1>2, <1>3, <1>5, <1>6, Zenon
    <2>2. Picked(b, Q) = Cat(Picked(a, P), Maybe(Len(b) \in Q, b[Len(b)]))
      BY <2>1, PickedLonger
    <2> QED BY <2>2, Zenon
  <1>8. Len(t) \in 1 .. Len(t) /\ t[Len(t)] = x BY <1>1, <1>2
  <1>9. /\ Len(Loads(t)) \in Marks(st, t) <=> Carries(st, x)
        /\ Loads(t)[Len(Loads(t))] = x.load.n
    BY <1>3, <1>8
  <1>10. Maybe(Len(Loads(t)) \in Marks(st, t), Loads(t)[Len(Loads(t))])
            = Mark(st, x)
    BY <1>9 DEF Mark, Maybe
  <1> QED BY <1>2, <1>3, <1>7, <1>10, Zenon DEF t

(* Reading the head of the crossing takes what it marks off the stream.     *)
LEMMA CarriedTail ==
  ASSUME NEW st, NEW q \in Seq(Item), q # <<>>
  PROVE  Carried(st, q) = Cat(Mark(st, q[1]), Carried(st, Tail(q)))
  <1> DEFINE t == Tail(q)
  <1>1. /\ t \in Seq(Item) /\ Len(t) = Len(q) - 1
        /\ \A i \in 1 .. Len(t) : t[i] = q[i + 1]
    BY HeadTailProperties
  <1> HIDE DEF t
  <1>2. /\ Loads(q) \in Seq(Nat) /\ Len(Loads(q)) = Len(q) /\ Len(q) \in Nat
        /\ Marks(st, q) \in SUBSET (1 .. Len(Loads(q)))
        /\ \A i \in 1 .. Len(q) : /\ Loads(q)[i] = q[i].load.n
                                  /\ i \in Marks(st, q) <=> Carries(st, q[i])
        /\ Carried(st, q) = Picked(Loads(q), Marks(st, q))
    BY CarriedType
  <1>3. /\ Loads(t) \in Seq(Nat) /\ Len(Loads(t)) = Len(t) /\ Len(t) \in Nat
        /\ Marks(st, t) \in SUBSET (1 .. Len(Loads(t)))
        /\ \A i \in 1 .. Len(t) : /\ Loads(t)[i] = t[i].load.n
                                  /\ i \in Marks(st, t) <=> Carries(st, t[i])
        /\ Carried(st, t) = Picked(Loads(t), Marks(st, t))
    BY <1>1, CarriedType
  <1>4. Len(q) = Len(t) + 1 BY <1>1, <1>2, <1>3
  <1>5. 1 \in 1 .. Len(q) /\ \A i \in 1 .. Len(t) : i + 1 \in 1 .. Len(q) BY <1>3, <1>4
  <1>6. /\ \A i \in 1 .. Len(Loads(t)) : Loads(t)[i] = Loads(q)[i + 1]
        /\ \A i \in 1 .. Len(Loads(t)) : i \in Marks(st, t) <=> i + 1 \in Marks(st, q)
    BY <1>1, <1>2, <1>3, <1>5
  <1>7. Len(Loads(q)) = Len(Loads(t)) + 1 BY <1>2, <1>3, <1>4
  <1>8. Picked(Loads(q), Marks(st, q))
          = Cat(Maybe(1 \in Marks(st, q), Loads(q)[1]), Picked(Loads(t), Marks(st, t)))
    <2> PICK a : a = Loads(q) OBVIOUS
    <2> PICK b : b = Loads(t) OBVIOUS
    <2> PICK P : P = Marks(st, q) OBVIOUS
    <2> PICK Q : Q = Marks(st, t) OBVIOUS
    <2>1. Shorter(Nat, a, P, b, Q) BY <1>2, <1>3, <1>6, <1>7, Zenon DEF Shorter
    <2>2. Picked(a, P) = Cat(Maybe(1 \in P, a[1]), Picked(b, Q))
      BY <2>1, PickedShorter
    <2> QED BY <2>2, Zenon
  <1>9. Maybe(1 \in Marks(st, q), Loads(q)[1]) = Mark(st, q[1])
    BY <1>2, <1>5 DEF Mark, Maybe
  <1> QED BY <1>2, <1>3, <1>8, <1>9, Zenon DEF t

(* Likewise the flits that the encapsulator has taken.                     *)
FlitNs(q) == [i \in DOMAIN q |-> q[i].n]
From(s, q) == {i \in DOMAIN q : q[i].src = s}

(* The flits of a sender in the FIFO, as a picking of their numbers.        *)
LEMMA FlitsType ==
  ASSUME NEW s, NEW q \in Seq(Flit)
  PROVE  /\ FlitNs(q) \in Seq(Nat) /\ Len(FlitNs(q)) = Len(q) /\ Len(q) \in Nat
         /\ From(s, q) \in SUBSET (1 .. Len(q))
         /\ \A i \in 1 .. Len(q) : /\ FlitNs(q)[i] = q[i].n
                                   /\ i \in From(s, q) <=> q[i].src = s
         /\ FlitsOf(s, q) = Picked(FlitNs(q), From(s, q))
         /\ FlitsOf(s, q) \in Seq(Nat)
  <1>1. DOMAIN q = 1 .. Len(q) /\ Len(q) \in Nat BY LenProperties
  <1>2. \A i \in 1 .. Len(q) : q[i].n \in Nat
    <2> TAKE i \in 1 .. Len(q)
    <2>1. q[i] \in Flit BY ElementOfSeq
    <2> QED BY <2>1 DEF Flit
  <1>3. FlitNs(q) = [i \in 1 .. Len(q) |-> q[i].n] BY <1>1 DEF FlitNs
  <1>4. FlitNs(q) \in Seq(Nat) /\ Len(FlitNs(q)) = Len(q)
    <2>1. [i \in 1 .. Len(q) |-> q[i].n] \in Seq(Nat) BY <1>1, <1>2, IsASeq
    <2>2. DOMAIN [i \in 1 .. Len(q) |-> q[i].n] = 1 .. Len(q) OBVIOUS
    <2> QED BY <1>1, <1>3, <2>1, <2>2, LenProperties
  <1>5. From(s, q) \in SUBSET (1 .. Len(q)) BY <1>1 DEF From
  <1>6. \A i \in 1 .. Len(q) : FlitNs(q)[i] = q[i].n BY <1>3
  <1>7. \A i \in 1 .. Len(q) : i \in From(s, q) <=> q[i].src = s BY <1>1 DEF From
  <1>8. FlitsOf(s, q) = Picked(FlitNs(q), From(s, q)) BY Zenon DEF FlitsOf, FlitNs, From
  <1>9. Picked(FlitNs(q), From(s, q)) \in Seq(Nat) BY <1>4, <1>5, PickedType
  <1> QED BY <1>1, <1>4, <1>5, <1>6, <1>7, <1>8, <1>9

(* A flit entering the FIFO is the youngest of its sender there.            *)
LEMMA FlitsAppend ==
  ASSUME NEW s, NEW q \in Seq(Flit), NEW x \in Flit
  PROVE  FlitsOf(s, Append(q, x)) = Cat(FlitsOf(s, q), FlitOf(s, x))
  <1> DEFINE t == Append(q, x)
  <1>1. /\ t \in Seq(Flit) /\ Len(t) = Len(q) + 1 /\ t[Len(q) + 1] = x
        /\ \A i \in 1 .. Len(q) : t[i] = q[i]
    BY AppendProperties
  <1> HIDE DEF t
  <1>2. /\ FlitNs(q) \in Seq(Nat) /\ Len(FlitNs(q)) = Len(q) /\ Len(q) \in Nat
        /\ From(s, q) \in SUBSET (1 .. Len(FlitNs(q)))
        /\ \A i \in 1 .. Len(q) : /\ FlitNs(q)[i] = q[i].n
                                  /\ i \in From(s, q) <=> q[i].src = s
        /\ FlitsOf(s, q) = Picked(FlitNs(q), From(s, q))
    BY FlitsType
  <1>3. /\ FlitNs(t) \in Seq(Nat) /\ Len(FlitNs(t)) = Len(t)
        /\ From(s, t) \in SUBSET (1 .. Len(FlitNs(t)))
        /\ \A i \in 1 .. Len(t) : /\ FlitNs(t)[i] = t[i].n
                                  /\ i \in From(s, t) <=> t[i].src = s
        /\ FlitsOf(s, t) = Picked(FlitNs(t), From(s, t))
    BY <1>1, FlitsType
  <1>4. \A i \in 1 .. Len(q) : i \in 1 .. Len(t) BY <1>1, <1>2
  <1>5. /\ \A i \in 1 .. Len(FlitNs(q)) : FlitNs(t)[i] = FlitNs(q)[i]
        /\ \A i \in 1 .. Len(FlitNs(q)) : i \in From(s, t) <=> i \in From(s, q)
    <2>1. ASSUME NEW i \in 1 .. Len(q)
          PROVE  FlitNs(t)[i] = FlitNs(q)[i] /\ (i \in From(s, t) <=> i \in From(s, q))
      <3>1. i \in 1 .. Len(t) /\ t[i] = q[i] BY <1>1, <1>4
      <3>2. /\ FlitNs(t)[i] = t[i].n /\ (i \in From(s, t) <=> t[i].src = s)
            /\ FlitNs(q)[i] = q[i].n /\ (i \in From(s, q) <=> q[i].src = s)
        BY <1>2, <1>3, <3>1, Zenon
      <3> QED BY <3>1, <3>2, Zenon
    <2> QED BY <1>2, <2>1, Zenon
  <1>6. Len(FlitNs(t)) = Len(FlitNs(q)) + 1 BY <1>1, <1>2, <1>3
  <1>7. Picked(FlitNs(t), From(s, t))
          = Cat(Picked(FlitNs(q), From(s, q)),
                Maybe(Len(FlitNs(t)) \in From(s, t), FlitNs(t)[Len(FlitNs(t))]))
    <2> PICK a : a = FlitNs(q) OBVIOUS
    <2> PICK b : b = FlitNs(t) OBVIOUS
    <2> PICK P : P = From(s, q) OBVIOUS
    <2> PICK Q : Q = From(s, t) OBVIOUS
    <2>1. /\ a \in Seq(Nat) /\ b \in Seq(Nat) /\ Len(b) = Len(a) + 1
          /\ P \in SUBSET (1 .. Len(a)) /\ Q \in SUBSET (1 .. Len(b))
          /\ \A i \in 1 .. Len(a) : b[i] = a[i]
          /\ \A i \in 1 .. Len(a) : i \in Q <=> i \in P
      BY <1>2, <1>3, <1>5, <1>6, Zenon
    <2>2. Picked(b, Q) = Cat(Picked(a, P), Maybe(Len(b) \in Q, b[Len(b)]))
      BY <2>1, PickedLonger
    <2> QED BY <2>2, Zenon
  <1>8. Len(t) \in 1 .. Len(t) /\ t[Len(t)] = x BY <1>1, <1>2
  <1>9. /\ Len(FlitNs(t)) \in From(s, t) <=> x.src = s
        /\ FlitNs(t)[Len(FlitNs(t))] = x.n
    BY <1>3, <1>8
  <1>10. Maybe(Len(FlitNs(t)) \in From(s, t), FlitNs(t)[Len(FlitNs(t))])
            = FlitOf(s, x)
    BY <1>9, Zenon DEF FlitOf, Maybe
  <1> QED BY <1>2, <1>3, <1>7, <1>10, Zenon DEF t

(* A flit leaving the FIFO is the oldest of its sender there.               *)
LEMMA FlitsTail ==
  ASSUME NEW s, NEW q \in Seq(Flit), q # <<>>
  PROVE  FlitsOf(s, q) = Cat(FlitOf(s, q[1]), FlitsOf(s, Tail(q)))
  <1> DEFINE t == Tail(q)
  <1>1. /\ t \in Seq(Flit) /\ Len(t) = Len(q) - 1
        /\ \A i \in 1 .. Len(t) : t[i] = q[i + 1]
    BY HeadTailProperties
  <1> HIDE DEF t
  <1>2. /\ FlitNs(q) \in Seq(Nat) /\ Len(FlitNs(q)) = Len(q) /\ Len(q) \in Nat
        /\ From(s, q) \in SUBSET (1 .. Len(FlitNs(q)))
        /\ \A i \in 1 .. Len(q) : /\ FlitNs(q)[i] = q[i].n
                                  /\ i \in From(s, q) <=> q[i].src = s
        /\ FlitsOf(s, q) = Picked(FlitNs(q), From(s, q))
    BY FlitsType
  <1>3. /\ FlitNs(t) \in Seq(Nat) /\ Len(FlitNs(t)) = Len(t) /\ Len(t) \in Nat
        /\ From(s, t) \in SUBSET (1 .. Len(FlitNs(t)))
        /\ \A i \in 1 .. Len(t) : /\ FlitNs(t)[i] = t[i].n
                                  /\ i \in From(s, t) <=> t[i].src = s
        /\ FlitsOf(s, t) = Picked(FlitNs(t), From(s, t))
    BY <1>1, FlitsType
  <1>4. Len(q) = Len(t) + 1 BY <1>1, <1>2, <1>3
  <1>5. 1 \in 1 .. Len(q) /\ \A i \in 1 .. Len(t) : i + 1 \in 1 .. Len(q) BY <1>3, <1>4
  <1>6. /\ \A i \in 1 .. Len(FlitNs(t)) : FlitNs(t)[i] = FlitNs(q)[i + 1]
        /\ \A i \in 1 .. Len(FlitNs(t)) : i \in From(s, t) <=> i + 1 \in From(s, q)
    <2>1. ASSUME NEW i \in 1 .. Len(t)
          PROVE  /\ FlitNs(t)[i] = FlitNs(q)[i + 1]
                 /\ i \in From(s, t) <=> i + 1 \in From(s, q)
      <3>1. i + 1 \in 1 .. Len(q) /\ t[i] = q[i + 1] BY <1>1, <1>5, Zenon
      <3>2. /\ FlitNs(t)[i] = t[i].n /\ (i \in From(s, t) <=> t[i].src = s)
            /\ FlitNs(q)[i + 1] = q[i + 1].n /\ (i + 1 \in From(s, q) <=> q[i + 1].src = s)
        BY <1>2, <1>3, <3>1, Zenon
      <3> QED BY <3>1, <3>2, Zenon
    <2> QED BY <1>3, <2>1, Zenon
  <1>7. Len(FlitNs(q)) = Len(FlitNs(t)) + 1 BY <1>2, <1>3, <1>4
  <1>8. Picked(FlitNs(q), From(s, q))
          = Cat(Maybe(1 \in From(s, q), FlitNs(q)[1]), Picked(FlitNs(t), From(s, t)))
    <2> PICK a : a = FlitNs(q) OBVIOUS
    <2> PICK b : b = FlitNs(t) OBVIOUS
    <2> PICK P : P = From(s, q) OBVIOUS
    <2> PICK Q : Q = From(s, t) OBVIOUS
    <2>1. Shorter(Nat, a, P, b, Q) BY <1>2, <1>3, <1>6, <1>7, Zenon DEF Shorter
    <2>2. Picked(a, P) = Cat(Maybe(1 \in P, a[1]), Picked(b, Q))
      BY <2>1, PickedShorter
    <2> QED BY <2>2, Zenon
  <1>9. Maybe(1 \in From(s, q), FlitNs(q)[1]) = FlitOf(s, q[1])
    BY <1>2, <1>5, Zenon DEF FlitOf, Maybe
  <1> QED BY <1>2, <1>3, <1>8, <1>9, Zenon DEF t

-----------------------------------------------------------------------------
(***************************************************************************)
(* The invariant of the refinement: what is numbered stays within the      *)
(* bounds on what is sent, and what is being sent is what asked for it.    *)
(***************************************************************************)
LimitsOK ==
  /\ answered + One(aw_got) <= mv
  /\ wrote + One(aw_got /\ ~w_got) <= mv
  /\ mv <= MaxWrites
  /\ \A s \in Sender : flits[s] <= MaxBursts * BurstLen[s]

SendingOK ==
  /\ obst = "DAT" => ltx_dat.kind = KindOf(ob_who)
  /\ obst # "IDLE" /\ ob_who = 2 => door_req
  /\ obst = "HDR" /\ ob_who = 2 => ltx_hdr.load.n = door_txn

RelayInv ==
  /\ ILinkInv
  /\ MoverOK
  /\ NumbersOK
  /\ LimitsOK
  /\ SendingOK

(* The parts of the invariant that the proofs below use.                    *)
LEMMA RelayParts ==
  ASSUME RelayInv
  PROVE  /\ MoverTypes /\ EncTypes /\ OutTypes /\ LineTypes
         /\ HostTypes /\ SentTypes /\ InTypes /\ FarTypes
         /\ PortsOK /\ EncOK /\ OutOK /\ Framed(Line, inst, in_hdr, in_left)
  <1>1. TypeOK /\ PortsOK /\ EncOK /\ OutOK /\ Framed(Line, inst, in_hdr, in_left)
    BY DEF ILinkInv, RelayInv
  <1> QED BY <1>1, TypeParts

(* The invariant holds initially.                                           *)
LEMMA InitRelay == Init => RelayInv
  <1> SUFFICES ASSUME Init PROVE RelayInv OBVIOUS
  <1>1. ILinkInv BY InitILink
  <1> USE DEF Init
  <1>2. MoverOK /\ NumbersOK /\ SendingOK BY DEF MoverOK, NumbersOK, SendingOK
  <1>3. MaxWrites \in Nat /\ MaxBursts \in Nat /\ BurstLen \in [Sender -> Nat \ {0}]
    BY ILinkAssumption
  <1>4. \A s \in Sender : flits[s] = 0 /\ 0 <= MaxBursts * BurstLen[s]
    <2>1. \A a, b \in Nat : 0 <= a * b BY SMTT(40)
    <2> QED BY <1>3, <2>1
  <1>5. LimitsOK BY <1>3, <1>4 DEF LimitsOK, One
  <1> QED BY <1>1, <1>2, <1>5 DEF RelayInv

(* A write is counted when its address is presented, and numbered and      *)
(* answered after that.                                                    *)
LEMMA LimitsTx ==
  ASSUME MoverTypes, MoverOK, LimitsOK, flits' = flits,
         NEW m \in {"NONE", "LOCAL", "REMOTE"}, NEW l \in LocalMem, MoverSplit(m, l)
  PROVE  LimitsOK'
  <1> DEFINE aw == m # "NONE"
             w == aw_got /\ ~w_got
             a == One(aw_got)
             b == One(w)
  <1>1. /\ w_got => aw_got
        /\ bpend => w_got
        /\ aw => ~aw_got /\ mv < MaxWrites
        /\ aw_got' = (~bpend /\ (aw_got \/ aw))
        /\ w_got' = (~bpend /\ (w_got \/ w))
        /\ mv' = IF aw THEN mv + 1 ELSE mv
        /\ wrote' = IF w /\ rem_r THEN wrote + 1 ELSE wrote
        /\ answered' = IF bpend /\ rem_r THEN answered + 1 ELSE answered
    BY DEF MoverSplit, MoverOK
  <1>2. answered + a <= mv /\ wrote + b <= mv /\ mv <= MaxWrites BY DEF LimitsOK
  <1>3. answered \in Nat /\ wrote \in Nat /\ mv \in Nat /\ MaxWrites \in Nat
    BY ILinkAssumption DEF MoverTypes
  <1>4. a = (IF aw_got THEN 1 ELSE 0) /\ b = (IF w THEN 1 ELSE 0) BY DEF One
  <1>5. w <=> aw_got /\ ~w_got OBVIOUS
  <1> HIDE DEF aw, w, a, b
  <1>6. mv' <= MaxWrites BY <1>1, <1>2, <1>3
  <1>7. answered' + One(aw_got)' <= mv'
    <2>1. CASE aw
      <3>1. ~bpend BY <1>1, <2>1, Zenon
      <3>2. One(aw_got)' <= 1 /\ One(aw_got)' \in Nat BY DEF One
      <3>3. answered' = answered /\ mv' = mv + 1 BY <1>1, <2>1, <3>1
      <3>4. a = 0 BY <1>1, <1>4, <2>1
      <3>5. answered <= mv BY <1>2, <1>3, <3>4
      <3> PICK k : k = One(aw_got)' OBVIOUS
      <3>6. k \in Nat /\ k <= 1 BY <3>2
      <3>7. answered + k <= mv + 1 BY <1>3, <3>5, <3>6
      <3>8. answered' + k <= mv' BY <3>3, <3>7
      <3> QED BY <3>8
    <2>2. CASE ~aw /\ bpend
      <3>1. ~aw_got' /\ aw_got BY <1>1, <2>2, Zenon
      <3>2. One(aw_got)' = 0 /\ a = 1 BY <1>4, <3>1 DEF One
      <3>3. mv' = mv /\ answered' <= answered + 1 /\ answered' \in Nat BY <1>1, <1>3, <2>2
      <3>4. answered + 1 <= mv BY <1>2, <3>2
      <3>5. answered' + 0 <= mv'
        <4>1. \A i, j, k \in Nat : i <= j + 1 /\ j + 1 <= k => i + 0 <= k OBVIOUS
        <4> QED BY <1>3, <3>3, <3>4, <4>1
      <3> QED BY <3>2, <3>5
    <2>3. CASE ~aw /\ ~bpend
      <3>1. aw_got' => aw_got BY <1>1, <2>3, Zenon
      <3>2. One(aw_got)' <= a /\ One(aw_got)' \in Nat /\ a \in Nat BY <1>4, <3>1 DEF One
      <3>3. mv' = mv /\ answered' = answered BY <1>1, <2>3
      <3> QED BY <1>2, <1>3, <3>2, <3>3
    <2> QED BY <2>1, <2>2, <2>3
  <1>8. wrote' + One(aw_got /\ ~w_got)' <= mv'
    <2>1. CASE w
      <3>1. ~aw /\ ~bpend BY <1>1, <1>5, <2>1, Zenon
      <3>2. ~(aw_got' /\ ~w_got') BY <1>1, <2>1, <3>1, Zenon
      <3>3. One(aw_got /\ ~w_got)' = 0 /\ b = 1 BY <1>4, <2>1, <3>2 DEF One
      <3>4. mv' = mv /\ wrote' <= wrote + 1 /\ wrote' \in Nat BY <1>1, <1>3, <3>1
      <3> QED BY <1>2, <1>3, <3>3, <3>4
    <2>2. CASE ~w /\ aw
      <3>1. One(aw_got /\ ~w_got)' <= 1 /\ One(aw_got /\ ~w_got)' \in Nat BY DEF One
      <3>2. wrote' = wrote /\ mv' = mv + 1 /\ b = 0 BY <1>1, <1>4, <2>2
      <3> QED BY <1>2, <1>3, <3>1, <3>2
    <2>3. CASE ~w /\ ~aw
      <3>1. ~(aw_got' /\ ~w_got') BY <1>1, <1>5, <2>3, Zenon
      <3>2. One(aw_got /\ ~w_got)' = 0 BY <3>1 DEF One
      <3>3. wrote' = wrote /\ mv' = mv /\ b = 0 BY <1>1, <1>4, <2>3
      <3> QED BY <1>2, <1>3, <3>2, <3>3
    <2> QED BY <2>1, <2>2, <2>3
  <1>9. \A s \in Sender : flits'[s] <= MaxBursts * BurstLen[s] BY Zenon DEF LimitsOK
  <1> QED BY <1>6, <1>7, <1>8, <1>9, Zenon DEF LimitsOK

(* A beat of a write, when it enters the crossing, has its number.         *)
CrossNumbered ==
  \A i \in 1 .. Len(cross) :
    ~cross[i].hdr /\ cross[i].load.kind = "WR" => cross[i].load.n > 0

(* A write that enters the crossing with a number of its own.               *)
LEMMA NumbersAppend ==
  ASSUME LineTypes, CrossNumbered, NEW y \in Item, cross' = Append(cross, y),
         ~y.hdr /\ y.load.kind = "WR" => y.load.n > 0
  PROVE  CrossNumbered'
  <1>1. cross \in Seq(Item) BY DEF LineTypes
  <1>2. SUFFICES ASSUME NEW i \in 1 .. Len(cross')
                 PROVE  ~cross'[i].hdr /\ cross'[i].load.kind = "WR" => cross'[i].load.n > 0
    BY DEF CrossNumbered
  <1>3. CASE i \in 1 .. Len(cross)
    <2>1. cross'[i] = cross[i] BY <1>1, <1>3
    <2> QED BY <1>3, <2>1 DEF CrossNumbered
  <1>4. CASE i = Len(cross) + 1
    <2>1. cross'[i] = y BY <1>1, <1>4
    <2> QED BY <2>1
  <1> QED BY <1>1, <1>3, <1>4

(* Reading the crossing leaves the others numbered.                         *)
LEMMA NumbersTail ==
  ASSUME LineTypes, CrossNumbered, cross # <<>>, cross' = Tail(cross)
  PROVE  CrossNumbered'
  <1>1. cross \in Seq(Item) BY DEF LineTypes
  <1>2. /\ Len(cross') = Len(cross) - 1 /\ Len(cross) \in Nat
        /\ \A i \in 1 .. Len(cross) - 1 : cross'[i] = cross[i + 1]
    BY <1>1, TailParts
  <1>3. SUFFICES ASSUME NEW i \in 1 .. Len(cross')
                 PROVE  ~cross'[i].hdr /\ cross'[i].load.kind = "WR" => cross'[i].load.n > 0
    BY DEF CrossNumbered
  <1>4. i + 1 \in 1 .. Len(cross) /\ cross'[i] = cross[i + 1] BY <1>2
  <1> QED BY <1>4 DEF CrossNumbered

(* A clock edge of the sending mesh.                                       *)
LEMMA RelayTx ==
  ASSUME RelayInv, ILinkInv', TxClock
  PROVE  RelayInv'
  <1>1. PICK m \in {"NONE", "LOCAL", "REMOTE"}, l \in LocalMem : MoverSplit(m, l)
    BY DEF TxClock
  <1>2. /\ Outbound /\ door_req' = (door_req /\ ~(LastTaken /\ ob_who = 2))
        /\ door_txn' = door_txn /\ flits' = flits
    BY DEF TxClock
  <1>3. /\ MoverTypes /\ EncTypes /\ OutTypes /\ LineTypes /\ HostTypes /\ EncOK /\ OutOK
    BY RelayParts
  <1>4. MoverOK /\ NumbersOK /\ LimitsOK /\ SendingOK /\ CrossNumbered
    BY DEF RelayInv, NumbersOK, CrossNumbered
  <1>5. MoverOK' BY <1>1, <1>2, <1>3, <1>4, MoverCounts
  <1>6. LimitsOK' BY <1>1, <1>2, <1>3, <1>4, LimitsTx
  <1>7. ltx_hdr \in Item /\ ltx_hdr.hdr /\ ltx_dat \in Load BY <1>3 DEF OutTypes, Item, Header
  <1> DEFINE Whole == /\ obst' = "DAT" => ltx_dat'.kind = KindOf(ob_who')
                      /\ obst' = "DAT" /\ ltx_dat'.kind = "WR" => ltx_dat'.n > 0
                      /\ CrossNumbered'
                      /\ obst' # "IDLE" /\ ob_who' = 2 => door_req'
                      /\ obst' = "HDR" /\ ob_who' = 2 => ltx_hdr'.load.n = door_txn'
  <1>8. ASSUME Starts PROVE Whole
    <2>1. obst' = "HDR" /\ cross' = cross /\ ~LastTaken BY <1>8 DEF Starts, LastTaken, BeatTaken
    <2>2. ob_who' = 2 => door_req' /\ ltx_hdr'.load.n = door_txn'
      <3> HAVE ob_who' = 2
      <3>1. Req(2) /\ ltx_hdr'.load = ObLoad(2) BY <1>8 DEF Starts
      <3>2. door_req /\ ltx_hdr'.load.n = door_txn BY <3>1 DEF Req, ObLoad
      <3> QED BY <1>2, <2>1, <3>2
    <2>3. CrossNumbered' BY <1>4, <2>1 DEF CrossNumbered
    <2> QED BY <2>1, <2>2, <2>3
  <1>9. ASSUME SendsHeader PROVE Whole
    <2>1. /\ obst = "HDR" /\ cross' = Append(cross, ltx_hdr) /\ obst' = "DAT"
          /\ ltx_dat' = ObLoad(ob_who) /\ ob_who' = ob_who /\ ob_who \in 0 .. 2
      BY <1>3, <1>9 DEF SendsHeader, OutTypes
    <2>2. ob_who = 1 => ef # <<>>
      BY <1>3, <2>1, HeaderParts DEF OutOK, EncTypes
    <2>3. ltx_dat'.kind = KindOf(ob_who) BY <1>3, <2>1, <2>2, LoadParts
    <2>4. ltx_dat'.kind = "WR" => ltx_dat'.n > 0
      <3> HAVE ltx_dat'.kind = "WR"
      <3>1. ob_who = 0 BY <2>1, <2>3 DEF KindOf
      <3>2. ltx_dat'.n = d_r /\ ob_wr_req BY <1>4, <2>1, <3>1 DEF ObLoad, MoverOK
      <3> QED BY <1>4, <3>2 DEF MoverOK
    <2>5. CrossNumbered' BY <1>3, <1>4, <1>7, <2>1, NumbersAppend
    <2>6. ob_who' = 2 => door_req'
      BY <1>2, <1>4, <2>1 DEF SendingOK, LastTaken, BeatTaken
    <2> QED BY <2>1, <2>3, <2>4, <2>5, <2>6
  <1>10. ASSUME SendsBeat \/ SendsLast PROVE Whole
    <2>1. /\ cross' = Append(cross, ObBeat) /\ obst = "DAT" /\ ob_who' = ob_who
          /\ obst' \in {"IDLE", "DAT"}
      BY <1>10 DEF SendsBeat, SendsLast
    <2>2. ~ObBeat.hdr /\ ObBeat.load = ltx_dat /\ ObBeat \in Item
      <3>1. (ob_left = 1) \in BOOLEAN OBVIOUS
      <3>2. ~ObBeat.hdr /\ ObBeat.load = ltx_dat BY BeatParts, <3>1 DEF ObBeat
      <3>3. ObBeat \in Beat BY <1>7, <3>1, Zenon DEF ObBeat, Beat
      <3> QED BY <3>2, <3>3 DEF Item
    <2>3. CrossNumbered'
      <3>1. ObBeat.load.kind = "WR" => ObBeat.load.n > 0
        BY <1>4, <2>1, <2>2 DEF NumbersOK
      <3> QED BY <1>3, <1>4, <2>1, <2>2, <3>1, NumbersAppend
    <2>4. obst' = "DAT" => ob_who = 1 /\ ltx_dat' = ObLoad(1)
      <3> HAVE obst' = "DAT"
      <3>1. SendsBeat /\ ltx_dat' = ObLoad(ob_who) /\ ob_left # 1
        BY <1>10 DEF SendsBeat, SendsLast
      <3>2. ob_who = 1
        BY <1>3, <2>1, <3>1, HeaderParts DEF OutOK, HeaderOK, KindOf, OutTypes
      <3> QED BY <3>1, <3>2
    <2>5. ltx_dat' = ObLoad(1) => ltx_dat'.kind = "FLIT" BY DEF ObLoad
    <2>6. KindOf(1) = "FLIT" BY DEF KindOf
    <2> QED BY <2>1, <2>3, <2>4, <2>5, <2>6
  <1>11. ASSUME SendsNothing PROVE Whole
    <2>1. /\ cross' = cross /\ obst' = obst /\ ltx_dat' = ltx_dat
          /\ ob_who' = ob_who /\ ltx_hdr' = ltx_hdr /\ ~LastTaken
      BY <1>11 DEF SendsNothing, LastTaken, BeatTaken
    <2>2. CrossNumbered' BY <1>4, <2>1 DEF CrossNumbered
    <2>3. door_req' <=> door_req BY <1>2, <2>1, Zenon
    <2>4. /\ obst' = "DAT" => ltx_dat'.kind = KindOf(ob_who')
          /\ obst' = "DAT" /\ ltx_dat'.kind = "WR" => ltx_dat'.n > 0
      BY <1>4, <2>1 DEF SendingOK, NumbersOK
    <2>5. /\ obst' # "IDLE" /\ ob_who' = 2 => door_req'
          /\ obst' = "HDR" /\ ob_who' = 2 => ltx_hdr'.load.n = door_txn'
      BY <1>2, <1>4, <2>1, <2>3 DEF SendingOK
    <2> QED BY <2>2, <2>4, <2>5
  <1>12. Whole BY <1>2, <1>3, <1>8, <1>9, <1>10, <1>11, OutboundCases
  <1>13. NumbersOK' BY <1>12 DEF NumbersOK, CrossNumbered
  <1>14. SendingOK' BY <1>12 DEF SendingOK
  <1> QED BY <1>5, <1>6, <1>13, <1>14 DEF RelayInv

(* The first beat of the crossing is of the kind that the receiver is in.  *)
LEMMA BeatRead ==
  ASSUME RelayInv, inst # "HDR", cross # <<>>
  PROVE  /\ ~Head(cross).hdr /\ Head(cross).load.kind = inst
         /\ inst = "FLIT" => Head(cross).load.src \in Sender
         /\ inst = "WR" => Head(cross).load.n \in Nat \ {0}
         /\ inst = "DOOR" => in_left = 1
  <1>1. /\ LineTypes /\ EncTypes /\ OutTypes /\ OutOK /\ InTypes
        /\ Framed(Line, inst, in_hdr, in_left)
    BY RelayParts
  <1>2. Line \in Seq(Item) /\ Line # <<>> /\ Line[1] = Head(cross) BY <1>1, LineParts
  <1>3. HeaderOK(in_hdr) /\ in_hdr.load.kind = inst /\ in_left \in 1 .. in_hdr.len + 1
    BY <1>1 DEF Framed
  <1>4. BeatOf(in_hdr, in_hdr.len + 2 - in_left, Line[1]) BY <1>1, <1>2, ReadBeat
  <1>5. ~Head(cross).hdr /\ Head(cross).load.kind = inst BY <1>2, <1>3, <1>4 DEF BeatOf
  <1>6. inst = "FLIT" => Head(cross).load.src \in Sender
    BY <1>2, <1>3, <1>4 DEF BeatOf, HeaderOK
  <1>7. cross \in Seq(Item) BY <1>1 DEF LineTypes
  <1>8. Head(cross) = cross[1] /\ 1 \in 1 .. Len(cross) /\ cross[1] \in Item BY <1>7, TailParts
  <1>9. inst = "WR" => Head(cross).load.n \in Nat \ {0}
    <2> HAVE inst = "WR"
    <2>1. Head(cross).load.n > 0 BY <1>5, <1>8 DEF RelayInv, NumbersOK
    <2>2. Head(cross).load.n \in Nat BY <1>8, LoadNumber
    <2> QED BY <2>1, <2>2
  <1>10. inst = "DOOR" => in_left = 1 BY <1>3 DEF HeaderOK
  <1> QED BY <1>5, <1>6, <1>9, <1>10

(* A clock edge of the receiving mesh, and the host and the NoC.           *)
LEMMA RelayKept ==
  ASSUME RelayInv, ILinkInv', UNCHANGED <<moverVars, obVars, door_txn>>,
         door_req => door_req', CrossNumbered', LimitsOK'
  PROVE  RelayInv'
  <1>1. MoverOK' BY DEF RelayInv, MoverOK, moverVars, obVars
  <1>2. NumbersOK' BY DEF RelayInv, NumbersOK, CrossNumbered, obVars
  <1>3. SendingOK' BY DEF RelayInv, SendingOK, obVars
  <1> QED BY <1>1, <1>2, <1>3 DEF RelayInv

(* Every clock edge of either end preserves the invariant.                  *)
LEMMA RelayStep == RelayInv /\ [Next]_vars => RelayInv'
  <1> SUFFICES ASSUME RelayInv, [Next]_vars PROVE RelayInv' OBVIOUS
  <1>1. ILinkInv' BY ILinkStep DEF RelayInv
  <1>2. LineTypes /\ SentTypes BY RelayParts
  <1>3. NumbersOK /\ LimitsOK /\ CrossNumbered BY DEF RelayInv, NumbersOK, CrossNumbered
  <1>4. CASE TxClock BY <1>1, <1>4, RelayTx
  <1>5. CASE RxClock
    <2>1. UNCHANGED <<moverVars, obVars, door_txn, door_req, flits>> BY <1>5 DEF RxClock
    <2>2. LimitsOK' BY <1>3, <2>1 DEF LimitsOK, moverVars, One
    <2>3. PICK x \in Far : Receive(x) BY <1>5 DEF RxClock
    <2>4. cross' = cross \/ (cross # <<>> /\ cross' = Tail(cross))
      BY <2>3 DEF Receive, HdrIn, ActWr, ActFl, ActDoor, BeatIn
    <2>5. CrossNumbered'
      <3>1. CASE cross' = cross BY <1>3, <3>1 DEF CrossNumbered
      <3>2. CASE cross # <<>> /\ cross' = Tail(cross) BY <1>2, <1>3, <3>2, NumbersTail
      <3> QED BY <2>4, <3>1, <3>2
    <2> QED BY <1>1, <2>1, <2>2, <2>5, RelayKept
  <1>6. CASE Ring
    <2>1. UNCHANGED <<moverVars, obVars, cross, flits>> /\ ~door_req /\ door_req'
      BY <1>6 DEF Ring
    <2>2. obst # "IDLE" => ob_who # 2 BY <2>1 DEF RelayInv, SendingOK
    <2>3. MoverOK' /\ NumbersOK' /\ LimitsOK'
      BY <2>1 DEF RelayInv, MoverOK, NumbersOK, LimitsOK, One, moverVars, obVars
    <2>4. SendingOK' BY <2>1, <2>2 DEF RelayInv, SendingOK, obVars
    <2> QED BY <1>1, <2>3, <2>4 DEF RelayInv
  <1>7. ASSUME NEW s \in Sender, Present(s) PROVE RelayInv'
    <2>1. /\ UNCHANGED <<moverVars, obVars, cross, door_txn, door_req>>
          /\ flits[s] < MaxBursts * BurstLen[s] /\ flits' = [flits EXCEPT ![s] = @ + 1]
      BY <1>7 DEF Present
    <2>2. CrossNumbered' BY <1>3, <2>1 DEF CrossNumbered
    <2>3. ASSUME NEW t \in Sender PROVE flits'[t] <= MaxBursts * BurstLen[t]
      <3>1. flits \in [Sender -> Nat] BY <1>2 DEF SentTypes
      <3>2. flits[t] <= MaxBursts * BurstLen[t] BY <1>3 DEF LimitsOK
      <3>3. CASE t = s
        <4> PICK a : a = MaxBursts * BurstLen[s] OBVIOUS
        <4>1. a \in Nat
          <5>1. \A i, j \in Nat : i * j \in Nat BY SMTT(40)
          <5> QED BY <5>1, ILinkAssumption
        <4>2. flits'[s] = flits[s] + 1 /\ flits[s] \in Nat BY <2>1, <3>1
        <4>3. flits[s] < a BY <2>1
        <4>4. flits'[s] <= a BY <4>1, <4>2, <4>3
        <4> QED BY <3>3, <4>4
      <3>4. CASE t # s
        <4>1. flits'[t] = flits[t] BY <2>1, <3>1, <3>4
        <4> QED BY <3>2, <4>1
      <3> QED BY <3>3, <3>4
    <2>4. LimitsOK' BY <1>3, <2>1, <2>3 DEF LimitsOK, One, moverVars
    <2> QED BY <1>1, <2>1, <2>2, <2>4, RelayKept
  <1>8. CASE UNCHANGED vars
    <2>1. UNCHANGED <<moverVars, obVars, cross, door_txn, door_req, flits>> BY <1>8 DEF vars
    <2>2. CrossNumbered' BY <1>3, <2>1 DEF CrossNumbered
    <2>3. LimitsOK' BY <1>3, <2>1 DEF LimitsOK, One, moverVars
    <2> QED BY <1>1, <2>1, <2>2, <2>3, RelayKept
  <1> QED BY <1>4, <1>5, <1>6, <1>7, <1>8 DEF Next

-----------------------------------------------------------------------------
(***************************************************************************)
(* The four places of each stream.                                         *)
(***************************************************************************)
Chan(st) == Four(Arriving(st), Carried(st, cross), Leaving(st), Asking(st))

(* The refinement mapping of a stream is its four places in a row.          *)
LEMMA ChanIs == \A st \in Stream : InFlight[st] = Chan(st)
  BY DEF InFlight, Chan, Four, Cat

(* Where a write of the mover can be.                                       *)
LEMMA WritesAre ==
  /\ Arriving("WR") = Cat(ws, Held(lk_w))
  /\ obst = "DAT" /\ ob_who = 0 => Leaving("WR") = <<ltx_dat.n>>
  /\ ~(obst = "DAT" /\ ob_who = 0) => Leaving("WR") = <<>>
  /\ ob_wr_req => Asking("WR") = <<d_r>>
  /\ ~ob_wr_req => Asking("WR") = <<>>
  BY DEF Arriving, Leaving, Asking, Cat

(* Where a doorbell can be.                                                 *)
LEMMA DoorsAre ==
  /\ inst = "DOOR" => Arriving("DOOR") = <<in_hdr.load.n>>
  /\ inst # "DOOR" => Arriving("DOOR") = <<>>
  /\ Leaving("DOOR") = <<>>
  /\ door_req /\ ~(obst = "DAT" /\ ob_who = 2) => Asking("DOOR") = <<door_txn>>
  /\ ~door_req \/ (obst = "DAT" /\ ob_who = 2) => Asking("DOOR") = <<>>
  BY DEF Arriving, Leaving, Asking

Unit == Sender \ {"WR", "DOOR"}

(* Where a flit of a unit can be.                                           *)
LEMMA FlitsAre ==
  ASSUME NEW s \in Unit
  PROVE  /\ Arriving(s) = FlitOf(s, inj)
         /\ obst = "DAT" /\ ob_who = 1 => Leaving(s) = FlitOf(s, ltx_dat)
         /\ ~(obst = "DAT" /\ ob_who = 1) => Leaving(s) = <<>>
         /\ Asking(s) = FlitsOf(s, ef)
  <1>1. s # "WR" /\ s # "DOOR" BY DEF Unit
  <1> QED BY <1>1 DEF Arriving, Leaving, Asking

(* What an item of the crossing is to a stream.                            *)
LEMMA MarkWrite ==
  ASSUME NEW x
  PROVE  /\ ~x.hdr /\ x.load.kind = "WR" => Mark("WR", x) = <<x.load.n>>
         /\ x.hdr \/ x.load.kind # "WR" => Mark("WR", x) = <<>>
  BY DEF Mark, Carries, Maybe

(* A header of kind DOOR is the doorbell itself.                            *)
LEMMA MarkDoor ==
  ASSUME NEW x
  PROVE  /\ x.hdr /\ x.load.kind = "DOOR" => Mark("DOOR", x) = <<x.load.n>>
         /\ ~x.hdr \/ x.load.kind # "DOOR" => Mark("DOOR", x) = <<>>
  BY DEF Mark, Carries, Maybe

(* A beat of kind FLIT is a flit of the unit it came from.                  *)
LEMMA MarkFlit ==
  ASSUME NEW s \in Unit, NEW x
  PROVE  /\ ~x.hdr /\ x.load.kind = "FLIT" => Mark(s, x) = FlitOf(s, x.load)
         /\ x.hdr \/ x.load.kind # "FLIT" => Mark(s, x) = <<>>
  <1>1. s # "WR" /\ s # "DOOR" BY DEF Unit
  <1> QED BY <1>1 DEF Mark, Carries, Maybe, FlitOf

(* What an item marks for a stream is a sequence of numbers.                *)
LEMMA MarkType == ASSUME NEW st, NEW x \in Item PROVE Mark(st, x) \in Seq(Nat)
  <1>1. x.load.n \in Nat BY LoadNumber
  <1> QED BY <1>1 DEF Mark, Maybe

(* A flit is one number for its own unit and nothing for another.           *)
LEMMA FlitOfType ==
  ASSUME NEW s, NEW f, f.n \in Nat
  PROVE  /\ FlitOf(s, f) \in Seq(Nat)
         /\ f.src = s => FlitOf(s, f) = <<f.n>>
         /\ f.src # s => FlitOf(s, f) = <<>>
  BY DEF FlitOf

(* One number, or none, is a sequence of numbers.                           *)
LEMMA OneNumber == ASSUME NEW n \in Nat PROVE <<n>> \in Seq(Nat) /\ <<>> \in Seq(Nat)
  OBVIOUS

Places(st) == Numbered(Arriving(st), Carried(st, cross), Leaving(st), Asking(st))

(* Every place holds a sequence of numbers.                                 *)
LEMMA PlaceTypes == TypeOK => \A st \in Stream : Places(st)
  <1> SUFFICES ASSUME TypeOK, NEW st \in Stream PROVE Places(st) OBVIOUS
  <1> USE DEF Places, Numbered
  <1>1. /\ MoverTypes /\ EncTypes /\ OutTypes /\ LineTypes /\ HostTypes /\ InTypes /\ FarTypes
    BY TypeParts
  <1>2. Carried(st, cross) \in Seq(Nat) BY <1>1, CarriedType DEF LineTypes
  <1>3. ltx_dat.n \in Nat BY <1>1 DEF OutTypes, Load
  <1>4. CASE st = "WR"
    <2>1. Held(lk_w) \in Seq(Nat) /\ ws \in Seq(Nat) BY <1>1 DEF Held, FarTypes
    <2>2. Arriving("WR") \in Seq(Nat) BY <2>1, WritesAre, CatType
    <2>3. Leaving("WR") \in Seq(Nat) BY <1>3, OneNumber, WritesAre, Zenon
    <2>4. d_r \in Nat BY <1>1 DEF MoverTypes
    <2>5. Asking("WR") \in Seq(Nat) BY <2>4, OneNumber, WritesAre, Zenon
    <2> QED BY <1>2, <1>4, <2>2, <2>3, <2>5
  <1>5. CASE st = "DOOR"
    <2>1. in_hdr.load.n \in Nat BY <1>1, LoadNumber DEF InTypes, Item
    <2>2. Arriving("DOOR") \in Seq(Nat) BY <2>1, OneNumber, DoorsAre, Zenon
    <2>3. Leaving("DOOR") \in Seq(Nat) BY <2>1, OneNumber, DoorsAre, Zenon
    <2>4. door_txn \in Nat BY <1>1 DEF HostTypes
    <2>5. Asking("DOOR") \in Seq(Nat) BY <2>4, OneNumber, DoorsAre, Zenon
    <2> QED BY <1>2, <1>5, <2>2, <2>3, <2>5
  <1>6. CASE st \in Unit
    <2>1. inj.n \in Nat BY <1>1 DEF FarTypes, Flit, NoFlit
    <2>2. Arriving(st) \in Seq(Nat) BY <1>6, <2>1, FlitsAre, FlitOfType
    <2>3. Leaving(st) \in Seq(Nat)
      <3>1. FlitOf(st, ltx_dat) \in Seq(Nat) BY <1>3, FlitOfType
      <3> QED BY <1>3, <1>6, <3>1, OneNumber, FlitsAre, Zenon
    <2>4. FlitsOf(st, ef) \in Seq(Nat) BY <1>1, FlitsType DEF EncTypes
    <2>5. Asking(st) = FlitsOf(st, ef) BY <1>6, FlitsAre
    <2> QED BY <1>2, <2>2, <2>3, <2>4, <2>5
  <1> QED BY <1>4, <1>5, <1>6 DEF Stream, Unit

(* The same of the state a step leads to.                                   *)
LEMMA PlacesNow == TypeOK' => (\A st \in Stream : Places(st))'
  BY PlaceTypes, PTL

(***************************************************************************)
(* A clock edge of the sender, at one stream: v enters the crossing, f     *)
(* goes on asking, and w is new.                                           *)
(***************************************************************************)
TxOut(st, v, f) ==
  /\ v \in Seq(Nat) /\ f \in Seq(Nat)
  /\ Carried(st, cross)' = Cat(Carried(st, cross), v)
  /\ Cat(Leaving(st), Asking(st)) = Cat(v, Cat(Leaving(st)', f))

(* It may be that nothing moves; or what was to leave enters the crossing  *)
(* and what asked is to leave; or what asked enters it.                    *)
LEMMA TxShapes ==
  ASSUME TypeOK, TypeOK', NEW st \in Stream, NEW v \in Seq(Nat), NEW f \in Seq(Nat),
         Carried(st, cross)' = Cat(Carried(st, cross), v),
         \/ v = <<>> /\ Leaving(st)' = Leaving(st) /\ Asking(st) = f
         \/ v = Leaving(st) /\ Asking(st) = Cat(Leaving(st)', f)
         \/ Leaving(st) = <<>> /\ Leaving(st)' = <<>> /\ Asking(st) = Cat(v, f)
  PROVE  TxOut(st, v, f)
  <1>1. Leaving(st) \in Seq(Nat) /\ Asking(st) \in Seq(Nat)
    BY PlaceTypes DEF Places, Numbered
  <1> PICK a : a = Asking(st) OBVIOUS
  <1> PICK b : b = Leaving(st) OBVIOUS
  <1> PICK c : c = Leaving(st)' OBVIOUS
  <1>2. c \in Seq(Nat)
    <2>1. Places(st)' BY PlacesNow
    <2> QED BY <2>1 DEF Places, Numbered
  <1>3. Cat(b, a) = Cat(v, Cat(c, f))
    <2>1. CASE v = <<>> /\ c = b /\ a = f
      <3>1. Cat(b, a) \in Seq(Nat) BY <1>1, CatType
      <3>2. Cat(<<>>, Cat(b, a)) = Cat(b, a) BY <3>1, CatType
      <3> QED BY <2>1, <3>2, Zenon
    <2>2. CASE v = b /\ a = Cat(c, f) BY <2>2, Zenon
    <2>3. CASE b = <<>> /\ c = <<>> /\ a = Cat(v, f)
      <3>1. Cat(<<>>, f) = f /\ Cat(<<>>, a) = a BY <1>1, CatType
      <3> QED BY <2>3, <3>1, Zenon
    <2> QED BY <2>1, <2>2, <2>3
  <1> QED BY <1>3, Zenon DEF TxOut

(* New packets go to the end of the channel.                               *)
LEMMA TxChan ==
  ASSUME TypeOK, TypeOK', NEW st \in Stream, NEW v, NEW f, NEW w \in Seq(Nat), TxOut(st, v, f),
         Asking(st)' = Cat(f, w), Arriving(st)' = Arriving(st)
  PROVE  Chan(st)' = Cat(Chan(st), w)
  <1> PICK e : e = Leaving(st)' OBVIOUS
  <1>3. v \in Seq(Nat) /\ f \in Seq(Nat) /\ Cat(Leaving(st), Asking(st)) = Cat(v, Cat(e, f))
    BY Zenon DEF TxOut
  <1> PICK a : a = Arriving(st) OBVIOUS
  <1> PICK b : b = Carried(st, cross) OBVIOUS
  <1> PICK c : c = Leaving(st) OBVIOUS
  <1> PICK d : d = Asking(st) OBVIOUS
  <1>1. Numbered(a, b, c, d) BY PlaceTypes, Zenon DEF Places
  <1>2. Numbered(v, e, f, w)
    <2>1. Places(st)' BY PlacesNow
    <2>2. e \in Seq(Nat) BY <2>1 DEF Places, Numbered
    <2> QED BY <1>3, <2>2, Zenon DEF Numbered
  <1>4. Four(a, Cat(b, v), e, Cat(f, w)) = Cat(Four(a, b, c, d), w)
    <2>1. Cat(c, d) = Cat(v, Cat(e, f)) BY <1>3, Zenon
    <2> HIDE <1>3
    <2> QED BY <1>1, <1>2, <2>1, FourOut
  <1>5. Chan(st) = Four(a, b, c, d) BY Zenon DEF Chan
  <1>6. Chan(st)' = Four(a, Cat(b, v), e, Cat(f, w)) BY Zenon DEF Chan, TxOut
  <1> QED BY <1>4, <1>5, <1>6, Zenon

(* The receiver, at one stream: u is read of the crossing.                 *)
LEMMA RxChan ==
  ASSUME TypeOK, TypeOK', NEW st \in Stream, NEW u \in Seq(Nat), NEW out \in BOOLEAN,
         out => Arriving(st) # <<>>,
         Carried(st, cross) = Cat(u, Carried(st, cross)'),
         Arriving(st)' = Cat(IF out THEN Tail(Arriving(st)) ELSE Arriving(st), u),
         Leaving(st)' = Leaving(st), Asking(st)' = Asking(st)
  PROVE  /\ out => Chan(st) # <<>> /\ Chan(st)' = Tail(Chan(st))
         /\ ~out => Chan(st)' = Chan(st)
  <1> PICK a : a = Arriving(st) OBVIOUS
  <1> PICK b : b = Carried(st, cross)' OBVIOUS
  <1> PICK c : c = Leaving(st) OBVIOUS
  <1> PICK d : d = Asking(st) OBVIOUS
  <1> PICK z : z = IF out THEN Tail(a) ELSE a OBVIOUS
  <1>1. a \in Seq(Nat) /\ c \in Seq(Nat) /\ d \in Seq(Nat)
    BY PlaceTypes DEF Places, Numbered
  <1>2. b \in Seq(Nat)
    <2>1. Places(st)' BY PlacesNow
    <2> QED BY <2>1 DEF Places, Numbered
  <1>3. z \in Seq(Nat) BY <1>1, TailParts
  <1> PICK y : y = Cat(u, b) OBVIOUS
  <1>4. y \in Seq(Nat) BY <1>2, CatType
  <1>5. Chan(st)' = Four(Cat(z, u), b, c, d) BY Zenon DEF Chan
  <1>6. Four(Cat(z, u), b, c, d) = Four(z, y, c, d)
    <2>1. Numbered(z, b, c, d) BY <1>1, <1>2, <1>3, Zenon DEF Numbered
    <2> QED BY <2>1, FourIn
  <1>7. Chan(st) = Four(a, y, c, d) BY Zenon DEF Chan
  <1>8. ASSUME out PROVE Chan(st) # <<>> /\ Chan(st)' = Tail(Chan(st))
    <2>1. Four(a, y, c, d) # <<>> /\ Tail(Four(a, y, c, d)) = Four(Tail(a), y, c, d)
      <3>1. Numbered(a, y, c, d) /\ a # <<>> BY <1>1, <1>4, <1>8, Zenon DEF Numbered
      <3> QED BY <3>1, FourLeave
    <2> QED BY <1>5, <1>6, <1>7, <1>8, <2>1, Zenon
  <1>9. ASSUME ~out PROVE Chan(st)' = Chan(st) BY <1>5, <1>6, <1>7, <1>9, Zenon
  <1> QED BY <1>8, <1>9

-----------------------------------------------------------------------------
(***************************************************************************)
(* A clock edge of the sending mesh, at the three sorts of stream.         *)
(***************************************************************************)
LEMMA TxParts ==
  ASSUME RelayInv, RelayInv', TxClock
  PROVE  /\ TypeOK /\ TypeOK' /\ (TakesOne \/ GivesOne \/ Waits)
         /\ (Starts \/ SendsHeader \/ SendsBeat \/ SendsLast \/ SendsNothing)
         /\ door_req' = (door_req /\ ~(LastTaken /\ ob_who = 2)) /\ door_txn' = door_txn
         /\ UNCHANGED rxVars
         /\ \A st \in Stream : Arriving(st)' = Arriving(st)
  <1>1. /\ Encapsulate /\ Outbound
        /\ door_req' = (door_req /\ ~(LastTaken /\ ob_who = 2)) /\ door_txn' = door_txn
        /\ UNCHANGED rxVars
    BY DEF TxClock
  <1>2. EncTypes /\ OutTypes /\ EncOK /\ OutOK BY RelayParts
  <1>3. TypeOK /\ TypeOK' BY DEF RelayInv, ILinkInv
  <1>4. TakesOne \/ GivesOne \/ Waits BY <1>1, <1>2, EncapsulateCases
  <1>5. Starts \/ SendsHeader \/ SendsBeat \/ SendsLast \/ SendsNothing
    BY <1>1, <1>2, OutboundCases
  <1>6. ws' = ws /\ lk_w' = lk_w /\ inst' = inst /\ in_hdr' = in_hdr /\ inj' = inj
    BY <1>1 DEF rxVars
  <1>7. \A st \in Stream : Arriving(st)' = Arriving(st) BY <1>6 DEF Arriving
  <1> QED BY <1>1, <1>3, <1>4, <1>5, <1>7

(* What enters the crossing of a stream.                                   *)
LEMMA TxLine ==
  ASSUME RelayInv, NEW st \in Stream
  PROVE  /\ Starts \/ SendsNothing => Carried(st, cross)' = Cat(Carried(st, cross), <<>>)
         /\ SendsHeader => Carried(st, cross)' = Cat(Carried(st, cross), Mark(st, ltx_hdr))
         /\ SendsBeat \/ SendsLast =>
              Carried(st, cross)' = Cat(Carried(st, cross), Mark(st, ObBeat))
         /\ ltx_hdr.hdr /\ Mark(st, ltx_hdr) \in Seq(Nat)
         /\ ~ObBeat.hdr /\ ObBeat.load = ltx_dat /\ Mark(st, ObBeat) \in Seq(Nat)
  <1>1. LineTypes /\ OutTypes BY RelayParts
  <1>2. cross \in Seq(Item) BY <1>1 DEF LineTypes
  <1>3. ltx_hdr \in Item /\ ltx_hdr.hdr /\ ltx_dat \in Load BY <1>1 DEF OutTypes, Item, Header
  <1>4. ~ObBeat.hdr /\ ObBeat.load = ltx_dat /\ ObBeat \in Item
    <2>1. (ob_left = 1) \in BOOLEAN OBVIOUS
    <2>2. ~ObBeat.hdr /\ ObBeat.load = ltx_dat BY BeatParts, <2>1 DEF ObBeat
    <2>3. ObBeat \in Beat BY <1>3, <2>1, Zenon DEF ObBeat, Beat
    <2> QED BY <2>2, <2>3 DEF Item
  <1>5. Carried(st, Append(cross, ltx_hdr)) = Cat(Carried(st, cross), Mark(st, ltx_hdr))
    BY <1>2, <1>3, CarriedAppend
  <1>6. Carried(st, Append(cross, ObBeat)) = Cat(Carried(st, cross), Mark(st, ObBeat))
    BY <1>2, <1>4, CarriedAppend
  <1>7. Cat(Carried(st, cross), <<>>) = Carried(st, cross)
    <2>1. Carried(st, cross) \in Seq(Nat) BY <1>2, CarriedType
    <2> QED BY <2>1, CatType
  <1>8. Starts \/ SendsNothing => cross' = cross BY DEF Starts, SendsNothing
  <1>9. SendsHeader => cross' = Append(cross, ltx_hdr) BY DEF SendsHeader
  <1>10. SendsBeat \/ SendsLast => cross' = Append(cross, ObBeat) BY DEF SendsBeat, SendsLast
  <1>11. Mark(st, ltx_hdr) \in Seq(Nat) /\ Mark(st, ObBeat) \in Seq(Nat)
    BY <1>3, <1>4, MarkType
  <1>12. Starts \/ SendsNothing => Carried(st, cross)' = Cat(Carried(st, cross), <<>>)
    BY <1>7, <1>8, Zenon
  <1>13. SendsHeader => Carried(st, cross)' = Cat(Carried(st, cross), Mark(st, ltx_hdr))
    BY <1>5, <1>9, Zenon
  <1>14. SendsBeat \/ SendsLast =>
           Carried(st, cross)' = Cat(Carried(st, cross), Mark(st, ObBeat))
    BY <1>6, <1>10, Zenon
  <1> QED BY <1>3, <1>4, <1>11, <1>12, <1>13, <1>14

(* Only bursts have packets of several beats.                              *)
LEMMA LongIsBurst ==
  ASSUME RelayInv, SendsBeat
  PROVE  ob_who = 1 /\ ob_who' = 1 /\ ltx_dat.kind = "FLIT"
  <1>1. OutTypes /\ OutOK BY RelayParts
  <1>2. obst = "DAT" /\ ob_left # 1 /\ ob_who' = ob_who BY DEF SendsBeat
  <1>3. ob_who = 1 BY <1>1, <1>2, HeaderParts DEF OutOK, HeaderOK, KindOf, OutTypes
  <1> QED BY <1>2, <1>3 DEF RelayInv, SendingOK, KindOf

(* What the sender may do to a stream.                                     *)
TxStep(st) ==
  \E w : /\ w = <<>> \/ \E n \in Number : w = <<n>>
         /\ Chan(st)' = Cat(Chan(st), w)

(* A clock edge of the sender, for the writes: the mover may offer one.     *)
LEMMA TxWrites ==
  ASSUME RelayInv, RelayInv', TxClock
  PROVE  TxStep("WR")
  <1> DEFINE st == "WR"
  <1>1. PICK m \in {"NONE", "LOCAL", "REMOTE"}, l \in LocalMem : MoverSplit(m, l)
    BY DEF TxClock
  <1> DEFINE ack == HdrTaken /\ ob_who = 0
             new == aw_got /\ ~w_got /\ rem_r
             w == IF new THEN <<wrote + 1>> ELSE <<>>
             f == IF ack THEN <<>> ELSE Asking(st)
  <1>2. /\ ob_wr_req' <=> (ob_wr_req /\ ~ack) \/ new
        /\ d_r' = IF new THEN wrote + 1 ELSE d_r
    BY <1>1 DEF MoverSplit
  <1>3. /\ ob_wr_req => w_got
        /\ ack => ob_wr_req
    BY DEF RelayInv, MoverOK, HdrTaken
  <1>4. new => wrote + 1 \in 0 .. MaxWrites
    <2> HAVE new
    <2>1. wrote + 1 <= MaxWrites /\ wrote \in Nat /\ MaxWrites \in Nat
      <3>1. One(aw_got /\ ~w_got) = 1 BY DEF One
      <3>2. wrote + 1 <= mv /\ mv <= MaxWrites BY <3>1 DEF RelayInv, LimitsOK
      <3>3. MoverTypes BY RelayParts
      <3>4. wrote \in Nat /\ mv \in Nat BY <3>3 DEF MoverTypes
      <3> QED BY <3>2, <3>4, ILinkAssumption
    <2> QED BY <2>1
  <1>5. w = <<>> \/ \E n \in Number : w = <<n>> BY <1>4 DEF Number
  <1>6. w \in Seq(Nat) BY <1>4, OneNumber
  <1>7. st \in Stream BY DEF Stream
  <1>8. TypeOK /\ TypeOK' /\ Arriving(st)' = Arriving(st)
    <2> HIDE DEF st
    <2> QED BY <1>7, TxParts, Zenon
  <1>9. Asking(st) \in Seq(Nat) /\ Leaving(st) \in Seq(Nat)
    BY <1>7, <1>8, PlaceTypes DEF Places, Numbered
  <1>10. f \in Seq(Nat) BY <1>9, OneNumber
  <1>11. Asking(st)' = IF ob_wr_req' THEN <<d_r'>> ELSE <<>> BY DEF Asking
  <1>12. Asking(st) = IF ob_wr_req THEN <<d_r>> ELSE <<>> BY DEF Asking
  <1>13. Asking(st)' = Cat(f, w)
    <2>1. CASE new
      <3>1. ~ob_wr_req /\ ~ack BY <1>3, <2>1, Zenon
      <3>2. f = <<>> BY <1>12, <3>1
      <3>3. Asking(st)' = w BY <1>2, <1>11, <2>1
      <3>4. Cat(<<>>, w) = w BY <1>6, CatType
      <3> QED BY <3>2, <3>3, <3>4, Zenon
    <2>2. CASE ~new
      <3>1. w = <<>> BY <2>2
      <3>2. Asking(st)' = f BY <1>2, <1>11, <1>12, <2>2
      <3>3. Cat(f, <<>>) = f BY <1>10, CatType
      <3> QED BY <3>1, <3>2, <3>3, Zenon
    <2> QED BY <2>1, <2>2
  <1>14. /\ obst = "DAT" /\ ob_who = 0 => Leaving(st) = <<ltx_dat.n>>
         /\ ~(obst = "DAT" /\ ob_who = 0) => Leaving(st) = <<>>
         /\ obst' = "DAT" /\ ob_who' = 0 => Leaving(st)' = <<ltx_dat'.n>>
         /\ ~(obst' = "DAT" /\ ob_who' = 0) => Leaving(st)' = <<>>
    BY DEF Leaving
  <1>15. PICK v \in Seq(Nat) :
           /\ Carried(st, cross)' = Cat(Carried(st, cross), v)
           /\ \/ v = <<>> /\ Leaving(st)' = Leaving(st) /\ Asking(st) = f
              \/ v = Leaving(st) /\ Asking(st) = Cat(Leaving(st)', f)
    <2> HIDE DEF f, st
    <2> USE DEF f
    <2>0. /\ Starts \/ SendsNothing => Carried(st, cross)' = Cat(Carried(st, cross), <<>>)
          /\ SendsHeader => Carried(st, cross)' = Cat(Carried(st, cross), Mark(st, ltx_hdr))
          /\ SendsBeat \/ SendsLast =>
              Carried(st, cross)' = Cat(Carried(st, cross), Mark(st, ObBeat))
          /\ ltx_hdr.hdr /\ Mark(st, ltx_hdr) \in Seq(Nat)
          /\ ~ObBeat.hdr /\ ObBeat.load = ltx_dat /\ Mark(st, ObBeat) \in Seq(Nat)
      BY <1>7, TxLine
    <2>10. <<>> \in Seq(Nat) BY OneNumber
    <2>1. CASE Starts \/ SendsNothing
      <3>1. ~ack BY <2>1 DEF Starts, SendsNothing, HdrTaken
      <3>2. Leaving(st)' = Leaving(st)
        BY <1>14, <2>1 DEF Starts, SendsNothing
      <3> QED BY <2>0, <2>1, <2>10, <3>1, <3>2
    <2>2. CASE SendsHeader
      <3>1. /\ obst = "HDR" /\ obst' = "DAT" /\ ob_who' = ob_who /\ ltx_dat' = ObLoad(ob_who)
            /\ HdrTaken
        BY <2>2 DEF SendsHeader, HdrTaken
      <3>2. Mark(st, ltx_hdr) = <<>> BY <2>0, MarkWrite DEF st
      <3>3. Leaving(st) = <<>> BY <1>14, <3>1
      <3>4. CASE ob_who = 0
        <4>1. ack /\ f = <<>> BY <3>1, <3>4
        <4>2. Leaving(st)' = <<d_r>> BY <1>14, <3>1, <3>4 DEF ObLoad
        <4>3. Asking(st) = <<d_r>> BY <1>3, <1>12, <4>1
        <4>4. Cat(<<d_r>>, <<>>) = <<d_r>> BY <1>9, <4>3, CatType
        <4>5. Asking(st) = Cat(Leaving(st)', f) BY <4>1, <4>2, <4>3, <4>4, Zenon
        <4> QED BY <2>0, <2>2, <2>10, <3>2, <3>3, <4>5
      <3>5. CASE ob_who # 0
        <4>1. f = Asking(st) /\ Leaving(st)' = <<>> BY <1>14, <3>1, <3>5
        <4> QED BY <2>0, <2>2, <2>10, <3>2, <3>3, <4>1
      <3> QED BY <3>4, <3>5
    <2>3. CASE SendsBeat
      <3>1. ob_who = 1 /\ ob_who' = 1 /\ ltx_dat.kind = "FLIT" BY <2>3, LongIsBurst
      <3>2. Mark(st, ObBeat) = <<>>
        <4>1. ObBeat.load.kind # "WR" BY <2>0, <3>1
        <4> QED BY <4>1, MarkWrite DEF st
      <3>3. f = Asking(st) /\ Leaving(st) = <<>> /\ Leaving(st)' = <<>> BY <1>14, <3>1
      <3> QED BY <2>0, <2>3, <2>10, <3>2, <3>3
    <2>4. CASE SendsLast
      <3>1. obst = "DAT" /\ obst' = "IDLE" BY <2>4 DEF SendsLast
      <3>2. f = Asking(st) /\ Leaving(st)' = <<>> BY <1>14, <3>1 DEF HdrTaken
      <3>3. Mark(st, ObBeat) = Leaving(st)
        <4>1. ltx_dat.kind = KindOf(ob_who) BY <3>1 DEF RelayInv, SendingOK
        <4>2. CASE ob_who = 0
          <5>1. ltx_dat.kind = "WR" BY <4>1, <4>2 DEF KindOf
          <5>2. Mark(st, ObBeat) = <<ltx_dat.n>> BY <2>0, <5>1, MarkWrite DEF st
          <5> QED BY <1>14, <3>1, <4>2, <5>2
        <4>3. CASE ob_who # 0
          <5>0. OutTypes BY RelayParts
          <5>1. ltx_dat.kind # "WR" BY <4>1, <4>3, <5>0 DEF KindOf, OutTypes
          <5>2. Mark(st, ObBeat) = <<>> BY <2>0, <5>1, MarkWrite DEF st
          <5> QED BY <1>14, <4>3, <5>2
        <4> QED BY <4>2, <4>3
      <3>4. Cat(<<>>, Asking(st)) = Asking(st) BY <1>9, CatType
      <3>5. Asking(st) = Cat(Leaving(st)', f) BY <3>2, <3>4, Zenon
      <3> QED BY <2>0, <2>4, <3>3, <3>5
    <2> QED BY <2>1, <2>2, <2>3, <2>4, TxParts
  <1>16. TxOut(st, v, f)
    <2> HIDE DEF f, st
    <2> QED BY <1>7, <1>8, <1>10, <1>15, TxShapes
  <1> HIDE DEF f, w, st
  <1>17. Chan(st)' = Cat(Chan(st), w) BY <1>6, <1>7, <1>8, <1>13, <1>16, TxChan
  <1> QED BY <1>5, <1>17, Zenon DEF TxStep, st

(* A doorbell leaves with its header, and asks until then.                 *)
LEMMA TxDoors ==
  ASSUME RelayInv, RelayInv', TxClock
  PROVE  TxStep("DOOR")
  <1> DEFINE st == "DOOR"
             f == Asking(st)'
  <1>1. st \in Stream BY DEF Stream
  <1>2. /\ TypeOK /\ TypeOK' /\ Arriving(st)' = Arriving(st)
        /\ door_req' = (door_req /\ ~(LastTaken /\ ob_who = 2)) /\ door_txn' = door_txn
        /\ Starts \/ SendsHeader \/ SendsBeat \/ SendsLast \/ SendsNothing
    <2> HIDE DEF st
    <2> QED BY <1>1, TxParts, Zenon
  <1>3. Asking(st) \in Seq(Nat) /\ f \in Seq(Nat)
    <2> HIDE DEF st
    <2>1. Places(st)' BY <1>1, <1>2, PlacesNow
    <2>2. Places(st) BY <1>1, <1>2, PlaceTypes
    <2> QED BY <2>1, <2>2 DEF Places, Numbered
  <1>4. Leaving(st) = <<>> /\ Leaving(st)' = <<>> BY DEF Leaving
  <1>5. /\ door_req /\ ~(obst = "DAT" /\ ob_who = 2) => Asking(st) = <<door_txn>>
        /\ ~door_req \/ (obst = "DAT" /\ ob_who = 2) => Asking(st) = <<>>
        /\ door_req' /\ ~(obst' = "DAT" /\ ob_who' = 2) => f = <<door_txn'>>
        /\ ~door_req' \/ (obst' = "DAT" /\ ob_who' = 2) => f = <<>>
    BY DEF Asking
  <1>6. /\ Starts \/ SendsNothing => Carried(st, cross)' = Cat(Carried(st, cross), <<>>)
        /\ SendsHeader => Carried(st, cross)' = Cat(Carried(st, cross), Mark(st, ltx_hdr))
        /\ SendsBeat \/ SendsLast =>
             Carried(st, cross)' = Cat(Carried(st, cross), Mark(st, ObBeat))
        /\ ltx_hdr.hdr /\ Mark(st, ltx_hdr) \in Seq(Nat)
        /\ ~ObBeat.hdr
    <2> HIDE DEF st
    <2> QED BY <1>1, TxLine
  <1>7. Mark(st, ObBeat) = <<>> BY <1>6, MarkDoor
  <1>8. <<>> \in Seq(Nat) BY OneNumber
  <1>9. PICK v \in Seq(Nat) :
           /\ Carried(st, cross)' = Cat(Carried(st, cross), v)
           /\ \/ v = <<>> /\ Asking(st) = f
              \/ Asking(st) = Cat(v, f)
    <2> HIDE DEF f, st
    <2>1. CASE Starts \/ SendsNothing
      <3>1. door_req' <=> door_req
        <4>1. ~LastTaken BY <2>1 DEF Starts, SendsNothing, LastTaken, BeatTaken
        <4> QED BY <1>2, <4>1, Zenon
      <3>2. \/ obst' = obst /\ ob_who' = ob_who
            \/ obst = "IDLE" /\ obst' = "HDR"
        BY <2>1 DEF Starts, SendsNothing
      <3>3. (obst' = "DAT" /\ ob_who' = 2) <=> (obst = "DAT" /\ ob_who = 2) BY <3>2
      <3>4. Asking(st) = f BY <1>2, <1>5, <3>1, <3>3, Zenon
      <3> QED BY <1>6, <1>8, <2>1, <3>4
    <2>2. CASE SendsHeader
      <3>1. obst = "HDR" /\ obst' = "DAT" /\ ob_who' = ob_who /\ ~LastTaken
        BY <2>2 DEF SendsHeader, LastTaken, BeatTaken
      <3>2. door_req' <=> door_req BY <1>2, <3>1, Zenon
      <3>3. OutTypes /\ OutOK BY RelayParts
      <3>4. ltx_hdr.load.kind = KindOf(ob_who) BY <3>1, <3>3 DEF OutOK
      <3>5. CASE ob_who = 2
        <4>1. door_req /\ ltx_hdr.load.n = door_txn BY <3>1, <3>5 DEF RelayInv, SendingOK
        <4>2. Mark(st, ltx_hdr) = <<door_txn>>
          <5>1. ltx_hdr.load.kind = "DOOR" BY <3>4, <3>5 DEF KindOf
          <5> QED BY <1>6, <4>1, <5>1, MarkDoor DEF st
        <4>3. Asking(st) = <<door_txn>> /\ f = <<>> BY <1>5, <3>1, <3>5, <4>1
        <4>4. Cat(<<door_txn>>, <<>>) = <<door_txn>> BY <1>3, <4>3, CatType
        <4>5. Asking(st) = Cat(Mark(st, ltx_hdr), f) BY <4>2, <4>3, <4>4, Zenon
        <4> QED BY <1>6, <2>2, <4>5
      <3>6. CASE ob_who # 2
        <4>1. ltx_hdr.load.kind # "DOOR" BY <3>3, <3>4, <3>6 DEF KindOf, OutTypes
        <4>2. Mark(st, ltx_hdr) = <<>> BY <4>1, MarkDoor DEF st
        <4>3. Asking(st) = f BY <1>2, <1>5, <3>1, <3>2, <3>6, Zenon
        <4> QED BY <1>6, <2>2, <4>2, <4>3
      <3> QED BY <3>5, <3>6
    <2>3. CASE SendsBeat
      <3>1. ob_who = 1 /\ ob_who' = 1 BY <2>3, LongIsBurst
      <3>2. 1 # 2 OBVIOUS
      <3>3. door_req' <=> door_req
        <4>1. ob_who # 2 BY <3>1
        <4> QED BY <1>2, <4>1, Zenon
      <3>4. Asking(st) = f BY <1>2, <1>5, <3>1, <3>2, <3>3, Zenon
      <3> QED BY <1>6, <1>7, <1>8, <2>3, <3>4
    <2>4. CASE SendsLast
      <3>1. obst = "DAT" /\ obst' = "IDLE" /\ LastTaken
        BY <2>4 DEF SendsLast, LastTaken, BeatTaken
      <3>2. Asking(st) = f
        <4>1. CASE ob_who = 2
          <5>1. ~door_req' BY <1>2, <3>1, <4>1, Zenon
          <5> QED BY <1>5, <3>1, <4>1, <5>1, Zenon
        <4>2. CASE ob_who # 2
          <5>1. door_req' <=> door_req BY <1>2, <4>2, Zenon
          <5>2. obst' # "DAT" BY <3>1
          <5> QED BY <1>2, <1>5, <4>2, <5>1, <5>2, Zenon
        <4> QED BY <4>1, <4>2
      <3> QED BY <1>6, <1>7, <1>8, <2>4, <3>2
    <2> QED BY <1>2, <2>1, <2>2, <2>3, <2>4
  <1> HIDE DEF st, f
  <1>10. TxOut(st, v, f)
    <2>1. \/ v = <<>> /\ Leaving(st)' = Leaving(st) /\ Asking(st) = f
          \/ Leaving(st) = <<>> /\ Leaving(st)' = <<>> /\ Asking(st) = Cat(v, f)
      BY <1>4, <1>9, Zenon
    <2> QED BY <1>1, <1>2, <1>3, <1>9, <2>1, TxShapes
  <1>11. Asking(st)' = Cat(f, <<>>) BY <1>3, CatType DEF f
  <1>12. Chan(st)' = Cat(Chan(st), <<>>) BY <1>1, <1>2, <1>8, <1>10, <1>11, TxChan
  <1> QED BY <1>12, Zenon DEF TxStep, st

(* The flits of a sender are taken in, and leave by the head of the FIFO.  *)
LEMMA TxFlits ==
  ASSUME RelayInv, RelayInv', TxClock, NEW s \in Unit
  PROVE  TxStep(s)
  <1> DEFINE x == port[EncSel]
             w == IF TakesOne THEN FlitOf(s, x) ELSE <<>>
             f == IF EfPop THEN FlitsOf(s, Tail(ef)) ELSE FlitsOf(s, ef)
  <1>1. s \in Stream /\ s \in Sender BY DEF Stream, Unit
  <1>2. /\ TypeOK /\ TypeOK' /\ Arriving(s)' = Arriving(s)
        /\ TakesOne \/ GivesOne \/ Waits
        /\ Starts \/ SendsHeader \/ SendsBeat \/ SendsLast \/ SendsNothing
    BY <1>1, TxParts, Zenon
  <1>3. ef \in Seq(Flit)
    <2>1. EncTypes BY RelayParts
    <2> QED BY <2>1 DEF EncTypes
  <1>4. EfPop => ef # <<>> /\ Tail(ef) \in Seq(Flit) /\ ef[1] \in Flit /\ Head(ef) = ef[1]
    <2> HAVE EfPop
    <2>1. ef # <<>> BY <1>2 DEF TakesOne, GivesOne, Waits
    <2> QED BY <1>3, <2>1, TailParts
  <1>5. /\ Asking(s) = FlitsOf(s, ef) /\ Asking(s)' = FlitsOf(s, ef')
        /\ obst = "DAT" /\ ob_who = 1 => Leaving(s) = FlitOf(s, ltx_dat)
        /\ ~(obst = "DAT" /\ ob_who = 1) => Leaving(s) = <<>>
        /\ obst' = "DAT" /\ ob_who' = 1 => Leaving(s)' = FlitOf(s, ltx_dat')
        /\ ~(obst' = "DAT" /\ ob_who' = 1) => Leaving(s)' = <<>>
    <2>1. s # "WR" /\ s # "DOOR" BY DEF Unit
    <2> QED BY <2>1 DEF Leaving, Asking
  <1>6. f \in Seq(Nat) BY <1>3, <1>4, FlitsType
  <1>7. TakesOne => x \in Flit /\ x # NoFlit /\ x.n \in Nat /\ EncSel \in Ports
    BY FlitParts DEF TakesOne
  <1>8. w \in Seq(Nat) /\ (w = <<>> \/ \E n \in Number : w = <<n>>)
    <2>1. CASE TakesOne /\ x.src = s
      <3>1. FlitOf(s, x) \in Seq(Nat) /\ FlitOf(s, x) = <<x.n>> BY <1>7, <2>1, FlitOfType
      <3>2. x.n \in Number
        <4>1. PortsOK BY RelayParts
        <4>2. x.n = flits[s] /\ x.n > 0 BY <1>7, <2>1, <4>1 DEF PortsOK
        <4>3. flits[s] <= MaxBursts * BurstLen[s] BY <1>1 DEF RelayInv, LimitsOK
        <4> PICK k : k = MaxBursts * BurstLen[s] OBVIOUS
        <4>4. k \in Nat
          <5>1. \A i, j \in Nat : i * j \in Nat BY SMTT(40)
          <5> QED BY <1>1, <5>1, ILinkAssumption
        <4>5. x.n \in 1 .. k
          <5>1. x.n \in Nat /\ x.n <= k /\ x.n > 0 BY <1>7, <2>1, <4>2, <4>3
          <5> HIDE DEF x
          <5> QED BY <4>4, <5>1
        <4> QED BY <1>1, <4>5 DEF Number
      <3> QED BY <2>1, <3>1, <3>2
    <2>2. CASE TakesOne /\ x.src # s
      <3>1. FlitOf(s, x) = <<>> BY <1>7, <2>2, FlitOfType
      <3> QED BY <2>2, <3>1, OneNumber
    <2>3. CASE ~TakesOne BY <2>3, OneNumber
    <2> QED BY <2>1, <2>2, <2>3
  <1>9. Asking(s)' = Cat(f, w)
    <2>1. CASE TakesOne
      <3>1. ~EfPop /\ ef' = Append(ef, x) BY <2>1 DEF TakesOne
      <3>2. FlitsOf(s, Append(ef, x)) = Cat(FlitsOf(s, ef), FlitOf(s, x))
        BY <1>3, <1>7, <2>1, FlitsAppend
      <3>3. w = FlitOf(s, x) /\ f = FlitsOf(s, ef) BY <2>1, <3>1
      <3> QED BY <1>5, <3>1, <3>2, <3>3, Zenon
    <2>2. CASE ~TakesOne
      <3>1. w = <<>> BY <2>2
      <3>2. ef' = IF EfPop THEN Tail(ef) ELSE ef BY <1>2, <2>2 DEF GivesOne, Waits
      <3>3. Asking(s)' = f BY <1>5, <3>2
      <3>4. Cat(f, <<>>) = f BY <1>6, CatType
      <3> QED BY <3>1, <3>3, <3>4, Zenon
    <2> QED BY <2>1, <2>2
  <1>10. EfPop => Asking(s) = Cat(FlitOf(s, ef[1]), f)
    <2> HAVE EfPop
    <2>1. FlitsOf(s, ef) = Cat(FlitOf(s, ef[1]), FlitsOf(s, Tail(ef))) BY <1>3, <1>4, FlitsTail
    <2>2. f = FlitsOf(s, Tail(ef)) OBVIOUS
    <2> QED BY <1>5, <2>1, <2>2, Zenon
  <1>11. ~EfPop => f = Asking(s) BY <1>5
  <1> HIDE DEF f, w, x
  <1>12. /\ Starts \/ SendsNothing => Carried(s, cross)' = Cat(Carried(s, cross), <<>>)
         /\ SendsHeader => Carried(s, cross)' = Cat(Carried(s, cross), Mark(s, ltx_hdr))
         /\ SendsBeat \/ SendsLast =>
              Carried(s, cross)' = Cat(Carried(s, cross), Mark(s, ObBeat))
         /\ ltx_hdr.hdr /\ Mark(s, ltx_hdr) \in Seq(Nat)
         /\ ~ObBeat.hdr /\ ObBeat.load = ltx_dat /\ Mark(s, ObBeat) \in Seq(Nat)
    BY <1>1, TxLine
  <1>13. <<>> \in Seq(Nat) BY OneNumber
  <1>14. Asking(s) \in Seq(Nat) BY <1>3, <1>5, FlitsType
  <1>15. obst' = "DAT" /\ ob_who' = 1 /\ EfPop /\ ltx_dat' = ObLoad(1)
           => Asking(s) = Cat(Leaving(s)', f)
    <2> HAVE obst' = "DAT" /\ ob_who' = 1 /\ EfPop /\ ltx_dat' = ObLoad(1)
    <2>1. ltx_dat'.src = ef[1].src /\ ltx_dat'.n = ef[1].n BY <1>4 DEF ObLoad
    <2>2. FlitOf(s, ltx_dat') = FlitOf(s, ef[1]) BY <2>1, Zenon DEF FlitOf
    <2> QED BY <1>5, <1>10, <2>2, Zenon
  <1>16. PICK v \in Seq(Nat) :
           /\ Carried(s, cross)' = Cat(Carried(s, cross), v)
           /\ \/ v = <<>> /\ Leaving(s)' = Leaving(s) /\ Asking(s) = f
              \/ v = Leaving(s) /\ Asking(s) = Cat(Leaving(s)', f)
    <2>1. CASE Starts \/ SendsNothing
      <3>1. ~EfPop BY <2>1 DEF Starts, SendsNothing, EfPop, HdrTaken, BeatTaken
      <3>2. Leaving(s)' = Leaving(s) BY <1>5, <2>1 DEF Starts, SendsNothing
      <3> QED BY <1>11, <1>12, <1>13, <2>1, <3>1, <3>2
    <2>2. CASE SendsHeader
      <3>1. /\ obst = "HDR" /\ obst' = "DAT" /\ ob_who' = ob_who /\ ltx_dat' = ObLoad(ob_who)
            /\ HdrTaken
        BY <2>2 DEF SendsHeader, HdrTaken
      <3>2. Mark(s, ltx_hdr) = <<>> BY <1>12, MarkFlit
      <3>3. Leaving(s) = <<>> BY <1>5, <3>1
      <3>4. CASE ob_who = 1
        <4>1. EfPop BY <3>1, <3>4 DEF EfPop
        <4>2. Asking(s) = Cat(Leaving(s)', f) BY <1>15, <3>1, <3>4, <4>1, Zenon
        <4> QED BY <1>12, <1>13, <2>2, <3>2, <3>3, <4>2
      <3>5. CASE ob_who # 1
        <4>1. ~EfPop BY <3>5 DEF EfPop
        <4>2. Leaving(s)' = <<>> BY <1>5, <3>1, <3>5
        <4> QED BY <1>11, <1>12, <1>13, <2>2, <3>2, <3>3, <4>1, <4>2
      <3> QED BY <3>4, <3>5
    <2>3. CASE SendsBeat
      <3>1. ob_who = 1 /\ ob_who' = 1 /\ ltx_dat.kind = "FLIT" BY <2>3, LongIsBurst
      <3>2. obst = "DAT" /\ obst' = "DAT" /\ EfPop /\ ltx_dat' = ObLoad(ob_who)
        BY <2>3, <3>1 DEF SendsBeat, EfPop, BeatTaken
      <3>3. Asking(s) = Cat(Leaving(s)', f) BY <1>15, <3>1, <3>2, Zenon
      <3>4. Mark(s, ObBeat) = FlitOf(s, ltx_dat)
        <4>1. ~ObBeat.hdr /\ ObBeat.load.kind = "FLIT" /\ ObBeat.load = ltx_dat BY <1>12, <3>1
        <4>2. Mark(s, ObBeat) = FlitOf(s, ObBeat.load) BY <4>1, MarkFlit
        <4> QED BY <4>1, <4>2, Zenon
      <3>5. Mark(s, ObBeat) = Leaving(s) BY <1>5, <3>1, <3>2, <3>4, Zenon
      <3> QED BY <1>12, <2>3, <3>3, <3>5
    <2>4. CASE SendsLast
      <3>1. obst = "DAT" /\ obst' = "IDLE" /\ ob_left = 1 BY <2>4 DEF SendsLast
      <3>2. ~EfPop /\ Leaving(s)' = <<>> BY <1>5, <3>1 DEF EfPop, HdrTaken
      <3>3. Mark(s, ObBeat) = Leaving(s)
        <4>1. ltx_dat.kind = KindOf(ob_who) BY <3>1 DEF RelayInv, SendingOK
        <4>2. CASE ob_who = 1
          <5>1. ~ObBeat.hdr /\ ObBeat.load.kind = "FLIT" /\ ObBeat.load = ltx_dat
            BY <1>12, <4>1, <4>2 DEF KindOf
          <5>2. Mark(s, ObBeat) = FlitOf(s, ObBeat.load) BY <5>1, MarkFlit
          <5> QED BY <1>5, <3>1, <4>2, <5>1, <5>2, Zenon
        <4>3. CASE ob_who # 1
          <5>0. OutTypes BY RelayParts
          <5>1. ltx_dat.kind # "FLIT" BY <4>1, <4>3, <5>0 DEF KindOf, OutTypes
          <5>2. Mark(s, ObBeat) = <<>> BY <1>12, <5>1, MarkFlit
          <5> QED BY <1>5, <4>3, <5>2
        <4> QED BY <4>2, <4>3
      <3>4. Cat(<<>>, Asking(s)) = Asking(s) BY <1>14, CatType
      <3>5. Asking(s) = Cat(Leaving(s)', f) BY <1>11, <3>2, <3>4, Zenon
      <3> QED BY <1>12, <2>4, <3>3, <3>5
    <2> QED BY <1>2, <2>1, <2>2, <2>3, <2>4
  <1>17. TxOut(s, v, f) BY <1>1, <1>2, <1>6, <1>16, TxShapes
  <1>18. Chan(s)' = Cat(Chan(s), w) BY <1>1, <1>2, <1>8, <1>9, <1>17, TxChan
  <1> QED BY <1>8, <1>18, Zenon DEF TxStep

-----------------------------------------------------------------------------
(***************************************************************************)
(* A clock edge of the receiving mesh, at the three sorts of stream.       *)
(***************************************************************************)
Got(st) == CASE st = "WR" -> landed [] st = "DOOR" -> dbell_n [] OTHER -> injected[st]

(* What is read of the crossing.                                           *)
Opens == /\ inst = "HDR" /\ cross # <<>> /\ Head(cross).hdr /\ in_hdr' = Head(cross)
         /\ inst' = Head(cross).load.kind /\ cross' = Tail(cross) /\ dbell_n' = dbell_n
Goes(x) == /\ ActWr(x) \/ ActFl(x)
           /\ inst \in {"WR", "FLIT"} /\ inst' \in {"HDR", inst} /\ cross # <<>>
           /\ cross' = Tail(cross) /\ in_hdr' = in_hdr /\ dbell_n' = dbell_n
Rings == /\ inst = "DOOR" /\ inst' = "HDR" /\ cross # <<>> /\ cross' = Tail(cross)
         /\ in_hdr' = in_hdr /\ dbell_n' = dbell_n + 1
Rests(x) == ~ActWr(x) /\ ~ActFl(x) /\ UNCHANGED <<inst, in_hdr, cross, dbell_n>>

(* The receiver opens a packet, passes a beat on, rings or rests.           *)
LEMMA ReceiveCases ==
  ASSUME NEW x, Receive(x)
  PROVE  Opens \/ Goes(x) \/ Rings \/ Rests(x)
  <1> DEFINE b == Head(cross)
  <1>1. CASE /\ inst = "HDR" /\ HdrIn
             /\ in_hdr' = b /\ in_left' = b.len + 1 /\ inst' = b.load.kind
             /\ cross' = Tail(cross)
             /\ UNCHANGED dbell_n
    BY <1>1 DEF HdrIn, Opens
  <1>2. CASE /\ ActWr(x) \/ ActFl(x)
             /\ inst' = IF in_left = 1 THEN "HDR" ELSE inst
             /\ in_left' = IF in_left = 1 THEN in_left ELSE in_left - 1
             /\ cross' = Tail(cross)
             /\ UNCHANGED <<in_hdr, dbell_n>>
    BY <1>2 DEF ActWr, ActFl, BeatIn, Goes
  <1>3. CASE /\ ActDoor
             /\ dbell_n' = dbell_n + 1
             /\ inst' = "HDR"
             /\ cross' = Tail(cross)
             /\ UNCHANGED <<in_hdr, in_left>>
    BY <1>3 DEF ActDoor, BeatIn, Rings
  <1>4. CASE /\ ~(inst = "HDR" /\ HdrIn) /\ ~ActWr(x) /\ ~ActFl(x) /\ ~ActDoor
             /\ UNCHANGED <<inst, in_hdr, in_left, cross, dbell_n>>
    BY <1>4 DEF Rests
  <1> QED BY <1>1, <1>2, <1>3, <1>4 DEF Receive

(* What the receiver's reading does to a stream in the crossing.            *)
LEMMA RxLine ==
  ASSUME RelayInv, NEW st \in Stream
  PROVE  /\ cross # <<>> /\ cross' = Tail(cross) =>
              /\ Carried(st, cross) = Cat(Mark(st, Head(cross)), Carried(st, cross)')
              /\ Mark(st, Head(cross)) \in Seq(Nat) /\ Head(cross).load.n \in Nat
         /\ cross' = cross => Carried(st, cross) = Cat(<<>>, Carried(st, cross)')
  <1>1. LineTypes BY RelayParts
  <1>2. cross \in Seq(Item) BY <1>1 DEF LineTypes
  <1>3. ASSUME cross # <<>>, cross' = Tail(cross)
        PROVE  /\ Carried(st, cross) = Cat(Mark(st, Head(cross)), Carried(st, cross)')
               /\ Mark(st, Head(cross)) \in Seq(Nat) /\ Head(cross).load.n \in Nat
    <2>1. Head(cross) = cross[1] /\ cross[1] \in Item BY <1>2, <1>3, TailParts
    <2>2. Carried(st, cross) = Cat(Mark(st, cross[1]), Carried(st, Tail(cross)))
      BY <1>2, <1>3, CarriedTail
    <2>3. Mark(st, cross[1]) \in Seq(Nat) /\ cross[1].load.n \in Nat
      BY <2>1, MarkType, LoadNumber
    <2> QED BY <1>3, <2>1, <2>2, <2>3, Zenon
  <1>4. ASSUME cross' = cross PROVE Carried(st, cross) = Cat(<<>>, Carried(st, cross)')
    <2>1. Carried(st, cross) \in Seq(Nat) BY <1>2, CarriedType
    <2>2. Cat(<<>>, Carried(st, cross)) = Carried(st, cross) BY <2>1, CatType
    <2> QED BY <1>4, <2>2, Zenon
  <1> QED BY <1>3, <1>4

(* Only the places of the receiver and the crossing change.                *)
LEMMA RxParts ==
  ASSUME RelayInv, RelayInv', RxClock
  PROVE  /\ TypeOK /\ TypeOK'
         /\ \A st \in Stream : Leaving(st)' = Leaving(st) /\ Asking(st)' = Asking(st)
         /\ InTypes /\ FarTypes
  <1>1. TypeOK /\ TypeOK' BY DEF RelayInv, ILinkInv
  <1>2. UNCHANGED <<moverVars, encVars, obVars, door_req, door_txn>> BY DEF RxClock
  <1>3. /\ ob_wr_req' = ob_wr_req /\ d_r' = d_r /\ ef' = ef /\ obst' = obst
        /\ ob_who' = ob_who /\ ltx_dat' = ltx_dat /\ door_req' = door_req
        /\ door_txn' = door_txn
    BY <1>2 DEF moverVars, encVars, obVars
  <1>4. \A st \in Stream : Leaving(st)' = Leaving(st) /\ Asking(st)' = Asking(st)
    BY <1>3 DEF Leaving, Asking
  <1>5. InTypes /\ FarTypes BY RelayParts
  <1> QED BY <1>1, <1>4, <1>5

(* What the receiver may do to a stream.                                   *)
RxStep(st) ==
  \E out \in BOOLEAN :
    /\ out => Chan(st) # <<>> /\ Chan(st)' = Tail(Chan(st)) /\ Got(st)' = Got(st) + 1
    /\ ~out => Chan(st)' = Chan(st) /\ Got(st)' = Got(st)

(* A clock edge of the receiver, for the writes: one may reach the memory.  *)
LEMMA RxWrites ==
  ASSUME RelayInv, RelayInv', RxClock
  PROVE  RxStep("WR")
  <1> PICK st : st = "WR" OBVIOUS
  <1>1. PICK x \in Far : Memory(x) /\ Receive(x) /\ Issue(x) BY DEF RxClock
  <1> DEFINE put == ActWr(x)
             n == IF put THEN Head(cross).load.n ELSE 0
             u == IF put THEN <<n>> ELSE <<>>
  <1>2. st \in Stream BY DEF Stream
  <1>3. TypeOK /\ TypeOK' /\ InTypes /\ FarTypes BY RxParts
  <1>4. Leaving(st)' = Leaving(st) /\ Asking(st)' = Asking(st) BY <1>2, RxParts
  <1>5. /\ cross # <<>> /\ cross' = Tail(cross) =>
              /\ Carried(st, cross) = Cat(Mark(st, Head(cross)), Carried(st, cross)')
              /\ Mark(st, Head(cross)) \in Seq(Nat) /\ Head(cross).load.n \in Nat
        /\ cross' = cross => Carried(st, cross) = Cat(<<>>, Carried(st, cross)')
    BY <1>2, RxLine
  <1>6. put => inst = "WR" /\ cross # <<>> /\ cross' = Tail(cross)
    BY <1>1 DEF ActWr, BeatIn, Receive, ActDoor
  <1>7. put => n \in Nat \ {0} /\ Mark(st, Head(cross)) = <<n>>
    <2> HAVE put
    <2>1. /\ ~Head(cross).hdr /\ Head(cross).load.kind = "WR"
          /\ Head(cross).load.n \in Nat \ {0}
      BY <1>6, BeatRead
    <2>2. Mark("WR", Head(cross)) = <<Head(cross).load.n>> BY <2>1, MarkWrite
    <2> QED BY <2>1, <2>2
  <1>8. n \in Nat /\ u \in Seq(Nat)
    <2>1. n \in Nat BY <1>7
    <2> HIDE DEF n
    <2> QED BY <2>1, OneNumber
  <1>9. Carried(st, cross) = Cat(u, Carried(st, cross)')
    <2>1. CASE put BY <1>5, <1>6, <1>7, <2>1, Zenon
    <2>2. CASE ~put
      <3>0. u = <<>> BY <2>2
      <3>1. CASE Opens
        <4>1. Head(cross).hdr /\ cross # <<>> /\ cross' = Tail(cross) BY <3>1 DEF Opens
        <4>2. Mark("WR", Head(cross)) = <<>> BY <4>1, MarkWrite
        <4> QED BY <1>5, <3>0, <4>1, <4>2, Zenon
      <3>2. CASE Goes(x)
        <4>1. inst = "FLIT" /\ cross # <<>> /\ cross' = Tail(cross)
          BY <2>2, <3>2 DEF Goes, ActFl
        <4>2. Head(cross).load.kind # "WR" BY <4>1, BeatRead
        <4>3. Mark("WR", Head(cross)) = <<>> BY <4>2, MarkWrite
        <4> QED BY <1>5, <3>0, <4>1, <4>3, Zenon
      <3>3. CASE Rings
        <4>1. inst = "DOOR" /\ cross # <<>> /\ cross' = Tail(cross) BY <3>3 DEF Rings
        <4>2. Head(cross).load.kind # "WR" BY <4>1, BeatRead
        <4>3. Mark("WR", Head(cross)) = <<>> BY <4>2, MarkWrite
        <4> QED BY <1>5, <3>0, <4>1, <4>3, Zenon
      <3>4. CASE Rests(x)
        <4>1. cross' = cross BY <3>4 DEF Rests
        <4> QED BY <1>5, <3>0, <4>1, Zenon
      <3>5. Opens \/ Goes(x) \/ Rings \/ Rests(x) BY <1>1, ReceiveCases
      <3> QED BY <3>1, <3>2, <3>3, <3>4, <3>5
    <2> QED BY <2>1, <2>2
  <1>10. /\ x.b \in BOOLEAN /\ x.w \in BOOLEAN /\ put \in BOOLEAN
         /\ x.b => ws # <<>>
         /\ x.w => lk_w # 0
         /\ put => lk_w = 0 \/ x.w
    BY <1>1 DEF Far, Memory, ActWr, LkFree
  <1>11. /\ lk_w' = Kept(lk_w, n, x.w, put) /\ ws' = Queued(ws, lk_w, x.b, x.w)
         /\ landed' = IF x.b THEN landed + 1 ELSE landed
    BY <1>1 DEF Issue, Memory, Kept, Queued
  <1>12. ws \in Seq(Nat) /\ lk_w \in Nat BY <1>3 DEF FarTypes
  <1>13. put => Held(n) = <<n>> BY <1>7 DEF Held
  <1>14. x.b => ws \o Held(lk_w) # <<>>
    <2>1. Held(lk_w) \in Seq(Nat) BY <1>12 DEF Held
    <2> QED BY <1>10, <1>12, <2>1, TailOfJoin
  <1> HIDE DEF n, put
  <1>15. Passed(ws, lk_w, n, x.b, x.w, put) BY <1>8, <1>10, <1>12, ChannelMoves, ZenonT(40)
  <1> PICK a : a = Arriving(st) OBVIOUS
  <1>16. a = ws \o Held(lk_w) BY DEF Arriving
  <1>17. Arriving(st)' = ws' \o Held(lk_w') BY DEF Arriving
  <1>18. ws' \o Held(lk_w') = Cat(IF x.b THEN Tail(a) ELSE a, u)
    <2>1. ws' \o Held(lk_w')
            = (IF x.b THEN Tail(ws \o Held(lk_w)) ELSE ws \o Held(lk_w))
                \o (IF put THEN Held(n) ELSE <<>>)
      BY <1>11, <1>15 DEF Passed
    <2>2. u = IF put THEN Held(n) ELSE <<>> BY <1>13
    <2> HIDE DEF u
    <2> QED BY <1>16, <2>1, <2>2, Zenon DEF Cat
  <1>19. Arriving(st)' = Cat(IF x.b THEN Tail(a) ELSE a, u) BY <1>17, <1>18, Zenon
  <1> HIDE DEF u
  <1>20. /\ x.b => Chan(st) # <<>> /\ Chan(st)' = Tail(Chan(st))
         /\ ~x.b => Chan(st)' = Chan(st)
    <2>1. x.b => Arriving(st) # <<>> BY <1>14, <1>16, Zenon
    <2>2. Arriving(st)' = Cat(IF x.b THEN Tail(Arriving(st)) ELSE Arriving(st), u)
      BY <1>19, Zenon
    <2> QED BY <1>2, <1>3, <1>4, <1>8, <1>9, <1>10, <2>1, <2>2, RxChan
  <1>21. Got(st) = landed /\ Got(st)' = landed' BY DEF Got
  <1>22. /\ x.b => Got(st)' = Got(st) + 1
         /\ ~x.b => Got(st)' = Got(st)
    BY <1>11, <1>21, Zenon
  <1> QED BY <1>10, <1>20, <1>22, Zenon DEF RxStep

(* A place of one packet is empty when that has left.                      *)
LEMMA OneLeaves ==
  ASSUME NEW n \in Nat
  PROVE  <<n>> # <<>> /\ Tail(<<n>>) = <<>>
  <1> PICK q : q = <<n>> OBVIOUS
  <1>1. q \in Seq(Nat) /\ Len(q) = 1 /\ q # <<>> OBVIOUS
  <1>2. Tail(q) \in Seq(Nat) /\ Len(Tail(q)) = 0 BY <1>1, TailParts
  <1>3. Tail(q) = <<>> BY <1>2, EmptySeq
  <1> QED BY <1>1, <1>3, Zenon

(* A clock edge of the receiver, for the doorbells: one may be counted.     *)
LEMMA RxDoors ==
  ASSUME RelayInv, RelayInv', RxClock
  PROVE  RxStep("DOOR")
  <1> PICK st : st = "DOOR" OBVIOUS
  <1>1. PICK x \in Far : Memory(x) /\ Receive(x) /\ Issue(x) BY DEF RxClock
  <1> PICK h : h = Head(cross) OBVIOUS
  <1>2. st \in Stream BY DEF Stream
  <1>3. TypeOK /\ TypeOK' /\ InTypes BY RxParts
  <1>4. Leaving(st)' = Leaving(st) /\ Asking(st)' = Asking(st) BY <1>2, RxParts
  <1>5. /\ cross # <<>> /\ cross' = Tail(cross) =>
              /\ Carried(st, cross) = Cat(Mark(st, h), Carried(st, cross)')
              /\ Mark(st, h) \in Seq(Nat) /\ h.load.n \in Nat
        /\ cross' = cross => Carried(st, cross) = Cat(<<>>, Carried(st, cross)')
    BY <1>2, RxLine
  <1>6. /\ inst = "DOOR" => Arriving(st) = <<in_hdr.load.n>>
        /\ inst # "DOOR" => Arriving(st) = <<>>
        /\ inst' = "DOOR" => Arriving(st)' = <<in_hdr'.load.n>>
        /\ inst' # "DOOR" => Arriving(st)' = <<>>
    BY DEF Arriving
  <1>7. Got(st) = dbell_n /\ Got(st)' = dbell_n' BY DEF Got
  <1>8. <<>> \in Seq(Nat) BY OneNumber
  <1>9. Cat(<<>>, <<>>) = <<>> BY <1>8, CatType
  <1>10. Arriving(st) \in Seq(Nat)
    <2>1. Places(st) BY <1>2, <1>3, PlaceTypes
    <2> QED BY <2>1 DEF Places, Numbered
  (* It is counted when its beat is read.                                  *)
  <1>11. ASSUME Rings PROVE RxStep(st)
    <2>1. /\ inst = "DOOR" /\ inst' = "HDR" /\ cross # <<>> /\ cross' = Tail(cross)
          /\ dbell_n' = dbell_n + 1
      BY <1>11 DEF Rings
    <2>2. Mark(st, h) = <<>>
      <3>1. ~h.hdr BY <2>1, BeatRead
      <3> QED BY <3>1, MarkDoor
    <2>3. Carried(st, cross) = Cat(<<>>, Carried(st, cross)') BY <1>5, <2>1, <2>2, Zenon
    <2>4. Arriving(st) # <<>> /\ Tail(Arriving(st)) = <<>> /\ Arriving(st)' = <<>>
      <3>1. in_hdr.load.n \in Nat BY <1>3, LoadNumber DEF InTypes, Item
      <3>2. Arriving(st) = <<in_hdr.load.n>> /\ Arriving(st)' = <<>> BY <1>6, <2>1
      <3> QED BY <3>1, <3>2, OneLeaves, Zenon
    <2>5. Arriving(st)' = Cat(IF TRUE THEN Tail(Arriving(st)) ELSE Arriving(st), <<>>)
      BY <1>9, <2>4, Zenon
    <2>6. Chan(st) # <<>> /\ Chan(st)' = Tail(Chan(st))
      BY <1>2, <1>3, <1>4, <1>8, <2>3, <2>4, <2>5, RxChan
    <2>7. Got(st)' = Got(st) + 1 BY <1>7, <2>1, Zenon
    <2> QED BY <2>6, <2>7, Zenon DEF RxStep
  (* Anything else leaves it in the channel.                               *)
  <1>12. ASSUME NEW u \in Seq(Nat), Carried(st, cross) = Cat(u, Carried(st, cross)'),
                Arriving(st)' = Cat(Arriving(st), u), dbell_n' = dbell_n
         PROVE  RxStep(st)
    <2>1. Arriving(st)' = Cat(IF FALSE THEN Tail(Arriving(st)) ELSE Arriving(st), u)
      BY <1>12, Zenon
    <2>2. Chan(st)' = Chan(st) BY <1>2, <1>3, <1>4, <1>12, <2>1, RxChan
    <2>3. Got(st)' = Got(st) BY <1>7, <1>12, Zenon
    <2> QED BY <2>2, <2>3, Zenon DEF RxStep
  <1>13. ASSUME Opens PROVE RxStep(st)
    <2>1. /\ inst = "HDR" /\ cross # <<>> /\ cross' = Tail(cross) /\ h.hdr
          /\ in_hdr' = h /\ inst' = h.load.kind /\ dbell_n' = dbell_n
      BY <1>13 DEF Opens
    <2>2. Carried(st, cross) = Cat(Mark(st, h), Carried(st, cross)') /\ Mark(st, h) \in Seq(Nat)
      BY <1>5, <2>1, Zenon
    <2>3. Arriving(st) = <<>> BY <1>6, <2>1
    <2>4. Arriving(st)' = Mark(st, h)
      <3>1. CASE h.load.kind = "DOOR"
        <4>1. Mark(st, h) = <<h.load.n>> BY <2>1, <3>1, MarkDoor
        <4> QED BY <1>6, <2>1, <3>1, <4>1, Zenon
      <3>2. CASE h.load.kind # "DOOR"
        <4>1. Mark(st, h) = <<>> BY <3>2, MarkDoor
        <4> QED BY <1>6, <2>1, <3>2, <4>1, Zenon
      <3> QED BY <3>1, <3>2
    <2>5. Cat(<<>>, Mark(st, h)) = Mark(st, h) BY <2>2, CatType
    <2>6. Arriving(st)' = Cat(Arriving(st), Mark(st, h)) BY <2>3, <2>4, <2>5, Zenon
    <2> QED BY <1>12, <2>1, <2>2, <2>6, Zenon
  <1>14. Cat(Arriving(st), <<>>) = Arriving(st) BY <1>10, CatType
  <1>15. ASSUME Goes(x) PROVE RxStep(st)
    <2>1. /\ inst \in {"WR", "FLIT"} /\ inst' \in {"HDR", inst} /\ cross # <<>>
          /\ cross' = Tail(cross) /\ dbell_n' = dbell_n
      BY <1>15 DEF Goes
    <2>2. Mark(st, h) = <<>>
      <3>1. ~h.hdr BY <2>1, BeatRead
      <3> QED BY <3>1, MarkDoor
    <2>3. Carried(st, cross) = Cat(<<>>, Carried(st, cross)') BY <1>5, <2>1, <2>2, Zenon
    <2>4. Arriving(st)' = Arriving(st) BY <1>6, <2>1
    <2> QED BY <1>8, <1>12, <1>14, <2>1, <2>3, <2>4, Zenon
  <1>16. ASSUME Rests(x) PROVE RxStep(st)
    <2>1. inst' = inst /\ in_hdr' = in_hdr /\ cross' = cross /\ dbell_n' = dbell_n
      BY <1>16 DEF Rests
    <2>2. Carried(st, cross) = Cat(<<>>, Carried(st, cross)') BY <1>5, <2>1, Zenon
    <2>3. Arriving(st)' = Arriving(st) BY <1>6, <2>1
    <2> QED BY <1>8, <1>12, <1>14, <2>1, <2>2, <2>3, Zenon
  <1>17. Opens \/ Goes(x) \/ Rings \/ Rests(x) BY <1>1, ReceiveCases
  <1> QED BY <1>11, <1>13, <1>15, <1>16, <1>17

(* A clock edge of the receiver, for a unit: a flit may enter the far NoC.  *)
LEMMA RxFlits ==
  ASSUME RelayInv, RelayInv', RxClock, NEW s \in Unit
  PROVE  RxStep(s)
  <1>1. PICK x \in Far : Memory(x) /\ Receive(x) /\ Issue(x) BY DEF RxClock
  <1> PICK h : h = Head(cross) OBVIOUS
  <1> DEFINE put == ActFl(x)
             out == x.inj /\ inj.src = s
             u == IF put THEN FlitOf(s, h.load) ELSE <<>>
  <1>2. s \in Stream /\ s \in Sender /\ s # "WR" /\ s # "DOOR" BY DEF Stream, Unit
  <1>3. TypeOK /\ TypeOK' /\ InTypes /\ FarTypes BY RxParts
  <1>4. Leaving(s)' = Leaving(s) /\ Asking(s)' = Asking(s) BY <1>2, RxParts
  <1>5. /\ cross # <<>> /\ cross' = Tail(cross) =>
              /\ Carried(s, cross) = Cat(Mark(s, h), Carried(s, cross)')
              /\ Mark(s, h) \in Seq(Nat) /\ h.load.n \in Nat
        /\ cross' = cross => Carried(s, cross) = Cat(<<>>, Carried(s, cross)')
    BY <1>2, RxLine
  <1>6. put => inst = "FLIT" /\ cross # <<>> /\ cross' = Tail(cross)
    BY <1>1 DEF ActFl, BeatIn, Receive, ActDoor
  <1>7. put => Mark(s, h) = FlitOf(s, h.load)
    <2> HAVE put
    <2>1. ~h.hdr /\ h.load.kind = "FLIT" BY <1>6, BeatRead
    <2> QED BY <2>1, MarkFlit
  <1>8. u \in Seq(Nat) BY <1>5, <1>6, <1>7, OneNumber
  <1>9. Carried(s, cross) = Cat(u, Carried(s, cross)')
    <2>1. CASE put BY <1>5, <1>6, <1>7, <2>1, Zenon
    <2>2. CASE ~put
      <3>0. u = <<>> BY <2>2
      <3>1. CASE Opens
        <4>1. h.hdr /\ cross # <<>> /\ cross' = Tail(cross) BY <3>1 DEF Opens
        <4>2. Mark(s, h) = <<>> BY <4>1, MarkFlit
        <4> QED BY <1>5, <3>0, <4>1, <4>2, Zenon
      <3>2. CASE Goes(x) \/ Rings
        <4>1. inst \notin {"HDR", "FLIT"} /\ cross # <<>> /\ cross' = Tail(cross)
          BY <2>2, <3>2 DEF Goes, ActWr, Rings
        <4>2. h.load.kind # "FLIT" BY <4>1, BeatRead
        <4>3. Mark(s, h) = <<>> BY <4>2, MarkFlit
        <4> QED BY <1>5, <3>0, <4>1, <4>3, Zenon
      <3>4. CASE Rests(x)
        <4>1. cross' = cross BY <3>4 DEF Rests
        <4> QED BY <1>5, <3>0, <4>1, Zenon
      <3>5. Opens \/ Goes(x) \/ Rings \/ Rests(x) BY <1>1, ReceiveCases
      <3> QED BY <3>1, <3>2, <3>4, <3>5
    <2> QED BY <2>1, <2>2
  <1>10. inj \in Flit \cup {NoFlit} /\ injected \in [Sender -> Nat] BY <1>3 DEF FarTypes
  <1>11. /\ x.inj \in BOOLEAN /\ (x.inj => inj # NoFlit)
         /\ injected' = IF x.inj THEN [injected EXCEPT ![inj.src] = @ + 1] ELSE injected
    BY <1>1 DEF Far, Memory
  <1>12. /\ inj' = IF put THEN [src |-> h.load.src, n |-> h.load.n]
                   ELSE IF x.inj THEN NoFlit ELSE inj
         /\ put => inj = NoFlit \/ x.inj
    BY <1>1 DEF Issue, ActFl, InjFree
  <1>13. Arriving(s) = FlitOf(s, inj) /\ Arriving(s)' = FlitOf(s, inj') BY <1>2 DEF Arriving
  <1>14. Arriving(s) \in Seq(Nat)
    <2>1. Places(s) BY <1>2, <1>3, PlaceTypes
    <2> QED BY <2>1 DEF Places, Numbered
  <1>15. FlitOf(s, NoFlit) = <<>>
    <2>1. NoFlit.src # s BY <1>2, ILinkAssumption DEF NoFlit
    <2> QED BY <2>1 DEF FlitOf
  <1>16. out => Arriving(s) = <<inj.n>> BY <1>13 DEF FlitOf
  <1>17. x.inj \/ inj = NoFlit => out \/ Arriving(s) = <<>>
    BY <1>13, <1>15 DEF FlitOf
  <1>18. put => Arriving(s)' = u
    <2> HAVE put
    <2>1. inj'.src = h.load.src /\ inj'.n = h.load.n BY <1>12
    <2>2. FlitOf(s, inj') = FlitOf(s, h.load) BY <2>1, Zenon DEF FlitOf
    <2> QED BY <1>13, <2>2
  <1>19. ~put => Arriving(s)' = IF x.inj THEN <<>> ELSE Arriving(s)
    BY <1>12, <1>13, <1>15
  <1>20. ~put => u = <<>> OBVIOUS
  <1> HIDE DEF put, u
  <1> PICK a : a = Arriving(s) OBVIOUS
  <1>21. Cat(<<>>, u) = u /\ Cat(a, <<>>) = a BY <1>8, <1>14, CatType
  <1>22. out => a # <<>> /\ Tail(a) = <<>>
    <2>1. inj.n \in Nat BY <1>10 DEF Flit, NoFlit
    <2> QED BY <1>16, <2>1, OneLeaves, Zenon
  <1>23. Arriving(s)' = Cat(IF out THEN Tail(a) ELSE a, u)
    <2>0. <<>> \in Seq(Nat) /\ Cat(<<>>, <<>>) = <<>>
      <3>1. <<>> \in Seq(Nat) BY OneNumber
      <3> QED BY <3>1, CatType
    <2>1. CASE put
      <3>1. out \/ a = <<>> BY <1>12, <1>17, <2>1
      <3>2. (IF out THEN Tail(a) ELSE a) = <<>> BY <1>22, <3>1, Zenon
      <3> QED BY <1>18, <1>21, <2>1, <3>2, Zenon
    <2>2. CASE ~put /\ x.inj
      <3>1. out \/ a = <<>> BY <1>17, <2>2
      <3>2. (IF out THEN Tail(a) ELSE a) = <<>> BY <1>22, <3>1, Zenon
      <3>3. Arriving(s)' = <<>> /\ u = <<>> BY <1>19, <1>20, <2>2
      <3> QED BY <2>0, <3>2, <3>3, Zenon
    <2>3. CASE ~put /\ ~x.inj
      <3>1. ~out /\ Arriving(s)' = a /\ u = <<>> BY <1>19, <1>20, <2>3
      <3> QED BY <1>21, <3>1, Zenon
    <2> QED BY <2>1, <2>2, <2>3
  <1>24. out \in BOOLEAN BY <1>11
  <1>25. /\ out => Got(s)' = Got(s) + 1
         /\ ~out => Got(s)' = Got(s)
    <2>1. Got(s) = injected[s] /\ Got(s)' = injected'[s] BY <1>2 DEF Got
    <2>2. out => injected'[s] = injected[s] + 1 BY <1>2, <1>10, <1>11
    <2>3. ~out => injected'[s] = injected[s] BY <1>2, <1>10, <1>11
    <2> QED BY <2>1, <2>2, <2>3, Zenon
  <1> HIDE DEF out
  <1>26. /\ out => Chan(s) # <<>> /\ Chan(s)' = Tail(Chan(s))
         /\ ~out => Chan(s)' = Chan(s)
    <2>1. out => Arriving(s) # <<>> BY <1>22, Zenon
    <2>2. Arriving(s)' = Cat(IF out THEN Tail(Arriving(s)) ELSE Arriving(s), u)
      BY <1>23, Zenon
    <2> QED BY <1>2, <1>3, <1>4, <1>8, <1>9, <1>24, <2>1, <2>2, RxChan
  <1> QED BY <1>24, <1>25, <1>26, Zenon DEF RxStep

-----------------------------------------------------------------------------
(***************************************************************************)
(* The link end is a channel.                                              *)
(***************************************************************************)
LEMMA ArrivedIs == \A st \in Stream : Arrived[st] = Got(st)
  BY DEF Arrived, Got

(* The mapping again, in the state a step leads to.                         *)
LEMMA ChannelNow ==
  (\A st \in Stream : InFlight[st] = Chan(st) /\ Arrived[st] = Got(st))'
  <1>1. \A st \in Stream : InFlight[st] = Chan(st) /\ Arrived[st] = Got(st)
    BY ChanIs, ArrivedIs
  <1> QED BY <1>1, PTL

(* What a step may do to a stream.                                         *)
Keeps(st)    == Chan(st)' = Chan(st) /\ Got(st)' = Got(st)
Accepts(st)  == (\E n \in Number : Chan(st)' = With(Chan(st), n)) /\ Got(st)' = Got(st)
Delivers(st) == Chan(st) # <<>> /\ Chan(st)' = Tail(Chan(st)) /\ Got(st)' = Got(st) + 1
ChanStep(st) == Keeps(st) \/ Accepts(st) \/ Delivers(st)

(* What a stream has under way is a sequence of numbers.                    *)
LEMMA ChanType == ASSUME TypeOK, NEW st \in Stream PROVE Chan(st) \in Seq(Nat)
  <1> PICK a : a = Arriving(st) OBVIOUS
  <1> PICK b : b = Carried(st, cross) OBVIOUS
  <1> PICK c : c = Leaving(st) OBVIOUS
  <1> PICK d : d = Asking(st) OBVIOUS
  <1>1. a \in Seq(Nat) /\ b \in Seq(Nat) /\ c \in Seq(Nat) /\ d \in Seq(Nat)
    BY PlaceTypes, Zenon DEF Places, Numbered
  <1>2. Cat(a, b) \in Seq(Nat) BY <1>1, CatType
  <1>3. Cat(Cat(a, b), c) \in Seq(Nat) BY <1>1, <1>2, CatType
  <1>4. Cat(Cat(Cat(a, b), c), d) \in Seq(Nat) BY <1>1, <1>3, CatType
  <1> QED BY <1>4, Zenon DEF Chan, Four

(* A clock edge of the sender leaves a stream or accepts one packet into it.*)
LEMMA EntersStream ==
  ASSUME TypeOK, NEW st \in Stream, TxStep(st), Got(st)' = Got(st)
  PROVE  Keeps(st) \/ Accepts(st)
  <1>1. PICK w : /\ w = <<>> \/ \E n \in Number : w = <<n>>
                 /\ Chan(st)' = Cat(Chan(st), w)
    BY DEF TxStep
  <1> PICK q : q = Chan(st) OBVIOUS
  <1>2. q \in Seq(Nat) BY ChanType
  <1>3. CASE w = <<>>
    <2>1. Cat(q, <<>>) = q BY <1>2, CatType
    <2> QED BY <1>1, <1>3, <2>1, Zenon DEF Keeps
  <1>4. ASSUME NEW n \in Number, w = <<n>> PROVE Accepts(st)
    <2>1. n \in Nat
      <3>1. \A i, j \in Nat : i * j \in Nat BY SMTT(40)
      <3> QED BY <3>1, ILinkAssumption DEF Number
    <2>2. Append(q, n) = q \o <<n>> BY <1>2, <2>1, AppendIsConcat
    <2>3. Chan(st)' = With(Chan(st), n) BY <1>1, <1>4, <2>2, Zenon DEF Cat, With
    <2> QED BY <2>3, Zenon DEF Accepts
  <1> QED BY <1>1, <1>3, <1>4

(* Where packets are, but for the doorbell that asks, only a clock edge    *)
(* changes.                                                                *)
LEMMA SamePlaces ==
  ASSUME UNCHANGED <<moverVars, encVars, obVars, rxVars, cross>>, NEW st \in Stream
  PROVE  /\ Arriving(st)' = Arriving(st) /\ Carried(st, cross)' = Carried(st, cross)
         /\ Leaving(st)' = Leaving(st) /\ Got(st)' = Got(st)
         /\ st # "DOOR" \/ UNCHANGED <<door_req, door_txn>> => Asking(st)' = Asking(st)
         /\ Asking(st)' = Asking(st) => Keeps(st)
  <1>1. /\ ob_wr_req' = ob_wr_req /\ d_r' = d_r /\ ef' = ef /\ obst' = obst
        /\ ob_who' = ob_who /\ ltx_dat' = ltx_dat /\ cross' = cross
        /\ ws' = ws /\ lk_w' = lk_w /\ inst' = inst /\ in_hdr' = in_hdr /\ inj' = inj
        /\ landed' = landed /\ dbell_n' = dbell_n /\ injected' = injected
    BY DEF moverVars, encVars, obVars, rxVars
  <1>2. Arriving(st)' = Arriving(st) BY <1>1 DEF Arriving
  <1>3. Carried(st, cross)' = Carried(st, cross) BY <1>1, Zenon
  <1>4. Leaving(st)' = Leaving(st) BY <1>1 DEF Leaving
  <1>5. Got(st)' = Got(st) BY <1>1 DEF Got
  <1>6. st # "DOOR" \/ UNCHANGED <<door_req, door_txn>> => Asking(st)' = Asking(st)
    BY <1>1 DEF Asking
  <1>7. Asking(st)' = Asking(st) => Keeps(st)
    BY <1>2, <1>3, <1>4, <1>5, Zenon DEF Keeps, Chan
  <1> QED BY <1>2, <1>3, <1>4, <1>5, <1>6, <1>7

(* A doorbell is accepted when it is rung.                                 *)
LEMMA RingEnters ==
  ASSUME RelayInv, RelayInv', Ring
  PROVE  TxStep("DOOR")
  <1> PICK st : st = "DOOR" OBVIOUS
  <1> PICK n : n = answered OBVIOUS
  <1>1. /\ UNCHANGED <<moverVars, encVars, obVars, rxVars, cross>>
        /\ ~door_req /\ door_req' /\ door_txn' = n
    BY DEF Ring
  <1>2. st \in Stream BY DEF Stream
  <1>3. TypeOK /\ TypeOK' BY DEF RelayInv, ILinkInv
  <1>4. /\ Arriving(st)' = Arriving(st) /\ Carried(st, cross)' = Carried(st, cross)
        /\ Leaving(st)' = Leaving(st)
    BY <1>1, <1>2, SamePlaces
  <1>5. ~(obst = "DAT" /\ ob_who = 2) /\ ~(obst' = "DAT" /\ ob_who' = 2)
    <2>1. ~(obst = "DAT" /\ ob_who = 2) BY <1>1 DEF RelayInv, SendingOK
    <2>2. obst' = obst /\ ob_who' = ob_who BY <1>1 DEF obVars
    <2> QED BY <2>1, <2>2
  <1>6. Asking(st) = <<>> /\ Asking(st)' = <<n>> BY <1>1, <1>5 DEF Asking
  <1>7. n \in Nat /\ n \in Number
    <2>1. answered + One(aw_got) <= mv /\ mv <= MaxWrites BY DEF RelayInv, LimitsOK
    <2>2. MoverTypes BY RelayParts
    <2>3. answered \in Nat /\ mv \in Nat /\ MaxWrites \in Nat /\ One(aw_got) \in Nat
      BY <2>2, ILinkAssumption DEF MoverTypes, One
    <2>4. answered \in 0 .. MaxWrites BY <2>1, <2>3
    <2> QED BY <2>3, <2>4 DEF Number
  <1>8. <<>> \in Seq(Nat) /\ <<n>> \in Seq(Nat) BY <1>7, OneNumber
  <1>9. Asking(st)' = Cat(<<>>, <<n>>) BY <1>6, <1>8, CatType
  <1>10. Carried(st, cross)' = Cat(Carried(st, cross), <<>>)
    <2>1. Carried(st, cross) \in Seq(Nat) BY <1>2, <1>3, PlaceTypes DEF Places, Numbered
    <2>2. Cat(Carried(st, cross), <<>>) = Carried(st, cross) BY <2>1, CatType
    <2> QED BY <1>4, <2>2, Zenon
  <1>11. TxOut(st, <<>>, <<>>) BY <1>2, <1>3, <1>4, <1>6, <1>8, <1>10, TxShapes
  <1>12. Chan(st)' = Cat(Chan(st), <<n>>) BY <1>2, <1>3, <1>4, <1>8, <1>9, <1>11, TxChan
  <1> QED BY <1>7, <1>12, Zenon DEF TxStep

(* Every step is one of these for every stream.                            *)
LEMMA StreamSteps ==
  ASSUME RelayInv, RelayInv', [Next]_vars, NEW st \in Stream
  PROVE  ChanStep(st)
  <1>1. TypeOK BY DEF RelayInv, ILinkInv
  <1>2. st = "WR" \/ st = "DOOR" \/ st \in Unit BY DEF Stream, Unit
  <1>3. CASE TxClock
    <2>1. TxStep(st) BY <1>2, <1>3, TxWrites, TxDoors, TxFlits
    <2>2. UNCHANGED rxVars BY <1>3 DEF TxClock
    <2>3. landed' = landed /\ dbell_n' = dbell_n /\ injected' = injected BY <2>2 DEF rxVars
    <2>4. Got(st)' = Got(st) BY <2>3 DEF Got
    <2> QED BY <1>1, <2>1, <2>4, EntersStream, Zenon DEF ChanStep
  <1>4. CASE RxClock
    <2>1. RxStep(st) BY <1>2, <1>4, RxWrites, RxDoors, RxFlits
    <2>2. PICK out \in BOOLEAN :
            /\ out => Chan(st) # <<>> /\ Chan(st)' = Tail(Chan(st)) /\ Got(st)' = Got(st) + 1
            /\ ~out => Chan(st)' = Chan(st) /\ Got(st)' = Got(st)
      BY <2>1, Zenon DEF RxStep
    <2> QED BY <2>2, Zenon DEF ChanStep, Keeps, Delivers
  <1>5. CASE Ring
    <2>1. UNCHANGED <<moverVars, encVars, obVars, rxVars, cross>> BY <1>5 DEF Ring
    <2>2. CASE st = "DOOR"
      <3>1. TxStep(st) BY <1>5, <2>2, RingEnters
      <3>2. Got(st)' = Got(st) BY <2>1, SamePlaces
      <3> QED BY <1>1, <3>1, <3>2, EntersStream, Zenon DEF ChanStep
    <2>3. CASE st # "DOOR"
      <3>1. Keeps(st) BY <2>1, <2>3, SamePlaces
      <3> QED BY <3>1, Zenon DEF ChanStep
    <2> QED BY <2>2, <2>3
  <1>6. ASSUME NEW s \in Sender, Present(s) PROVE ChanStep(st)
    <2>1. UNCHANGED <<moverVars, encVars, obVars, rxVars, cross, door_req, door_txn>>
      BY <1>6 DEF Present
    <2>2. Keeps(st) BY <2>1, SamePlaces
    <2> QED BY <2>2, Zenon DEF ChanStep
  <1>7. CASE UNCHANGED vars
    <2>1. UNCHANGED <<moverVars, encVars, obVars, rxVars, cross, door_req, door_txn>>
      BY <1>7 DEF vars
    <2>2. Keeps(st) BY <2>1, SamePlaces
    <2> QED BY <2>2, Zenon DEF ChanStep
  <1> QED BY <1>3, <1>4, <1>5, <1>6, <1>7 DEF Next

(* Every step is, at each stream, a step of the channel or a stutter.       *)
LEMMA StepIsChannelStep ==
  ASSUME RelayInv, [Next]_vars
  PROVE  RelayInv' /\ Abstract!ChanNext
  <1>1. RelayInv' BY RelayStep
  <1>2. ASSUME NEW st \in Stream
        PROVE  Abstract!Keep(st) \/ Abstract!Deliver(st) \/ Abstract!Accept(st)
    <2>1. InFlight[st] = Chan(st) /\ Arrived[st] = Got(st) BY ChanIs, ArrivedIs
    <2>2. InFlight'[st] = Chan(st)' /\ Arrived'[st] = Got(st)'
      <3>1. InFlight[st]' = Chan(st)' /\ Arrived[st]' = Got(st)' BY ChannelNow
      <3> QED BY <3>1
    <2>3. CASE Keeps(st)
      <3>1. InFlight'[st] = InFlight[st] /\ Arrived'[st] = Arrived[st]
        BY <2>1, <2>2, <2>3, Zenon DEF Keeps
      <3> QED BY <3>1, Zenon DEF Abstract!Keep
    <2>4. CASE Accepts(st)
      <3>1. PICK n \in Number : Chan(st)' = With(Chan(st), n) BY <2>4 DEF Accepts
      <3>2. InFlight'[st] = Append(InFlight[st], n) BY <2>1, <2>2, <3>1, Zenon DEF With
      <3>3. Arrived'[st] = Arrived[st] BY <2>1, <2>2, <2>4, Zenon DEF Accepts
      <3> QED BY <3>2, <3>3, Zenon DEF Abstract!Accept
    <2>5. CASE Delivers(st)
      <3>1. InFlight[st] # <<>> /\ InFlight'[st] = Tail(InFlight[st])
        BY <2>1, <2>2, <2>5, Zenon DEF Delivers
      <3>2. Arrived'[st] = Arrived[st] + 1 BY <2>1, <2>2, <2>5, Zenon DEF Delivers
      <3> QED BY <3>1, <3>2, Zenon DEF Abstract!Deliver
    <2>6. ChanStep(st) BY <1>1, StreamSteps
    <2> QED BY <2>3, <2>4, <2>5, <2>6 DEF ChanStep
  <1>3. DOMAIN InFlight' = Stream BY DEF InFlight
  <1> QED BY <1>1, <1>2, <1>3 DEF Abstract!ChanNext

(* At first no stream has a packet anywhere.                               *)
LEMMA InitIsChannelInit ==
  ASSUME Init
  PROVE  RelayInv /\ Abstract!ChanInit
  <1>1. RelayInv BY InitRelay
  <1>2. TypeOK BY <1>1 DEF RelayInv, ILinkInv
  <1>3. /\ ws = <<>> /\ lk_w = 0 /\ inst = "HDR" /\ inj = NoFlit /\ cross = <<>>
        /\ obst = "IDLE" /\ ob_wr_req = FALSE /\ door_req = FALSE /\ ef = <<>>
        /\ landed = 0 /\ dbell_n = 0 /\ injected = [s \in Sender |-> 0]
    BY DEF Init
  <1>4. <<>> \in Seq(Nat) /\ Cat(<<>>, <<>>) = <<>>
    <2>1. <<>> \in Seq(Nat) BY OneNumber
    <2> QED BY <2>1, CatType
  <1>5. ASSUME NEW st \in Stream PROVE InFlight[st] = <<>> /\ Arrived[st] = 0
    <2>1. st = "WR" \/ st = "DOOR" \/ st \in Unit BY DEF Stream, Unit
    <2>2. Arriving(st) = <<>>
      <3>1. CASE st = "WR"
        <4>1. ws \o Held(lk_w) = <<>> BY <1>3 DEF Held
        <4> QED BY <3>1, <4>1 DEF Arriving
      <3>2. CASE st = "DOOR" BY <1>3, <3>2 DEF Arriving
      <3>3. CASE st \in Unit
        <4>1. NoFlit.src # st BY <3>3, ILinkAssumption DEF NoFlit, Unit
        <4>2. FlitOf(st, inj) = <<>> BY <1>3, <4>1 DEF FlitOf
        <4> QED BY <3>3, <4>2, FlitsAre
      <3> QED BY <2>1, <3>1, <3>2, <3>3
    <2>3. Carried(st, cross) = <<>>
      <3>1. LineTypes BY <1>1, RelayParts
      <3>2. /\ Carried(st, cross) = Picked(Loads(cross), Marks(st, cross))
            /\ Marks(st, cross) \in SUBSET (1 .. Len(cross)) /\ Len(cross) = 0
        BY <1>3, <3>1, CarriedType DEF LineTypes
      <3>3. Marks(st, cross) = {} BY <3>2
      <3>4. Picked(Loads(cross), {}) = <<>>
        <4>1. Loads(cross) \in Seq(Nat) BY <3>1, CarriedType DEF LineTypes
        <4> QED BY <4>1, PickedNone
      <3> QED BY <3>2, <3>3, <3>4, Zenon
    <2>4. Leaving(st) = <<>> BY <1>3 DEF Leaving
    <2>5. Asking(st) = <<>>
      <3>1. CASE st = "WR" \/ st = "DOOR" BY <1>3, <3>1 DEF Asking
      <3>2. CASE st \in Unit
        <4>1. EncTypes BY <1>1, RelayParts
        <4>2. /\ FlitsOf(st, ef) = Picked(FlitNs(ef), From(st, ef))
              /\ From(st, ef) \in SUBSET (1 .. Len(ef)) /\ Len(ef) = 0
          BY <1>3, <4>1, FlitsType DEF EncTypes
        <4>3. From(st, ef) = {} BY <4>2
        <4>4. Picked(FlitNs(ef), {}) = <<>>
          <5>1. FlitNs(ef) \in Seq(Nat) BY <4>1, FlitsType DEF EncTypes
          <5> QED BY <5>1, PickedNone
        <4>5. FlitsOf(st, ef) = <<>> BY <4>2, <4>3, <4>4, Zenon
        <4> QED BY <3>2, <4>5, FlitsAre
      <3> QED BY <2>1, <3>1, <3>2
    <2>6. Chan(st) = <<>> BY <1>4, <2>2, <2>3, <2>4, <2>5, Zenon DEF Chan, Four
    <2>7. Got(st) = 0 BY <1>3, <2>1 DEF Got, Unit
    <2> QED BY <2>6, <2>7, ChanIs, ArrivedIs
  <1>6. InFlight = [st \in Stream |-> <<>>]
    <2>1. InFlight = [st \in Stream |-> InFlight[st]] BY DEF InFlight
    <2> QED BY <1>5, <2>1
  <1>7. Arrived = [st \in Stream |-> 0]
    <2>1. Arrived = [st \in Stream |-> Arrived[st]] BY DEF Arrived
    <2> QED BY <1>5, <2>1
  <1> QED BY <1>1, <1>6, <1>7 DEF Abstract!ChanInit

(* What one mesh sends the other is a channel for every stream: no write,  *)
(* doorbell or flit is lost, repeated or overtaken by one of its own       *)
(* stream, from where it is taken in to the memory or the NoC it enters,   *)
(* for every number of ports and senders, every length of burst and packet *)
(* and every depth of the crossing.                                        *)
THEOREM LinkEndIsChannel == Spec => ImplementsChannel
  <1>1. Init => RelayInv /\ Abstract!ChanInit BY InitIsChannelInit
  <1>2. RelayInv /\ [Next]_vars => RelayInv' /\ Abstract!ChanNext BY StepIsChannelStep
  <1> QED BY <1>1, <1>2, PTL DEF Spec, ImplementsChannel, Abstract!Channel

=============================================================================
