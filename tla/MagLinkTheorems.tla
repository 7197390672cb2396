--------------------------- MODULE MagLinkTheorems ---------------------------
(***************************************************************************)
(* Safety of the interlink for every buffer size, batch size, packet       *)
(* length, pipe depth and traffic: the inductive invariant IInv of MagLink *)
(* and what follows from it.  One lemma per action shows that it keeps     *)
(* IInv: the types, the credit sum of each class, and the framing.         *)
(***************************************************************************)
EXTENDS MagLink, TotalsTheorems

-----------------------------------------------------------------------------
(***************************************************************************)
(* What sending and decoding a beat does to the totals of a wire.          *)
(***************************************************************************)

(* A beat weighs one unit of space or the credit it returns.               *)
LEMMA WeightTypes ==
  ASSUME NEW b \in Beat, NEW c
  PROVE  BeatWt(b, c) \in Nat /\ CreditWt(b, c) \in Nat
<1>1. b.user \in Hdr
  BY DEF Beat
<1>2. b.user.txn \in Nat
  BY <1>1 DEF Hdr
<1> QED
  BY <1>2 DEF BeatWt, CreditWt

(* The weights of a sequence of beats are numbers, so their totals are.    *)
LEMMA WireTotals ==
  ASSUME NEW w \in Seq(Beat), NEW c \in Class
  PROVE  Beats(w, c) \in Nat /\ Credits(w, c) \in Nat
<1>1. [i \in DOMAIN w |-> BeatWt(w[i], c)] \in Seq(Nat)
  BY DEF BeatWt
<1>2. \A i \in DOMAIN w : CreditWt(w[i], c) \in Nat
  BY WeightTypes
<1>3. [i \in DOMAIN w |-> CreditWt(w[i], c)] \in Seq(Nat)
  BY <1>2
<1> QED
  BY <1>1, <1>3, TotalType DEF Beats, Credits

(* A beat sent adds its weight to the wire.                                *)
LEMMA WireAppend ==
  ASSUME NEW w \in Seq(Beat), NEW b \in Beat, NEW c \in Class
  PROVE  /\ Beats(Append(w, b), c) = Beats(w, c) + BeatWt(b, c)
         /\ Credits(Append(w, b), c) = Credits(w, c) + CreditWt(b, c)
<1> DEFINE bw == [i \in DOMAIN w |-> BeatWt(w[i], c)]
           cw == [i \in DOMAIN w |-> CreditWt(w[i], c)]
           a == Append(w, b)
<1>1. bw \in Seq(Nat) /\ BeatWt(b, c) \in Nat
  BY DEF BeatWt
<1>2. cw \in Seq(Nat) /\ CreditWt(b, c) \in Nat
  <2>1. \A i \in DOMAIN w : CreditWt(w[i], c) \in Nat
    BY WeightTypes
  <2> QED
    BY <2>1, WeightTypes
<1>3. [i \in DOMAIN a |-> BeatWt(a[i], c)] = Append(bw, BeatWt(b, c))
  OBVIOUS
<1>4. [i \in DOMAIN a |-> CreditWt(a[i], c)] = Append(cw, CreditWt(b, c))
  OBVIOUS
<1> HIDE DEF bw, cw, a
<1>5. Total(Append(bw, BeatWt(b, c))) = Total(bw) + BeatWt(b, c)
  BY <1>1, TotalAppend
<1>6. Total(Append(cw, CreditWt(b, c))) = Total(cw) + CreditWt(b, c)
  BY <1>2, TotalAppend
<1> QED
  BY <1>3, <1>4, <1>5, <1>6 DEF Beats, Credits, bw, cw, a

(* A beat decoded takes its weight off the wire.                           *)
LEMMA WireTail ==
  ASSUME NEW w \in Seq(Beat), w # <<>>, NEW c \in Class
  PROVE  /\ Beats(w, c) = BeatWt(Head(w), c) + Beats(Tail(w), c)
         /\ Credits(w, c) = CreditWt(Head(w), c) + Credits(Tail(w), c)
<1> DEFINE bw == [i \in DOMAIN w |-> BeatWt(w[i], c)]
           cw == [i \in DOMAIN w |-> CreditWt(w[i], c)]
           t == Tail(w)
<1>1. bw \in Seq(Nat) /\ bw # <<>> /\ bw[1] = BeatWt(Head(w), c)
  BY DEF BeatWt
<1>2. cw \in Seq(Nat) /\ cw # <<>> /\ cw[1] = CreditWt(Head(w), c)
  <2>1. \A i \in DOMAIN w : CreditWt(w[i], c) \in Nat
    BY WeightTypes
  <2> QED
    BY <2>1
<1>3. [i \in DOMAIN t |-> BeatWt(t[i], c)] = Tail(bw)
  OBVIOUS
<1>4. [i \in DOMAIN t |-> CreditWt(t[i], c)] = Tail(cw)
  OBVIOUS
<1> HIDE DEF bw, cw, t
<1>5. Total(bw) = bw[1] + Total(Tail(bw))
  BY <1>1, TotalTail
<1>6. Total(cw) = cw[1] + Total(Tail(cw))
  BY <1>2, TotalTail
<1> QED
  BY <1>1, <1>2, <1>3, <1>4, <1>5, <1>6 DEF Beats, Credits, bw, cw, t

-----------------------------------------------------------------------------
(* The peer of an end is the other end.                                    *)
LEMMA PeerProperties ==
  \A e \in End : Peer(e) \in End /\ Peer(e) # e /\ Peer(Peer(e)) = e
BY DEF End, Peer

(* The six places of a unit of credit hold natural numbers.                *)
LEMMA SpaceTypes ==
  ASSUME TypeOK, NEW e \in End, NEW c \in Class
  PROVE  /\ cred[e][c] \in Nat /\ Reserved(e, c) \in Nat
         /\ Beats(wire[e], c) \in Nat /\ Credits(wire[e], c) \in Nat
         /\ Len(dfifo[e][c]) \in Nat /\ ret[e][c] \in Nat
<1>1. wire[e] \in Seq(Beat)
  BY DEF TypeOK, RxType
<1>2. cred[e][c] \in Nat /\ ret[e][c] \in Nat
  BY LinkAssumption DEF TypeOK, CreditType
<1>3. Len(dfifo[e][c]) \in Nat
  BY LenProperties DEF TypeOK, FifoType
<1>4. Reserved(e, c) \in Nat
  BY DEF Reserved, TypeOK, TxType
<1> QED
  BY <1>1, <1>2, <1>3, <1>4, WireTotals

(* One entry of a per-class register changes, the others do not.           *)
LEMMA ExceptClass ==
  ASSUME NEW S, NEW f \in [End -> [Class -> S]],
         NEW e \in End, NEW c \in Class, NEW v \in S
  PROVE  /\ [f EXCEPT ![e][c] = v] \in [End -> [Class -> S]]
         /\ \A d \in End, k \in Class :
              [f EXCEPT ![e][c] = v][d][k] = IF d = e /\ k = c THEN v ELSE f[d][k]
OBVIOUS

(* The reset state: all credit at the sender, nothing in flight.           *)
LEMMA InitIInv == Init => IInv
<1> SUFFICES ASSUME Init PROVE IInv
  OBVIOUS
<1>1. TypeOK
  <2> USE LinkAssumption DEF Init, PerClass
  <2>1. ZeroHdr \in Hdr
    BY DEF ZeroHdr, Hdr, Kind, Mesh, BeyondMesh, Class
  <2>2. TxType
    BY <2>1 DEF TxType, Class
  <2>3. CreditType /\ RxType /\ FifoType
    BY DEF CreditType, RxType, FifoType, Class
  <2>4. EnvType
    BY DEF EnvType, NoPkt
  <2> QED
    BY <2>2, <2>3, <2>4 DEF TypeOK
<1>2. ASSUME NEW e \in End, NEW c \in Class PROVE Space(e, c) = RX_BEATS
  <2>1. Beats(<<>>, c) = 0 /\ Credits(<<>>, c) = 0
    <3>1. [i \in DOMAIN <<>> |-> BeatWt(<<>>[i], c)] = <<>>
      OBVIOUS
    <3>2. [i \in DOMAIN <<>> |-> CreditWt(<<>>[i], c)] = <<>>
      OBVIOUS
    <3> QED
      BY <3>1, <3>2, TotalEmpty DEF Beats, Credits
  <2>2. Peer(e) \in End
    BY PeerProperties
  <2>3. /\ cred[e][c] = RX_BEATS /\ Reserved(e, c) = 0
        /\ wire[e] = <<>> /\ wire[Peer(e)] = <<>>
        /\ Len(dfifo[Peer(e)][c]) = 0 /\ ret[Peer(e)][c] = 0
    BY <2>2 DEF Init, PerClass, Reserved
  <2> QED
    BY <2>1, <2>3, LinkAssumption DEF Space
<1>3. WireFramed
  <2> SUFFICES ASSUME NEW e \in End PROVE TxFramed(e)
    BY DEF Init, WireFramed
  <2> QED
    BY PeerProperties DEF Init, PerClass, TxFramed, Valid, ZeroHdr, StartsAt
<1> QED
  BY <1>1, <1>2, <1>3 DEF IInv, CreditConserved

-----------------------------------------------------------------------------
(***************************************************************************)
(* The actions.                                                            *)
(***************************************************************************)

(* A header entering its slot: no credit moves.                            *)
LEMMA OfferHeaderKeeps ==
  ASSUME IInv, NEW e \in End, NEW c \in Class, OfferHeader(e, c)
  PROVE  IInv'
<1>1. TypeOK /\ CreditConserved /\ WireFramed
  BY DEF IInv
<1>2. PICK len \in Lens[c] :
        q' = [q EXCEPT ![e][c] =
                [kind |-> "PKT", dmesh |-> IF c = 0 THEN Peer(e) ELSE BeyondMesh,
                 txn |-> offered[e][c] + 1, len |-> len, addr |-> 0]]
  BY DEF OfferHeader
<1>3. /\ offered[e][c] < MaxPkts
      /\ offered' = [offered EXCEPT ![e][c] = @ + 1]
      /\ UNCHANGED <<tst, tsel, tleft, thdr, thdr_first, csel, csend, cred, ret,
                     r_first, cur_is_cred, cur_cls, hfifo, dfifo, open, taken,
                     wire, fault_len>>
  BY DEF OfferHeader, credVars, rxVars
<1> DEFINE h == [kind |-> "PKT", dmesh |-> IF c = 0 THEN Peer(e) ELSE BeyondMesh,
                 txn |-> offered[e][c] + 1, len |-> len, addr |-> 0]
<1>4. h \in Hdr /\ Classed(e, h, c)
  <2>1. len \in Nat
    BY LinkAssumption
  <2>2. offered[e][c] \in 0 .. MaxPkts
    BY <1>1 DEF TypeOK, EnvType
  <2> QED
    BY <2>1, <2>2, LinkAssumption
       DEF Hdr, Kind, Mesh, BeyondMesh, End, Class, Peer, Classed
<1>5. q' = [q EXCEPT ![e][c] = h]
  BY <1>2
<1> HIDE DEF h
<1>6. q \in [End -> [Class -> Hdr]]
  BY <1>1 DEF TypeOK, TxType
<1>7. /\ q' \in [End -> [Class -> Hdr]]
      /\ \A d \in End, k \in Class :
           q'[d][k] = IF d = e /\ k = c THEN h ELSE q[d][k]
  BY <1>4, <1>5, <1>6, ExceptClass
<1>8. TypeOK'
  <2>1. TxType' /\ CreditType' /\ RxType' /\ FifoType'
    BY <1>1, <1>3, <1>7 DEF TypeOK, TxType, CreditType, RxType, FifoType
  <2>2. EnvType'
    BY <1>1, <1>3, LinkAssumption DEF TypeOK, EnvType
  <2> QED
    BY <2>1, <2>2 DEF TypeOK
<1>9. CreditConserved'
  BY <1>1, <1>3 DEF CreditConserved, Space, Reserved
<1>10. WireFramed'
  <2> SUFFICES ASSUME NEW f \in End
               PROVE  TxFramed(f)' /\ \A i \in DOMAIN wire[f]' : BeatFramed(f, i)'
    BY DEF WireFramed
  <2>1. \A i \in DOMAIN wire[f]' : BeatFramed(f, i)'
    BY <1>1, <1>3
       DEF WireFramed, BeatFramed, StartsAt, ClsAt, CredAt, Classed
  <2>2. \A k \in Class : Valid(f, k)' => Classed(f, q[f][k], k)'
    BY <1>1, <1>4, <1>7 DEF WireFramed, TxFramed, Valid, Classed
  <2> QED
    BY <1>1, <1>3, <2>1, <2>2
       DEF WireFramed, TxFramed, StartsAt, ClsAt, CredAt, Classed
<1> QED
  BY <1>8, <1>9, <1>10 DEF IInv

(* Choosing to return credit: the count is latched, and is at most what is *)
(* owed to the class it will be returned to.                               *)
LEMMA StartCreditKeeps ==
  ASSUME IInv, NEW e \in End, StartCredit(e)
  PROVE  IInv'
<1>1. TypeOK /\ CreditConserved /\ WireFramed
  BY DEF IInv
<1>2. /\ tst[e] = "IDLE"
      /\ csel'  = [csel EXCEPT ![e] = CredSel(e)]
      /\ csend' = [csend EXCEPT ![e] = RetCap(ret[e][CredSel(e)])]
      /\ tst'   = [tst EXCEPT ![e] = "CRED"]
      /\ UNCHANGED <<q, tsel, tleft, thdr, thdr_first, cred, ret, r_first,
                     cur_is_cred, cur_cls, hfifo, dfifo, offered, open, taken,
                     wire, fault_len>>
  BY DEF StartCredit, CredGo, credVars, rxVars, envVars
<1>3. CredSel(e) \in Class
  BY DEF CredSel, Class
<1>4. /\ RetCap(ret[e][CredSel(e)]) \in 0 .. TXN_MAX
      /\ RetCap(ret[e][CredSel(e)]) <= ret[e][CredSel(e)]
  <2>1. ret[e][CredSel(e)] \in Nat
    BY <1>1, <1>3, SpaceTypes
  <2> QED
    BY <2>1, LinkAssumption DEF RetCap
<1>5. TypeOK'
  <2>1. TxType'
    BY <1>1, <1>2, <1>3, <1>4 DEF TypeOK, TxType
  <2>2. CreditType' /\ RxType' /\ FifoType' /\ EnvType'
    BY <1>1, <1>2 DEF TypeOK, CreditType, RxType, FifoType, EnvType
  <2> QED
    BY <2>1, <2>2 DEF TypeOK
<1>6. CreditConserved'
  <2>1. \A f \in End, c \in Class : Reserved(f, c)' = Reserved(f, c)
    BY <1>1, <1>2 DEF TypeOK, TxType, Reserved
  <2> QED
    BY <1>1, <1>2, <2>1 DEF CreditConserved, Space
<1>7. WireFramed'
  <2> SUFFICES ASSUME NEW f \in End
               PROVE  TxFramed(f)' /\ \A i \in DOMAIN wire[f]' : BeatFramed(f, i)'
    BY DEF WireFramed
  <2>1. \A i \in DOMAIN wire[f]' : BeatFramed(f, i)'
    BY <1>1, <1>2
       DEF WireFramed, BeatFramed, StartsAt, ClsAt, CredAt, Classed
  <2>2. f # e => TxFramed(f)'
    BY <1>1, <1>2
       DEF WireFramed, TxFramed, StartsAt, ClsAt, CredAt, Classed, Valid,
           TypeOK, TxType
  <2>3. TxFramed(e)'
    BY <1>1, <1>2, <1>3, <1>4
       DEF WireFramed, TxFramed, StartsAt, ClsAt, CredAt, Classed, Valid,
           TypeOK, TxType
  <2> QED
    BY <2>1, <2>2, <2>3
<1> QED
  BY <1>5, <1>6, <1>7 DEF IInv

(* Granting a packet: its credit becomes space reserved at the peer.       *)
LEMMA GrantKeeps ==
  ASSUME IInv, NEW e \in End, NEW c \in Class, Grant(e, c)
  PROVE  IInv'
<1>1. TypeOK /\ CreditConserved /\ WireFramed
  BY DEF IInv
<1>2. /\ tst[e] = "IDLE" /\ TxCan(e, c)
      /\ q'     = [q EXCEPT ![e][c] = ZeroHdr]
      /\ cred'  = [cred EXCEPT ![e][c] = cred[e][c] - Need(e, c)]
      /\ thdr'  = [thdr EXCEPT ![e] = q[e][c]]
      /\ tsel'  = [tsel EXCEPT ![e] = c]
      /\ tleft' = [tleft EXCEPT ![e] = Need(e, c)]
      /\ thdr_first' = [thdr_first EXCEPT ![e] = TRUE]
      /\ tst'   = [tst EXCEPT ![e] = "DATA"]
      /\ UNCHANGED <<csel, csend, ret, r_first, cur_is_cred, cur_cls, hfifo,
                     dfifo, offered, open, taken, wire, fault_len>>
  BY DEF Grant, rxVars, envVars
<1>3. q[e][c] \in Hdr /\ q \in [End -> [Class -> Hdr]]
  BY <1>1 DEF TypeOK, TxType
<1>4. ZeroHdr \in Hdr
  BY DEF ZeroHdr, Hdr, Kind, Mesh, BeyondMesh, Class
<1>5. /\ q' \in [End -> [Class -> Hdr]]
      /\ \A d \in End, k \in Class :
           q'[d][k] = IF d = e /\ k = c THEN ZeroHdr ELSE q[d][k]
  BY <1>2, <1>3, <1>4, ExceptClass
<1>6. Need(e, c) \in Nat /\ Need(e, c) >= 1
  BY <1>3 DEF Need, Hdr
<1>7. cred \in [End -> [Class -> 0 .. RX_BEATS]]
  BY <1>1 DEF TypeOK, CreditType
<1>8. cred[e][c] - Need(e, c) \in 0 .. RX_BEATS
  BY <1>2, <1>6, <1>7, LinkAssumption DEF TxCan
<1>9. /\ cred' \in [End -> [Class -> 0 .. RX_BEATS]]
      /\ \A d \in End, k \in Class :
           cred'[d][k] = IF d = e /\ k = c THEN cred[e][c] - Need(e, c)
                         ELSE cred[d][k]
  BY <1>2, <1>7, <1>8, ExceptClass
<1>10. TypeOK'
  <2>1. TxType'
    BY <1>1, <1>2, <1>3, <1>5, <1>6 DEF TypeOK, TxType
  <2>2. CreditType'
    BY <1>1, <1>2, <1>9 DEF TypeOK, CreditType
  <2>3. RxType' /\ FifoType' /\ EnvType'
    BY <1>1, <1>2 DEF TypeOK, RxType, FifoType, EnvType
  <2> QED
    BY <2>1, <2>2, <2>3 DEF TypeOK
<1>11. CreditConserved'
  <2> SUFFICES ASSUME NEW f \in End, NEW k \in Class
               PROVE  Space(f, k)' = RX_BEATS
    BY DEF CreditConserved
  <2>1. Space(f, k) = RX_BEATS
    BY <1>1 DEF CreditConserved
  <2>2. /\ cred[f][k] \in Nat /\ Beats(wire[f], k) \in Nat
        /\ Len(dfifo[Peer(f)][k]) \in Nat /\ ret[Peer(f)][k] \in Nat
        /\ Credits(wire[Peer(f)], k) \in Nat
    BY <1>1, SpaceTypes, PeerProperties
  <2>3. CASE f = e /\ k = c
    <3>1. Reserved(f, k) = 0 /\ Reserved(f, k)' = Need(e, c)
      BY <1>1, <1>2, <2>3 DEF Reserved, TypeOK, TxType
    <3>2. cred'[f][k] = cred[f][k] - Need(e, c)
      BY <1>9, <2>3
    <3> QED
      BY <1>2, <1>6, <2>1, <2>2, <3>1, <3>2 DEF Space
  <2>4. CASE ~(f = e /\ k = c)
    <3>1. Reserved(f, k)' = Reserved(f, k)
      BY <1>1, <1>2, <2>4 DEF Reserved, TypeOK, TxType
    <3>2. cred'[f][k] = cred[f][k]
      BY <1>9, <2>4
    <3> QED
      BY <1>2, <2>1, <3>1, <3>2 DEF Space
  <2> QED
    BY <2>3, <2>4
<1>12. WireFramed'
  <2> SUFFICES ASSUME NEW f \in End
               PROVE  TxFramed(f)' /\ \A i \in DOMAIN wire[f]' : BeatFramed(f, i)'
    BY DEF WireFramed
  <2>1. \A i \in DOMAIN wire[f]' : BeatFramed(f, i)'
    BY <1>1, <1>2, SMTT(40)
       DEF WireFramed, BeatFramed, StartsAt, ClsAt, CredAt, Classed
  <2>2. \A k \in Class : Valid(f, k)' => Classed(f, q[f][k], k)'
    BY <1>1, <1>5 DEF WireFramed, TxFramed, Valid, Classed, ZeroHdr
  <2>3. f # e => TxFramed(f)'
    BY <1>1, <1>2, <2>2
       DEF WireFramed, TxFramed, StartsAt, ClsAt, CredAt, Classed,
           TypeOK, TxType
  <2>4. Classed(e, q[e][c], c)
    BY <1>1, <1>2 DEF WireFramed, TxFramed, TxCan
  <2>5. f = e => TxFramed(f)'
    BY <1>1, <1>2, <1>6, <2>2, <2>4
       DEF WireFramed, TxFramed, StartsAt, Classed, TypeOK, TxType
  <2> QED
    BY <2>1, <2>3, <2>5
<1> QED
  BY <1>10, <1>11, <1>12 DEF IInv

(***************************************************************************)
(* Framing.  NextAt(e): where the sender e leaves its wire for its next beat.*)
(***************************************************************************)
NextAt(e) == Len(wire[e]) + 1

(* Framing is a matter of one wire and of the receiver's three registers.  *)
LEMMA SameWire ==
  ASSUME NEW f \in End, wire'[f] = wire[f],
         r_first'[Peer(f)] = r_first[Peer(f)],
         cur_is_cred'[Peer(f)] = cur_is_cred[Peer(f)],
         cur_cls'[Peer(f)] = cur_cls[Peer(f)],
         \A i \in DOMAIN wire[f] : BeatFramed(f, i)
  PROVE  /\ \A i \in DOMAIN wire'[f] : BeatFramed(f, i)'
         /\ NextAt(f)' = NextAt(f)
         /\ StartsAt(f, NextAt(f))' = StartsAt(f, NextAt(f))
         /\ ClsAt(f, NextAt(f))' = ClsAt(f, NextAt(f))
         /\ CredAt(f, NextAt(f))' = CredAt(f, NextAt(f))
BY DEF BeatFramed, StartsAt, ClsAt, CredAt, Classed, NextAt

(* What a beat must be to follow those already on the wire of e.           *)
Follows(e, b) ==
  IF StartsAt(e, NextAt(e))
  THEN \/ b.user.kind = "CREDIT" /\ b.last
       \/ Classed(e, b.user, b.data.cls)
  ELSE /\ b.user = ZeroHdr
       /\ ~CredAt(e, NextAt(e))
       /\ b.data.cls = ClsAt(e, NextAt(e))

(* Sending a beat that follows keeps the wires framed.                     *)
LEMMA SendFramed ==
  ASSUME TypeOK, WireFramed, NEW e \in End, NEW b \in Beat, Follows(e, b),
         wire' = [wire EXCEPT ![e] = Append(wire[e], b)],
         UNCHANGED <<r_first, cur_is_cred, cur_cls>>
  PROVE  /\ wire' \in [End -> Seq(Beat)]
         /\ wire'[e] = Append(wire[e], b)
         /\ \A f \in End : f # e => wire'[f] = wire[f]
         /\ \A f \in End : \A i \in DOMAIN wire'[f] : BeatFramed(f, i)'
         /\ StartsAt(e, NextAt(e))' = b.last
         /\ ClsAt(e, NextAt(e))' = b.data.cls
         /\ CredAt(e, NextAt(e))' = (b.user.kind = "CREDIT")
<1>1. wire \in [End -> Seq(Beat)]
  BY DEF TypeOK, RxType
<1>2. /\ wire' \in [End -> Seq(Beat)]
      /\ wire'[e] = Append(wire[e], b)
      /\ \A f \in End : f # e => wire'[f] = wire[f]
  BY <1>1
<1> DEFINE w == wire[e]
           n == NextAt(e)
<1>3. /\ w \in Seq(Beat) /\ Len(w) \in Nat
      /\ DOMAIN wire'[e] = (DOMAIN w) \cup {n}
      /\ wire'[e][n] = b /\ Len(wire'[e]) = n
      /\ n \in Nat /\ n >= 1
      /\ \A i \in DOMAIN w : wire'[e][i] = w[i] /\ i \in 1 .. n
      /\ \A i \in 1 .. n : i # 1 => i - 1 \in DOMAIN w
  BY <1>1, <1>2 DEF NextAt
<1>4. \A i \in 1 .. n : /\ StartsAt(e, i)' = StartsAt(e, i)
                        /\ ClsAt(e, i)' = ClsAt(e, i)
                        /\ CredAt(e, i)' = CredAt(e, i)
  <2> SUFFICES ASSUME NEW i \in 1 .. n
               PROVE  /\ StartsAt(e, i)' = StartsAt(e, i)
                      /\ ClsAt(e, i)' = ClsAt(e, i)
                      /\ CredAt(e, i)' = CredAt(e, i)
    OBVIOUS
  <2>1. CASE i = 1
    BY <2>1 DEF StartsAt, ClsAt, CredAt
  <2>2. CASE i # 1
    <3>1. wire'[e][i - 1] = wire[e][i - 1]
      BY <1>3, <2>2
    <3>2. /\ StartsAt(e, i) = wire[e][i - 1].last
          /\ ClsAt(e, i) = wire[e][i - 1].data.cls
          /\ CredAt(e, i) = (wire[e][i - 1].user.kind = "CREDIT")
      BY <2>2, Zenon DEF StartsAt, ClsAt, CredAt
    <3>3. /\ StartsAt(e, i)' = wire'[e][i - 1].last
          /\ ClsAt(e, i)' = wire'[e][i - 1].data.cls
          /\ CredAt(e, i)' = (wire'[e][i - 1].user.kind = "CREDIT")
      BY <2>2, Zenon DEF StartsAt, ClsAt, CredAt
    <3> QED
      BY <3>1, <3>2, <3>3, Zenon
  <2> QED
    BY <2>1, <2>2
<1>5. \A i \in DOMAIN w : BeatFramed(e, i)'
  <2> SUFFICES ASSUME NEW i \in DOMAIN w PROVE BeatFramed(e, i)'
    OBVIOUS
  <2>1. BeatFramed(e, i)
    BY DEF WireFramed
  <2>2. i \in 1 .. n /\ wire'[e][i] = w[i]
    BY <1>3
  <2> QED
    BY <1>4, <2>1, <2>2 DEF BeatFramed, Classed
<1>6. ASSUME NEW i, i = n PROVE BeatFramed(e, i)'
  <2>1. n \in 1 .. n
    BY <1>3
  <2>2. /\ StartsAt(e, i)' = StartsAt(e, n)
        /\ ClsAt(e, i)' = ClsAt(e, n)
        /\ CredAt(e, i)' = CredAt(e, n)
    BY <1>4, <1>6, <2>1
  <2>3. wire'[e][i] = b
    BY <1>3, <1>6
  <2> QED
    BY <2>2, <2>3 DEF BeatFramed, Follows, Classed, n
<1>7. \A f \in End : \A i \in DOMAIN wire'[f] : BeatFramed(f, i)'
  <2> SUFFICES ASSUME NEW f \in End
               PROVE  \A i \in DOMAIN wire'[f] : BeatFramed(f, i)'
    OBVIOUS
  <2>1. CASE f = e
    BY <1>3, <1>5, <1>6, <2>1
  <2>2. CASE f # e
    BY <1>2, <2>2, SameWire DEF WireFramed
  <2> QED
    BY <2>1, <2>2
<1>8. NextAt(e)' # 1 /\ NextAt(e)' - 1 = n
  BY <1>3 DEF NextAt
<1>9. /\ StartsAt(e, NextAt(e))' = b.last
      /\ ClsAt(e, NextAt(e))' = b.data.cls
      /\ CredAt(e, NextAt(e))' = (b.user.kind = "CREDIT")
  BY <1>3, <1>8 DEF StartsAt, ClsAt, CredAt
<1> QED
  BY <1>2, <1>7, <1>9

(* An end whose transmitter is left alone and whose wire is not sent on    *)
(* stays framed, as long as what it owes does not shrink.                  *)
LEMMA SameTx ==
  ASSUME WireFramed, NEW f \in End,
         wire'[f] = wire[f],
         r_first'[Peer(f)] = r_first[Peer(f)],
         cur_is_cred'[Peer(f)] = cur_is_cred[Peer(f)],
         cur_cls'[Peer(f)] = cur_cls[Peer(f)],
         q'[f] = q[f], tst'[f] = tst[f], tsel'[f] = tsel[f],
         tleft'[f] = tleft[f], thdr'[f] = thdr[f],
         thdr_first'[f] = thdr_first[f], csel'[f] = csel[f],
         csend'[f] = csend[f], ret'[f] = ret[f]
  PROVE  TxFramed(f)'
<1>1. TxFramed(f) /\ \A i \in DOMAIN wire[f] : BeatFramed(f, i)
  BY DEF WireFramed
<1>2. /\ StartsAt(f, NextAt(f))' = StartsAt(f, NextAt(f))
      /\ ClsAt(f, NextAt(f))' = ClsAt(f, NextAt(f))
      /\ CredAt(f, NextAt(f))' = CredAt(f, NextAt(f))
  BY <1>1, SameWire
<1> QED
  BY <1>1, <1>2 DEF TxFramed, NextAt, Valid, Classed

-----------------------------------------------------------------------------
(* A credit packet leaves: what it carries is no longer owed here.         *)
LEMMA SendCreditKeeps ==
  ASSUME IInv, NEW e \in End, SendCredit(e)
  PROVE  IInv'
<1>1. TypeOK /\ CreditConserved /\ WireFramed
  BY DEF IInv
<1> DEFINE b == CreditBeat(e)
           k0 == csel[e]
<1>2. /\ tst[e] = "CRED"
      /\ wire' = [wire EXCEPT ![e] = Append(wire[e], b)]
      /\ ret'  = [ret EXCEPT ![e][k0] = ret[e][k0] - csend[e]]
      /\ tst'  = [tst EXCEPT ![e] = "IDLE"]
      /\ UNCHANGED <<q, tsel, tleft, thdr, thdr_first, csel, csend, cred,
                     r_first, cur_is_cred, cur_cls, hfifo, dfifo, offered,
                     open, taken, fault_len>>
  BY DEF SendCredit, rxVars, envVars
<1>3. k0 \in Class /\ csend[e] \in Nat /\ csend[e] <= ret[e][k0]
  BY <1>1, <1>2, LinkAssumption DEF TypeOK, TxType, WireFramed, TxFramed
<1>4. b \in Beat
  BY <1>3, PeerProperties
     DEF CreditBeat, Beat, Hdr, Kind, Mesh, BeyondMesh, Class, Data, End
<1>5. /\ b.user.kind = "CREDIT" /\ b.last
      /\ \A k \in Class : /\ BeatWt(b, k) = 0
                          /\ CreditWt(b, k) = IF k = k0 THEN csend[e] ELSE 0
  BY DEF CreditBeat, BeatWt, CreditWt
<1>6. Follows(e, b)
  <2>1. StartsAt(e, NextAt(e))
    BY <1>1, <1>2 DEF WireFramed, TxFramed, NextAt
  <2> QED
    BY <1>5, <2>1 DEF Follows
<1> HIDE DEF b, k0
<1>7. /\ wire' \in [End -> Seq(Beat)]
      /\ wire'[e] = Append(wire[e], b)
      /\ \A f \in End : f # e => wire'[f] = wire[f]
      /\ \A f \in End : \A i \in DOMAIN wire'[f] : BeatFramed(f, i)'
      /\ StartsAt(e, NextAt(e))' = b.last
  BY <1>1, <1>2, <1>4, <1>6, SendFramed
<1>8. ret \in [End -> [Class -> 0 .. RX_BEATS]]
  BY <1>1 DEF TypeOK, CreditType
<1>9. ret[e][k0] - csend[e] \in 0 .. RX_BEATS
  BY <1>3, <1>8, LinkAssumption
<1>10. /\ ret' \in [End -> [Class -> 0 .. RX_BEATS]]
       /\ \A d \in End, k \in Class :
            ret'[d][k] = IF d = e /\ k = k0 THEN ret[e][k0] - csend[e]
                         ELSE ret[d][k]
  BY <1>2, <1>3, <1>8, <1>9, ExceptClass
<1>11. TypeOK'
  <2>1. TxType'
    BY <1>1, <1>2 DEF TypeOK, TxType
  <2>2. CreditType'
    BY <1>1, <1>2, <1>10 DEF TypeOK, CreditType
  <2>3. RxType'
    BY <1>1, <1>2, <1>7 DEF TypeOK, RxType
  <2>4. FifoType' /\ EnvType'
    BY <1>1, <1>2 DEF TypeOK, FifoType, EnvType
  <2> QED
    BY <2>1, <2>2, <2>3, <2>4 DEF TypeOK
<1>12. CreditConserved'
  <2> SUFFICES ASSUME NEW f \in End, NEW k \in Class
               PROVE  Space(f, k)' = RX_BEATS
    BY DEF CreditConserved
  <2> DEFINE cr == cred[f][k]
             rs == Reserved(f, k)
             bt == Beats(wire[f], k)
             df == Len(dfifo[Peer(f)][k])
             rt == ret[Peer(f)][k]
             ct == Credits(wire[Peer(f)], k)
  <2>1. cr + rs + bt + df + rt + ct = RX_BEATS
    BY <1>1 DEF CreditConserved, Space
  <2>2. /\ cr \in Nat /\ rs \in Nat /\ bt \in Nat
        /\ df \in Nat /\ rt \in Nat /\ ct \in Nat
    BY <1>1, SpaceTypes, PeerProperties
  <2>3. Reserved(f, k)' = Reserved(f, k)
    BY <1>1, <1>2 DEF Reserved, TypeOK, TxType
  <2>4. wire[e] \in Seq(Beat)
    BY <1>1 DEF TypeOK, RxType
  <2> DEFINE x == IF k = k0 THEN csend[e] ELSE 0
  <2>5. /\ Beats(wire'[e], k) = Beats(wire[e], k)
        /\ Credits(wire'[e], k) = Credits(wire[e], k) + x
    <3>1. /\ Beats(wire'[e], k) = Beats(wire[e], k) + BeatWt(b, k)
          /\ Credits(wire'[e], k) = Credits(wire[e], k) + CreditWt(b, k)
      BY <1>4, <1>7, <2>4, WireAppend
    <3>2. Beats(wire[e], k) \in Nat
      BY <2>4, WireTotals
    <3> QED
      BY <1>5, <3>1, <3>2
  <2>6. Beats(wire'[f], k) = Beats(wire[f], k)
    BY <1>7, <2>5
  <2>7. CASE f = Peer(e)
    <3>1. Peer(f) = e
      BY <2>7, PeerProperties
    <3>2. ret'[e][k] = ret[e][k] - x /\ x \in Nat
      BY <1>3, <1>10, <2>2, <3>1
    <3> HIDE DEF x
    <3>3. Space(f, k)' = cr + rs + bt + df + (rt - x) + (ct + x)
      BY <1>2, <2>3, <2>5, <2>6, <3>1, <3>2 DEF Space
    <3> HIDE DEF cr, rs, bt, df, rt, ct
    <3> QED
      BY <2>1, <2>2, <3>2, <3>3
  <2>8. CASE f # Peer(e)
    <3>1. Peer(f) # e /\ Peer(f) \in End
      BY <2>8, PeerProperties
    <3>2. ret'[Peer(f)][k] = ret[Peer(f)][k] /\ wire'[Peer(f)] = wire[Peer(f)]
      BY <1>7, <1>10, <3>1
    <3> QED
      BY <1>2, <2>1, <2>3, <2>6, <3>2 DEF Space
  <2> QED
    BY <2>7, <2>8
<1>13. \A f \in End : TxFramed(f)'
  <2> SUFFICES ASSUME NEW f \in End PROVE TxFramed(f)'
    OBVIOUS
  <2>1. CASE f # e
    <3>1. wire'[f] = wire[f] /\ tst'[f] = tst[f] /\ ret'[f] = ret[f]
      BY <1>1, <1>2, <1>7, <1>8, <2>1 DEF TypeOK, TxType
    <3> QED
      BY <1>1, <1>2, <3>1, SameTx
  <2>2. CASE f = e
    <3>1. tst'[e] = "IDLE" /\ q' = q
      BY <1>1, <1>2 DEF TypeOK, TxType
    <3>2. \A k \in Class : Valid(e, k) => Classed(e, q[e][k], k)
      BY <1>1 DEF WireFramed, TxFramed
    <3> QED
      BY <1>5, <1>7, <2>2, <3>1, <3>2 DEF TxFramed, NextAt, Valid, Classed
  <2> QED
    BY <2>1, <2>2
<1> QED
  BY <1>7, <1>11, <1>12, <1>13 DEF IInv, WireFramed

(* A beat leaves: its space, reserved when granted, is now on the wire.    *)
LEMMA SendBeatKeeps ==
  ASSUME IInv, NEW e \in End, SendBeat(e)
  PROVE  IInv'
<1>1. TypeOK /\ CreditConserved /\ WireFramed
  BY DEF IInv
<1> DEFINE b == DataBeat(e)
<1>2. /\ tst[e] = "DATA"
      /\ wire'  = [wire EXCEPT ![e] = Append(wire[e], b)]
      /\ tleft' = [tleft EXCEPT ![e] = tleft[e] - 1]
      /\ thdr_first' = [thdr_first EXCEPT ![e] = FALSE]
      /\ tst'   = [tst EXCEPT ![e] = IF tleft[e] = 1 THEN "IDLE" ELSE tst[e]]
      /\ UNCHANGED <<q, tsel, thdr, csel, csend, cred, ret, r_first,
                     cur_is_cred, cur_cls, hfifo, dfifo, offered, open, taken,
                     fault_len>>
  BY DEF SendBeat, credVars, rxVars, envVars
<1>3. /\ tsel[e] \in Class /\ thdr[e] \in Hdr
      /\ tleft[e] \in Nat /\ tleft[e] >= 1
      /\ Classed(e, thdr[e], tsel[e])
      /\ thdr_first[e] => StartsAt(e, NextAt(e))
      /\ ~thdr_first[e] => /\ ~StartsAt(e, NextAt(e)) /\ ~CredAt(e, NextAt(e))
                           /\ ClsAt(e, NextAt(e)) = tsel[e]
  BY <1>1, <1>2 DEF TypeOK, TxType, WireFramed, TxFramed, NextAt
<1>4. b \in Beat
  BY <1>3
     DEF DataBeat, Beat, ZeroHdr, Hdr, Kind, Mesh, BeyondMesh, Class, Data
<1>5. /\ b.user.kind # "CREDIT"
      /\ b.last = (tleft[e] = 1) /\ b.data.cls = tsel[e]
      /\ b.user = IF thdr_first[e] THEN thdr[e] ELSE ZeroHdr
  BY <1>3 DEF DataBeat, Classed, ZeroHdr
<1>6. Follows(e, b)
  BY <1>3, <1>5 DEF Follows
<1> HIDE DEF b
<1>7. \A k \in Class : /\ BeatWt(b, k) = IF tsel[e] = k THEN 1 ELSE 0
                       /\ CreditWt(b, k) = 0
  BY <1>5 DEF BeatWt, CreditWt
<1>8. /\ wire' \in [End -> Seq(Beat)]
      /\ wire'[e] = Append(wire[e], b)
      /\ \A f \in End : f # e => wire'[f] = wire[f]
      /\ \A f \in End : \A i \in DOMAIN wire'[f] : BeatFramed(f, i)'
      /\ StartsAt(e, NextAt(e))' = b.last
      /\ ClsAt(e, NextAt(e))' = b.data.cls
      /\ CredAt(e, NextAt(e))' = (b.user.kind = "CREDIT")
  BY <1>1, <1>2, <1>4, <1>6, SendFramed
<1>9. TypeOK'
  <2>1. TxType'
    BY <1>1, <1>2, <1>3 DEF TypeOK, TxType
  <2>2. RxType'
    BY <1>1, <1>2, <1>8 DEF TypeOK, RxType
  <2>3. CreditType' /\ FifoType' /\ EnvType'
    BY <1>1, <1>2 DEF TypeOK, CreditType, FifoType, EnvType
  <2> QED
    BY <2>1, <2>2, <2>3 DEF TypeOK
<1>10. CreditConserved'
  <2> SUFFICES ASSUME NEW f \in End, NEW k \in Class
               PROVE  Space(f, k)' = RX_BEATS
    BY DEF CreditConserved
  <2>1. Space(f, k) = RX_BEATS
    BY <1>1 DEF CreditConserved
  <2>2. /\ cred[f][k] \in Nat /\ Reserved(f, k) \in Nat
        /\ Beats(wire[f], k) \in Nat
        /\ Len(dfifo[Peer(f)][k]) \in Nat /\ ret[Peer(f)][k] \in Nat
        /\ Credits(wire[Peer(f)], k) \in Nat
    BY <1>1, SpaceTypes, PeerProperties
  <2>3. wire[e] \in Seq(Beat)
    BY <1>1 DEF TypeOK, RxType
  <2>4. /\ Beats(wire'[e], k) = Beats(wire[e], k) + BeatWt(b, k)
        /\ Credits(wire'[e], k) = Credits(wire[e], k)
    <3>1. /\ Beats(wire'[e], k) = Beats(wire[e], k) + BeatWt(b, k)
          /\ Credits(wire'[e], k) = Credits(wire[e], k) + CreditWt(b, k)
      BY <1>4, <1>8, <2>3, WireAppend
    <3>2. Credits(wire[e], k) \in Nat
      BY <2>3, WireTotals
    <3> QED
      BY <1>7, <3>1, <3>2
  <2>5. Credits(wire'[Peer(f)], k) = Credits(wire[Peer(f)], k)
    BY <1>8, <2>4, PeerProperties
  <2>6. CASE f = e
    <3> DEFINE x == IF tsel[e] = k THEN 1 ELSE 0
    <3>1. /\ Reserved(e, k)' = Reserved(e, k) - x
          /\ Beats(wire'[e], k) = Beats(wire[e], k) + x
          /\ x \in Nat
      BY <1>1, <1>2, <1>3, <1>7, <2>4 DEF Reserved, TypeOK, TxType
    <3> HIDE DEF x
    <3>2. Space(e, k)' =
            cred[e][k] + (Reserved(e, k) - x) + (Beats(wire[e], k) + x)
              + Len(dfifo[Peer(e)][k]) + ret[Peer(e)][k]
              + Credits(wire[Peer(e)], k)
      BY <1>2, <2>5, <2>6, <3>1 DEF Space
    <3> QED
      BY <2>1, <2>2, <2>6, <3>1, <3>2 DEF Space
  <2>7. CASE f # e
    <3>1. Reserved(f, k)' = Reserved(f, k) /\ wire'[f] = wire[f]
      BY <1>1, <1>2, <1>8, <2>7 DEF Reserved, TypeOK, TxType
    <3> QED
      BY <1>2, <2>1, <2>5, <3>1 DEF Space
  <2> QED
    BY <2>6, <2>7
<1>11. \A f \in End : TxFramed(f)'
  <2> SUFFICES ASSUME NEW f \in End PROVE TxFramed(f)'
    OBVIOUS
  <2>1. CASE f # e
    <3>1. /\ wire'[f] = wire[f] /\ tst'[f] = tst[f] /\ tleft'[f] = tleft[f]
          /\ thdr_first'[f] = thdr_first[f]
      BY <1>1, <1>2, <1>8, <2>1 DEF TypeOK, TxType
    <3> QED
      BY <1>1, <1>2, <3>1, SameTx
  <2>2. CASE f = e
    <3>1. /\ tst'[e] = IF tleft[e] = 1 THEN "IDLE" ELSE "DATA"
          /\ tleft'[e] = tleft[e] - 1 /\ thdr_first'[e] = FALSE
      BY <1>1, <1>2 DEF TypeOK, TxType
    <3>2. \A k \in Class : Valid(e, k) => Classed(e, q[e][k], k)
      BY <1>1 DEF WireFramed, TxFramed
    <3>3. (\A k \in Class : Valid(e, k) => Classed(e, q[e][k], k))'
      BY <1>2, <3>2 DEF Valid, Classed
    <3>4. Classed(e, thdr[e], tsel[e])'
      BY <1>2, <1>3 DEF Classed
    <3>5. CASE tleft[e] = 1
      BY <1>5, <1>8, <2>2, <3>1, <3>3, <3>5 DEF TxFramed, NextAt
    <3>6. CASE tleft[e] # 1
      <4>1. tst'[e] = "DATA" /\ tleft'[e] >= 1 /\ tst'[e] # "CRED"
        BY <1>3, <3>1, <3>6
      <4>2. /\ ~StartsAt(e, NextAt(e))' /\ ~CredAt(e, NextAt(e))'
            /\ ClsAt(e, NextAt(e))' = tsel'[e]
        BY <1>2, <1>5, <1>8, <3>6
      <4> QED
        BY <2>2, <3>1, <3>3, <3>4, <4>1, <4>2 DEF TxFramed, NextAt
    <3> QED
      BY <3>5, <3>6
  <2> QED
    BY <2>1, <2>2
<1> QED
  BY <1>8, <1>9, <1>10, <1>11 DEF IInv, WireFramed

(* The fault flag is the only register a flagged header changes.           *)
LEMMA FlagLenKeeps ==
  ASSUME IInv, NEW e \in End, FlagLen(e)
  PROVE  IInv'
<1>1. TypeOK /\ CreditConserved /\ WireFramed
  BY DEF IInv
<1>2. /\ fault_len' = [fault_len EXCEPT ![e] = TRUE]
      /\ UNCHANGED <<txVars, credVars, rxVars, envVars, wire>>
  BY DEF FlagLen
<1>3. UNCHANGED <<q, tst, tsel, tleft, thdr, thdr_first, csel, csend, cred, ret,
                  r_first, cur_is_cred, cur_cls, hfifo, dfifo, offered, open,
                  taken, wire>>
  BY <1>2 DEF txVars, credVars, rxVars, envVars
<1>4. TypeOK'
  <2>1. TxType'
    BY <1>1, <1>2, <1>3 DEF TypeOK, TxType
  <2>2. CreditType' /\ RxType' /\ FifoType' /\ EnvType'
    BY <1>1, <1>3 DEF TypeOK, CreditType, RxType, FifoType, EnvType
  <2> QED
    BY <2>1, <2>2 DEF TypeOK
<1>5. CreditConserved'
  BY <1>1, <1>3 DEF CreditConserved, Space, Reserved
<1>6. WireFramed'
  <2> SUFFICES ASSUME NEW f \in End
               PROVE  TxFramed(f)' /\ \A i \in DOMAIN wire'[f] : BeatFramed(f, i)'
    BY DEF WireFramed
  <2>1. \A i \in DOMAIN wire[f] : BeatFramed(f, i)
    BY <1>1 DEF WireFramed
  <2> QED
    BY <1>1, <1>3, <2>1, SameTx, SameWire
<1> QED
  BY <1>4, <1>5, <1>6 DEF IInv

-----------------------------------------------------------------------------
(***************************************************************************)
(* The receive side.                                                       *)
(***************************************************************************)

(* A consumer draws a header: headers carry no credit.                     *)
LEMMA PopHeaderKeeps ==
  ASSUME IInv, NEW e \in End, NEW c \in Class, PopHeader(e, c)
  PROVE  IInv'
<1>1. TypeOK /\ CreditConserved /\ WireFramed
  BY DEF IInv
<1> DEFINE h == hfifo[e][c]
<1>2. /\ h # <<>>
      /\ open' = [open EXCEPT ![e][c] = [txn |-> Head(h).txn,
                                         left |-> Head(h).len + 1]]
      /\ hfifo' = [hfifo EXCEPT ![e][c] = Tail(h)]
      /\ UNCHANGED <<q, tst, tsel, tleft, thdr, thdr_first, csel, csend, cred,
                     ret, r_first, cur_is_cred, cur_cls, dfifo, offered, taken,
                     wire, fault_len>>
  BY DEF PopHeader, txVars, credVars
<1>3. /\ hfifo \in [End -> [Class -> Seq(Hdr)]] /\ h \in Seq(Hdr)
      /\ Len(h) <= RX_BEATS
  BY <1>1 DEF TypeOK, FifoType
<1>4. Head(h) \in Hdr /\ Tail(h) \in Seq(Hdr) /\ Len(Tail(h)) = Len(h) - 1
  BY <1>2, <1>3, HeadTailProperties
<1> HIDE DEF h
<1>5. /\ hfifo' \in [End -> [Class -> Seq(Hdr)]]
      /\ \A d \in End, k \in Class :
           hfifo'[d][k] = IF d = e /\ k = c THEN Tail(h) ELSE hfifo[d][k]
  BY <1>2, <1>3, <1>4, ExceptClass
<1>6. TypeOK'
  <2>1. TxType' /\ CreditType' /\ RxType'
    BY <1>1, <1>2 DEF TypeOK, TxType, CreditType, RxType
  <2>2. FifoType'
    <3>1. Len(Tail(h)) <= RX_BEATS
      BY <1>3, <1>4, LenProperties, LinkAssumption
    <3> QED
      BY <1>1, <1>2, <1>5, <3>1 DEF TypeOK, FifoType
  <2>3. EnvType'
    <3>1. [txn |-> Head(h).txn, left |-> Head(h).len + 1] \in [txn : Nat, left : Int]
      BY <1>4 DEF Hdr
    <3>2. open \in [End -> [Class -> [txn : Nat, left : Int]]]
      BY <1>1 DEF TypeOK, EnvType
    <3>3. open' \in [End -> [Class -> [txn : Nat, left : Int]]]
      BY <1>2, <3>1, <3>2, ExceptClass
    <3> QED
      BY <1>1, <1>2, <3>3 DEF TypeOK, EnvType
  <2> QED
    BY <2>1, <2>2, <2>3 DEF TypeOK
<1>7. CreditConserved'
  BY <1>1, <1>2 DEF CreditConserved, Space, Reserved
<1>8. WireFramed'
  <2> SUFFICES ASSUME NEW f \in End
               PROVE  TxFramed(f)' /\ \A i \in DOMAIN wire'[f] : BeatFramed(f, i)'
    BY DEF WireFramed
  <2>1. \A i \in DOMAIN wire[f] : BeatFramed(f, i)
    BY <1>1 DEF WireFramed
  <2> QED
    BY <1>1, <1>2, <2>1, SameTx, SameWire
<1> QED
  BY <1>6, <1>7, <1>8 DEF IInv

(* A consumer draws a beat: the space it held is owed to the sender.       *)
LEMMA PopBeatKeeps ==
  ASSUME IInv, NEW e \in End, NEW c \in Class, PopBeat(e, c)
  PROVE  IInv'
<1>1. TypeOK /\ CreditConserved /\ WireFramed
  BY DEF IInv
<1> DEFINE d == dfifo[e][c]
           o == IF Head(d).last THEN NoPkt
                ELSE [txn |-> open[e][c].txn, left |-> open[e][c].left - 1]
           n == IF Head(d).last THEN taken[e][c] + 1 ELSE taken[e][c]
<1>2. /\ d # <<>>
      /\ dfifo' = [dfifo EXCEPT ![e][c] = Tail(d)]
      /\ ret'   = [ret EXCEPT ![e][c] = ret[e][c] + 1]
      /\ open'  = [open EXCEPT ![e][c] = o]
      /\ taken' = [taken EXCEPT ![e][c] = n]
      /\ UNCHANGED <<q, tst, tsel, tleft, thdr, thdr_first, csel, csend, cred,
                     r_first, cur_is_cred, cur_cls, hfifo, offered, wire,
                     fault_len>>
  <2>1. open' = [open EXCEPT ![e][c] = o]
    BY Zenon DEF PopBeat
  <2>2. taken' = [taken EXCEPT ![e][c] = n]
    BY Zenon DEF PopBeat
  <2>3. /\ d # <<>>
        /\ dfifo' = [dfifo EXCEPT ![e][c] = Tail(d)]
        /\ ret'   = [ret EXCEPT ![e][c] = ret[e][c] + 1]
    BY Zenon DEF PopBeat
  <2> QED
    BY <2>1, <2>2, <2>3 DEF PopBeat, txVars
<1>3. /\ dfifo \in [End -> [Class -> Seq(RxBeat)]] /\ d \in Seq(RxBeat)
      /\ Len(d) <= RX_BEATS
  BY <1>1 DEF TypeOK, FifoType
<1>4. /\ Tail(d) \in Seq(RxBeat) /\ Len(Tail(d)) = Len(d) - 1
      /\ Len(d) \in Nat /\ Len(d) >= 1
  BY <1>2, <1>3, HeadTailProperties, LenProperties, EmptySeq
<1>5. o \in [txn : Nat, left : Int] /\ n \in Nat
  <2>1. open[e][c] \in [txn : Nat, left : Int] /\ taken[e][c] \in Nat
    BY <1>1 DEF TypeOK, EnvType
  <2> QED
    BY <2>1 DEF NoPkt
<1> HIDE DEF d, o, n
<1>6. /\ dfifo' \in [End -> [Class -> Seq(RxBeat)]]
      /\ \A f \in End, k \in Class :
           dfifo'[f][k] = IF f = e /\ k = c THEN Tail(d) ELSE dfifo[f][k]
  BY <1>2, <1>3, <1>4, ExceptClass
<1>7. Space(Peer(e), c) = RX_BEATS /\ Peer(Peer(e)) = e /\ Peer(e) \in End
  BY <1>1, PeerProperties DEF CreditConserved
<1>8. ret[e][c] + 1 \in 0 .. RX_BEATS
  <2> DEFINE cr == cred[Peer(e)][c]
             rs == Reserved(Peer(e), c)
             bt == Beats(wire[Peer(e)], c)
             df == Len(d)
             rt == ret[e][c]
             ct == Credits(wire[e], c)
  <2>1. /\ cr \in Nat /\ rs \in Nat /\ bt \in Nat
        /\ rt \in Nat /\ ct \in Nat
    BY <1>1, <1>7, SpaceTypes
  <2>2. cr + rs + bt + df + rt + ct = RX_BEATS
    BY <1>7 DEF Space, d
  <2> HIDE DEF cr, rs, bt, df, rt, ct
  <2>3. rt + 1 \in Nat /\ rt + 1 <= RX_BEATS
    BY <1>4, <2>1, <2>2, LinkAssumption DEF df
  <2> QED
    BY <2>3, LinkAssumption DEF rt
<1>9. ret \in [End -> [Class -> 0 .. RX_BEATS]]
  BY <1>1 DEF TypeOK, CreditType
<1>10. /\ ret' \in [End -> [Class -> 0 .. RX_BEATS]]
       /\ \A f \in End, k \in Class :
            ret'[f][k] = IF f = e /\ k = c THEN ret[e][c] + 1 ELSE ret[f][k]
  BY <1>2, <1>8, <1>9, ExceptClass
<1>11. TypeOK'
  <2>1. TxType' /\ RxType'
    BY <1>1, <1>2 DEF TypeOK, TxType, RxType
  <2>2. CreditType'
    BY <1>1, <1>2, <1>10 DEF TypeOK, CreditType
  <2>3. FifoType'
    <3>1. Len(Tail(d)) <= RX_BEATS
      BY <1>3, <1>4, LinkAssumption
    <3> QED
      BY <1>1, <1>2, <1>6, <3>1 DEF TypeOK, FifoType
  <2>4. EnvType'
    <3>1. /\ open \in [End -> [Class -> [txn : Nat, left : Int]]]
          /\ taken \in [End -> [Class -> Nat]]
      BY <1>1 DEF TypeOK, EnvType
    <3>2. open' \in [End -> [Class -> [txn : Nat, left : Int]]]
      BY <1>2, <1>5, <3>1, ExceptClass
    <3>3. taken' \in [End -> [Class -> Nat]]
      BY <1>2, <1>5, <3>1, ExceptClass
    <3> QED
      BY <1>1, <1>2, <3>2, <3>3 DEF TypeOK, EnvType
  <2> QED
    BY <2>1, <2>2, <2>3, <2>4 DEF TypeOK
<1>12. CreditConserved'
  <2> SUFFICES ASSUME NEW f \in End, NEW k \in Class
               PROVE  Space(f, k)' = RX_BEATS
    BY DEF CreditConserved
  <2> DEFINE cr == cred[f][k]
             rs == Reserved(f, k)
             bt == Beats(wire[f], k)
             df == Len(dfifo[Peer(f)][k])
             rt == ret[Peer(f)][k]
             ct == Credits(wire[Peer(f)], k)
  <2>1. cr + rs + bt + df + rt + ct = RX_BEATS
    BY <1>1 DEF CreditConserved, Space
  <2>2. /\ cr \in Nat /\ rs \in Nat /\ bt \in Nat
        /\ df \in Nat /\ rt \in Nat /\ ct \in Nat
    BY <1>1, SpaceTypes, PeerProperties
  <2>3. Reserved(f, k)' = Reserved(f, k)
    BY <1>2 DEF Reserved
  <2>4. CASE Peer(f) = e /\ k = c
    <3>1. /\ Len(dfifo'[Peer(f)][k]) = df - 1
          /\ ret'[Peer(f)][k] = rt + 1
      BY <1>4, <1>6, <1>10, <2>4 DEF d
    <3>2. Space(f, k)' = cr + rs + bt + (df - 1) + (rt + 1) + ct
      BY <1>2, <2>3, <3>1 DEF Space
    <3> HIDE DEF cr, rs, bt, df, rt, ct
    <3> QED
      BY <2>1, <2>2, <3>2
  <2>5. CASE ~(Peer(f) = e /\ k = c)
    <3>1. /\ dfifo'[Peer(f)][k] = dfifo[Peer(f)][k]
          /\ ret'[Peer(f)][k] = ret[Peer(f)][k]
      BY <1>6, <1>10, <2>5, PeerProperties
    <3> QED
      BY <1>2, <2>1, <2>3, <3>1 DEF Space
  <2> QED
    BY <2>4, <2>5
<1>13. WireFramed'
  <2> SUFFICES ASSUME NEW f \in End
               PROVE  TxFramed(f)' /\ \A i \in DOMAIN wire'[f] : BeatFramed(f, i)'
    BY DEF WireFramed
  <2>1. TxFramed(f) /\ \A i \in DOMAIN wire[f] : BeatFramed(f, i)
    BY <1>1 DEF WireFramed
  <2>2. /\ \A i \in DOMAIN wire'[f] : BeatFramed(f, i)'
        /\ StartsAt(f, NextAt(f))' = StartsAt(f, NextAt(f))
        /\ ClsAt(f, NextAt(f))' = ClsAt(f, NextAt(f))
        /\ CredAt(f, NextAt(f))' = CredAt(f, NextAt(f))
    BY <1>2, <2>1, SameWire
  <2>3. (tst[f] = "CRED" => csend[f] <= ret[f][csel[f]])'
    <3>1. csel[f] \in Class /\ csend[f] \in Nat
      BY <1>1, LinkAssumption DEF TypeOK, TxType
    <3>2. ret[f][csel[f]] \in Nat /\ ret'[f][csel[f]] >= ret[f][csel[f]]
      <4>1. ret[f][csel[f]] \in Nat
        BY <1>1, <3>1, SpaceTypes
      <4>2. ret'[f][csel[f]] \in {ret[f][csel[f]], ret[f][csel[f]] + 1}
        BY <1>10, <3>1
      <4> QED
        BY <4>1, <4>2
    <3>3. ret'[f][csel[f]] \in Nat
      BY <1>10, <3>1, LinkAssumption
    <3>4. tst[f] = "CRED" => csend[f] <= ret[f][csel[f]]
      BY <2>1 DEF TxFramed
    <3> QED
      BY <1>2, <3>1, <3>2, <3>3, <3>4
  <2> QED
    BY <1>2, <2>1, <2>2, <2>3 DEF TxFramed, NextAt, Valid, Classed
<1> QED
  BY <1>11, <1>12, <1>13 DEF IInv

(* What the decoder of lines 181-201 makes of the oldest beat: a credit    *)
(* packet is one beat long and is recognised; any other beat is filed      *)
(* under the class its sender charged for it.                              *)
LEMMA HeadDecoded ==
  ASSUME TypeOK, WireFramed, NEW e \in End, wire[Peer(e)] # <<>>
  PROVE  /\ Head1(e) \in Beat
         /\ IsCred(e) <=> Head1(e).user.kind = "CREDIT"
         /\ IsCred(e) => r_first[e] /\ Head1(e).last
         /\ ~IsCred(e) => InCls(e) = Head1(e).data.cls
         /\ InCls(e) \in Class
<1> DEFINE p == Peer(e)
           b == Head1(e)
<1>1. p \in End /\ Peer(p) = e
  BY PeerProperties
<1>2. wire[p] \in Seq(Beat) /\ wire[p] # <<>>
  BY <1>1 DEF TypeOK, RxType
<1>3. b \in Beat /\ b = wire[p][1] /\ 1 \in DOMAIN wire[p]
  BY <1>2, HeadTailProperties, LenProperties, EmptySeq DEF Head1
<1>4. b.data.cls \in Class /\ cur_cls[e] \in Class
  BY <1>3 DEF Beat, Data, TypeOK, RxType
<1>5. BeatFramed(p, 1)
  BY <1>1, <1>3 DEF WireFramed
<1>6. IF r_first[e]
      THEN (b.user.kind = "CREDIT" /\ b.last) \/ Classed(p, b.user, b.data.cls)
      ELSE b.user = ZeroHdr /\ ~cur_is_cred[e] /\ b.data.cls = cur_cls[e]
  BY <1>1, <1>3, <1>5 DEF BeatFramed, StartsAt, CredAt, ClsAt
<1> HIDE DEF p, b
<1>7. r_first[e] \in BOOLEAN /\ cur_is_cred[e] \in BOOLEAN
  BY DEF TypeOK, RxType
<1>8. b = Head1(e) /\ b.user = Head1(e).user
  BY DEF b
<1>9. CASE r_first[e] /\ b.user.kind = "CREDIT" /\ b.last
  BY <1>3, <1>8, <1>9 DEF IsCred, InCls, Class
<1>10. CASE r_first[e] /\ Classed(p, b.user, b.data.cls)
  <2>1. b.user.kind = "PKT" /\ (b.user.dmesh # e <=> b.data.cls = 1)
    BY <1>1, <1>10 DEF Classed
  <2> QED
    BY <1>3, <1>4, <1>8, <1>10, <2>1 DEF IsCred, InCls, Class
<1>11. CASE ~r_first[e]
  BY <1>3, <1>4, <1>6, <1>8, <1>11 DEF IsCred, InCls, ZeroHdr
<1> QED
  BY <1>6, <1>9, <1>10, <1>11

(* Decoding the oldest beat keeps the wires framed: the three registers    *)
(* carry over what later beats need to know of it.                         *)
LEMMA TailFramed ==
  ASSUME TypeOK, WireFramed, NEW e \in End, NEW p, p = Peer(e),
         wire[p] # <<>>, wire' = [wire EXCEPT ![p] = Tail(wire[p])],
         r_first' = [r_first EXCEPT ![e] = Head1(e).last],
         cur_is_cred' = [cur_is_cred EXCEPT ![e] = IsCred(e)],
         cur_cls' = [cur_cls EXCEPT ![e] = InCls(e)]
  PROVE  /\ wire' \in [End -> Seq(Beat)]
         /\ wire'[p] = Tail(wire[p]) /\ wire'[e] = wire[e]
         /\ \A f \in End : \A i \in DOMAIN wire'[f] : BeatFramed(f, i)'
         /\ StartsAt(p, NextAt(p))' = StartsAt(p, NextAt(p))
         /\ ~StartsAt(p, NextAt(p)) =>
              /\ ClsAt(p, NextAt(p))' = ClsAt(p, NextAt(p))
              /\ CredAt(p, NextAt(p))' = CredAt(p, NextAt(p))
<1> DEFINE w == wire[p]
           b == Head1(e)
<1>1. p \in End /\ p # e /\ Peer(p) = e /\ \A f \in End : f = e \/ f = p
  BY PeerProperties DEF End, Peer
<1>2. wire \in [End -> Seq(Beat)] /\ w \in Seq(Beat) /\ w # <<>>
  BY <1>1 DEF TypeOK, RxType
<1>3. /\ b = w[1] /\ b \in Beat /\ Tail(w) \in Seq(Beat)
      /\ Len(w) \in Nat /\ Len(w) >= 1 /\ Len(Tail(w)) = Len(w) - 1
      /\ DOMAIN w = 1 .. Len(w) /\ DOMAIN Tail(w) = 1 .. (Len(w) - 1)
      /\ \A i \in 1 .. (Len(w) - 1) : Tail(w)[i] = w[i + 1]
  BY <1>2, HeadTailProperties, LenProperties, EmptySeq DEF Head1
<1>4. /\ wire' \in [End -> Seq(Beat)]
      /\ wire'[p] = Tail(w) /\ wire'[e] = wire[e]
  BY <1>1, <1>2, <1>3
<1>5. /\ r_first'[e] = b.last /\ r_first'[p] = r_first[p]
      /\ cur_is_cred'[e] = IsCred(e) /\ cur_is_cred'[p] = cur_is_cred[p]
      /\ cur_cls'[e] = InCls(e) /\ cur_cls'[p] = cur_cls[p]
  BY <1>1 DEF TypeOK, RxType
<1>6. /\ IsCred(e) <=> b.user.kind = "CREDIT"
      /\ IsCred(e) => b.last
      /\ ~IsCred(e) => InCls(e) = b.data.cls
      /\ IsCred(e) \in BOOLEAN /\ b.last \in BOOLEAN
  <2>1. IsCred(e) \in BOOLEAN
    BY DEF IsCred, TypeOK, RxType
  <2> QED
    BY <1>1, <1>3, <2>1, HeadDecoded DEF Beat
<1> HIDE DEF b
<1>7. ASSUME NEW i \in 1 .. Len(w)
      PROVE  /\ StartsAt(p, i)' = StartsAt(p, i + 1)
             /\ ~StartsAt(p, i + 1) =>
                  /\ ClsAt(p, i)' = ClsAt(p, i + 1)
                  /\ CredAt(p, i)' = CredAt(p, i + 1)
  <2>1. i + 1 # 1 /\ (i + 1) - 1 = i
    BY <1>3
  <2>2. /\ StartsAt(p, i + 1) = w[i].last
        /\ ClsAt(p, i + 1) = w[i].data.cls
        /\ CredAt(p, i + 1) = (w[i].user.kind = "CREDIT")
    BY <2>1 DEF StartsAt, ClsAt, CredAt
  <2>3. CASE i = 1
    <3>1. /\ StartsAt(p, i)' = b.last
          /\ ClsAt(p, i)' = InCls(e)
          /\ CredAt(p, i)' = IsCred(e)
      BY <1>1, <1>5, <2>3 DEF StartsAt, ClsAt, CredAt
    <3> QED
      BY <1>3, <1>6, <2>2, <2>3, <3>1
  <2>4. CASE i # 1
    <3>1. i - 1 \in 1 .. (Len(w) - 1) /\ (i - 1) + 1 = i
      BY <1>3, <2>4
    <3>2. wire'[p][i - 1] = w[i]
      BY <1>3, <1>4, <3>1
    <3>3. /\ StartsAt(p, i)' = wire'[p][i - 1].last
          /\ ClsAt(p, i)' = wire'[p][i - 1].data.cls
          /\ CredAt(p, i)' = (wire'[p][i - 1].user.kind = "CREDIT")
      BY <2>4, Zenon DEF StartsAt, ClsAt, CredAt
    <3> QED
      BY <2>2, <3>2, <3>3, Zenon
  <2> QED
    BY <2>3, <2>4
<1>8. \A i \in DOMAIN wire'[p] : BeatFramed(p, i)'
  <2> SUFFICES ASSUME NEW i \in 1 .. (Len(w) - 1) PROVE BeatFramed(p, i)'
    BY <1>3, <1>4
  <2>1. i \in 1 .. Len(w) /\ i + 1 \in DOMAIN w
    BY <1>3
  <2>2. BeatFramed(p, i + 1)
    BY <1>1, <2>1 DEF WireFramed
  <2>3. wire'[p][i] = wire[p][i + 1]
    BY <1>3, <1>4
  <2> HIDE DEF w
  <2> QED
    BY <1>7, <2>1, <2>2, <2>3 DEF BeatFramed, Classed
<1>9. \A i \in DOMAIN wire'[e] : BeatFramed(e, i)'
  BY <1>1, <1>4, <1>5, SameWire DEF WireFramed
<1>10. NextAt(p)' = Len(w) /\ NextAt(p) = Len(w) + 1 /\ Len(w) \in 1 .. Len(w)
  BY <1>3, <1>4 DEF NextAt
<1>11. /\ StartsAt(p, NextAt(p))' = StartsAt(p, NextAt(p))
       /\ ~StartsAt(p, NextAt(p)) =>
            /\ ClsAt(p, NextAt(p))' = ClsAt(p, NextAt(p))
            /\ CredAt(p, NextAt(p))' = CredAt(p, NextAt(p))
  <2>1. PICK n \in 1 .. Len(w) : n = Len(w)
    BY <1>10
  <2>2. NextAt(p)' = n /\ NextAt(p) = n + 1
    BY <1>10, <2>1
  <2>3. /\ StartsAt(p, NextAt(p))' = StartsAt(p, n)'
        /\ ClsAt(p, NextAt(p))' = ClsAt(p, n)'
        /\ CredAt(p, NextAt(p))' = CredAt(p, n)'
    BY <2>2 DEF StartsAt, ClsAt, CredAt
  <2> QED
    BY <1>7, <2>2, <2>3
<1> QED
  BY <1>1, <1>4, <1>8, <1>9, <1>11

(* The beats still on the wire of a class, the one about to be decoded     *)
(* included, have their space: the far data FIFO is not full (DataRoom).   *)
LEMMA RoomForBeat ==
  ASSUME IInv, NEW e \in End, wire[Peer(e)] # <<>>, ~IsCred(e)
  PROVE  Len(dfifo[e][InCls(e)]) + 1 <= RX_BEATS
<1> DEFINE p == Peer(e)
           k == InCls(e)
           w == wire[p]
<1>1. TypeOK /\ CreditConserved /\ WireFramed
  BY DEF IInv
<1>2. p \in End /\ Peer(p) = e
  BY PeerProperties
<1>3. /\ Head1(e) \in Beat /\ k \in Class
      /\ Head1(e).user.kind # "CREDIT" /\ k = Head1(e).data.cls
  BY <1>1, HeadDecoded
<1>4. w \in Seq(Beat) /\ w # <<>>
  BY <1>1, <1>2 DEF TypeOK, RxType
<1>5. Tail(w) \in Seq(Beat) /\ Beats(Tail(w), k) \in Nat
  BY <1>3, <1>4, HeadTailProperties, WireTotals
<1>6. Beats(w, k) = 1 + Beats(Tail(w), k)
  <2>1. Beats(w, k) = BeatWt(Head(w), k) + Beats(Tail(w), k)
    BY <1>3, <1>4, WireTail
  <2>2. BeatWt(Head(w), k) = 1
    BY <1>3 DEF BeatWt, Head1
  <2> QED
    BY <2>1, <2>2
<1> DEFINE cr == cred[p][k]
           rs == Reserved(p, k)
           bt == Beats(w, k)
           df == Len(dfifo[e][k])
           rt == ret[e][k]
           ct == Credits(wire[e], k)
<1>7. cr + rs + bt + df + rt + ct = RX_BEATS
  BY <1>1, <1>2, <1>3 DEF CreditConserved, Space
<1>8. /\ cr \in Nat /\ rs \in Nat /\ bt \in Nat
      /\ df \in Nat /\ rt \in Nat /\ ct \in Nat
  BY <1>1, <1>2, <1>3, SpaceTypes
<1>9. bt >= 1
  BY <1>5, <1>6
<1> HIDE DEF cr, rs, bt, df, rt, ct
<1>10. df + 1 <= RX_BEATS
  BY <1>7, <1>8, <1>9, LinkAssumption
<1> QED
  BY <1>10 DEF df

(* The sum of a class before and after the oldest beat of the wire of p is *)
(* decoded: its space moves into the far FIFO, its credit to the counter.  *)
LEMMA ArriveSpace ==
  ASSUME IInv, NEW e \in End, NEW p, p = Peer(e), wire[p] # <<>>,
         NEW f \in End, NEW k \in Class,
         wire'[p] = Tail(wire[p]), wire'[e] = wire[e],
         Reserved(f, k)' = Reserved(f, k), ret' = ret,
         cred'[f][k] = cred[f][k]
                         + (IF f = e THEN CreditWt(Head1(e), k) ELSE 0),
         Len(dfifo'[Peer(f)][k]) = Len(dfifo[Peer(f)][k])
                         + (IF f = p THEN BeatWt(Head1(e), k) ELSE 0)
  PROVE  Space(f, k)' = RX_BEATS
<1>1. TypeOK /\ CreditConserved
  BY DEF IInv
<1>2. p \in End /\ p # e /\ Peer(p) = e /\ (f = e \/ f = p)
  BY PeerProperties DEF End, Peer
<1>3. wire[p] \in Seq(Beat) /\ wire[p] # <<>>
  BY <1>1, <1>2 DEF TypeOK, RxType
<1> DEFINE bw == BeatWt(Head1(e), k)
           cw == CreditWt(Head1(e), k)
           tb == Beats(Tail(wire[p]), k)
           tc == Credits(Tail(wire[p]), k)
<1>4. bw \in Nat /\ cw \in Nat /\ tb \in Nat /\ tc \in Nat
  BY <1>2, <1>3, HeadTailProperties, WeightTypes, WireTotals DEF Head1
<1>5. Beats(wire[p], k) = bw + tb /\ Credits(wire[p], k) = cw + tc
  BY <1>2, <1>3, WireTail DEF Head1
<1> DEFINE cr == cred[f][k]
           rs == Reserved(f, k)
           df == Len(dfifo[Peer(f)][k])
           rt == ret[Peer(f)][k]
<1>6. cr \in Nat /\ rs \in Nat /\ df \in Nat /\ rt \in Nat
  BY <1>1, SpaceTypes, PeerProperties
<1>7. Beats(wire[f], k) \in Nat /\ Credits(wire[Peer(f)], k) \in Nat
  BY <1>1, SpaceTypes, PeerProperties
<1>8. cr + rs + Beats(wire[f], k) + df + rt + Credits(wire[Peer(f)], k) = RX_BEATS
  BY <1>1 DEF CreditConserved, Space
<1>9. CASE f = e
  <2> DEFINE bt == Beats(wire[e], k)
  <2>1. cr + rs + bt + df + rt + (cw + tc) = RX_BEATS /\ bt \in Nat
    BY <1>5, <1>7, <1>8, <1>9
  <2>2. Space(f, k)' = (cr + cw) + rs + bt + df + rt + tc
    <3>1. cred'[f][k] = cr + cw
      BY <1>9
    <3>2. Len(dfifo'[Peer(f)][k]) = df
      BY <1>2, <1>6, <1>9
    <3>3. Beats(wire'[f], k) = bt /\ Credits(wire'[Peer(f)], k) = tc
      BY <1>9
    <3> QED
      BY <3>1, <3>2, <3>3 DEF Space
  <2> HIDE DEF bw, cw, tb, tc, cr, rs, df, rt, bt
  <2> QED
    BY <1>4, <1>6, <2>1, <2>2
<1>10. CASE f = p
  <2> DEFINE ct == Credits(wire[e], k)
  <2>1. cr + rs + (bw + tb) + df + rt + ct = RX_BEATS /\ ct \in Nat
    BY <1>2, <1>5, <1>7, <1>8, <1>10
  <2>2. Space(f, k)' = cr + rs + tb + (df + bw) + rt + ct
    <3>1. cred'[f][k] = cr
      BY <1>2, <1>6, <1>10
    <3>2. Len(dfifo'[Peer(f)][k]) = df + bw
      BY <1>10
    <3>3. Beats(wire'[f], k) = tb /\ Credits(wire'[Peer(f)], k) = ct
      BY <1>2, <1>10
    <3> QED
      BY <3>1, <3>2, <3>3 DEF Space
  <2> HIDE DEF bw, cw, tb, tc, cr, rs, df, rt, ct
  <2> QED
    BY <1>4, <1>6, <2>1, <2>2
<1> QED
  BY <1>2, <1>9, <1>10

(* A beat is decoded: credit goes to its counter, data to its FIFO.        *)
LEMMA ArriveKeeps ==
  ASSUME IInv, NEW e \in End, Arrive(e)
  PROVE  IInv'
<1> DEFINE p == Peer(e)
           b == Head1(e)
           c == InCls(e)
           x == [last |-> b.last, data |-> b.data]
<1>1. TypeOK /\ CreditConserved /\ WireFramed
  BY DEF IInv
<1>2. p \in End /\ p # e /\ Peer(p) = e /\ \A f \in End : f = e \/ f = p
  BY PeerProperties DEF End, Peer
<1>3. /\ wire[p] # <<>>
      /\ r_first' = [r_first EXCEPT ![e] = b.last]
      /\ cur_is_cred' = [cur_is_cred EXCEPT ![e] = IsCred(e)]
      /\ cur_cls' = [cur_cls EXCEPT ![e] = c]
      /\ wire' = [wire EXCEPT ![p] = Tail(wire[p])]
      /\ UNCHANGED <<q, tst, tsel, tleft, thdr, thdr_first, csel, csend, ret,
                     offered, open, taken, fault_len>>
  BY DEF Arrive, txVars, envVars
<1>4. /\ cred' = IF r_first[e] /\ IsCred(e)
                 THEN [cred EXCEPT ![e][b.user.addr] =
                         cred[e][b.user.addr] + b.user.txn]
                 ELSE cred
      /\ hfifo' = IF ~IsCred(e) /\ r_first[e]
                  THEN [hfifo EXCEPT ![e][c] = Push(hfifo[e][c], b.user)]
                  ELSE hfifo
      /\ dfifo' = IF ~IsCred(e)
                  THEN [dfifo EXCEPT ![e][c] = Push(dfifo[e][c], x)]
                  ELSE dfifo
  BY DEF Arrive
<1>5. /\ b \in Beat /\ c \in Class
      /\ IsCred(e) <=> b.user.kind = "CREDIT"
      /\ IsCred(e) => r_first[e] /\ b.last
      /\ ~IsCred(e) => c = b.data.cls
  BY <1>1, <1>3, HeadDecoded
<1>6. /\ b.user \in Hdr /\ b.last \in BOOLEAN /\ x \in RxBeat
      /\ b.user.addr \in Class /\ b.user.txn \in Nat
      /\ IsCred(e) \in BOOLEAN
  BY <1>1, <1>5 DEF Beat, Hdr, RxBeat, IsCred, TypeOK, RxType
<1>7. /\ wire' \in [End -> Seq(Beat)]
      /\ wire'[p] = Tail(wire[p]) /\ wire'[e] = wire[e]
      /\ \A f \in End : \A i \in DOMAIN wire'[f] : BeatFramed(f, i)'
      /\ StartsAt(p, NextAt(p))' = StartsAt(p, NextAt(p))
      /\ ~StartsAt(p, NextAt(p)) =>
           /\ ClsAt(p, NextAt(p))' = ClsAt(p, NextAt(p))
           /\ CredAt(p, NextAt(p))' = CredAt(p, NextAt(p))
  BY <1>1, <1>3, TailFramed
<1>8. ~IsCred(e) => Len(dfifo[e][c]) + 1 <= RX_BEATS
  BY <1>3, RoomForBeat
<1> HIDE DEF p, b, c, x
(* The credit counters. *)
<1>9. \A d \in End, k \in Class :
        cred'[d][k] = cred[d][k] + (IF d = e THEN CreditWt(b, k) ELSE 0)
  <2> SUFFICES ASSUME NEW d \in End, NEW k \in Class
               PROVE  cred'[d][k] = cred[d][k]
                                      + (IF d = e THEN CreditWt(b, k) ELSE 0)
    OBVIOUS
  <2>1. cred \in [End -> [Class -> Nat]] /\ cred[d][k] \in Nat
    BY <1>1, LinkAssumption DEF TypeOK, CreditType
  <2>2. CASE IsCred(e)
    <3>1. cred[e][b.user.addr] + b.user.txn \in Nat
      BY <1>6, <2>1
    <3>2. cred'[d][k] = IF d = e /\ k = b.user.addr
                        THEN cred[e][b.user.addr] + b.user.txn ELSE cred[d][k]
      BY <1>4, <1>5, <1>6, <2>1, <2>2, <3>1, ExceptClass
    <3>3. CreditWt(b, k) = IF k = b.user.addr THEN b.user.txn ELSE 0
      BY <1>5, <2>2 DEF CreditWt
    <3> QED
      BY <2>1, <3>2, <3>3
  <2>3. CASE ~IsCred(e)
    <3>1. CreditWt(b, k) = 0 /\ cred' = cred
      BY <1>4, <1>5, <2>3 DEF CreditWt
    <3> QED
      BY <2>1, <3>1
  <2> QED
    BY <2>2, <2>3
(* The data FIFOs: the write finds room, so it is never lost. *)
<1>10. /\ dfifo' \in [End -> [Class -> Seq(RxBeat)]]
       /\ \A d \in End, k \in Class :
            /\ Len(dfifo'[d][k]) = Len(dfifo[d][k])
                                     + (IF d = e THEN BeatWt(b, k) ELSE 0)
            /\ Len(dfifo'[d][k]) <= RX_BEATS
  <2>1. /\ dfifo \in [End -> [Class -> Seq(RxBeat)]]
        /\ \A d \in End, k \in Class :
             Len(dfifo[d][k]) \in Nat /\ Len(dfifo[d][k]) <= RX_BEATS
    BY <1>1, LenProperties DEF TypeOK, FifoType
  <2>2. CASE IsCred(e)
    <3>1. dfifo' = dfifo /\ \A k : BeatWt(b, k) = 0
      BY <1>4, <1>5, <2>2 DEF BeatWt
    <3> QED
      BY <2>1, <3>1
  <2>3. CASE ~IsCred(e)
    <3> DEFINE y == Append(dfifo[e][c], x)
    <3>1. /\ y \in Seq(RxBeat)
          /\ Len(y) = Len(dfifo[e][c]) + 1 /\ Len(y) <= RX_BEATS
      BY <1>5, <1>6, <1>8, <2>1, <2>3, AppendProperties
    <3>2. dfifo' = [dfifo EXCEPT ![e][c] = y]
      <4>1. Len(dfifo[e][c]) < RX_BEATS
        BY <1>5, <1>8, <2>1, <2>3, LinkAssumption
      <4> QED
        BY <1>4, <2>3, <4>1 DEF Push
    <3> HIDE DEF y
    <3>3. /\ dfifo' \in [End -> [Class -> Seq(RxBeat)]]
          /\ \A d \in End, k \in Class :
               dfifo'[d][k] = IF d = e /\ k = c THEN y ELSE dfifo[d][k]
      BY <1>5, <2>1, <3>1, <3>2, ExceptClass
    <3>4. \A k : BeatWt(b, k) = IF k = c THEN 1 ELSE 0
      BY <1>5, <2>3 DEF BeatWt
    <3>5. ASSUME NEW d \in End, NEW k \in Class
          PROVE  /\ Len(dfifo'[d][k]) = Len(dfifo[d][k])
                      + (IF d = e THEN BeatWt(b, k) ELSE 0)
                 /\ Len(dfifo'[d][k]) <= RX_BEATS
      <4>1. CASE d = e /\ k = c
        BY <3>1, <3>3, <3>4, <4>1
      <4>2. CASE ~(d = e /\ k = c)
        BY <2>1, <3>3, <3>4, <4>2
      <4> QED
        BY <4>1, <4>2
    <3> QED
      BY <3>3, <3>5
  <2> QED
    BY <2>2, <2>3
<1>11. CreditConserved'
  <2> SUFFICES ASSUME NEW f \in End, NEW k \in Class
               PROVE  Space(f, k)' = RX_BEATS
    BY DEF CreditConserved
  <2>1. Peer(f) \in End /\ (Peer(f) = e <=> f = p)
    BY PeerProperties DEF p
  <2>2. Reserved(f, k)' = Reserved(f, k) /\ ret' = ret
    BY <1>3 DEF Reserved
  <2>3. Len(dfifo'[Peer(f)][k]) = Len(dfifo[Peer(f)][k])
          + (IF f = p THEN BeatWt(Head1(e), k) ELSE 0)
    BY <1>10, <2>1 DEF b
  <2>4. cred'[f][k] = cred[f][k] + (IF f = e THEN CreditWt(Head1(e), k) ELSE 0)
    BY <1>9 DEF b
  <2>5. p = Peer(e)
    BY DEF p
  <2> QED
    BY <1>3, <1>7, <2>2, <2>3, <2>4, <2>5, ArriveSpace
<1>12. TypeOK'
  <2>1. TxType'
    BY <1>1, <1>3 DEF TypeOK, TxType
  <2>2. CreditType'
    <3>1. cred' \in [End -> [Class -> Nat]]
      <4>1. cred \in [End -> [Class -> Nat]]
        BY <1>1, LinkAssumption DEF TypeOK, CreditType
      <4>2. cred[e][b.user.addr] + b.user.txn \in Nat
        BY <1>6, <4>1
      <4> QED
        BY <1>4, <1>6, <4>1, <4>2, ExceptClass
    <3>2. ASSUME NEW d \in End, NEW k \in Class
          PROVE  cred'[d][k] <= RX_BEATS
      <4> DEFINE cr == cred'[d][k]
      <4>1. Space(d, k)' = RX_BEATS
        BY <1>11 DEF CreditConserved
      <4>2. /\ Reserved(d, k)' \in Nat
            /\ Len(dfifo'[Peer(d)][k]) \in Nat /\ ret'[Peer(d)][k] \in Nat
        <5>1. Reserved(d, k) \in Nat /\ ret[Peer(d)][k] \in Nat
          BY <1>1, SpaceTypes, PeerProperties
        <5>2. Len(dfifo'[Peer(d)][k]) \in Nat
          BY <1>10, PeerProperties, LenProperties
        <5> QED
          BY <1>3, <5>1, <5>2 DEF Reserved
      <4>3. Beats(wire'[d], k) \in Nat /\ Credits(wire'[Peer(d)], k) \in Nat
        BY <1>7, PeerProperties, WireTotals
      <4>4. cr \in Nat
        BY <3>1
      <4> DEFINE rs == Reserved(d, k)'
                 bt == Beats(wire'[d], k)
                 df == Len(dfifo'[Peer(d)][k])
                 rt == ret'[Peer(d)][k]
                 ct == Credits(wire'[Peer(d)], k)
      <4>5. cr + rs + bt + df + rt + ct = RX_BEATS
        BY <4>1 DEF Space
      <4> HIDE DEF cr, rs, bt, df, rt, ct
      <4>6. cr <= RX_BEATS
        BY <4>2, <4>3, <4>4, <4>5, LinkAssumption, SMTT(40) DEF rs, bt, df, rt, ct
      <4> QED
        BY <4>6 DEF cr
    <3>3. cred' \in [End -> [Class -> 0 .. RX_BEATS]]
      BY <3>1, <3>2, LinkAssumption
    <3> QED
      BY <1>1, <1>3, <3>3 DEF TypeOK, CreditType
  <2>3. RxType'
    BY <1>1, <1>3, <1>5, <1>6, <1>7 DEF TypeOK, RxType
  <2>4. FifoType'
    <3>1. /\ hfifo \in [End -> [Class -> Seq(Hdr)]]
          /\ \A d \in End, k \in Class :
               Len(hfifo[d][k]) \in Nat /\ Len(hfifo[d][k]) <= RX_BEATS
      BY <1>1, LenProperties DEF TypeOK, FifoType
    <3> DEFINE y == Push(hfifo[e][c], b.user)
    <3>2. y \in Seq(Hdr) /\ Len(y) <= RX_BEATS
      BY <1>5, <1>6, <3>1, AppendProperties, LinkAssumption DEF Push
    <3> HIDE DEF y
    <3>3. CASE ~IsCred(e) /\ r_first[e]
      <4>1. hfifo' = [hfifo EXCEPT ![e][c] = y]
        BY <1>4, <3>3 DEF y
      <4>2. /\ hfifo' \in [End -> [Class -> Seq(Hdr)]]
            /\ \A d \in End, k \in Class :
                 hfifo'[d][k] = IF d = e /\ k = c THEN y ELSE hfifo[d][k]
        BY <1>5, <3>1, <3>2, <4>1, ExceptClass
      <4> QED
        BY <1>10, <3>1, <3>2, <4>2 DEF FifoType
    <3>4. CASE ~(~IsCred(e) /\ r_first[e])
      BY <1>4, <1>10, <3>1, <3>4 DEF FifoType
    <3> QED
      BY <3>3, <3>4
  <2>5. EnvType'
    BY <1>1, <1>3 DEF TypeOK, EnvType
  <2> QED
    BY <2>1, <2>2, <2>3, <2>4, <2>5 DEF TypeOK
<1>13. TxFramed(e)'
  <2>1. /\ r_first'[p] = r_first[p] /\ cur_is_cred'[p] = cur_is_cred[p]
        /\ cur_cls'[p] = cur_cls[p] /\ p = Peer(e)
    BY <1>1, <1>2, <1>3 DEF TypeOK, RxType, p
  <2> QED
    BY <1>1, <1>3, <1>7, <2>1, SameTx
<1>14. TxFramed(p)'
  <2>1. TxFramed(p)
    BY <1>1, <1>2 DEF WireFramed
  <2>2. UNCHANGED <<q, tst, tsel, tleft, thdr, thdr_first, csel, csend, ret>>
    BY <1>3
  <2> QED
    BY <1>7, <2>1, <2>2 DEF TxFramed, NextAt, Valid, Classed
<1> QED
  BY <1>2, <1>7, <1>11, <1>12, <1>13, <1>14 DEF IInv, WireFramed

-----------------------------------------------------------------------------
(* A step that changes nothing keeps everything.                           *)
LEMMA StutterKeeps ==
  ASSUME IInv, UNCHANGED vars
  PROVE  IInv'
<1>1. UNCHANGED <<q, tst, tsel, tleft, thdr, thdr_first, csel, csend, cred, ret,
                  r_first, cur_is_cred, cur_cls, hfifo, dfifo, offered, open,
                  taken, wire, fault_len>>
  BY DEF vars, txVars, credVars, rxVars, envVars
<1>2. TypeOK'
  BY <1>1
     DEF IInv, TypeOK, TxType, CreditType, RxType, FifoType, EnvType
<1>3. CreditConserved'
  BY <1>1 DEF IInv, CreditConserved, Space, Reserved
<1>4. WireFramed'
  BY <1>1
     DEF IInv, WireFramed, TxFramed, BeatFramed, StartsAt, ClsAt, CredAt,
         Classed, Valid
<1> QED
  BY <1>2, <1>3, <1>4 DEF IInv

(* IInv is inductive: it holds at reset and every step keeps it.           *)
THEOREM Inductive == Spec => []IInv
<1>1. Init => IInv
  BY InitIInv
<1>2. IInv /\ [Next]_vars => IInv'
  <2> SUFFICES ASSUME IInv, [Next]_vars PROVE IInv'
    OBVIOUS
  <2>1. CASE UNCHANGED vars
    BY <2>1, StutterKeeps
  <2>2. ASSUME NEW e \in End, Transmit(e) PROVE IInv'
    BY <2>2, StartCreditKeeps, SendCreditKeeps, SendBeatKeeps, GrantKeeps
       DEF Transmit
  <2>3. ASSUME NEW e \in End, FlagLen(e) PROVE IInv'
    BY <2>3, FlagLenKeeps
  <2>4. ASSUME NEW e \in End, Arrive(e) PROVE IInv'
    BY <2>4, ArriveKeeps
  <2>5. ASSUME NEW e \in End, NEW c \in Class, OfferHeader(e, c) \/ Consume(e, c)
        PROVE  IInv'
    BY <2>5, OfferHeaderKeeps, PopHeaderKeeps, PopBeatKeeps DEF Consume
  <2>6. CASE Next
    BY <2>2, <2>3, <2>4, <2>5, <2>6 DEF Next
  <2> QED
    BY <2>1, <2>6
<1> QED
  BY <1>1, <1>2, PTL DEF Spec

(* Counters and FIFOs never leave their ranges: the 16-bit credit sums of  *)
(* line 295 cannot wrap and no receive FIFO exceeds its depth.             *)
THEOREM TypesCorrect == Spec => []TypeOK
<1>1. IInv => TypeOK
  BY DEF IInv
<1> QED
  BY <1>1, Inductive, PTL

(* Credit is neither lost, created nor moved between classes, whatever the *)
(* buffer size, the batch size and the cap on a credit packet's count.     *)
THEOREM Conservation == Spec => []CreditConserved
<1>1. IInv => CreditConserved
  BY DEF IInv
<1> QED
  BY <1>1, Inductive, PTL

(* The receive FIFO a beat is filed in is never full: the assertion of     *)
(* line 446 cannot fire, and no beat is dropped.                           *)
THEOREM NoDataOverflow == Spec => []DataRoom
<1>1. IInv => DataRoom
  <2> SUFFICES ASSUME IInv, NEW e \in End, wire[Peer(e)] # <<>>, ~IsCred(e)
               PROVE  Len(dfifo[e][InCls(e)]) < RX_BEATS
    BY DEF DataRoom
  <2>1. Len(dfifo[e][InCls(e)]) + 1 <= RX_BEATS
    BY RoomForBeat
  <2>2. InCls(e) \in Class /\ TypeOK
    BY HeadDecoded DEF IInv
  <2>3. Len(dfifo[e][InCls(e)]) \in Nat
    BY <2>2, SpaceTypes
  <2> QED
    BY <2>1, <2>3, LinkAssumption
<1> QED
  BY <1>1, Inductive, PTL

(* With Headroom, the credit a peer withholds is never the credit a header *)
(* waits for: all that is missing from the counter is a partial batch.     *)
THEOREM NoMutualWait == Spec => []NoCreditDeadlock
<1>1. IInv => NoCreditDeadlock
  <2> SUFFICES ASSUME IInv, Headroom, NEW e \in End, NEW c \in Class,
                      Drained(e, c), Valid(e, c), Fits(e, c)
               PROVE  Need(e, c) <= cred[e][c]
    BY DEF NoCreditDeadlock, TxCan
  <2>1. TypeOK /\ CreditConserved /\ Peer(e) \in End
    BY PeerProperties DEF IInv
  <2>2. q[e][c] \in Hdr
    BY <2>1 DEF TypeOK, TxType
  <2>3. Need(e, c) \in Nat /\ Need(e, c) <= MAX_BEATS
    BY <2>2 DEF Fits, Need, Hdr
  <2>4. /\ Reserved(e, c) = 0 /\ Len(dfifo[Peer(e)][c]) = 0
        /\ Beats(wire[e], c) = 0 /\ Credits(wire[Peer(e)], c) = 0
    <3>1. Beats(<<>>, c) = 0 /\ Credits(<<>>, c) = 0
      <4>1. [i \in DOMAIN <<>> |-> BeatWt(<<>>[i], c)] = <<>>
        OBVIOUS
      <4>2. [i \in DOMAIN <<>> |-> CreditWt(<<>>[i], c)] = <<>>
        OBVIOUS
      <4> QED
        BY <4>1, <4>2, TotalEmpty DEF Beats, Credits
    <3> QED
      BY <3>1 DEF Drained, Reserved
  <2>5. /\ cred[e][c] \in Nat /\ ret[Peer(e)][c] \in Nat
        /\ cred[e][c] + ret[Peer(e)][c] = RX_BEATS
    <3>1. cred[e][c] \in Nat /\ ret[Peer(e)][c] \in Nat
      BY <2>1, SpaceTypes
    <3>2. Space(e, c) = RX_BEATS
      BY <2>1 DEF CreditConserved
    <3> QED
      BY <2>4, <3>1, <3>2 DEF Space
  <2>6. ret[Peer(e)][c] < CRED_BATCH
    BY <2>5, LinkAssumption DEF Drained, Due
  <2> QED
    BY <2>3, <2>5, <2>6, LinkAssumption DEF Headroom
<1> QED
  BY <1>1, Inductive, PTL

-----------------------------------------------------------------------------
(***************************************************************************)
(* The link implements the channel: what is pending, as five sequences one *)
(* after another, and what a packet that moves from one to the next does   *)
(* to the whole.                                                           *)
(***************************************************************************)
Five(a, b, c, d, f) == a \o b \o c \o d \o f
With(s, n) == Append(s, n)
Leads(n, s, r) == s # <<>> /\ s[1] = n /\ Tail(s) = r

LEMMA FiveType ==
  ASSUME NEW S, NEW a \in Seq(S), NEW b \in Seq(S), NEW c \in Seq(S),
         NEW d \in Seq(S), NEW f \in Seq(S)
  PROVE  Five(a, b, c, d, f) \in Seq(S)
<1>1. a \o b \in Seq(S)
  BY ConcatProperties
<1>2. a \o b \o c \in Seq(S)
  BY <1>1, ConcatProperties
<1>3. a \o b \o c \o d \in Seq(S)
  BY <1>2, ConcatProperties
<1> QED
  BY <1>3, ConcatProperties DEF Five

(* The first element, and what is left without it.                         *)
LEMMA TailOfCons ==
  ASSUME NEW S, NEW n \in S, NEW r \in Seq(S)
  PROVE  /\ <<n>> \o r \in Seq(S) /\ <<n>> \o r # <<>>
         /\ (<<n>> \o r)[1] = n /\ Tail(<<n>> \o r) = r
<1> DEFINE s == <<n>> \o r
           t == Tail(s)
<1>1. <<n>> \in Seq(S) /\ Len(<<n>>) = 1 /\ <<n>>[1] = n
  OBVIOUS
<1>2. /\ s \in Seq(S) /\ Len(s) = 1 + Len(r) /\ Len(r) \in Nat
      /\ \A i \in 1 .. 1 + Len(r) : s[i] = IF i <= 1 THEN <<n>>[i] ELSE r[i - 1]
  BY <1>1, ConcatProperties, LenProperties
<1> HIDE DEF s
<1>3. s # <<>> /\ s[1] = n
  BY <1>1, <1>2, EmptySeq
<1>4. /\ t \in Seq(S) /\ Len(t) = Len(s) - 1
      /\ \A i \in 1 .. Len(t) : t[i] = s[i + 1]
  BY <1>2, <1>3, HeadTailProperties
<1> HIDE DEF t
<1>5. Len(t) = Len(r) /\ \A i \in 1 .. Len(t) : t[i] = r[i]
  BY <1>2, <1>4
<1>6. t = r
  BY <1>4, <1>5, SeqEqual
<1> QED
  BY <1>2, <1>3, <1>6 DEF s, t

(* A packet enters the last place.                                         *)
LEMMA FiveEnter ==
  ASSUME NEW S, NEW a \in Seq(S), NEW b \in Seq(S), NEW c \in Seq(S),
         NEW d \in Seq(S), NEW n \in S
  PROVE  Five(a, b, c, d, <<n>>) = With(Five(a, b, c, d, <<>>), n)
<1> DEFINE u == ((a \o b) \o c) \o d
<1>1. u \in Seq(S)
  <2>1. a \o b \in Seq(S)
    BY ConcatProperties
  <2>2. (a \o b) \o c \in Seq(S)
    BY <2>1, ConcatProperties
  <2> QED
    BY <2>2, ConcatProperties
<1> HIDE DEF u
<1>2. u \o <<>> = u
  BY <1>1, ConcatEmptySeq
<1>3. u \o <<n>> = With(u, n)
  BY <1>1, AppendIsConcat DEF With
<1> QED
  BY <1>2, <1>3, Zenon DEF Five, u

(* A packet leaves the first place.                                        *)
LEMMA FiveLeave ==
  ASSUME NEW S, NEW b \in Seq(S), NEW c \in Seq(S), NEW d \in Seq(S),
         NEW f \in Seq(S), NEW n \in S
  PROVE  Leads(n, Five(<<n>>, b, c, d, f), Five(<<>>, b, c, d, f))
<1> DEFINE m == (b \o c) \o d
           r == m \o f
<1>1. <<n>> \in Seq(S) /\ b \o c \in Seq(S)
  BY ConcatProperties
<1>2. m \in Seq(S)
  BY <1>1, ConcatProperties
<1>3. (<<n>> \o b) \o c = <<n>> \o (b \o c)
  BY <1>1, ConcatAssociative
<1>4. (<<n>> \o (b \o c)) \o d = <<n>> \o m
  BY <1>1, ConcatAssociative, SMTT(40)
<1>5. <<>> \o b = b
  BY ConcatEmptySeq
<1>6. Five(<<>>, b, c, d, f) = r
  BY <1>5, Zenon DEF Five
<1>7. Five(<<n>>, b, c, d, f) = (<<n>> \o m) \o f
  BY <1>3, <1>4, Zenon DEF Five
<1> HIDE DEF m
<1>8. (<<n>> \o m) \o f = <<n>> \o r
  BY <1>1, <1>2, ConcatAssociative
<1>9. r \in Seq(S)
  BY <1>2, ConcatProperties
<1> HIDE DEF r
<1>10. <<n>> \o r # <<>> /\ (<<n>> \o r)[1] = n /\ Tail(<<n>> \o r) = r
  BY <1>9, TailOfCons
<1> QED
  BY <1>6, <1>7, <1>8, <1>10, Zenon DEF Leads

(* A packet moves from one place to the one before it.                     *)
LEMMA FiveMoves ==
  ASSUME NEW S, NEW a \in Seq(S), NEW b \in Seq(S), NEW c \in Seq(S),
         NEW d \in Seq(S), NEW f \in Seq(S), NEW n \in S
  PROVE  /\ Five(<<n>>, b, c, d, f) = Five(<<>>, <<n>> \o b, c, d, f)
         /\ Five(a, With(b, n), c, d, f) = Five(a, b, <<n>> \o c, d, f)
         /\ Five(a, b, With(c, n), <<>>, f) = Five(a, b, c, <<n>>, f)
         /\ Five(a, b, c, <<n>>, <<>>) = Five(a, b, c, <<>>, <<n>>)
<1>1. <<n>> \in Seq(S) /\ <<>> \in Seq(S)
  OBVIOUS
<1>2. a \o b \in Seq(S)
  BY ConcatProperties
<1>3. (a \o b) \o c \in Seq(S)
  BY <1>2, ConcatProperties
<1>4. ((a \o b) \o c) \o d \in Seq(S)
  BY <1>3, ConcatProperties
<1>5. With(b, n) = b \o <<n>> /\ With(c, n) = c \o <<n>>
  BY AppendIsConcat DEF With
<1>6. Five(<<n>>, b, c, d, f) = Five(<<>>, <<n>> \o b, c, d, f)
  <2>1. <<n>> \o b \in Seq(S)
    BY <1>1, ConcatProperties
  <2>2. <<>> \o (<<n>> \o b) = <<n>> \o b
    BY <2>1, ConcatEmptySeq
  <2> QED
    BY <2>2, Zenon DEF Five
<1>7. Five(a, With(b, n), c, d, f) = Five(a, b, <<n>> \o c, d, f)
  <2>1. a \o (b \o <<n>>) = (a \o b) \o <<n>>
    BY <1>1, ConcatAssociative
  <2>2. ((a \o b) \o <<n>>) \o c = (a \o b) \o (<<n>> \o c)
    BY <1>1, <1>2, ConcatAssociative
  <2> QED
    BY <1>5, <2>1, <2>2, Zenon DEF Five
<1>8. Five(a, b, With(c, n), <<>>, f) = Five(a, b, c, <<n>>, f)
  <2> DEFINE u == ((a \o b) \o c) \o <<n>>
  <2>1. (a \o b) \o (c \o <<n>>) = u
    BY <1>1, <1>2, ConcatAssociative, SMTT(40)
  <2>2. u \in Seq(S)
    BY <1>1, <1>3, ConcatProperties
  <2> HIDE DEF u
  <2>3. u \o <<>> = u
    BY <2>2, ConcatEmptySeq
  <2> QED
    BY <1>5, <2>1, <2>3, Zenon DEF Five, u
<1>9. Five(a, b, c, <<n>>, <<>>) = Five(a, b, c, <<>>, <<n>>)
  <2> DEFINE v == (a \o b) \o c
  <2> HIDE DEF v
  <2>1. v \in Seq(S) /\ v \o <<n>> \in Seq(S)
    BY <1>1, <1>3, ConcatProperties DEF v
  <2>2. v \o <<>> = v /\ (v \o <<n>>) \o <<>> = v \o <<n>>
    BY <2>1, ConcatEmptySeq
  <2> QED
    BY <2>2, Zenon DEF Five, v
<1> QED
  BY <1>6, <1>7, <1>8, <1>9

(* The packet numbers of a header FIFO.                                    *)
LEMMA TxnsParts ==
  ASSUME NEW s \in Seq(Hdr)
  PROVE  /\ Txns(s) \in Seq(Nat)
         /\ \A h \in Hdr : Txns(Append(s, h)) = With(Txns(s), h.txn)
         /\ s # <<>> => Txns(s) = <<Head(s).txn>> \o Txns(Tail(s))
<1>1. Len(s) \in Nat /\ DOMAIN s = 1 .. Len(s) /\ \A i \in 1 .. Len(s) : s[i] \in Hdr
  BY LenProperties, ElementOfSeq
<1>2. \A i \in 1 .. Len(s) : s[i].txn \in Nat
  BY <1>1 DEF Hdr
<1>3. Txns(s) \in Seq(Nat) /\ Len(Txns(s)) = Len(s)
  BY <1>1, <1>2 DEF Txns
<1>4. ASSUME NEW h \in Hdr PROVE Txns(Append(s, h)) = With(Txns(s), h.txn)
  <2> DEFINE a == Append(s, h)
  <2>1. /\ Len(a) = Len(s) + 1 /\ DOMAIN a = 1 .. Len(s) + 1
        /\ a[Len(s) + 1] = h /\ \A i \in 1 .. Len(s) : a[i] = s[i]
    BY AppendProperties, LenProperties
  <2>2. h.txn \in Nat
    BY DEF Hdr
  <2> HIDE DEF a
  <2>3. Txns(a) = Append(Txns(s), h.txn)
    BY <1>1, <1>3, <2>1, <2>2 DEF Txns
  <2> QED
    BY <2>3 DEF a, With
<1>5. ASSUME s # <<>> PROVE Txns(s) = <<Head(s).txn>> \o Txns(Tail(s))
  <2> DEFINE t == Tail(s)
             x == Txns(t)
             y == <<s[1].txn>>
  <2>1. /\ t \in Seq(Hdr) /\ Len(t) = Len(s) - 1 /\ Len(s) >= 1 /\ DOMAIN t = 1 .. Len(s) - 1
        /\ \A i \in 1 .. Len(s) - 1 : t[i] = s[i + 1]
        /\ Head(s) = s[1]
    BY <1>5, HeadTailProperties, LenProperties, EmptySeq
  <2> HIDE DEF t
  <2>2. \A i \in 1 .. Len(t) : t[i].txn \in Nat
    BY <1>1, <1>2, <2>1
  <2>3. /\ x \in Seq(Nat) /\ Len(x) = Len(s) - 1
        /\ \A i \in 1 .. Len(s) - 1 : x[i] = s[i + 1].txn
    BY <1>1, <2>1, <2>2 DEF Txns
  <2> HIDE DEF x
  <2>4. y \in Seq(Nat) /\ Len(y) = 1 /\ y[1] = s[1].txn
    BY <1>1, <1>2, <2>1
  <2> HIDE DEF y
  <2>5. /\ y \o x \in Seq(Nat) /\ Len(y \o x) = Len(y) + Len(x)
        /\ \A i \in 1 .. Len(y) + Len(x) :
             (y \o x)[i] = IF i <= Len(y) THEN y[i] ELSE x[i - Len(y)]
    BY <2>3, <2>4, ConcatProperties
  <2>6. ASSUME NEW i \in 1 .. Len(s) PROVE Txns(s)[i] = (y \o x)[i]
    <3>1. Txns(s)[i] = s[i].txn
      BY <1>1 DEF Txns
    <3>2. (y \o x)[i] = IF i <= 1 THEN y[i] ELSE x[i - 1]
      BY <1>1, <2>3, <2>4, <2>5
    <3>3. CASE i = 1
      BY <2>4, <3>1, <3>2, <3>3
    <3>4. CASE i # 1
      <4>1. i - 1 \in 1 .. Len(s) - 1 /\ (i - 1) + 1 = i /\ ~(i <= 1)
        BY <1>1, <3>4
      <4> QED
        BY <2>3, <3>1, <3>2, <4>1
    <3> QED
      BY <3>3, <3>4
  <2>7. Len(y \o x) = Len(s)
    BY <1>1, <2>3, <2>4, <2>5
  <2>8. Txns(s) = y \o x
    BY <1>3, <2>5, <2>6, <2>7, SeqEqual
  <2> QED
    BY <2>1, <2>8 DEF x, y, t
<1> QED
  BY <1>3, <1>4, <1>5

(* The packet numbers on a wire, and where its headers are.                *)
LEMMA WireParts ==
  ASSUME NEW w \in Seq(Beat), NEW c
  PROVE  /\ UserTxns(w) \in Seq(Nat) /\ Len(UserTxns(w)) = Len(w)
         /\ Headers(w, c) \in SUBSET (1 .. Len(UserTxns(w)))
<1>1. Len(w) \in Nat /\ DOMAIN w = 1 .. Len(w) /\ \A i \in 1 .. Len(w) : w[i] \in Beat
  BY LenProperties, ElementOfSeq
<1>2. \A i \in 1 .. Len(w) : w[i].user \in Hdr
  BY <1>1 DEF Beat
<1>3. \A i \in 1 .. Len(w) : w[i].user.txn \in Nat
  BY <1>2 DEF Hdr
<1>4. UserTxns(w) \in Seq(Nat) /\ Len(UserTxns(w)) = Len(w)
  BY <1>1, <1>3 DEF UserTxns
<1>5. Headers(w, c) \in SUBSET (1 .. Len(w))
  BY <1>1 DEF Headers
<1> QED
  BY <1>4, <1>5

(* A beat sent on a wire adds its packet if it is a header of the class.   *)
LEMMA CrossAppend ==
  ASSUME NEW w \in Seq(Beat), NEW b \in Beat, NEW c
  PROVE  Picked(UserTxns(Append(w, b)), Headers(Append(w, b), c)) =
           IF b.user.kind = "PKT" /\ b.data.cls = c
           THEN With(Picked(UserTxns(w), Headers(w, c)), b.user.txn)
           ELSE Picked(UserTxns(w), Headers(w, c))
<1> DEFINE a == Append(w, b)
           u == UserTxns(w)
           n == Len(w)
<1>1. /\ u \in Seq(Nat) /\ Len(u) = n /\ n \in Nat /\ DOMAIN w = 1 .. n
      /\ Headers(w, c) \in SUBSET (1 .. Len(u))
  BY WireParts, LenProperties
<1>2. /\ a \in Seq(Beat) /\ Len(a) = n + 1 /\ DOMAIN a = 1 .. n + 1
      /\ a[n + 1] = b /\ \A i \in 1 .. n : a[i] = w[i]
  BY AppendProperties, LenProperties
<1>3. b.user \in Hdr
  BY DEF Beat
<1>4. b.user.txn \in Nat
  BY <1>3 DEF Hdr
<1> HIDE DEF a, n
<1>5. UserTxns(a) = Append(u, b.user.txn)
  BY <1>1, <1>2, <1>4 DEF UserTxns
<1>6. \A i \in 1 .. n + 1 : i \in 1 .. n \/ i = n + 1
  BY <1>1
<1>7. 1 .. n \subseteq 1 .. n + 1 /\ n + 1 \in 1 .. n + 1
  BY <1>1
<1>8. Headers(a, c) = IF b.user.kind = "PKT" /\ b.data.cls = c
                      THEN Headers(w, c) \cup {Len(u) + 1} ELSE Headers(w, c)
  <2> HIDE DEF u
  <2>1. CASE b.user.kind = "PKT" /\ b.data.cls = c
    BY <1>1, <1>2, <1>6, <1>7, <2>1 DEF Headers
  <2>2. CASE ~(b.user.kind = "PKT" /\ b.data.cls = c)
    BY <1>1, <1>2, <1>6, <1>7, <2>2 DEF Headers
  <2> QED
    BY <2>1, <2>2
<1> HIDE DEF u
<1>9. /\ Picked(Append(u, b.user.txn), Headers(w, c)) = Picked(u, Headers(w, c))
      /\ Picked(Append(u, b.user.txn), Headers(w, c) \cup {Len(u) + 1})
           = With(Picked(u, Headers(w, c)), b.user.txn)
  <2> DEFINE P == Headers(w, c)
             x == b.user.txn
  <2>1. u \in Seq(Nat) /\ P \in SUBSET (1 .. Len(u)) /\ x \in Nat
    BY <1>1, <1>4
  <2> HIDE DEF P, x
  <2>2. Picked(Append(u, x), P) = Picked(u, P)
    BY <2>1, PickedAppend, ZenonT(40)
  <2>3. Picked(Append(u, x), P \cup {Len(u) + 1}) = With(Picked(u, P), x)
    BY <2>1, PickedAppend, SMTT(40) DEF With
  <2> QED
    BY <2>2, <2>3 DEF P, x
<1> QED
  BY <1>5, <1>8, <1>9, Zenon DEF a, u

(* The oldest beat decoded takes its packet with it if it is such a header.*)
LEMMA CrossTail ==
  ASSUME NEW w \in Seq(Beat), w # <<>>, NEW c
  PROVE  Picked(UserTxns(w), Headers(w, c)) =
           (IF Head(w).user.kind = "PKT" /\ Head(w).data.cls = c
            THEN <<Head(w).user.txn>> ELSE <<>>)
             \o Picked(UserTxns(Tail(w)), Headers(Tail(w), c))
<1> DEFINE t == Tail(w)
           u == UserTxns(w)
           n == Len(w)
<1>1. /\ u \in Seq(Nat) /\ Len(u) = n /\ n \in Nat /\ n >= 1 /\ DOMAIN w = 1 .. n
      /\ Headers(w, c) \in SUBSET (1 .. Len(u))
  BY WireParts, LenProperties, EmptySeq
<1>2. /\ t \in Seq(Beat) /\ Len(t) = n - 1 /\ DOMAIN t = 1 .. n - 1
      /\ \A i \in 1 .. n - 1 : t[i] = w[i + 1]
      /\ Head(w) = w[1]
  BY HeadTailProperties, LenProperties, EmptySeq
<1>3. UserTxns(t) \in Seq(Nat) /\ Headers(t, c) \in SUBSET (1 .. n - 1)
  BY <1>2, WireParts
<1> HIDE DEF t, n
<1>4. u # <<>> /\ u[1] = w[1].user.txn
  BY <1>1 DEF UserTxns
<1>5. Tail(u) = UserTxns(t)
  <2>1. Tail(u) \in Seq(Nat) /\ Len(Tail(u)) = n - 1
        /\ \A i \in 1 .. n - 1 : Tail(u)[i] = u[i + 1]
    BY <1>1, <1>4, HeadTailProperties
  <2>2. Len(UserTxns(t)) = n - 1
    BY <1>2, WireParts
  <2>3. \A i \in 1 .. n - 1 : i + 1 \in 1 .. n
    BY <1>1
  <2>4. \A i \in 1 .. n - 1 : u[i + 1] = w[i + 1].user.txn /\ UserTxns(t)[i] = t[i].user.txn
    BY <1>1, <1>2, <2>3 DEF UserTxns
  <2> HIDE DEF u
  <2>5. \A i \in 1 .. n - 1 : Tail(u)[i] = UserTxns(t)[i]
    BY <1>2, <2>1, <2>4
  <2> QED
    BY <1>3, <2>1, <2>2, <2>5, SeqEqual
<1>6. \A i \in 1 .. n - 1 : i \in Headers(t, c) <=> i + 1 \in Headers(w, c)
  <2>1. \A i \in 1 .. n - 1 : i + 1 \in 1 .. n
    BY <1>1
  <2> QED
    BY <1>1, <1>2, <2>1 DEF Headers
<1>7. 1 \in Headers(w, c) <=> w[1].user.kind = "PKT" /\ w[1].data.cls = c
  BY <1>1 DEF Headers
<1> HIDE DEF u
<1>8. Picked(u, Headers(w, c)) =
        (IF 1 \in Headers(w, c) THEN <<u[1]>> ELSE <<>>) \o Picked(Tail(u), Headers(t, c))
  BY <1>1, <1>3, <1>4, <1>6, PickedTail
<1> QED
  BY <1>2, <1>4, <1>5, <1>7, <1>8 DEF t, u

(* Pending is the five of a stream, each a sequence of packet numbers.     *)
LEMMA PendingParts ==
  ASSUME TypeOK, NEW e \in End, NEW c \in Class
  PROVE  /\ Opened(e, c) \in Seq(Nat) /\ Filed(e, c) \in Seq(Nat)
         /\ Crossing(e, c) \in Seq(Nat) /\ Leaving(e, c) \in Seq(Nat)
         /\ Held(e, c) \in Seq(Nat)
         /\ Pending(e, c) = Five(Opened(e, c), Filed(e, c), Crossing(e, c),
                                 Leaving(e, c), Held(e, c))
<1>1. Peer(e) \in End
  BY PeerProperties
<1>2. Opened(e, c) \in Seq(Nat)
  <2>1. open[Peer(e)][c] \in [txn : Nat, left : Int]
    BY <1>1 DEF TypeOK, EnvType
  <2>2. open[Peer(e)][c].txn \in Nat
    BY <2>1
  <2> QED
    BY <2>2 DEF Opened
<1>3. Filed(e, c) \in Seq(Nat)
  <2>1. hfifo[Peer(e)][c] \in Seq(Hdr)
    BY <1>1 DEF TypeOK, FifoType
  <2> QED
    BY <2>1, TxnsParts DEF Filed
<1>4. Crossing(e, c) \in Seq(Nat)
  <2>1. wire[e] \in Seq(Beat)
    BY DEF TypeOK, RxType
  <2>2. /\ UserTxns(wire[e]) \in Seq(Nat)
        /\ Headers(wire[e], c) \in SUBSET (1 .. Len(UserTxns(wire[e])))
    BY <2>1, WireParts
  <2> QED
    BY <2>2, PickedType DEF Crossing
<1>5. Leaving(e, c) \in Seq(Nat) /\ Held(e, c) \in Seq(Nat)
  <2>1. thdr[e] \in Hdr /\ q[e][c] \in Hdr
    BY DEF TypeOK, TxType
  <2>2. thdr[e].txn \in Nat /\ q[e][c].txn \in Nat
    BY <2>1 DEF Hdr
  <2> QED
    BY <2>2 DEF Leaving, Held
<1> QED
  BY <1>2, <1>3, <1>4, <1>5 DEF Pending, Five

-----------------------------------------------------------------------------
(***************************************************************************)
(* What a step does to a stream.                                           *)
(***************************************************************************)
Kept(e, c) ==
  Pending(e, c)' = Pending(e, c) /\ taken'[Peer(e)][c] = taken[Peer(e)][c]

Delivers(e, c) ==
  /\ Pending(e, c) # <<>> /\ Pending(e, c)' = Tail(Pending(e, c))
  /\ taken'[Peer(e)][c] = taken[Peer(e)][c] + 1

Accepts(e, c) ==
  /\ <<e, c>> \in Streams
  /\ \E n \in 1 .. MaxPkts : Pending(e, c)' = With(Pending(e, c), n)
  /\ taken'[Peer(e)][c] = taken[Peer(e)][c]

ChanStep(e, c) == Kept(e, c) \/ Delivers(e, c) \/ Accepts(e, c)

(* A stream of which nothing moves.                                        *)
LEMMA StillKept ==
  ASSUME NEW e, NEW c,
         Opened(e, c)' = Opened(e, c), Filed(e, c)' = Filed(e, c),
         Crossing(e, c)' = Crossing(e, c), Leaving(e, c)' = Leaving(e, c),
         Held(e, c)' = Held(e, c), taken'[Peer(e)][c] = taken[Peer(e)][c]
  PROVE  ChanStep(e, c)
BY DEF ChanStep, Kept, Pending

(* What arrived is only told apart by the receiver's registers.            *)
LEMMA SamePaired ==
  ASSUME HeadersPaired,
         UNCHANGED <<hfifo, open, dfifo, r_first, cur_is_cred, cur_cls>>
  PROVE  HeadersPaired'
<1> SUFFICES ASSUME NEW e \in End, NEW c \in Class
             PROVE  Len(hfifo'[e][c]) + (IF open'[e][c] # NoPkt THEN 1 ELSE 0)
                      = LastBeats(dfifo'[e][c]) + (IF Arriving(e, c)' THEN 1 ELSE 0)
  BY Zenon DEF HeadersPaired
<1>1. Arriving(e, c)' <=> Arriving(e, c)
  BY DEF Arriving
<1>2. /\ hfifo'[e][c] = hfifo[e][c] /\ open'[e][c] = open[e][c]
      /\ dfifo'[e][c] = dfifo[e][c]
  OBVIOUS
<1>3. Len(hfifo[e][c]) + (IF open[e][c] # NoPkt THEN 1 ELSE 0)
        = LastBeats(dfifo[e][c]) + (IF Arriving(e, c) THEN 1 ELSE 0)
  BY Zenon DEF HeadersPaired
<1> QED
  BY <1>1, <1>2, <1>3

LEMMA OfferHeaderMoves ==
  ASSUME ChanInv, NEW e \in End, NEW c \in Class, OfferHeader(e, c)
  PROVE  HeadersPaired' /\ \A f \in End, k \in Class : ChanStep(f, k)
<1>1. TypeOK /\ HeadersPaired
  BY DEF ChanInv, IInv
<1>2. /\ offered[e][c] < MaxPkts /\ ~Valid(e, c) /\ <<e, c>> \in Streams
      /\ UNCHANGED <<tst, tsel, tleft, thdr, thdr_first, csel, csend, cred, ret,
                     r_first, cur_is_cred, cur_cls, hfifo, dfifo, open, taken,
                     wire, fault_len>>
  BY DEF OfferHeader, credVars, rxVars
<1>3. PICK n \in 1 .. MaxPkts : n = offered[e][c] + 1 /\ n \in Nat
  <2>1. offered[e][c] \in 0 .. MaxPkts
    BY <1>1 DEF TypeOK, EnvType
  <2> QED
    BY <1>2, <2>1, LinkAssumption
<1>4. PICK len \in Lens[c] :
        q' = [q EXCEPT ![e][c] =
                [kind |-> "PKT", dmesh |-> IF c = 0 THEN Peer(e) ELSE BeyondMesh,
                 txn |-> n, len |-> len, addr |-> 0]]
  BY <1>3 DEF OfferHeader
<1> DEFINE h == [kind |-> "PKT", dmesh |-> IF c = 0 THEN Peer(e) ELSE BeyondMesh,
                 txn |-> n, len |-> len, addr |-> 0]
<1>5. h \in Hdr /\ h.kind = "PKT" /\ h.txn = n
  BY <1>3, LinkAssumption DEF Hdr, Kind, Mesh, BeyondMesh, End, Class, Peer
<1>6. q' = [q EXCEPT ![e][c] = h]
  BY <1>4
<1> HIDE DEF h
<1>7. q \in [End -> [Class -> Hdr]]
  BY <1>1 DEF TypeOK, TxType
<1>8. \A d \in End, k \in Class :
        q'[d][k] = IF d = e /\ k = c THEN h ELSE q[d][k]
  BY <1>5, <1>6, <1>7, ExceptClass
<1>9. HeadersPaired'
  BY <1>1, <1>2, SamePaired
<1>10. ASSUME NEW f \in End, NEW k \in Class PROVE ChanStep(f, k)
  <2>1. /\ Opened(f, k)' = Opened(f, k) /\ Filed(f, k)' = Filed(f, k)
        /\ Crossing(f, k)' = Crossing(f, k) /\ Leaving(f, k)' = Leaving(f, k)
        /\ taken'[Peer(f)][k] = taken[Peer(f)][k]
    BY <1>2 DEF Opened, Filed, Crossing, Leaving
  <2>2. CASE f = e /\ k = c
    <3>1. Held(e, c) = <<>> /\ Held(e, c)' = <<n>>
      BY <1>2, <1>5, <1>8 DEF Held, Valid
    <3>2. Pending(e, c)' = With(Pending(e, c), n)
      <4>1. Five(Opened(e, c), Filed(e, c), Crossing(e, c), Leaving(e, c), <<n>>)
              = With(Five(Opened(e, c), Filed(e, c), Crossing(e, c),
                          Leaving(e, c), <<>>), n)
        <5>1. /\ Opened(e, c) \in Seq(Nat) /\ Filed(e, c) \in Seq(Nat)
              /\ Crossing(e, c) \in Seq(Nat) /\ Leaving(e, c) \in Seq(Nat)
          BY <1>1, PendingParts
        <5> QED
          BY <1>3, <5>1, FiveEnter
      <4>2. Pending(e, c) = Five(Opened(e, c), Filed(e, c), Crossing(e, c),
                                 Leaving(e, c), <<>>)
        BY <1>1, <3>1, PendingParts
      <4>3. Pending(e, c)' = Five(Opened(e, c), Filed(e, c), Crossing(e, c),
                                  Leaving(e, c), <<n>>)
        BY <2>1, <2>2, <3>1 DEF Pending, Five
      <4> QED
        BY <4>1, <4>2, <4>3, Zenon
    <3> QED
      BY <1>2, <1>3, <2>1, <2>2, <3>2 DEF ChanStep, Accepts
  <2>3. CASE ~(f = e /\ k = c)
    <3>1. Held(f, k)' = Held(f, k)
      BY <1>8, <2>3 DEF Held, Valid
    <3> QED
      BY <2>1, <3>1, StillKept
  <2> QED
    BY <2>2, <2>3
<1> QED
  BY <1>9, <1>10

LEMMA GrantMoves ==
  ASSUME ChanInv, NEW e \in End, NEW c \in Class, Grant(e, c)
  PROVE  HeadersPaired' /\ \A f \in End, k \in Class : ChanStep(f, k)
<1>1. TypeOK /\ HeadersPaired
  BY DEF ChanInv, IInv
<1>2. /\ tst[e] = "IDLE" /\ Valid(e, c)
      /\ q'     = [q EXCEPT ![e][c] = ZeroHdr]
      /\ thdr'  = [thdr EXCEPT ![e] = q[e][c]]
      /\ tsel'  = [tsel EXCEPT ![e] = c]
      /\ thdr_first' = [thdr_first EXCEPT ![e] = TRUE]
      /\ tst'   = [tst EXCEPT ![e] = "DATA"]
      /\ UNCHANGED <<r_first, cur_is_cred, cur_cls, hfifo, dfifo, open, taken,
                     wire>>
  BY DEF Grant, TxCan, rxVars, envVars
<1>3. /\ q \in [End -> [Class -> Hdr]] /\ q[e][c] \in Hdr /\ q[e][c].txn \in Nat
      /\ tst \in [End -> {"IDLE", "CRED", "DATA"}] /\ tsel \in [End -> Class]
      /\ thdr \in [End -> Hdr] /\ thdr_first \in [End -> BOOLEAN]
  BY <1>1 DEF TypeOK, TxType, Hdr
<1>4. ZeroHdr \in Hdr /\ ZeroHdr.kind = "NONE"
  BY DEF ZeroHdr, Hdr, Kind, Mesh, Class
<1>5. \A d \in End, k \in Class :
        q'[d][k] = IF d = e /\ k = c THEN ZeroHdr ELSE q[d][k]
  BY <1>2, <1>3, <1>4, ExceptClass
<1>6. /\ thdr'[e] = q[e][c] /\ tsel'[e] = c /\ thdr_first'[e] /\ tst'[e] = "DATA"
      /\ \A d \in End \ {e} : /\ thdr'[d] = thdr[d] /\ tsel'[d] = tsel[d]
                             /\ thdr_first'[d] = thdr_first[d] /\ tst'[d] = tst[d]
  BY <1>2, <1>3
<1>7. HeadersPaired'
  BY <1>1, <1>2, SamePaired
<1>8. ASSUME NEW f \in End, NEW k \in Class PROVE ChanStep(f, k)
  <2>1. /\ Opened(f, k)' = Opened(f, k) /\ Filed(f, k)' = Filed(f, k)
        /\ Crossing(f, k)' = Crossing(f, k)
        /\ taken'[Peer(f)][k] = taken[Peer(f)][k]
    BY <1>2 DEF Opened, Filed, Crossing
  <2>2. CASE f = e /\ k = c
    <3> DEFINE n == q[e][c].txn
    <3>1. Held(e, c) = <<n>> /\ Held(e, c)' = <<>>
      BY <1>2, <1>4, <1>5 DEF Held, Valid
    <3>2. Leaving(e, c) = <<>> /\ Leaving(e, c)' = <<n>>
      BY <1>2, <1>6 DEF Leaving
    <3> HIDE DEF n
    <3>3. Pending(e, c)' = Pending(e, c)
      <4>1. Five(Opened(e, c), Filed(e, c), Crossing(e, c), <<n>>, <<>>)
              = Five(Opened(e, c), Filed(e, c), Crossing(e, c), <<>>, <<n>>)
        <5>1. /\ Opened(e, c) \in Seq(Nat) /\ Filed(e, c) \in Seq(Nat)
              /\ Crossing(e, c) \in Seq(Nat)
          BY <1>1, PendingParts
        <5>2. <<>> \in Seq(Nat) /\ n \in Nat
          BY <1>3 DEF n
        <5> QED
          BY <5>1, <5>2, FiveMoves
      <4>2. Pending(e, c) = Five(Opened(e, c), Filed(e, c), Crossing(e, c),
                                 <<>>, <<n>>)
        BY <1>1, <3>1, <3>2, PendingParts
      <4>3. Pending(e, c)' = Five(Opened(e, c), Filed(e, c), Crossing(e, c),
                                  <<n>>, <<>>)
        BY <2>1, <2>2, <3>1, <3>2 DEF Pending, Five
      <4> QED
        BY <4>1, <4>2, <4>3, Zenon
    <3> QED
      BY <2>1, <2>2, <3>3 DEF ChanStep, Kept
  <2>3. CASE ~(f = e /\ k = c)
    <3>1. Held(f, k)' = Held(f, k)
      BY <1>5, <2>3 DEF Held, Valid
    <3>2. Leaving(f, k)' = Leaving(f, k)
      <4>1. CASE f = e
        <5>1. k # c
          BY <2>3, <4>1
        <5> QED
          BY <1>2, <1>6, <4>1, <5>1 DEF Leaving
      <4>2. CASE f # e
        BY <1>6, <4>2 DEF Leaving
      <4> QED
        BY <4>1, <4>2
    <3> QED
      BY <2>1, <3>1, <3>2, StillKept
  <2> QED
    BY <2>2, <2>3
<1> QED
  BY <1>7, <1>8

LEMMA CreditMoves ==
  ASSUME ChanInv, NEW e \in End, StartCredit(e) \/ SendCredit(e) \/ FlagLen(e)
  PROVE  HeadersPaired' /\ \A f \in End, k \in Class : ChanStep(f, k)
<1>1. TypeOK /\ HeadersPaired
  BY DEF ChanInv, IInv
<1>2. UNCHANGED <<q, tsel, thdr, thdr_first, r_first, cur_is_cred, cur_cls, hfifo,
                  dfifo, open, taken>>
  BY DEF StartCredit, SendCredit, FlagLen, txVars, rxVars, envVars
<1>3. tst \in [End -> {"IDLE", "CRED", "DATA"}]
  BY <1>1 DEF TypeOK, TxType
<1>4. \A f \in End : tst'[f] = "DATA" <=> tst[f] = "DATA"
  <2>1. CASE StartCredit(e)
    BY <1>3, <2>1 DEF StartCredit, CredGo
  <2>2. CASE SendCredit(e)
    BY <1>3, <2>2 DEF SendCredit
  <2>3. CASE FlagLen(e)
    BY <2>3 DEF FlagLen, txVars
  <2> QED
    BY <2>1, <2>2, <2>3
<1>5. ASSUME NEW f \in End, NEW k \in Class
      PROVE  Crossing(f, k)' = Crossing(f, k)
  <2>1. CASE SendCredit(e)
    <3> DEFINE b == CreditBeat(e)
    <3>1. wire \in [End -> Seq(Beat)] /\ csel[e] \in Class /\ csend[e] \in Nat
      BY <1>1, LinkAssumption DEF TypeOK, RxType, TxType
    <3>2. b \in Beat /\ b.user.kind = "CREDIT"
      BY <3>1, PeerProperties
         DEF CreditBeat, Beat, Hdr, Kind, Mesh, BeyondMesh, End, Class, Data, Peer
    <3>3. wire' = [wire EXCEPT ![e] = Append(wire[e], b)]
      BY <2>1 DEF SendCredit
    <3> HIDE DEF b
    <3>4. CASE f = e
      <4>1. wire'[f] = Append(wire[f], b) /\ wire[f] \in Seq(Beat)
        BY <3>1, <3>3, <3>4
      <4>2. Picked(UserTxns(Append(wire[f], b)), Headers(Append(wire[f], b), k))
              = Picked(UserTxns(wire[f]), Headers(wire[f], k))
        BY <3>2, <4>1, CrossAppend
      <4> QED
        BY <4>1, <4>2 DEF Crossing
    <3>5. CASE f # e
      <4>1. wire'[f] = wire[f]
        BY <3>1, <3>3, <3>5
      <4> QED
        BY <4>1 DEF Crossing
    <3> QED
      BY <3>4, <3>5
  <2>2. CASE ~SendCredit(e)
    <3>1. wire' = wire
      BY <2>2 DEF StartCredit, FlagLen
    <3> QED
      BY <3>1 DEF Crossing
  <2> QED
    BY <2>1, <2>2
<1>6. HeadersPaired'
  BY <1>1, <1>2, SamePaired
<1>7. ASSUME NEW f \in End, NEW k \in Class PROVE ChanStep(f, k)
  <2>1. /\ Opened(f, k)' = Opened(f, k) /\ Filed(f, k)' = Filed(f, k)
        /\ taken'[Peer(f)][k] = taken[Peer(f)][k] /\ Held(f, k)' = Held(f, k)
    BY <1>2 DEF Opened, Filed, Held, Valid
  <2>2. Leaving(f, k)' = Leaving(f, k)
    BY <1>2, <1>4 DEF Leaving
  <2> QED
    BY <1>5, <2>1, <2>2, StillKept
<1> QED
  BY <1>6, <1>7

LEMMA SendBeatMoves ==
  ASSUME ChanInv, NEW e \in End, SendBeat(e)
  PROVE  HeadersPaired' /\ \A f \in End, k \in Class : ChanStep(f, k)
<1>1. TypeOK /\ HeadersPaired /\ WireFramed
  BY DEF ChanInv, IInv
<1> DEFINE b == DataBeat(e)
<1>2. /\ tst[e] = "DATA"
      /\ wire'  = [wire EXCEPT ![e] = Append(wire[e], b)]
      /\ thdr_first' = [thdr_first EXCEPT ![e] = FALSE]
      /\ tst'   = [tst EXCEPT ![e] = IF tleft[e] = 1 THEN "IDLE" ELSE tst[e]]
      /\ UNCHANGED <<q, tsel, thdr, r_first, cur_is_cred, cur_cls, hfifo, dfifo,
                     open, taken>>
  BY DEF SendBeat, credVars, rxVars, envVars
<1>3. /\ tsel[e] \in Class /\ thdr[e] \in Hdr /\ Classed(e, thdr[e], tsel[e])
  BY <1>1, <1>2 DEF TypeOK, TxType, WireFramed, TxFramed
<1>4. /\ tst \in [End -> {"IDLE", "CRED", "DATA"}] /\ wire \in [End -> Seq(Beat)]
      /\ thdr_first \in [End -> BOOLEAN]
  BY <1>1 DEF TypeOK, TxType, RxType
<1>5. b \in Beat
  BY <1>3
     DEF DataBeat, Beat, ZeroHdr, Hdr, Kind, Mesh, BeyondMesh, Class, Data
<1>6. /\ b.data.cls = tsel[e]
      /\ thdr_first[e] => b.user.kind = "PKT" /\ b.user.txn = thdr[e].txn
      /\ ~thdr_first[e] => b.user.kind # "PKT"
  BY <1>3 DEF DataBeat, Classed, ZeroHdr
<1> HIDE DEF b
<1>7. HeadersPaired'
  BY <1>1, <1>2, SamePaired
<1>8. ASSUME NEW f \in End, NEW k \in Class
      PROVE  Crossing(f, k)' = IF f = e /\ k = tsel[e] /\ thdr_first[e]
                               THEN With(Crossing(f, k), thdr[e].txn)
                               ELSE Crossing(f, k)
  <2>1. CASE f = e
    <3>1. wire'[f] = Append(wire[f], b) /\ wire[f] \in Seq(Beat)
      BY <1>2, <1>4, <2>1
    <3>2. Crossing(f, k)' = IF b.user.kind = "PKT" /\ b.data.cls = k
                            THEN With(Crossing(f, k), b.user.txn)
                            ELSE Crossing(f, k)
      BY <1>5, <3>1, CrossAppend DEF Crossing
    <3> QED
      BY <1>6, <2>1, <3>2
  <2>2. CASE f # e
    <3>1. wire'[f] = wire[f]
      BY <1>2, <1>4, <2>2
    <3> QED
      BY <2>2, <3>1 DEF Crossing
  <2> QED
    BY <2>1, <2>2
<1>9. ASSUME NEW f \in End, NEW k \in Class PROVE ChanStep(f, k)
  <2>1. /\ Opened(f, k)' = Opened(f, k) /\ Filed(f, k)' = Filed(f, k)
        /\ Held(f, k)' = Held(f, k) /\ taken'[Peer(f)][k] = taken[Peer(f)][k]
    BY <1>2 DEF Opened, Filed, Held, Valid
  <2>2. CASE f = e /\ k = tsel[e] /\ thdr_first[e]
    <3> DEFINE n == thdr[e].txn
    <3>1. Leaving(f, k) = <<n>> /\ Leaving(f, k)' = <<>> /\ n \in Nat
      BY <1>2, <1>3, <1>4, <2>2 DEF Leaving, Hdr
    <3> HIDE DEF n
    <3>2. Crossing(f, k)' = With(Crossing(f, k), n)
      BY <1>8, <2>2 DEF n
    <3>3. /\ Opened(f, k) \in Seq(Nat) /\ Filed(f, k) \in Seq(Nat)
          /\ Crossing(f, k) \in Seq(Nat) /\ Held(f, k) \in Seq(Nat)
      BY <1>1, PendingParts
    <3>4. Five(Opened(f, k), Filed(f, k), With(Crossing(f, k), n), <<>>, Held(f, k))
            = Five(Opened(f, k), Filed(f, k), Crossing(f, k), <<n>>, Held(f, k))
      BY <3>1, <3>3, FiveMoves
    <3>5. Pending(f, k) = Five(Opened(f, k), Filed(f, k), Crossing(f, k), <<n>>,
                               Held(f, k))
      BY <1>1, <3>1, PendingParts
    <3>6. Pending(f, k)' = Five(Opened(f, k), Filed(f, k), With(Crossing(f, k), n),
                                <<>>, Held(f, k))
      BY <2>1, <3>1, <3>2, Zenon DEF Pending, Five
    <3>7. Pending(f, k)' = Pending(f, k)
      BY <3>4, <3>5, <3>6, Zenon
    <3> QED
      BY <2>1, <3>7 DEF ChanStep, Kept
  <2>3. CASE ~(f = e /\ k = tsel[e] /\ thdr_first[e])
    <3>1. Crossing(f, k)' = Crossing(f, k)
      BY <1>8, <2>3
    <3>2. Leaving(f, k)' = Leaving(f, k)
      <4>1. CASE f = e
        BY <1>2, <1>4, <2>3, <4>1 DEF Leaving
      <4>2. CASE f # e
        BY <1>2, <1>4, <4>2 DEF Leaving
      <4> QED
        BY <4>1, <4>2
    <3> QED
      BY <2>1, <3>1, <3>2, StillKept
  <2> QED
    BY <2>2, <2>3
<1> QED
  BY <1>7, <1>9

(* The last beats a data FIFO holds.                                       *)
LEMMA LastBeatsParts ==
  ASSUME NEW s \in Seq(RxBeat)
  PROVE  /\ LastBeats(s) \in Nat /\ LastBeats(s) <= Len(s)
         /\ \A x \in RxBeat : LastBeats(Append(s, x)) =
              LastBeats(s) + (IF x.last THEN 1 ELSE 0)
         /\ s # <<>> => LastBeats(s) =
              (IF Head(s).last THEN 1 ELSE 0) + LastBeats(Tail(s))
<1> DEFINE W(x) == IF x.last THEN 1 ELSE 0
           v == [i \in DOMAIN s |-> W(s[i])]
<1>1. /\ Len(s) \in Nat /\ DOMAIN s = 1 .. Len(s)
      /\ \A i \in 1 .. Len(s) : s[i] \in RxBeat
  BY LenProperties, ElementOfSeq
<1>2. v \in Seq(Nat) /\ Len(v) = Len(s) /\ DOMAIN v = 1 .. Len(s)
  BY <1>1
<1>3. LastBeats(s) = Total(v)
  BY DEF LastBeats
<1>4. \A i \in 1 .. Len(s) : v[i] = W(s[i])
  BY <1>1
<1> HIDE DEF v
<1>5. Total(v) \in Nat
  BY <1>2, TotalType
<1>6. Total(v) <= Len(s)
  <2> DEFINE D == (1 .. Len(s)) \X {1}
  <2>1. IsFiniteSet(1 .. Len(s)) /\ Cardinality(1 .. Len(s)) = Len(s)
    <3>1. \A n \in Nat : IsFiniteSet(1 .. n) /\ Cardinality(1 .. n) = n
      BY FS_Interval
    <3> QED
      BY <1>1, <3>1
  <2>2. IsFiniteSet({1}) /\ Cardinality({1}) = 1
    BY FS_Singleton
  <2>3. IsFiniteSet(D) /\ Cardinality(D) = Len(s)
    <3>1. \A S, T : IsFiniteSet(S) /\ IsFiniteSet(T) => /\ IsFiniteSet(S \X T)
                       /\ Cardinality(S \X T) = Cardinality(S) * Cardinality(T)
      BY FS_Product
    <3>2. IsFiniteSet(D) /\ Cardinality(D) = Cardinality(1 .. Len(s)) * Cardinality({1})
      BY <2>1, <2>2, <3>1, Zenon
    <3> HIDE DEF D
    <3> QED
      BY <1>1, <2>1, <2>2, <3>2
  <2>4. Tokens(v) \in SUBSET D
    <3>1. \A i \in 1 .. Len(s) : (1 .. v[i]) \subseteq {1}
      BY <1>4
    <3> QED
      BY <1>2, <3>1 DEF Tokens
  <2> HIDE DEF D
  <2>5. Cardinality(Tokens(v)) <= Cardinality(D)
    BY <2>3, <2>4, FS_Subset
  <2> QED
    BY <1>1, <2>3, <2>5 DEF Total
<1>7. ASSUME NEW x \in RxBeat
      PROVE  LastBeats(Append(s, x)) = LastBeats(s) + W(x)
  <2> DEFINE a == Append(s, x)
             va == [i \in DOMAIN a |-> W(a[i])]
  <2>1. /\ Len(a) = Len(s) + 1 /\ DOMAIN a = 1 .. Len(s) + 1
        /\ a[Len(s) + 1] = x /\ \A i \in 1 .. Len(s) : a[i] = s[i]
    BY AppendProperties, LenProperties
  <2>2. LastBeats(a) = Total(va)
    BY DEF LastBeats
  <2> HIDE DEF a
  <2>3. va = Append(v, W(x))
    BY <1>1, <1>2, <1>4, <2>1
  <2>4. Total(Append(v, W(x))) = Total(v) + W(x)
    BY <1>2, TotalAppend
  <2> HIDE DEF va, W
  <2> QED
    BY <1>3, <2>2, <2>3, <2>4 DEF a
<1>8. ASSUME s # <<>>
      PROVE  LastBeats(s) = W(Head(s)) + LastBeats(Tail(s))
  <2> DEFINE t == Tail(s)
             vt == [i \in DOMAIN t |-> W(t[i])]
  <2>1. /\ t \in Seq(RxBeat) /\ Len(t) = Len(s) - 1 /\ DOMAIN t = 1 .. Len(s) - 1
        /\ Len(s) >= 1 /\ Head(s) = s[1]
        /\ \A i \in 1 .. Len(s) - 1 : t[i] = s[i + 1]
    BY <1>8, HeadTailProperties, LenProperties, EmptySeq
  <2>2. LastBeats(t) = Total(vt)
    BY DEF LastBeats
  <2> HIDE DEF t
  <2>3. vt = Tail(v)
    <3>1. \A i \in 1 .. Len(s) - 1 : i + 1 \in 1 .. Len(s)
      BY <1>1
    <3>2. /\ vt \in Seq(Nat) /\ Len(vt) = Len(s) - 1
          /\ \A i \in 1 .. Len(s) - 1 : vt[i] = W(s[i + 1])
      BY <1>1, <2>1
    <3>3. v # <<>>
      BY <1>2, <2>1
    <3>4. /\ Tail(v) \in Seq(Nat) /\ Len(Tail(v)) = Len(s) - 1
          /\ \A i \in 1 .. Len(s) - 1 : Tail(v)[i] = v[i + 1]
      BY <1>2, <3>3, HeadTailProperties
    <3> HIDE DEF vt, W
    <3>5. \A i \in 1 .. Len(vt) : vt[i] = Tail(v)[i]
      BY <1>4, <3>1, <3>2, <3>4
    <3> QED
      BY <3>2, <3>4, <3>5, SeqEqual
  <2>4. v # <<>> /\ v[1] = W(s[1])
    BY <1>1, <1>2, <1>4, <2>1
  <2>5. Total(v) = v[1] + Total(Tail(v))
    BY <1>2, <2>4, TotalTail
  <2> HIDE DEF vt, W
  <2> QED
    BY <1>3, <2>1, <2>2, <2>3, <2>4, <2>5 DEF t
<1> QED
  BY <1>3, <1>5, <1>6, <1>7, <1>8

(* A consumer opens the oldest packet filed: its header leaves the FIFO.   *)
LEMMA PopHeaderMoves ==
  ASSUME ChanInv, NEW e \in End, NEW c \in Class, PopHeader(e, c)
  PROVE  HeadersPaired' /\ \A f \in End, k \in Class : ChanStep(f, k)
<1>1. TypeOK /\ HeadersPaired
  BY DEF ChanInv, IInv
<1> DEFINE h == hfifo[e][c]
           o == [txn |-> Head(h).txn, left |-> Head(h).len + 1]
<1>2. /\ h # <<>> /\ open[e][c] = NoPkt
      /\ open' = [open EXCEPT ![e][c] = o]
      /\ hfifo' = [hfifo EXCEPT ![e][c] = Tail(h)]
      /\ UNCHANGED <<q, tst, tsel, thdr, thdr_first, r_first, cur_is_cred,
                     cur_cls, dfifo, taken, wire>>
  BY DEF PopHeader, txVars, credVars
<1>3. /\ hfifo \in [End -> [Class -> Seq(Hdr)]] /\ h \in Seq(Hdr)
      /\ open \in [End -> [Class -> [txn : Nat, left : Int]]]
  BY <1>1 DEF TypeOK, FifoType, EnvType
<1>4. /\ Head(h) \in Hdr /\ Tail(h) \in Seq(Hdr) /\ Len(Tail(h)) = Len(h) - 1
      /\ Len(h) \in Nat
  BY <1>2, <1>3, HeadTailProperties, LenProperties
<1>5. /\ o \in [txn : Nat, left : Int] /\ o # NoPkt
      /\ o.txn = Head(h).txn /\ Head(h).txn \in Nat
  BY <1>4 DEF Hdr, NoPkt
<1>6. Txns(h) = <<Head(h).txn>> \o Txns(Tail(h)) /\ Txns(Tail(h)) \in Seq(Nat)
  BY <1>2, <1>3, <1>4, TxnsParts
<1> HIDE DEF h, o
<1>7. /\ \A d \in End, k \in Class :
           hfifo'[d][k] = IF d = e /\ k = c THEN Tail(h) ELSE hfifo[d][k]
      /\ \A d \in End, k \in Class :
           open'[d][k] = IF d = e /\ k = c THEN o ELSE open[d][k]
  <2>1. \A d \in End, k \in Class :
          hfifo'[d][k] = IF d = e /\ k = c THEN Tail(h) ELSE hfifo[d][k]
    <3>1. hfifo' = [hfifo EXCEPT ![e][c] = Tail(h)]
      BY <1>2
    <3>2. hfifo \in [End -> [Class -> Seq(Hdr)]] /\ Tail(h) \in Seq(Hdr)
      BY <1>3, <1>4
    <3> QED
      BY <3>1, <3>2, ExceptClass, SMTT(40)
  <2>2. \A d \in End, k \in Class :
          open'[d][k] = IF d = e /\ k = c THEN o ELSE open[d][k]
    <3>1. open' = [open EXCEPT ![e][c] = o]
      BY <1>2
    <3>2. open \in [End -> [Class -> [txn : Nat, left : Int]]]
      BY <1>3
    <3> QED
      BY <1>5, <3>1, <3>2, ExceptClass, SMTT(40)
  <2> QED
    BY <2>1, <2>2
<1>8. HeadersPaired'
  <2> SUFFICES ASSUME NEW d \in End, NEW k \in Class
               PROVE  Len(hfifo'[d][k]) + (IF open'[d][k] # NoPkt THEN 1 ELSE 0)
                        = LastBeats(dfifo'[d][k])
                            + (IF Arriving(d, k)' THEN 1 ELSE 0)
    BY Zenon DEF HeadersPaired
  <2>1. (Arriving(d, k)' <=> Arriving(d, k)) /\ dfifo' = dfifo
    BY <1>2 DEF Arriving
  <2>2. Len(hfifo[d][k]) + (IF open[d][k] # NoPkt THEN 1 ELSE 0)
          = LastBeats(dfifo[d][k]) + (IF Arriving(d, k) THEN 1 ELSE 0)
    BY <1>1, Zenon DEF HeadersPaired
  <2>3. Len(hfifo'[d][k]) + (IF open'[d][k] # NoPkt THEN 1 ELSE 0)
          = Len(hfifo[d][k]) + (IF open[d][k] # NoPkt THEN 1 ELSE 0)
    <3>1. CASE d = e /\ k = c
      <4>1. Len(hfifo'[d][k]) = Len(h) - 1 /\ Len(hfifo[d][k]) = Len(h)
        BY <1>4, <1>7, <3>1 DEF h
      <4>2. open'[d][k] # NoPkt /\ open[d][k] = NoPkt
        BY <1>2, <1>5, <1>7, <3>1
      <4>3. /\ (IF open'[d][k] # NoPkt THEN 1 ELSE 0) = 1
            /\ (IF open[d][k] # NoPkt THEN 1 ELSE 0) = 0
        BY <4>2
      <4>4. (Len(h) - 1) + 1 = Len(h) + 0
        BY <1>4
      <4> QED
        BY <4>1, <4>3, <4>4, Zenon
    <3>2. CASE ~(d = e /\ k = c)
      BY <1>7, <3>2
    <3> QED
      BY <3>1, <3>2
  <2> QED
    BY <2>1, <2>2, <2>3
<1>9. ASSUME NEW f \in End, NEW k \in Class PROVE ChanStep(f, k)
  <2>1. /\ Crossing(f, k)' = Crossing(f, k) /\ Leaving(f, k)' = Leaving(f, k)
        /\ Held(f, k)' = Held(f, k)
        /\ taken'[Peer(f)][k] = taken[Peer(f)][k]
    BY <1>2 DEF Crossing, Leaving, Held, Valid
  <2>2. CASE Peer(f) = e /\ k = c
    <3> DEFINE n == Head(h).txn
               r == Txns(Tail(h))
    <3>1. Opened(f, k) = <<>> /\ Opened(f, k)' = <<n>>
      BY <1>2, <1>5, <1>7, <2>2 DEF Opened
    <3>2. Filed(f, k) = <<n>> \o r /\ Filed(f, k)' = r
      <4>1. Filed(f, k) = Txns(h)
        BY <2>2 DEF Filed, h
      <4>2. Filed(f, k)' = Txns(Tail(h))
        BY <1>7, <2>2 DEF Filed
      <4> QED
        BY <1>6, <4>1, <4>2, Zenon
    <3>3. n \in Nat /\ r \in Seq(Nat)
      BY <1>5, <1>6
    <3> HIDE DEF n, r
    <3>4. /\ Crossing(f, k) \in Seq(Nat) /\ Leaving(f, k) \in Seq(Nat)
          /\ Held(f, k) \in Seq(Nat)
      BY <1>1, PendingParts
    <3>5. Five(<<n>>, r, Crossing(f, k), Leaving(f, k), Held(f, k))
            = Five(<<>>, <<n>> \o r, Crossing(f, k), Leaving(f, k), Held(f, k))
      BY <3>3, <3>4, FiveMoves
    <3>6. Pending(f, k) = Five(<<>>, <<n>> \o r, Crossing(f, k), Leaving(f, k),
                               Held(f, k))
      BY <3>1, <3>2, Zenon DEF Pending, Five
    <3>7. Pending(f, k)' = Five(<<n>>, r, Crossing(f, k), Leaving(f, k),
                                Held(f, k))
      BY <2>1, <3>1, <3>2, Zenon DEF Pending, Five
    <3>8. Pending(f, k)' = Pending(f, k)
      BY <3>5, <3>6, <3>7, Zenon
    <3> QED
      BY <2>1, <3>8 DEF ChanStep, Kept
  <2>3. CASE ~(Peer(f) = e /\ k = c)
    <3>1. /\ hfifo'[Peer(f)][k] = hfifo[Peer(f)][k]
          /\ open'[Peer(f)][k] = open[Peer(f)][k]
      BY <1>7, <2>3, PeerProperties
    <3>2. Opened(f, k)' = Opened(f, k) /\ Filed(f, k)' = Filed(f, k)
      BY <3>1 DEF Opened, Filed
    <3> QED
      BY <2>1, <3>2, StillKept
  <2> QED
    BY <2>2, <2>3
<1> QED
  BY <1>8, <1>9

(* A consumer draws a beat: the packet it opened is delivered by the last. *)
LEMMA PopBeatMoves ==
  ASSUME ChanInv, NEW e \in End, NEW c \in Class, PopBeat(e, c)
  PROVE  HeadersPaired' /\ \A f \in End, k \in Class : ChanStep(f, k)
<1>1. TypeOK /\ HeadersPaired /\ Numbered
  BY DEF ChanInv, IInv
<1> DEFINE d == dfifo[e][c]
           n == open[e][c].txn
           o == IF Head(d).last THEN NoPkt
                ELSE [txn |-> n, left |-> open[e][c].left - 1]
           t == IF Head(d).last THEN taken[e][c] + 1 ELSE taken[e][c]
           p == Peer(e)
<1>2. /\ d # <<>> /\ open[e][c] # NoPkt
      /\ dfifo' = [dfifo EXCEPT ![e][c] = Tail(d)]
      /\ open'  = [open EXCEPT ![e][c] = o]
      /\ taken' = [taken EXCEPT ![e][c] = t]
      /\ UNCHANGED <<q, tst, tsel, thdr, thdr_first, r_first, cur_is_cred,
                     cur_cls, hfifo, wire>>
  <2>1. open' = [open EXCEPT ![e][c] = o]
    BY Zenon DEF PopBeat
  <2>2. taken' = [taken EXCEPT ![e][c] = t]
    BY Zenon DEF PopBeat
  <2>3. d # <<>> /\ dfifo' = [dfifo EXCEPT ![e][c] = Tail(d)]
    BY Zenon DEF PopBeat
  <2> QED
    BY <2>1, <2>2, <2>3 DEF PopBeat, txVars
<1>3. /\ dfifo \in [End -> [Class -> Seq(RxBeat)]] /\ d \in Seq(RxBeat)
      /\ open \in [End -> [Class -> [txn : Nat, left : Int]]]
      /\ taken \in [End -> [Class -> Nat]] /\ taken[e][c] \in Nat
      /\ n \in Nat /\ open[e][c].left \in Int
  BY <1>1 DEF TypeOK, FifoType, EnvType
<1>4. Tail(d) \in Seq(RxBeat) /\ Head(d) \in RxBeat
  BY <1>2, <1>3, HeadTailProperties
<1>5. p \in End /\ Peer(p) = e
  BY PeerProperties
<1>6. /\ Opened(p, c) = <<n>> /\ Filed(p, c) \in Seq(Nat)
      /\ Crossing(p, c) \in Seq(Nat) /\ Leaving(p, c) \in Seq(Nat)
      /\ Held(p, c) \in Seq(Nat)
      /\ Pending(p, c) = Five(Opened(p, c), Filed(p, c), Crossing(p, c),
                              Leaving(p, c), Held(p, c))
  <2>1. Opened(p, c) = <<n>>
    BY <1>2, <1>5 DEF Opened
  <2> QED
    BY <1>1, <1>5, <2>1, PendingParts
<1>7. o \in [txn : Nat, left : Int] /\ t \in Nat
  BY <1>3 DEF NoPkt
<1>8. /\ Head(d).last => o = NoPkt /\ t = taken[e][c] + 1
      /\ ~Head(d).last => o.txn = n /\ t = taken[e][c]
  OBVIOUS
<1> HIDE DEF d, n, o, t, p
<1>9. /\ \A f \in End, k \in Class :
           dfifo'[f][k] = IF f = e /\ k = c THEN Tail(d) ELSE dfifo[f][k]
      /\ \A f \in End, k \in Class :
           open'[f][k] = IF f = e /\ k = c THEN o ELSE open[f][k]
      /\ \A f \in End, k \in Class :
           taken'[f][k] = IF f = e /\ k = c THEN t ELSE taken[f][k]
  <2>1. \A f \in End, k \in Class :
          dfifo'[f][k] = IF f = e /\ k = c THEN Tail(d) ELSE dfifo[f][k]
    <3>1. dfifo' = [dfifo EXCEPT ![e][c] = Tail(d)]
      BY <1>2
    <3>2. dfifo \in [End -> [Class -> Seq(RxBeat)]] /\ Tail(d) \in Seq(RxBeat)
      BY <1>3, <1>4
    <3> QED
      BY <3>1, <3>2, ExceptClass, SMTT(40)
  <2>2. \A f \in End, k \in Class :
          open'[f][k] = IF f = e /\ k = c THEN o ELSE open[f][k]
    <3>1. open \in [End -> [Class -> [txn : Nat, left : Int]]]
      BY <1>3
    <3>2. open' = [open EXCEPT ![e][c] = o]
      BY <1>2
    <3> QED
      BY <1>7, <3>1, <3>2, ExceptClass, SMTT(40)
  <2>3. \A f \in End, k \in Class :
          taken'[f][k] = IF f = e /\ k = c THEN t ELSE taken[f][k]
    <3>1. taken \in [End -> [Class -> Nat]]
      BY <1>3
    <3>2. taken' = [taken EXCEPT ![e][c] = t]
      BY <1>2
    <3> QED
      BY <1>7, <3>1, <3>2, ExceptClass, SMTT(40)
  <2> QED
    BY <2>1, <2>2, <2>3
<1>10. Leads(n, Pending(p, c), Five(<<>>, Filed(p, c), Crossing(p, c),
                                     Leaving(p, c), Held(p, c)))
  <2>1. Leads(n, Five(<<n>>, Filed(p, c), Crossing(p, c), Leaving(p, c),
                      Held(p, c)),
              Five(<<>>, Filed(p, c), Crossing(p, c), Leaving(p, c), Held(p, c)))
    BY <1>3, <1>6, FiveLeave
  <2> QED
    BY <1>6, <2>1, Zenon
<1>11. n \in 1 .. MaxPkts
  <2>1. Pending(p, c) \in Seq(1 .. MaxPkts)
    BY <1>1, <1>5 DEF Numbered
  <2>2. Pending(p, c) # <<>> /\ Pending(p, c)[1] = n
    BY <1>10, Zenon DEF Leads
  <2>3. 1 \in 1 .. Len(Pending(p, c))
    BY <2>1, <2>2, EmptySeq, LenProperties
  <2> QED
    BY <2>1, <2>2, <2>3, ElementOfSeq
<1>12. ~Head(d).last => o # NoPkt
  <2>1. n # 0
    BY <1>11, LinkAssumption
  <2>2. NoPkt.txn = 0
    BY DEF NoPkt
  <2> QED
    BY <1>8, <2>1, <2>2
<1>13. HeadersPaired'
  <2> SUFFICES ASSUME NEW f \in End, NEW k \in Class
               PROVE  Len(hfifo'[f][k]) + (IF open'[f][k] # NoPkt THEN 1 ELSE 0)
                        = LastBeats(dfifo'[f][k])
                            + (IF Arriving(f, k)' THEN 1 ELSE 0)
    BY Zenon DEF HeadersPaired
  <2>1. (Arriving(f, k)' <=> Arriving(f, k)) /\ hfifo' = hfifo
    BY <1>2 DEF Arriving
  <2>2. Len(hfifo[f][k]) + (IF open[f][k] # NoPkt THEN 1 ELSE 0)
          = LastBeats(dfifo[f][k]) + (IF Arriving(f, k) THEN 1 ELSE 0)
    BY <1>1, Zenon DEF HeadersPaired
  <2>3. CASE f = e /\ k = c
    <3>1. dfifo'[f][k] = Tail(d) /\ dfifo[f][k] = d
      BY <1>9, <2>3 DEF d
    <3>2. open'[f][k] = o /\ open[f][k] # NoPkt
      BY <1>2, <1>9, <2>3
    <3>3. /\ LastBeats(d) = (IF Head(d).last THEN 1 ELSE 0) + LastBeats(Tail(d))
          /\ LastBeats(Tail(d)) \in Nat
      BY <1>2, <1>3, <1>4, LastBeatsParts DEF d
    <3>4. Len(hfifo[f][k]) \in Nat
      BY <1>1, LenProperties DEF TypeOK, FifoType
    <3>5. Len(hfifo[f][k]) + 1 = (IF Head(d).last THEN 1 ELSE 0)
            + LastBeats(Tail(d)) + (IF Arriving(f, k) THEN 1 ELSE 0)
      BY <2>2, <3>1, <3>2, <3>3
    <3>6. IF Head(d).last THEN o = NoPkt ELSE o # NoPkt
      BY <1>8, <1>12
    <3>7. CASE Head(d).last
      <4>1. /\ (IF open'[f][k] # NoPkt THEN 1 ELSE 0) = 0
            /\ dfifo'[f][k] = Tail(d) /\ hfifo'[f][k] = hfifo[f][k]
        BY <2>1, <3>1, <3>2, <3>6, <3>7
      <4>2. Len(hfifo[f][k]) + 0
              = LastBeats(Tail(d)) + (IF Arriving(f, k) THEN 1 ELSE 0)
        BY <3>3, <3>4, <3>5, <3>7
      <4> QED
        BY <2>1, <4>1, <4>2, Zenon
    <3>8. CASE ~Head(d).last
      <4>1. /\ (IF open'[f][k] # NoPkt THEN 1 ELSE 0) = 1
            /\ dfifo'[f][k] = Tail(d) /\ hfifo'[f][k] = hfifo[f][k]
        BY <2>1, <3>1, <3>2, <3>6, <3>8
      <4>2. Len(hfifo[f][k]) + 1
              = LastBeats(Tail(d)) + (IF Arriving(f, k) THEN 1 ELSE 0)
        BY <3>3, <3>4, <3>5, <3>8
      <4> QED
        BY <2>1, <4>1, <4>2, Zenon
    <3> QED
      BY <3>7, <3>8
  <2>4. CASE ~(f = e /\ k = c)
    <3>1. dfifo'[f][k] = dfifo[f][k] /\ open'[f][k] = open[f][k]
      BY <1>9, <2>4
    <3> QED
      BY <2>1, <2>2, <3>1
  <2> QED
    BY <2>3, <2>4
<1>14. ASSUME NEW f \in End, NEW k \in Class PROVE ChanStep(f, k)
  <2>1. /\ Crossing(f, k)' = Crossing(f, k) /\ Leaving(f, k)' = Leaving(f, k)
        /\ Held(f, k)' = Held(f, k) /\ Filed(f, k)' = Filed(f, k)
    BY <1>2 DEF Crossing, Leaving, Held, Valid, Filed
  <2>2. CASE f = p /\ k = c /\ Head(d).last
    <3>1. Opened(f, k)' = <<>>
      BY <1>5, <1>8, <1>9, <2>2 DEF Opened
    <3>2. Pending(f, k)' = Five(<<>>, Filed(p, c), Crossing(p, c), Leaving(p, c),
                                Held(p, c))
      BY <2>1, <2>2, <3>1, Zenon DEF Pending, Five
    <3>3. Pending(f, k)' = Tail(Pending(f, k)) /\ Pending(f, k) # <<>>
      BY <1>10, <2>2, <3>2, Zenon DEF Leads
    <3>4. taken'[Peer(f)][k] = taken[Peer(f)][k] + 1
      BY <1>5, <1>8, <1>9, <2>2
    <3> QED
      BY <3>3, <3>4, Zenon DEF ChanStep, Delivers
  <2>3. CASE f = p /\ k = c /\ ~Head(d).last
    <3>1. Opened(f, k)' = <<n>> /\ Opened(f, k) = <<n>>
      BY <1>5, <1>6, <1>8, <1>9, <1>12, <2>3 DEF Opened
    <3>2. taken'[Peer(f)][k] = taken[Peer(f)][k]
      BY <1>5, <1>8, <1>9, <2>3
    <3>3. Opened(f, k)' = Opened(f, k)
      BY <3>1, Zenon
    <3> QED
      BY <2>1, <3>2, <3>3, StillKept
  <2>4. CASE ~(f = p /\ k = c)
    <3>1. Peer(f) \in End /\ (Peer(f) = e => f = p)
      BY PeerProperties DEF p
    <3>2. /\ taken'[Peer(f)][k] = taken[Peer(f)][k]
          /\ open'[Peer(f)][k] = open[Peer(f)][k]
      BY <1>9, <2>4, <3>1
    <3>3. Opened(f, k)' = Opened(f, k)
      BY <3>2 DEF Opened
    <3> QED
      BY <2>1, <3>2, <3>3, StillKept
  <2> QED
    BY <2>2, <2>3, <2>4
<1> QED
  BY <1>13, <1>14

(* A beat opens a packet exactly when it carries the packet's header, and  *)
(* any other beat belongs to the packet that is arriving.                  *)
LEMMA HeaderDecoded ==
  ASSUME TypeOK, WireFramed, NEW e \in End, wire[Peer(e)] # <<>>
  PROVE  /\ ~IsCred(e) /\ r_first[e] <=> Head1(e).user.kind = "PKT"
         /\ ~IsCred(e) /\ ~r_first[e] => ~cur_is_cred[e] /\ cur_cls[e] = InCls(e)
<1> DEFINE p == Peer(e)
           b == Head1(e)
<1>1. p \in End /\ Peer(p) = e
  BY PeerProperties
<1>2. wire[p] \in Seq(Beat) /\ wire[p] # <<>>
  BY <1>1 DEF TypeOK, RxType
<1>3. b = wire[p][1] /\ 1 \in DOMAIN wire[p]
  BY <1>2, HeadTailProperties, LenProperties, EmptySeq DEF Head1
<1>4. BeatFramed(p, 1)
  BY <1>1, <1>3 DEF WireFramed
<1>5. IF r_first[e]
      THEN (b.user.kind = "CREDIT" /\ b.last) \/ Classed(p, b.user, b.data.cls)
      ELSE b.user = ZeroHdr /\ ~cur_is_cred[e] /\ b.data.cls = cur_cls[e]
  BY <1>1, <1>3, <1>4 DEF BeatFramed, StartsAt, CredAt, ClsAt
<1>6. IsCred(e) <=> b.user.kind = "CREDIT"
  BY HeadDecoded
<1> HIDE DEF p, b
<1>7. b = Head1(e)
  BY DEF b
<1>8. CASE r_first[e]
  <2>1. b.user.kind = "CREDIT" \/ b.user.kind = "PKT"
    BY <1>5, <1>8 DEF Classed
  <2> QED
    BY <1>6, <1>7, <1>8, <2>1
<1>9. CASE ~r_first[e]
  BY <1>5, <1>7, <1>9 DEF ZeroHdr, InCls
<1> QED
  BY <1>8, <1>9

(* A beat is decoded: a header goes from the wire to the FIFO of its       *)
(* class, which has room because its data FIFO has.                        *)
LEMMA ArriveMoves ==
  ASSUME ChanInv, NEW e \in End, Arrive(e)
  PROVE  HeadersPaired' /\ \A f \in End, k \in Class : ChanStep(f, k)
<1> DEFINE p == Peer(e)
           b == Head1(e)
           c == InCls(e)
           x == [last |-> b.last, data |-> b.data]
           n == b.user.txn
           hdr == b.user.kind = "PKT"
<1>1. TypeOK /\ WireFramed /\ HeadersPaired /\ IInv
  BY DEF ChanInv, IInv
<1>2. p \in End /\ p # e /\ Peer(p) = e /\ \A f \in End : f = e \/ f = p
  BY PeerProperties DEF End, Peer
<1>3. /\ wire[p] # <<>>
      /\ r_first' = [r_first EXCEPT ![e] = b.last]
      /\ cur_is_cred' = [cur_is_cred EXCEPT ![e] = IsCred(e)]
      /\ cur_cls' = [cur_cls EXCEPT ![e] = c]
      /\ wire' = [wire EXCEPT ![p] = Tail(wire[p])]
      /\ UNCHANGED <<q, tst, tsel, thdr, thdr_first, open, taken>>
  BY DEF Arrive, txVars, envVars
<1>4. /\ hfifo' = IF ~IsCred(e) /\ r_first[e]
                  THEN [hfifo EXCEPT ![e][c] = Push(hfifo[e][c], b.user)]
                  ELSE hfifo
      /\ dfifo' = IF ~IsCred(e)
                  THEN [dfifo EXCEPT ![e][c] = Push(dfifo[e][c], x)]
                  ELSE dfifo
  BY DEF Arrive
<1>5. /\ b \in Beat /\ c \in Class
      /\ IsCred(e) => r_first[e]
      /\ ~IsCred(e) => c = b.data.cls
  BY <1>1, <1>3, HeadDecoded
<1>6. /\ ~IsCred(e) /\ r_first[e] <=> hdr
      /\ ~IsCred(e) /\ ~r_first[e] => ~cur_is_cred[e] /\ cur_cls[e] = c
  BY <1>1, <1>3, HeaderDecoded
<1>7. /\ b.user \in Hdr /\ b.last \in BOOLEAN /\ x \in RxBeat /\ n \in Nat
      /\ x.last = b.last
  BY <1>5 DEF Beat, Hdr, RxBeat
<1>8. /\ wire \in [End -> Seq(Beat)] /\ r_first \in [End -> BOOLEAN]
      /\ cur_is_cred \in [End -> BOOLEAN] /\ cur_cls \in [End -> Class]
      /\ hfifo \in [End -> [Class -> Seq(Hdr)]]
      /\ dfifo \in [End -> [Class -> Seq(RxBeat)]]
  BY <1>1 DEF TypeOK, RxType, FifoType
<1>9. wire'[p] = Tail(wire[p]) /\ wire'[e] = wire[e] /\ b = Head(wire[p])
  BY <1>2, <1>3, <1>8 DEF Head1
<1>10. ~IsCred(e) => Len(dfifo[e][c]) + 1 <= RX_BEATS
  BY <1>1, <1>3, RoomForBeat
<1>11. /\ \A d \in End, k \in Class :
            Arriving(d, k)' <=> IF d = e THEN ~b.last /\ ~IsCred(e) /\ c = k
                                         ELSE Arriving(d, k)
       /\ \A k \in Class : ~IsCred(e) =>
            (Arriving(e, k) <=> ~r_first[e] /\ k = c)
       /\ \A k \in Class : IsCred(e) => ~Arriving(e, k)
  BY <1>3, <1>5, <1>6, <1>8 DEF Arriving
<1> HIDE DEF p, b, c, x, n, hdr
(* The data FIFO takes the beat, the header FIFO its header. *)
<1>12. \A d \in End, k \in Class :
         dfifo'[d][k] = IF ~IsCred(e) /\ d = e /\ k = c
                        THEN Append(dfifo[e][c], x) ELSE dfifo[d][k]
  <2>1. CASE IsCred(e)
    BY <1>4, <2>1
  <2>2. CASE ~IsCred(e)
    <3> DEFINE y == Append(dfifo[e][c], x)
    <3>1. y \in Seq(RxBeat) /\ Len(dfifo[e][c]) \in Nat
      BY <1>5, <1>7, <1>8, AppendProperties, LenProperties
    <3>2. dfifo' = [dfifo EXCEPT ![e][c] = y]
      <4>1. Len(dfifo[e][c]) < RX_BEATS
        BY <1>10, <2>2, <3>1, LinkAssumption
      <4> QED
        BY <1>4, <2>2, <4>1 DEF Push
    <3> HIDE DEF y
    <3>3. \A d \in End, k \in Class :
            dfifo'[d][k] = IF d = e /\ k = c THEN y ELSE dfifo[d][k]
      <4>1. c \in Class /\ dfifo \in [End -> [Class -> Seq(RxBeat)]]
        BY <1>5, <1>8
      <4>2. y \in Seq(RxBeat)
        BY <3>1
      <4> QED
        BY <3>2, <4>1, <4>2, ExceptClass, SMTT(40)
    <3> QED
      BY <2>2, <3>3 DEF y
  <2> QED
    BY <2>1, <2>2
<1>13. \A d \in End, k \in Class :
         Len(hfifo[d][k]) + (IF open[d][k] # NoPkt THEN 1 ELSE 0)
           = LastBeats(dfifo[d][k]) + (IF Arriving(d, k) THEN 1 ELSE 0)
  BY <1>1, Zenon DEF HeadersPaired
<1>14. \A d \in End, k \in Class :
         /\ Len(hfifo[d][k]) \in Nat /\ LastBeats(dfifo[d][k]) \in Nat
         /\ Len(dfifo[d][k]) \in Nat
         /\ LastBeats(dfifo[d][k]) <= Len(dfifo[d][k])
  <2> SUFFICES ASSUME NEW d \in End, NEW k \in Class
               PROVE  /\ Len(hfifo[d][k]) \in Nat
                      /\ LastBeats(dfifo[d][k]) \in Nat
                      /\ Len(dfifo[d][k]) \in Nat
                      /\ LastBeats(dfifo[d][k]) <= Len(dfifo[d][k])
    OBVIOUS
  <2>1. hfifo[d][k] \in Seq(Hdr) /\ dfifo[d][k] \in Seq(RxBeat)
    BY <1>8
  <2>2. Len(hfifo[d][k]) \in Nat /\ Len(dfifo[d][k]) \in Nat
    BY <2>1, LenProperties
  <2>3. /\ LastBeats(dfifo[d][k]) \in Nat
        /\ LastBeats(dfifo[d][k]) <= Len(dfifo[d][k])
    BY <2>1, LastBeatsParts
  <2> QED
    BY <2>2, <2>3
<1>15. \A d \in End, k \in Class :
         hfifo'[d][k] = IF hdr /\ d = e /\ k = c
                        THEN Append(hfifo[e][c], b.user) ELSE hfifo[d][k]
  <2>1. CASE ~hdr
    <3>1. hfifo' = hfifo
      BY <1>4, <1>6, <2>1
    <3> QED
      BY <2>1, <3>1
  <2>2. CASE hdr
    <3> DEFINE y == Append(hfifo[e][c], b.user)
    <3>1. y \in Seq(Hdr)
      BY <1>5, <1>7, <1>8, AppendProperties
    <3>2. hfifo' = [hfifo EXCEPT ![e][c] = y]
      <4>1. ~IsCred(e) /\ r_first[e]
        BY <1>6, <2>2
      <4>2. ~Arriving(e, c)
        BY <4>1 DEF Arriving
      <4> DEFINE lh == Len(hfifo[e][c])
                 o == IF open[e][c] # NoPkt THEN 1 ELSE 0
                 lb == LastBeats(dfifo[e][c])
                 a == IF Arriving(e, c) THEN 1 ELSE 0
                 ld == Len(dfifo[e][c])
      <4>3. lh + o = lb + a
        BY <1>5, <1>13, e \in End, Zenon
      <4>4. lh \in Nat /\ lb \in Nat /\ ld \in Nat /\ lb <= ld
        BY <1>5, <1>14
      <4>5. o \in Nat /\ a = 0
        BY <4>2
      <4>6. ld + 1 <= RX_BEATS
        BY <1>10, <4>1
      <4> HIDE DEF lh, o, lb, a, ld
      <4>7. lh < RX_BEATS
        BY <4>3, <4>4, <4>5, <4>6, LinkAssumption
      <4>8. Len(hfifo[e][c]) < RX_BEATS
        BY <4>7 DEF lh
      <4> QED
        BY <1>4, <4>1, <4>8 DEF Push
    <3> HIDE DEF y
    <3>3. \A d \in End, k \in Class :
            hfifo'[d][k] = IF d = e /\ k = c THEN y ELSE hfifo[d][k]
      <4>1. c \in Class /\ hfifo \in [End -> [Class -> Seq(Hdr)]]
        BY <1>5, <1>8
      <4>2. y \in Seq(Hdr)
        BY <3>1
      <4> QED
        BY <3>2, <4>1, <4>2, ExceptClass, SMTT(40)
    <3> QED
      BY <2>2, <3>3 DEF y
  <2> QED
    BY <2>1, <2>2
<1>16. HeadersPaired'
  <2> SUFFICES ASSUME NEW d \in End, NEW k \in Class
               PROVE  Len(hfifo'[d][k]) + (IF open'[d][k] # NoPkt THEN 1 ELSE 0)
                        = LastBeats(dfifo'[d][k])
                            + (IF Arriving(d, k)' THEN 1 ELSE 0)
    BY Zenon DEF HeadersPaired
  <2> DEFINE o == IF open[d][k] # NoPkt THEN 1 ELSE 0
  <2>1. (IF open'[d][k] # NoPkt THEN 1 ELSE 0) = o /\ o \in Nat
    BY <1>3
  <2>2. Len(hfifo[d][k]) + o
          = LastBeats(dfifo[d][k]) + (IF Arriving(d, k) THEN 1 ELSE 0)
    BY <1>13
  <2> HIDE DEF o
  <2>3. CASE ~IsCred(e) /\ d = e /\ k = c
    <3>1. LastBeats(dfifo'[d][k])
            = LastBeats(dfifo[d][k]) + (IF b.last THEN 1 ELSE 0)
      <4>1. dfifo'[d][k] = Append(dfifo[d][k], x)
        BY <1>12, <2>3
      <4>2. LastBeats(Append(dfifo[d][k], x))
              = LastBeats(dfifo[d][k]) + (IF x.last THEN 1 ELSE 0)
        BY <1>7, <1>8, LastBeatsParts
      <4> QED
        BY <1>7, <4>1, <4>2
    <3>2. Arriving(d, k)' <=> ~b.last
      BY <1>11, <2>3
    <3>3. Arriving(d, k) <=> ~r_first[e]
      BY <1>11, <2>3
    <3>4. Len(hfifo'[d][k]) = Len(hfifo[d][k]) + (IF r_first[e] THEN 1 ELSE 0)
      <4>1. hdr <=> r_first[e]
        BY <1>6, <2>3
      <4>2. Len(Append(hfifo[d][k], b.user)) = Len(hfifo[d][k]) + 1
        BY <1>7, <1>8, AppendProperties
      <4>3. CASE hdr
        <5>1. hfifo'[d][k] = Append(hfifo[d][k], b.user)
          BY <1>15, <2>3, <4>3
        <5>2. (IF r_first[e] THEN 1 ELSE 0) = 1
          BY <4>1, <4>3
        <5> QED
          BY <4>2, <5>1, <5>2, Zenon
      <4>4. CASE ~hdr
        <5>1. hfifo'[d][k] = hfifo[d][k]
          BY <1>15, <4>4
        <5>2. (IF r_first[e] THEN 1 ELSE 0) = 0
          BY <4>1, <4>4
        <5>3. \A m \in Nat : m = m + 0
          OBVIOUS
        <5>4. Len(hfifo[d][k]) \in Nat
          BY <1>14
        <5> QED
          BY <5>1, <5>2, <5>3, <5>4, Zenon
      <4> QED
        BY <4>3, <4>4
    <3>5. Len(hfifo[d][k]) \in Nat /\ LastBeats(dfifo[d][k]) \in Nat
      BY <1>14
    <3> DEFINE lh == Len(hfifo[d][k])
               lb == LastBeats(dfifo[d][k])
               a == IF Arriving(d, k) THEN 1 ELSE 0
               z == IF Arriving(d, k)' THEN 1 ELSE 0
               r == IF r_first[e] THEN 1 ELSE 0
               l == IF b.last THEN 1 ELSE 0
    <3>6. lh + o = lb + a /\ lh \in Nat /\ lb \in Nat
      BY <2>2, <3>5
    <3>7. r + a = 1 /\ l + z = 1 /\ {a, z, r, l} \subseteq Nat
      BY <3>2, <3>3
    <3>8. Len(hfifo'[d][k]) = lh + r /\ LastBeats(dfifo'[d][k]) = lb + l
      BY <3>1, <3>4
    <3> HIDE DEF lh, lb, a, z, r, l
    <3>9. (lh + r) + o = (lb + l) + z
      BY <2>1, <3>6, <3>7
    <3> QED
      BY <2>1, <3>8, <3>9, Zenon DEF z
  <2>4. CASE ~(~IsCred(e) /\ d = e /\ k = c)
    <3>1. dfifo'[d][k] = dfifo[d][k]
      BY <1>12, <2>4
    <3>2. hfifo'[d][k] = hfifo[d][k]
      BY <1>6, <1>15, <2>4
    <3>3. Arriving(d, k)' <=> Arriving(d, k)
      BY <1>11, <2>4
    <3> QED
      BY <2>1, <2>2, <3>1, <3>2, <3>3, Zenon
  <2> QED
    BY <2>3, <2>4
<1>17. ASSUME NEW f \in End, NEW k \in Class PROVE ChanStep(f, k)
  <2>1. /\ Opened(f, k)' = Opened(f, k) /\ Leaving(f, k)' = Leaving(f, k)
        /\ Held(f, k)' = Held(f, k)
        /\ taken'[Peer(f)][k] = taken[Peer(f)][k]
    BY <1>3 DEF Opened, Leaving, Held, Valid
  <2>2. f = p => Crossing(f, k) =
          (IF hdr /\ b.data.cls = k THEN <<n>> ELSE <<>>) \o Crossing(f, k)'
    <3>1. wire[p] \in Seq(Beat) /\ wire[p] # <<>>
      BY <1>2, <1>3, <1>8
    <3>2. Picked(UserTxns(wire[p]), Headers(wire[p], k)) =
            (IF Head(wire[p]).user.kind = "PKT" /\ Head(wire[p]).data.cls = k
             THEN <<Head(wire[p]).user.txn>> ELSE <<>>)
              \o Picked(UserTxns(Tail(wire[p])), Headers(Tail(wire[p]), k))
      BY <3>1, CrossTail
    <3> QED
      BY <1>9, <3>2, Zenon DEF Crossing, hdr, n
  <2>3. /\ Opened(f, k) \in Seq(Nat) /\ Filed(f, k) \in Seq(Nat)
        /\ Leaving(f, k) \in Seq(Nat) /\ Held(f, k) \in Seq(Nat)
    BY <1>1, PendingParts
  <2>4. Crossing(f, k)' \in Seq(Nat)
    <3>1. wire'[f] \in Seq(Beat)
      <4>1. wire[p] \in Seq(Beat) /\ Tail(wire[p]) \in Seq(Beat)
        BY <1>2, <1>3, <1>8, HeadTailProperties
      <4> QED
        BY <1>2, <1>8, <1>9, <4>1
    <3>2. /\ UserTxns(wire'[f]) \in Seq(Nat)
          /\ Headers(wire'[f], k) \in SUBSET (1 .. Len(UserTxns(wire'[f])))
      BY <3>1, WireParts
    <3>3. Picked(UserTxns(wire'[f]), Headers(wire'[f], k)) \in Seq(Nat)
      BY <3>2, PickedType
    <3> QED
      BY <3>3 DEF Crossing
  <2>5. CASE f = p /\ hdr /\ k = c
    <3>1. b.data.cls = k
      BY <1>5, <1>6, <2>5
    <3> DEFINE r == Crossing(f, k)'
    <3>2. Crossing(f, k) = <<n>> \o r
      BY <2>2, <2>5, <3>1, Zenon
    <3>3. Filed(f, k)' = With(Filed(f, k), n)
      <4>1. hfifo'[e][c] = Append(hfifo[e][c], b.user)
        BY <1>5, <1>15, <2>5
      <4>2. Txns(Append(hfifo[e][c], b.user)) = With(Txns(hfifo[e][c]), b.user.txn)
        <5>1. hfifo[e][c] \in Seq(Hdr)
          BY <1>5, <1>8
        <5> QED
          BY <1>7, <5>1, TxnsParts
      <4> QED
        BY <1>2, <2>5, <4>1, <4>2, Zenon DEF Filed, n
    <3>4. n \in Nat /\ r \in Seq(Nat)
      BY <1>7, <2>4
    <3>5. Pending(f, k)' = Five(Opened(f, k), With(Filed(f, k), n), r,
                                Leaving(f, k), Held(f, k))
      BY <2>1, <3>3, Zenon DEF Pending, Five
    <3> HIDE DEF r
    <3>6. Pending(f, k) = Five(Opened(f, k), Filed(f, k), <<n>> \o r,
                               Leaving(f, k), Held(f, k))
      BY <3>2, Zenon DEF Pending, Five
    <3>7. Five(Opened(f, k), With(Filed(f, k), n), r, Leaving(f, k), Held(f, k))
            = Five(Opened(f, k), Filed(f, k), <<n>> \o r, Leaving(f, k),
                   Held(f, k))
      BY <2>3, <3>4, FiveMoves
    <3>8. Pending(f, k)' = Pending(f, k)
      BY <3>5, <3>6, <3>7, Zenon
    <3> QED
      BY <2>1, <3>8 DEF ChanStep, Kept
  <2>6. CASE ~(f = p /\ hdr /\ k = c)
    <3>1. Filed(f, k)' = Filed(f, k)
      <4>1. hfifo'[Peer(f)][k] = hfifo[Peer(f)][k]
        <5>1. Peer(f) \in End /\ (Peer(f) = e => f = p)
          BY PeerProperties DEF p
        <5> QED
          BY <1>15, <2>6, <5>1
      <4> QED
        BY <4>1 DEF Filed
    <3>2. Crossing(f, k)' = Crossing(f, k)
      <4>1. CASE f = p
        <5>1. ~(hdr /\ b.data.cls = k)
          BY <1>5, <1>6, <2>6, <4>1
        <5>2. Crossing(f, k) = <<>> \o Crossing(f, k)'
          BY <2>2, <4>1, <5>1, Zenon
        <5>3. <<>> \o Crossing(f, k)' = Crossing(f, k)'
          BY <2>4, ConcatEmptySeq
        <5> QED
          BY <5>2, <5>3, Zenon
      <4>2. CASE f # p
        <5>1. wire'[f] = wire[f]
          BY <1>2, <1>9, <4>2
        <5> QED
          BY <5>1 DEF Crossing
      <4> QED
        BY <4>1, <4>2
    <3> QED
      BY <2>1, <3>1, <3>2, StillKept
  <2> QED
    BY <2>5, <2>6
<1> QED
  BY <1>16, <1>17

-----------------------------------------------------------------------------
(* A clock edge that changes nothing, and one that does, for every stream. *)
LEMMA EveryStep ==
  ASSUME ChanInv, [Next]_vars
  PROVE  HeadersPaired' /\ \A f \in End, k \in Class : ChanStep(f, k)
<1>1. CASE UNCHANGED vars
  <2>1. UNCHANGED <<q, tst, tsel, thdr, thdr_first, r_first, cur_is_cred, cur_cls,
                    hfifo, dfifo, open, taken, wire>>
    BY <1>1 DEF vars, txVars, credVars, rxVars, envVars
  <2>2. HeadersPaired'
    BY <2>1, SamePaired DEF ChanInv
  <2>3. ASSUME NEW f \in End, NEW k \in Class PROVE ChanStep(f, k)
    <3>1. /\ Opened(f, k)' = Opened(f, k) /\ Filed(f, k)' = Filed(f, k)
          /\ Crossing(f, k)' = Crossing(f, k) /\ Leaving(f, k)' = Leaving(f, k)
          /\ Held(f, k)' = Held(f, k)
          /\ taken'[Peer(f)][k] = taken[Peer(f)][k]
      BY <2>1 DEF Opened, Filed, Crossing, Leaving, Held, Valid
    <3> QED
      BY <3>1, StillKept
  <2> QED
    BY <2>2, <2>3
<1>2. ASSUME NEW e \in End, Transmit(e)
      PROVE  HeadersPaired' /\ \A f \in End, k \in Class : ChanStep(f, k)
  BY <1>2, CreditMoves, SendBeatMoves, GrantMoves DEF Transmit
<1>3. ASSUME NEW e \in End, FlagLen(e)
      PROVE  HeadersPaired' /\ \A f \in End, k \in Class : ChanStep(f, k)
  BY <1>3, CreditMoves
<1>4. ASSUME NEW e \in End, Arrive(e)
      PROVE  HeadersPaired' /\ \A f \in End, k \in Class : ChanStep(f, k)
  BY <1>4, ArriveMoves
<1>5. ASSUME NEW e \in End, NEW c \in Class, OfferHeader(e, c) \/ Consume(e, c)
      PROVE  HeadersPaired' /\ \A f \in End, k \in Class : ChanStep(f, k)
  BY <1>5, OfferHeaderMoves, PopHeaderMoves, PopBeatMoves DEF Consume
<1>6. CASE Next
  BY <1>2, <1>3, <1>4, <1>5, <1>6 DEF Next
<1> QED
  BY <1>1, <1>6

(* What is pending stays made of packets that were offered.                *)
LEMMA StillNumbered ==
  ASSUME Numbered, \A f \in End, k \in Class : ChanStep(f, k)
  PROVE  Numbered'
<1> SUFFICES ASSUME NEW e \in End, NEW c \in Class
             PROVE  Pending(e, c)' \in Seq(1 .. MaxPkts)
  BY Zenon DEF Numbered
<1> DEFINE u == Pending(e, c)
           v == Pending(e, c)'
<1>1. u \in Seq(1 .. MaxPkts) /\ ChanStep(e, c)
  BY Zenon DEF Numbered
<1>2. \/ v = u
      \/ u # <<>> /\ v = Tail(u)
      \/ \E n \in 1 .. MaxPkts : v = With(u, n)
  BY <1>1, Zenon DEF ChanStep, Kept, Delivers, Accepts
<1> HIDE DEF u, v
<1>3. ASSUME v = u PROVE v \in Seq(1 .. MaxPkts)
  BY <1>1, <1>3
<1>4. ASSUME u # <<>>, v = Tail(u) PROVE v \in Seq(1 .. MaxPkts)
  BY <1>1, <1>4, HeadTailProperties
<1>5. ASSUME NEW n \in 1 .. MaxPkts, v = With(u, n)
      PROVE  v \in Seq(1 .. MaxPkts)
  BY <1>1, <1>5, AppendProperties DEF With
<1>6. v \in Seq(1 .. MaxPkts)
  BY <1>2, <1>3, <1>4, <1>5
<1> QED
  BY <1>6 DEF v

(* At reset nothing is pending and no header is unanswered.                *)
LEMMA InitPending ==
  ASSUME Init
  PROVE  /\ HeadersPaired
         /\ \A e \in End, c \in Class : Pending(e, c) = <<>> /\ taken[e][c] = 0
<1>1. \A e \in End, c \in Class :
        /\ q[e][c] = ZeroHdr /\ tst[e] = "IDLE" /\ wire[e] = <<>> /\ r_first[e]
        /\ hfifo[e][c] = <<>> /\ dfifo[e][c] = <<>> /\ open[e][c] = NoPkt
        /\ taken[e][c] = 0
  BY DEF Init, PerClass
<1>2. HeadersPaired
  <2>1. LastBeats(<<>>) = 0
    <3>1. [i \in DOMAIN <<>> |-> IF <<>>[i].last THEN 1 ELSE 0] = <<>>
      OBVIOUS
    <3> QED
      BY <3>1, TotalEmpty DEF LastBeats
  <2>2. \A e \in End, c \in Class : ~Arriving(e, c)
    BY <1>1 DEF Arriving
  <2>3. Len(<<>>) = 0
    OBVIOUS
  <2> QED
    BY <1>1, <2>1, <2>2, <2>3 DEF HeadersPaired
<1>3. ASSUME NEW e \in End, NEW c \in Class PROVE Pending(e, c) = <<>>
  <2>1. Peer(e) \in End
    BY PeerProperties
  <2>2. Opened(e, c) = <<>> /\ Leaving(e, c) = <<>> /\ Held(e, c) = <<>>
    BY <1>1, <2>1 DEF Opened, Leaving, Held, Valid, ZeroHdr
  <2>3. Filed(e, c) = <<>>
    <3>1. Txns(<<>>) = <<>>
      BY DEF Txns
    <3> QED
      BY <1>1, <2>1, <3>1 DEF Filed
  <2>4. Crossing(e, c) = <<>>
    <3>1. Headers(<<>>, c) = {}
      BY DEF Headers
    <3>2. \A s : Picked(s, {}) = <<>>
      BY PickedNone
    <3> QED
      BY <1>1, <3>1, <3>2 DEF Crossing
  <2>5. <<>> \o <<>> = <<>>
    OBVIOUS
  <2> QED
    BY <2>2, <2>3, <2>4, <2>5, Zenon DEF Pending
<1> QED
  BY <1>1, <1>2, <1>3

(* ChanInv is inductive: a FIFO for headers that only credit for beats     *)
(* protects never overflows, and every packet in flight is a source's.     *)
THEOREM ChannelInductive == Spec => []ChanInv
<1>1. Init => ChanInv
  <2> SUFFICES ASSUME Init PROVE ChanInv
    OBVIOUS
  <2>1. IInv /\ HeadersPaired
    BY InitIInv, InitPending
  <2>2. \A e \in End, c \in Class : Pending(e, c) = <<>>
    BY InitPending
  <2>3. Numbered
    <3>1. <<>> \in Seq(1 .. MaxPkts)
      OBVIOUS
    <3> QED
      BY <2>2, <3>1 DEF Numbered
  <2> QED
    BY <2>1, <2>3 DEF ChanInv
<1>2. ChanInv /\ IInv' /\ [Next]_vars => ChanInv'
  BY EveryStep, StillNumbered DEF ChanInv
<1> QED
  BY <1>1, <1>2, Inductive, PTL DEF Spec

(* What is pending and what was drawn is an abstract channel's state.      *)
LEMMA StepIsChannelStep ==
  ChanInv /\ [Next]_vars => Abstract!ChanNext
<1> SUFFICES ASSUME ChanInv, [Next]_vars PROVE Abstract!ChanNext
  OBVIOUS
<1>1. \A f \in End, k \in Class : ChanStep(f, k)
  BY EveryStep
<1>2. ASSUME NEW s \in Streams
      PROVE  Abstract!Keep(s) \/ Abstract!Deliver(s) \/ Abstract!Accept(s)
  <2>1. s[1] \in End /\ s[2] \in Class
    BY LinkAssumption
  <2>2. ChanStep(s[1], s[2])
    BY <1>1, <2>1
  <2>3. CASE Kept(s[1], s[2])
    BY <2>3 DEF Kept, Abstract!Keep
  <2>4. CASE Delivers(s[1], s[2])
    BY <2>4 DEF Delivers, Abstract!Deliver
  <2>5. CASE Accepts(s[1], s[2])
    BY <2>5 DEF Accepts, With, Abstract!Accept
  <2> QED
    BY <2>2, <2>3, <2>4, <2>5 DEF ChanStep
<1> QED
  BY <1>2 DEF Abstract!ChanNext

(* The link is a channel: whatever the two ends, the pipe and the          *)
(* consumers do, each stream delivers every packet it accepted, once and   *)
(* in order; for every buffer, batch, packet length, depth and traffic.    *)
THEOREM LinkIsChannel == Spec => ImplementsChannel
<1>1. Init => Abstract!ChanInit
  <2> SUFFICES ASSUME Init PROVE Abstract!ChanInit
    OBVIOUS
  <2>1. \A s \in Streams : s[1] \in End /\ s[2] \in Class /\ Peer(s[1]) \in End
    BY LinkAssumption, PeerProperties
  <2>2. \A s \in Streams :
          Pending(s[1], s[2]) = <<>> /\ taken[Peer(s[1])][s[2]] = 0
    BY <2>1, InitPending
  <2> QED
    BY <2>2 DEF Abstract!ChanInit
<1>2. ChanInv /\ [Next]_vars => Abstract!ChanNext
  BY StepIsChannelStep
<1> QED
  BY <1>1, <1>2, ChannelInductive, PTL
     DEF Spec, ImplementsChannel, Abstract!Channel

=============================================================================
