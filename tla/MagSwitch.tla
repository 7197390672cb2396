------------------------------ MODULE MagSwitch ------------------------------
(***************************************************************************)
(* Four meshes in a square, and in each the three-port switch that joins   *)
(* its interlink endpoint to the meshes beside and below or above it       *)
(* (src/src/kohakumas/mag_switch.v, il_pkt_arb.v).                         *)
(*                                                                         *)
(* A packet is a header and its beats; what merges or splits a stream of   *)
(* packets is locked to one packet at a time.  A link is what MagLink      *)
(* shows it to be: a holding slot per class, one packet on its way at a    *)
(* time, sent only when the far end has room for all of it, and a queue    *)
(* per class at the far end.                                               *)
(***************************************************************************)
EXTENDS Integers, Sequences, FiniteSets, Totals

CONSTANTS
  RX_BEATS,   \* beats a receive queue holds
  MAX_BEATS,  \* longest packet
  CRED_BATCH, \* credit a link may keep back is less than this
  Flow,       \* <<source mesh, destination mesh>> pairs with traffic
  Lens        \* bound: lengths (beats - 1) of the packets each flow sends

Mesh  == 0 .. 3
Class == {0, 1}      \* 0: the packet stops at the peer, 1: it goes on
LinkNo == {0, 1}     \* 0: to the x neighbour, 1: to the y neighbour
Link == Mesh \X LinkNo
Lane == Mesh \X LinkNo \X Class

X(m) == m % 2
Y(m) == m \div 2
Peer(m, l) == IF l = 0 THEN (IF X(m) = 0 THEN m + 1 ELSE m - 1)
                       ELSE (IF Y(m) = 0 THEN m + 2 ELSE m - 2)

ASSUME SwitchAssumption ==
  /\ {RX_BEATS, MAX_BEATS, CRED_BATCH} \subseteq Nat \ {0}
  /\ MAX_BEATS + CRED_BATCH <= RX_BEATS + 1   \* NoCreditDeadlock of MagLink
  /\ Lens \in Seq(0 .. MAX_BEATS - 1)
  /\ Flow \subseteq {f \in Mesh \X Mesh : f[1] # f[2]}

MaxPkts == Len(Lens)
Packet == [flow : Flow, n : 1 .. MaxPkts, len : 0 .. MAX_BEATS - 1]
NoPkt  == [flow |-> <<>>, n |-> 0, len |-> 0]
Dst(p) == p.flow[2]

(* left counts the beats of a packet that are still to come; it is zero in *)
(* the last one.                                                           *)
Header(p) == [hdr |-> TRUE, pkt |-> p, left |-> p.len + 1]
Beat(p, k) == [hdr |-> FALSE, pkt |-> p, left |-> k]

VARIABLES
  ltx,          \* what each endpoint is sending: a packet, and beats left
  demux,        \* the output a local packet is locked to, NONE when idle
  ymux, yrr,    \* the merge onto link 1: locked to a (local) or b (forwarded)
  lmux, lrr,    \* the merge of both links' class 0 into the endpoint
  q,            \* the header held at the sending end of each lane
  cur,          \* the packet each link is sending: its class, or NONE
  rx,           \* the receive queue of each lane, at the receiving mesh
  offered,      \* packets of each flow handed over by their endpoint
  incoming,     \* the packet each endpoint is being given
  got           \* packets of each flow that reached the mesh they are for

vars == <<ltx, demux, ymux, yrr, lmux, lrr, q, cur, rx, offered, incoming, got>>

Idle == [pkt |-> NoPkt, left |-> 0]

Init ==
  /\ ltx = [m \in Mesh |-> Idle]
  /\ demux = [m \in Mesh |-> "NONE"]
  /\ ymux = [m \in Mesh |-> "NONE"] /\ yrr = [m \in Mesh |-> FALSE]
  /\ lmux = [m \in Mesh |-> "NONE"] /\ lrr = [m \in Mesh |-> FALSE]
  /\ q = [k \in Lane |-> NoPkt]
  /\ cur = [k \in Link |-> "NONE"]
  /\ rx = [k \in Lane |-> <<>>]
  /\ offered = [f \in Flow |-> 0]
  /\ incoming = [m \in Mesh |-> NoPkt]
  /\ got = [f \in Flow |-> 0]

-----------------------------------------------------------------------------
(* Local egress: x first, then y.  Nothing is addressed to its own mesh    *)
(* (mag_ilink keeps that local), so the sink of the demux is left out, and *)
(* with it F_SELF.                                                         *)
EgressY(m, d) ==   \* mutant of Egress: y first
  IF Y(d) # Y(m) THEN "Y" ELSE "X0"

Egress(m, d) ==
  IF X(d) = X(m) THEN "Y"
  ELSE IF d = Peer(m, 0) THEN "X0" ELSE "X1"

(* Headers that wait at the two inputs of a merge.                         *)
HdrAt(k)  == rx[k] # <<>> /\ Head(rx[k]).hdr
BeatAt(k) == rx[k] # <<>> /\ ~Head(rx[k]).hdr
LocalHdr(m) == ltx[m].pkt # NoPkt /\ demux[m] = "NONE"
YWaits(m) == LocalHdr(m) /\ Egress(m, Dst(ltx[m].pkt)) = "Y"

(* pick_b: b has a header, and a has none or had the last turn.            *)
PickBTurn(a, b, rr) == b /\ rr   \* mutant of PickB: only in its turn
PickB(a, b, rr) == b /\ (rr \/ ~a)

(* A merge takes a header when the packet before has passed.               *)
IdleMux(lock) == lock = "NONE"

(* An endpoint has a packet to send.                                       *)
Offer(m) ==
  /\ ltx[m].pkt = NoPkt
  /\ \E f \in Flow :
       LET n == offered[f] + 1
       IN  /\ f[1] = m /\ n <= MaxPkts
           /\ ltx' = [ltx EXCEPT ![m] =
                        [pkt |-> [flow |-> f, n |-> n, len |-> Lens[n]],
                         left |-> Lens[n] + 1]]
           /\ offered' = [offered EXCEPT ![f] = n]
  /\ UNCHANGED <<demux, ymux, yrr, lmux, lrr, q, cur, rx, incoming, got>>

(* Its header enters the holding slot of the lane it is routed to, through *)
(* the merge if that is link 1; the demux is locked to it.                 *)
LaneOf(m, out) == CASE out = "X0" -> <<m, 0, 0>> [] out = "X1" -> <<m, 0, 1>>
                    [] out = "Y" -> <<m, 1, 0>>

SendHdr(m) ==
  LET p == ltx[m].pkt
      out == Egress(m, Dst(p))
  IN  /\ LocalHdr(m)
      /\ q[LaneOf(m, out)] = NoPkt
      /\ out = "Y" => IdleMux(ymux[m]) /\ ~PickB(TRUE, HdrAt(<<m, 0, 1>>), yrr[m])
      /\ demux' = [demux EXCEPT ![m] = out]
      /\ q' = [q EXCEPT ![LaneOf(m, out)] = p]
      /\ ymux' = IF out = "Y" THEN [ymux EXCEPT ![m] = "a"] ELSE ymux
      /\ yrr' = IF out = "Y" THEN [yrr EXCEPT ![m] = TRUE] ELSE yrr
      /\ UNCHANGED <<ltx, lmux, lrr, cur, rx, offered, incoming, got>>

(* A packet to be forwarded: from link 0, class 1, to link 1.              *)
ForwardHdr(m) ==
  LET from == <<m, 0, 1>>
      to == <<m, 1, 0>>
  IN  /\ HdrAt(from)
      /\ IdleMux(ymux[m])
      /\ q[to] = NoPkt
      /\ PickB(YWaits(m), TRUE, yrr[m])
      /\ q' = [q EXCEPT ![to] = Head(rx[from]).pkt]
      /\ rx' = [rx EXCEPT ![from] = Tail(@)]
      /\ ymux' = [ymux EXCEPT ![m] = "b"]
      /\ yrr' = [yrr EXCEPT ![m] = FALSE]
      /\ UNCHANGED <<ltx, demux, lmux, lrr, cur, offered, incoming, got>>

(***************************************************************************)
(* A link sends the packet in a slot once the far end has room for all of  *)
(* it and the credit for that room is back, class 0 first; its header goes *)
(* ahead.  Up to CRED_BATCH - 1 credits may be kept back.  The far end     *)
(* files a packet by where it goes.                                        *)
(***************************************************************************)
\* Mutant of FarLane: a packet is at home when its x is.
FarLaneX(m, l, p) == <<Peer(m, l), l, IF X(Dst(p)) = X(Peer(m, l)) THEN 0 ELSE 1>>
FarLane(m, l, p) == <<Peer(m, l), l, IF Dst(p) = Peer(m, l) THEN 0 ELSE 1>>

BeatsIn(s) == Cardinality({i \in DOMAIN s : ~s[i].hdr})

Fits(m, l, c, held) ==
  LET p == q[<<m, l, c>>]
  IN  p # NoPkt /\ BeatsIn(rx[FarLane(m, l, p)]) + p.len + 1 + held <= RX_BEATS

CanGrant(m, l, c)  == Fits(m, l, c, 0)
MustGrant(m, l, c) == Fits(m, l, c, CRED_BATCH - 1)

Grant(m, l, c) ==
  LET p == q[<<m, l, c>>]
  IN  /\ cur[<<m, l>>] = "NONE"
      /\ CanGrant(m, l, c)
      /\ c = 1 => ~MustGrant(m, l, 0)
      /\ cur' = [cur EXCEPT ![<<m, l>>] = IF c = 0 THEN "C0" ELSE "C1"]
      /\ q' = [q EXCEPT ![<<m, l, c>>] = NoPkt]
      /\ rx' = [rx EXCEPT ![FarLane(m, l, p)] = Append(@, Header(p))]
      /\ UNCHANGED <<ltx, demux, ymux, yrr, lmux, lrr, offered, incoming, got>>

(* A beat of the endpoint goes where its header went.                      *)
LocalSends(m) ==
  CASE demux[m] = "X0" -> cur[<<m, 0>>] = "C0"
    [] demux[m] = "X1" -> cur[<<m, 0>>] = "C1"
    [] demux[m] = "Y"  -> cur[<<m, 1>>] = "C0" /\ ymux[m] = "a"
    [] demux[m] = "NONE" -> FALSE

SendBeat(m) ==
  LET p == ltx[m].pkt
      out == demux[m]
      l == IF out = "Y" THEN 1 ELSE 0
      last == ltx[m].left = 1
  IN  /\ LocalSends(m)
      /\ rx' = [rx EXCEPT ![FarLane(m, l, p)] = Append(@, Beat(p, ltx[m].left - 1))]
      /\ ltx' = [ltx EXCEPT ![m] = IF last THEN Idle ELSE [pkt |-> p, left |-> @.left - 1]]
      /\ demux' = IF last THEN [demux EXCEPT ![m] = "NONE"] ELSE demux
      /\ ymux' = IF last /\ out = "Y" THEN [ymux EXCEPT ![m] = "NONE"] ELSE ymux
      /\ cur' = IF last THEN [cur EXCEPT ![<<m, l>>] = "NONE"] ELSE cur
      /\ UNCHANGED <<yrr, lmux, lrr, q, offered, incoming, got>>

(* A forwarded beat leaves as it arrives.                                  *)
ForwardBeat(m) ==
  LET from == <<m, 0, 1>>
      b == Head(rx[from])
      to == FarLane(m, 1, b.pkt)
  IN  /\ ymux[m] = "b" /\ cur[<<m, 1>>] = "C0"
      /\ BeatAt(from)
      /\ rx' = [rx EXCEPT ![to] = Append(@, b), ![from] = Tail(@)]
      /\ ymux' = IF b.left = 0 THEN [ymux EXCEPT ![m] = "NONE"] ELSE ymux
      /\ cur' = IF b.left = 0 THEN [cur EXCEPT ![<<m, 1>>] = "NONE"] ELSE cur
      /\ UNCHANGED <<ltx, demux, yrr, lmux, lrr, q, offered, incoming, got>>

(* Local ingress: class 0 of link 0 (a) and of link 1 (b), a packet a turn.*)
Ingress(m, s) == IF s = "a" THEN <<m, 0, 0>> ELSE <<m, 1, 0>>

TakeHdr(m, s) ==
  /\ IdleMux(lmux[m])
  /\ HdrAt(Ingress(m, s))
  /\ PickB(HdrAt(Ingress(m, "a")), HdrAt(Ingress(m, "b")), lrr[m]) <=> s = "b"
  /\ lmux' = [lmux EXCEPT ![m] = s]
  /\ lrr' = [lrr EXCEPT ![m] = (s = "a")]
  /\ rx' = [rx EXCEPT ![Ingress(m, s)] = Tail(@)]
  /\ incoming' = [incoming EXCEPT ![m] = Head(rx[Ingress(m, s)]).pkt]
  /\ UNCHANGED <<ltx, demux, ymux, yrr, q, cur, offered, got>>

TakeBeat(m, s) ==
  LET b == Head(rx[Ingress(m, s)])
  IN  /\ lmux[m] = s
      /\ BeatAt(Ingress(m, s))
      /\ rx' = [rx EXCEPT ![Ingress(m, s)] = Tail(@)]
      /\ lmux' = IF b.left = 0 THEN [lmux EXCEPT ![m] = "NONE"] ELSE lmux
      /\ incoming' = IF b.left = 0 THEN [incoming EXCEPT ![m] = NoPkt] ELSE incoming
      /\ got' = IF b.left = 0 /\ Dst(b.pkt) = m
                THEN [got EXCEPT ![b.pkt.flow] = @ + 1] ELSE got
      /\ UNCHANGED <<ltx, demux, ymux, yrr, lrr, q, cur, offered>>

(* What comes by link 1 to go on would be drained and reported (F_YTURN):  *)
(* NoYTurn says that nothing does.                                         *)
Moves(m) ==
  \/ Offer(m) \/ SendHdr(m) \/ SendBeat(m)
  \/ ForwardHdr(m) \/ ForwardBeat(m)
  \/ \E s \in {"a", "b"} : TakeHdr(m, s) \/ TakeBeat(m, s)

Next ==
  \E m \in Mesh :
    Moves(m) \/ \E l \in LinkNo, c \in Class : Grant(m, l, c)

Spec == Init /\ [][Next]_vars

(***************************************************************************)
(* Something moves while something can, with the credit that may be kept   *)
(* back kept back.  Traffic is finite and no step undoes another.          *)
(***************************************************************************)
SureNext ==
  \E m \in Mesh :
    Moves(m) \/ \E l \in LinkNo, c \in Class : MustGrant(m, l, c) /\ Grant(m, l, c)

LiveSpec == Spec /\ WF_vars(SureNext)

-----------------------------------------------------------------------------
(***************************************************************************)
(* Properties.                                                             *)
(***************************************************************************)
Item == [hdr : BOOLEAN, pkt : Packet, left : 0 .. MAX_BEATS]

TypeOK ==
  /\ ltx \in [Mesh -> [pkt : Packet \cup {NoPkt}, left : 0 .. MAX_BEATS]]
  /\ demux \in [Mesh -> {"NONE", "X0", "X1", "Y"}]
  /\ {ymux, lmux} \subseteq [Mesh -> {"NONE", "a", "b"}]
  /\ {yrr, lrr} \subseteq [Mesh -> BOOLEAN]
  /\ q \in [Lane -> Packet \cup {NoPkt}]
  /\ cur \in [Link -> {"NONE", "C0", "C1"}]
  /\ rx \in [Lane -> Seq(Item)]
  /\ \A k \in Lane : BeatsIn(rx[k]) <= RX_BEATS
  /\ offered \in [Flow -> 0 .. MaxPkts]
  /\ got \in [Flow -> Nat]
  /\ incoming \in [Mesh -> Packet \cup {NoPkt}]

(* Who draws from a lane, and the packet it is locked to: the endpoint or, *)
(* from link 0 class 1, the merge onto link 1, whose packet went ahead.    *)
Locked(k) ==
  IF k[3] = 0 THEN lmux[k[1]] = (IF k[2] = 0 THEN "a" ELSE "b")
              ELSE k[2] = 0 /\ ymux[k[1]] = "b"

Passing(k) == IF k[3] = 0 THEN incoming[k[1]] ELSE rx[k][1].pkt

(* Packets never interleave, in any queue of any mesh: a header, then its  *)
(* own beats counting down, then the next header; and the receiver is      *)
(* locked exactly while it is inside a packet.  A merge that arbitrates    *)
(* again within a packet breaks this at the next mesh (il_pkt_arb.v, 1-11).*)
StreamsWhole ==
  \A k \in Lane :
    /\ \A i \in 1 .. Len(rx[k]) - 1 :
         LET x == rx[k][i]
             y == rx[k][i + 1]
         IN  IF x.left = 0 THEN y.hdr
             ELSE ~y.hdr /\ y.pkt = x.pkt /\ y.left = x.left - 1
    /\ rx[k] # <<>> => (Head(rx[k]).hdr <=> ~Locked(k))
    /\ BeatAt(k) => Head(rx[k]).pkt = Passing(k)

(* x first, then y: nothing a mesh gets by link 1 has further to go, so    *)
(* the forward class of link 1 is dead and no link waits on a link 0       *)
(* (mag_switch.v, 13-19).                                                  *)
NoYTurn == \A m \in Mesh : rx[<<m, 1, 1>>] = <<>>

(* No switch breaks into a packet and none turns one from y to x, which is *)
(* all that keeps four switches that forward for one another apart.        *)
PacketsWhole == TypeOK /\ StreamsWhole /\ NoYTurn

(* Where a flow goes: over one link, or over two by way of the mesh beside *)
(* its source.                                                             *)
Via(f) == Peer(f[1], 0)
TwoLinks(f) == X(f[2]) # X(f[1]) /\ f[2] # Via(f)
LastQueue(f) == IF f[2] = Via(f) THEN <<f[2], 0, 0>> ELSE <<f[2], 1, 0>>
LastSlot(f)  == IF f[2] = Via(f) THEN <<f[1], 0, 0>> ELSE <<Peer(f[2], 1), 1, 0>>
FirstQueue(f) == <<Via(f), 0, 1>>
FirstSlot(f)  == <<f[1], 0, 1>>

(* The packets of a flow, oldest first, each where its header is: being    *)
(* delivered; queued at the end of its last link or held at the start of   *)
(* it; the same of the first of two; being offered.                        *)
At(f, p) == IF p.flow = f THEN <<p.n>> ELSE <<>>
Filed(f, s) == Picked([i \in DOMAIN s |-> s[i].pkt.n],
                      {i \in DOMAIN s : s[i].hdr /\ s[i].pkt.flow = f})

Delivering(f)  == At(f, incoming[f[2]])
LastQueued(f)  == Filed(f, rx[LastQueue(f)])
LastHeld(f)    == At(f, q[LastSlot(f)])
FirstQueued(f) == IF TwoLinks(f) THEN Filed(f, rx[FirstQueue(f)]) ELSE <<>>
FirstHeld(f)   == IF TwoLinks(f) THEN At(f, q[FirstSlot(f)]) ELSE <<>>
Offering(f)    == IF LocalHdr(f[1]) THEN At(f, ltx[f[1]].pkt) ELSE <<>>

InFlight ==
  [f \in Flow |-> Delivering(f) \o LastQueued(f) \o LastHeld(f)
                    \o FirstQueued(f) \o FirstHeld(f) \o Offering(f)]

(* Why: a packet is found on the way of its flow only, and an endpoint is  *)
(* given nothing between packets.                                          *)
OnRoute ==
  /\ \A m \in Mesh : incoming[m] # NoPkt => lmux[m] # "NONE" /\ Dst(incoming[m]) = m
  /\ \A k \in Lane : q[k] # NoPkt =>
       LET f == q[k].flow IN k = LastSlot(f) \/ (TwoLinks(f) /\ k = FirstSlot(f))
  /\ \A k \in Lane : \A i \in DOMAIN rx[k] : rx[k][i].hdr =>
       LET f == rx[k][i].pkt.flow IN k = LastQueue(f) \/ (TwoLinks(f) /\ k = FirstQueue(f))

Abstract == INSTANCE PacketChannel
  WITH Stream <- Flow, Packet <- 1 .. MaxPkts, chan <- InFlight, got <- got

(* Between two meshes, over one link or two, packets are delivered where   *)
(* they are addressed, in order and once.                                  *)
ImplementsChannel == Abstract!Channel

(* The four meshes never wait on one another for ever, with every mesh     *)
(* sending: all that is offered arrives (mag_switch.v, 3-19).              *)
Delivered ==
  <>(\A f \in Flow : got[f] = MaxPkts)

=============================================================================
