------------------------------- MODULE MagLink -------------------------------
(***************************************************************************)
(* The MAG-to-MAG interlink: two mag_link ends and the register pipe       *)
(* between them (src/src/kohakumas/mag_link.v, mag_link_pipe.v).           *)
(*                                                                         *)
(* Nothing backpressures the crossing: a beat is sent only against credit, *)
(* which the far end returns as it drains its receive FIFOs.  Credit is    *)
(* kept per class: class 0 stops at the peer, class 1 is forwarded by it.  *)
(*                                                                         *)
(* The ends are clocked together; a clock edge is the composition of the   *)
(* actions below, each of which reads registers and writes a set of        *)
(* registers of its own, so every clocked behaviour is one of the          *)
(* interleavings explored here (the README gives the order).               *)
(***************************************************************************)
EXTENDS Integers, Sequences, FiniteSets, Totals

CONSTANTS
  RX_BEATS,    \* receive buffer per class, in beats: the initial credit
  CRED_BATCH,  \* credits owed that make a return due
  MAX_BEATS,   \* longest packet an end may emit
  TXN_MAX,     \* largest count a credit packet carries (255: an 8-bit field)
  DEPTH,       \* registers between the two ends, in one direction
  MaxPkts,     \* bound: packets each source offers
  Lens,        \* Lens[c]: the header lengths (beats - 1) offered on class c
  Streams      \* the <<end, class>> pairs that have traffic

End   == {0, 1}
Class == {0, 1}
Peer(e) == 1 - e

(***************************************************************************)
(* Mesh ids.  An end's own id is its number, so that of its peer is        *)
(* Peer(e); BeyondMesh is any mesh that neither end is.                    *)
(***************************************************************************)
BeyondMesh == 2
Mesh == {0, 1, BeyondMesh}

ASSUME LinkAssumption ==
  /\ RX_BEATS \in Nat \ {0} /\ RX_BEATS < 65536  \* CW = 16-bit counters
  /\ CRED_BATCH \in Nat \ {0}
  /\ MAX_BEATS \in Nat \ {0}
  /\ TXN_MAX \in Nat \ {0}
  /\ DEPTH \in Nat \ {0}
  /\ MaxPkts \in Nat
  /\ Lens \in [Class -> SUBSET Nat]
  /\ Streams \subseteq End \X Class

(***************************************************************************)
(* A header: the fields of TUSER.  txn is the packet's number in its       *)
(* stream, and the count returned in a credit packet; addr is the class a  *)
(* credit packet returns to.  Continuation beats carry a zero TUSER.       *)
(***************************************************************************)
Kind == {"NONE", "PKT", "CREDIT"}
Hdr  == [kind : Kind, dmesh : Mesh, txn : Nat, len : Nat, addr : Class]

ZeroHdr == [kind |-> "NONE", dmesh |-> 0, txn |-> 0, len |-> 0, addr |-> 0]

(***************************************************************************)
(* Data: one LINK_W-bit beat.  Its contents are opaque to the link; here   *)
(* every beat is labelled with the stream class and packet it was cut from,*)
(* so that loss, reordering and misrouting are visible at the receiver.    *)
(***************************************************************************)
Data == [cls : Class, pkt : Nat]
Beat == [user : Hdr, last : BOOLEAN, data : Data]

RxBeat == [last : BOOLEAN, data : Data]   \* what a data FIFO stores

NoPkt == [txn |-> 0, left |-> 0]

VARIABLES
  q,           \* q0/q1: the registered header of each class, ZeroHdr if empty
  tst, tsel, tleft, thdr, thdr_first,       \* the transmit state machine
  csel, csend,                              \* the credit packet being built
  cred, ret,   \* beats the peer can absorb; beats freed here, not returned
  fault_len,   \* a header longer than MAX_BEATS was offered
  wire,        \* wire[e]: the beats e has sent that its peer has not decoded
  r_first, cur_is_cred, cur_cls,            \* the inbound framing
  hfifo, dfifo,                             \* the receive FIFOs of each class
  offered,     \* packets the source of each class has handed to the link
  open,        \* the packet each class's consumer is drawing, NoPkt if none
  taken        \* packets each class's consumer has drawn completely

txVars   == <<q, tst, tsel, tleft, thdr, thdr_first, csel, csend>>
credVars == <<cred, ret>>
rxVars   == <<r_first, cur_is_cred, cur_cls, hfifo, dfifo>>
envVars  == <<offered, open, taken>>
vars == <<txVars, credVars, rxVars, envVars, wire, fault_len>>

PerClass(v) == [e \in End |-> [c \in Class |-> v]]

Init ==
  /\ q = PerClass(ZeroHdr)
  /\ tst = [e \in End |-> "IDLE"]
  /\ tsel = [e \in End |-> 0]
  /\ tleft = [e \in End |-> 0]
  /\ thdr = [e \in End |-> ZeroHdr]
  /\ thdr_first = [e \in End |-> FALSE]
  /\ csel = [e \in End |-> 0]
  /\ csend = [e \in End |-> 0]
  /\ cred = PerClass(RX_BEATS)
  /\ ret = PerClass(0)
  /\ fault_len = [e \in End |-> FALSE]
  /\ wire = [e \in End |-> <<>>]
  /\ r_first = [e \in End |-> TRUE]
  /\ cur_is_cred = [e \in End |-> FALSE]
  /\ cur_cls = [e \in End |-> 0]
  /\ hfifo = PerClass(<<>>)
  /\ dfifo = PerClass(<<>>)
  /\ offered = PerClass(0)
  /\ open = PerClass(NoPkt)
  /\ taken = PerClass(0)

-----------------------------------------------------------------------------
(***************************************************************************)
(* Transmit side.                                                          *)
(***************************************************************************)
Valid(e, c) == q[e][c].kind # "NONE"
Need(e, c)  == q[e][c].len + 1
Fits(e, c)  == Need(e, c) <= MAX_BEATS
\* Mutants of TxCan: pricing len instead of len + 1, and one shared counter.
TxCanShort(e, c)  == Valid(e, c) /\ Fits(e, c) /\ q[e][c].len <= cred[e][c]
TxCanShared(e, c) == Valid(e, c) /\ Fits(e, c) /\ Need(e, c) <= cred[e][1]

TxCan(e, c) == Valid(e, c) /\ Fits(e, c) /\ Need(e, c) <= cred[e][c]

(***************************************************************************)
(* A return is due when a whole batch is owed, and a partial batch is      *)
(* flushed only while neither class has a header waiting.                  *)
(***************************************************************************)
DueLate(e, c) == ret[e][c] > CRED_BATCH   \* mutant of Due
Due(e, c)   == ret[e][c] >= CRED_BATCH
CredDue(e)  == \E c \in Class : Due(e, c)
CredIdle(e) == /\ \E c \in Class : ret[e][c] # 0
               /\ \A c \in Class : ~Valid(e, c)
CredGo(e)   == tst[e] = "IDLE" /\ (CredDue(e) \/ CredIdle(e))

CredSel(e) == IF Due(e, 0) THEN 0
              ELSE IF Due(e, 1) THEN 1
              ELSE IF ret[e][0] # 0 THEN 0 ELSE 1

RetCap(n) == IF n > TXN_MAX THEN TXN_MAX ELSE n

\* Mutant of OfferHeader: a slot that is always ready.
OfferHeaderOver(e, c) ==
  /\ <<e, c>> \in Streams
  /\ offered[e][c] < MaxPkts
  /\ \E len \in Lens[c] :
       q' = [q EXCEPT ![e][c] =
               [kind |-> "PKT", dmesh |-> IF c = 0 THEN Peer(e) ELSE BeyondMesh,
                txn |-> offered[e][c] + 1, len |-> len, addr |-> 0]]
  /\ offered' = [offered EXCEPT ![e][c] = @ + 1]
  /\ UNCHANGED <<tst, tsel, tleft, thdr, thdr_first, csel, csend, credVars,
                 rxVars, open, taken, wire, fault_len>>

(* tx_hvalid && tx_hready: the source's header enters the holding slot.    *)
OfferHeader(e, c) ==
  /\ <<e, c>> \in Streams
  /\ offered[e][c] < MaxPkts
  /\ ~Valid(e, c)
  /\ \E len \in Lens[c] :
       q' = [q EXCEPT ![e][c] =
               [kind |-> "PKT", dmesh |-> IF c = 0 THEN Peer(e) ELSE BeyondMesh,
                txn |-> offered[e][c] + 1, len |-> len, addr |-> 0]]
  /\ offered' = [offered EXCEPT ![e][c] = @ + 1]
  /\ UNCHANGED <<tst, tsel, tleft, thdr, thdr_first, csel, csend, credVars,
                 rxVars, open, taken, wire, fault_len>>

(* T_IDLE, credit first: latch what the credit packet will return.         *)
StartCredit(e) ==
  /\ CredGo(e)
  /\ csel'  = [csel EXCEPT ![e] = CredSel(e)]
  /\ csend' = [csend EXCEPT ![e] = RetCap(ret[e][CredSel(e)])]
  /\ tst'   = [tst EXCEPT ![e] = "CRED"]
  /\ UNCHANGED <<q, tsel, tleft, thdr, thdr_first, credVars, rxVars, envVars,
                 wire, fault_len>>

(* grant0 / grant1: the whole packet's credit is taken when it is granted. *)
Grant(e, c) ==
  /\ tst[e] = "IDLE"
  /\ ~CredGo(e)
  /\ TxCan(e, c)
  /\ c = 1 => ~TxCan(e, 0)
  /\ q'     = [q EXCEPT ![e][c] = ZeroHdr]
  /\ cred'  = [cred EXCEPT ![e][c] = @ - Need(e, c)]
  /\ thdr'  = [thdr EXCEPT ![e] = q[e][c]]
  /\ tsel'  = [tsel EXCEPT ![e] = c]
  /\ tleft' = [tleft EXCEPT ![e] = Need(e, c)]
  /\ thdr_first' = [thdr_first EXCEPT ![e] = TRUE]
  /\ tst'   = [tst EXCEPT ![e] = "DATA"]
  /\ UNCHANGED <<csel, csend, ret, rxVars, envVars, wire, fault_len>>

\* Mutant of CreditBeat: the count is read when the packet is built.
CreditBeatLive(e) ==
  [user |-> [kind |-> "CREDIT", dmesh |-> Peer(e), txn |-> ret[e][csel[e]],
             len |-> 0, addr |-> csel[e]],
   last |-> TRUE, data |-> [cls |-> 0, pkt |-> 0]]

CreditBeat(e) ==
  [user |-> [kind |-> "CREDIT", dmesh |-> Peer(e), txn |-> csend[e],
             len |-> 0, addr |-> csel[e]],
   last |-> TRUE, data |-> [cls |-> 0, pkt |-> 0]]

(* T_CRED.  A pipe of DEPTH registers never holds more than DEPTH beats.   *)
SendCredit(e) ==
  /\ tst[e] = "CRED"
  /\ Len(wire[e]) < DEPTH
  /\ wire' = [wire EXCEPT ![e] = Append(@, CreditBeat(e))]
  /\ ret'  = [ret EXCEPT ![e][csel[e]] = @ - csend[e]]
  /\ tst'  = [tst EXCEPT ![e] = "IDLE"]
  /\ UNCHANGED <<q, tsel, tleft, thdr, thdr_first, csel, csend, cred, rxVars,
                 envVars, fault_len>>

(***************************************************************************)
(* T_DATA with tx_dvalid.  The source raises dlast on the beat its header's*)
(* len announced: the sources' duty, which an assertion at line 449 checks.*)
(***************************************************************************)
DataBeat(e) ==
  [user |-> IF thdr_first[e] THEN thdr[e] ELSE ZeroHdr,
   last |-> tleft[e] = 1,
   data |-> [cls |-> tsel[e], pkt |-> thdr[e].txn]]

SendBeat(e) ==
  /\ tst[e] = "DATA"
  /\ Len(wire[e]) < DEPTH
  /\ wire'  = [wire EXCEPT ![e] = Append(@, DataBeat(e))]
  /\ tleft' = [tleft EXCEPT ![e] = @ - 1]
  /\ thdr_first' = [thdr_first EXCEPT ![e] = FALSE]
  /\ tst'   = [tst EXCEPT ![e] = IF tleft[e] = 1 THEN "IDLE" ELSE @]
  /\ UNCHANGED <<q, tsel, thdr, csel, csend, credVars, rxVars, envVars,
                 fault_len>>

(* A header too long for any credit stays in its slot and raises the fault.*)
FlagLen(e) ==
  /\ \E c \in Class : Valid(e, c) /\ ~Fits(e, c)
  /\ fault_len' = [fault_len EXCEPT ![e] = TRUE]
  /\ UNCHANGED <<txVars, credVars, rxVars, envVars, wire>>

-----------------------------------------------------------------------------
(***************************************************************************)
(* Receive side of end e: the oldest beat of its peer's wire is decoded.   *)
(***************************************************************************)
Head1(e)  == Head(wire[Peer(e)])
IsCred(e) == IF r_first[e] THEN Head1(e).user.kind = "CREDIT"
             ELSE cur_is_cred[e]
InCls(e)  == IF r_first[e] THEN IF Head1(e).user.dmesh # e THEN 1 ELSE 0
             ELSE cur_cls[e]

(* wr_en of a receive FIFO: a write to a full one is lost.                 *)
Push(fifo, x) == IF Len(fifo) < RX_BEATS THEN Append(fifo, x) ELSE fifo

Arrive(e) ==
  /\ wire[Peer(e)] # <<>>
  /\ LET b   == Head1(e)
         c   == InCls(e)
         enq == ~IsCred(e)
     IN  /\ r_first' = [r_first EXCEPT ![e] = b.last]
         /\ cur_is_cred' = [cur_is_cred EXCEPT ![e] = IsCred(e)]
         /\ cur_cls' = [cur_cls EXCEPT ![e] = c]
         /\ cred' = IF r_first[e] /\ IsCred(e)
                    THEN [cred EXCEPT ![e][b.user.addr] = @ + b.user.txn]
                    ELSE cred
         /\ hfifo' = IF enq /\ r_first[e]
                     THEN [hfifo EXCEPT ![e][c] = Push(@, b.user)] ELSE hfifo
         /\ dfifo' = IF enq
                     THEN [dfifo EXCEPT ![e][c] =
                             Push(@, [last |-> b.last, data |-> b.data])]
                     ELSE dfifo
  /\ wire' = [wire EXCEPT ![Peer(e)] = Tail(@)]
  /\ UNCHANGED <<txVars, ret, envVars, fault_len>>

(***************************************************************************)
(* The consumer of a class draws a header, then that packet's beats up to  *)
(* TLAST (il_pkt_demux4, il_pkt_mux2).  Each beat drawn is owed back.      *)
(***************************************************************************)
PopHeader(e, c) ==
  /\ open[e][c] = NoPkt
  /\ hfifo[e][c] # <<>>
  /\ open' = [open EXCEPT ![e][c] = [txn  |-> Head(hfifo[e][c]).txn,
                                     left |-> Head(hfifo[e][c]).len + 1]]
  /\ hfifo' = [hfifo EXCEPT ![e][c] = Tail(@)]
  /\ UNCHANGED <<txVars, credVars, r_first, cur_is_cred, cur_cls, dfifo,
                 offered, taken, wire, fault_len>>

PopBeat(e, c) ==
  /\ open[e][c] # NoPkt
  /\ dfifo[e][c] # <<>>
  /\ dfifo' = [dfifo EXCEPT ![e][c] = Tail(@)]
  /\ ret'   = [ret EXCEPT ![e][c] = @ + 1]
  /\ open'  = [open EXCEPT ![e][c] = IF Head(dfifo[e][c]).last THEN NoPkt
                                     ELSE [txn |-> @.txn, left |-> @.left - 1]]
  /\ taken' = [taken EXCEPT ![e][c] = IF Head(dfifo[e][c]).last THEN @ + 1
                                      ELSE @]
  /\ UNCHANGED <<txVars, cred, r_first, cur_is_cred, cur_cls, hfifo, offered,
                 wire, fault_len>>

(* The transmit state machine: at most one of its steps is enabled.        *)
Transmit(e) ==
  \/ StartCredit(e)
  \/ SendCredit(e)
  \/ SendBeat(e)
  \/ \E c \in Class : Grant(e, c)

Consume(e, c) == PopHeader(e, c) \/ PopBeat(e, c)

Next ==
  \E e \in End :
    \/ Transmit(e)
    \/ FlagLen(e)
    \/ Arrive(e)
    \/ \E c \in Class : OfferHeader(e, c) \/ Consume(e, c)

Spec == Init /\ [][Next]_vars

-----------------------------------------------------------------------------
(***************************************************************************)
(* Fairness.  Every register of an end is clocked, so an enabled step of   *)
(* an end is taken; a source with a header in the link supplies its beats. *)
(* Sources need not offer headers.  Consumers are fair only where said.    *)
(***************************************************************************)
LinkFairness ==
  \A e \in End :
    WF_vars(Transmit(e)) /\ WF_vars(FlagLen(e)) /\ WF_vars(Arrive(e))

ConsumerFairness(c) == \A e \in End : WF_vars(Consume(e, c))

LiveSpec  == Spec /\ LinkFairness /\ \A c \in Class : ConsumerFairness(c)

(* The forward path (class 1) may stall for ever.                          *)
StallSpec == Spec /\ LinkFairness /\ ConsumerFairness(0)

-----------------------------------------------------------------------------
(***************************************************************************)
(* Properties.                                                             *)
(***************************************************************************)

(* Every register stays within its width and its meaning: credit counters  *)
(* never leave 0 .. RX_BEATS (so the 16-bit sums of deltas of line 295     *)
(* never wrap) and no receive FIFO holds more than RX_BEATS entries.       *)
TxType ==
  /\ q \in [End -> [Class -> Hdr]]
  /\ tst \in [End -> {"IDLE", "CRED", "DATA"}]
  /\ tsel \in [End -> Class]
  /\ tleft \in [End -> Nat]
  /\ thdr \in [End -> Hdr]
  /\ thdr_first \in [End -> BOOLEAN]
  /\ csel \in [End -> Class]
  /\ csend \in [End -> 0 .. TXN_MAX]
  /\ fault_len \in [End -> BOOLEAN]

CreditType ==
  /\ cred \in [End -> [Class -> 0 .. RX_BEATS]]
  /\ ret \in [End -> [Class -> 0 .. RX_BEATS]]

RxType ==
  /\ wire \in [End -> Seq(Beat)]
  /\ r_first \in [End -> BOOLEAN]
  /\ cur_is_cred \in [End -> BOOLEAN]
  /\ cur_cls \in [End -> Class]

FifoType ==
  /\ hfifo \in [End -> [Class -> Seq(Hdr)]]
  /\ dfifo \in [End -> [Class -> Seq(RxBeat)]]
  /\ \A e \in End, c \in Class :
       Len(hfifo[e][c]) <= RX_BEATS /\ Len(dfifo[e][c]) <= RX_BEATS

EnvType ==
  /\ offered \in [End -> [Class -> 0 .. MaxPkts]]
  /\ open \in [End -> [Class -> [txn : Nat, left : Int]]]
  /\ taken \in [End -> [Class -> Nat]]

TypeOK == TxType /\ CreditType /\ RxType /\ FifoType /\ EnvType

(* Where a unit of class c's receive space at the peer of e may be: beats  *)
(* granted and not yet sent, beats on the wire, credit on its way back.    *)
Reserved(e, c) == IF tst[e] = "DATA" /\ tsel[e] = c THEN tleft[e] ELSE 0

BeatWt(b, c) ==
  IF b.user.kind # "CREDIT" /\ b.data.cls = c THEN 1 ELSE 0

CreditWt(b, c) ==
  IF b.user.kind = "CREDIT" /\ b.user.addr = c THEN b.user.txn ELSE 0

Beats(w, c)   == Total([i \in DOMAIN w |-> BeatWt(w[i], c)])
Credits(w, c) == Total([i \in DOMAIN w |-> CreditWt(w[i], c)])

Space(e, c) ==
  cred[e][c] + Reserved(e, c) + Beats(wire[e], c) + Len(dfifo[Peer(e)][c])
    + ret[Peer(e)][c] + Credits(wire[Peer(e)], c)

(* No unit of credit is lost, doubled or moved to the other class, whatever*)
(* is in flight (the update of lines 278-300, where a grant, an arriving   *)
(* return and a departing return may touch one counter in one cycle).      *)
CreditConserved == \A e \in End, c \in Class : Space(e, c) = RX_BEATS

(* A beat about to be decoded always finds room, though nothing but credit *)
(* holds it back: the assertion of line 446.                               *)
DataRoom ==
  \A e \in End :
    wire[Peer(e)] # <<>> /\ ~IsCred(e) => Len(dfifo[e][InCls(e)]) < RX_BEATS

(* The wire and the far FIFO of class c are empty, nothing is being sent,  *)
(* and no batch is due: no credit will come back unless e sends again.     *)
Drained(e, c) ==
  /\ wire[e] = <<>> /\ wire[Peer(e)] = <<>>
  /\ dfifo[Peer(e)][c] = <<>>
  /\ tst[e] = "IDLE" /\ ~Due(Peer(e), c)

(* The relation of the three parameters under which the credit a peer may  *)
(* withhold can never be the credit a packet is waiting for.               *)
Headroom == MAX_BEATS + CRED_BATCH <= RX_BEATS + 1

(* A header never waits for credit that nothing will bring: once the class *)
(* is drained, a packet within MAX_BEATS can be granted.  The partial batch*)
(* the peer keeps back while it has a header waiting (line 237) must not   *)
(* leave both ends waiting on each other.                                  *)
NoCreditDeadlock ==
  Headroom =>
    \A e \in End, c \in Class :
      Drained(e, c) /\ Valid(e, c) /\ Fits(e, c) => TxCan(e, c)

(***************************************************************************)
(* Why credit is conserved: the class a beat was charged to is the class   *)
(* the receiver files it under.  How the receiver stands before the i-th   *)
(* beat of the wire of e; i = Len(wire[e]) + 1 is how the sender left it.  *)
(***************************************************************************)
StartsAt(e, i) == IF i = 1 THEN r_first[Peer(e)] ELSE wire[e][i - 1].last
ClsAt(e, i) == IF i = 1 THEN cur_cls[Peer(e)] ELSE wire[e][i - 1].data.cls
CredAt(e, i) == IF i = 1 THEN cur_is_cred[Peer(e)]
                ELSE wire[e][i - 1].user.kind = "CREDIT"

(* A header names, by its destination, the class it was offered on.        *)
Classed(e, h, c) == h.kind = "PKT" /\ (h.dmesh # Peer(e) <=> c = 1)

BeatFramed(e, i) ==
  LET b == wire[e][i]
  IN  IF StartsAt(e, i)
      THEN \/ b.user.kind = "CREDIT" /\ b.last
           \/ Classed(e, b.user, b.data.cls)
      ELSE b.user = ZeroHdr /\ ~CredAt(e, i) /\ b.data.cls = ClsAt(e, i)

TxFramed(e) ==
  LET n == Len(wire[e]) + 1
  IN  /\ \A c \in Class : Valid(e, c) => Classed(e, q[e][c], c)
      /\ tst[e] = "DATA" => tleft[e] >= 1 /\ Classed(e, thdr[e], tsel[e])
      /\ IF tst[e] = "DATA" /\ ~thdr_first[e]
         THEN ~StartsAt(e, n) /\ ~CredAt(e, n) /\ ClsAt(e, n) = tsel[e]
         ELSE StartsAt(e, n)
      /\ tst[e] = "CRED" => csend[e] <= ret[e][csel[e]]

WireFramed ==
  \A e \in End : TxFramed(e) /\ \A i \in DOMAIN wire[e] : BeatFramed(e, i)

(* The inductive invariant behind the safety theorems of MagLinkTheorems.  *)
IInv == TypeOK /\ CreditConserved /\ WireFramed

(* Every packet offered on class c has been drawn by the far consumer.     *)
AllDrawn(c) == \A e \in End : taken[Peer(e)][c] = offered[e][c]

(* Sources offer finitely many packets (MaxPkts), so this says that every  *)
(* packet offered is delivered: no header waits for ever for its credit,   *)
(* and no credit owed is withheld for ever from a header that needs it.    *)
Delivered == []<>(\A c \in Class : AllDrawn(c))

(* A stalled forward path does not stop traffic that ends at the peer      *)
(* (lines 29-32): class 0 is delivered whatever class 1's consumers do.    *)
TerminatingDelivered == []<>AllDrawn(0)

-----------------------------------------------------------------------------
(***************************************************************************)
(* The link implements a channel: the packets of class c from end e that   *)
(* its consumer has opened, that are in the far header FIFO, on the wire,  *)
(* in the transmitter with the header still to be sent, and in the slot;   *)
(* oldest first.                                                           *)
(***************************************************************************)
Txns(hdrs) == [i \in DOMAIN hdrs |-> hdrs[i].txn]
UserTxns(w) == [i \in DOMAIN w |-> w[i].user.txn]
Headers(w, c) == {i \in DOMAIN w : w[i].user.kind = "PKT" /\ w[i].data.cls = c}

Opened(e, c) ==
  IF open[Peer(e)][c] # NoPkt THEN <<open[Peer(e)][c].txn>> ELSE <<>>
Filed(e, c) == Txns(hfifo[Peer(e)][c])
Crossing(e, c) == Picked(UserTxns(wire[e]), Headers(wire[e], c))
Leaving(e, c) == IF tst[e] = "DATA" /\ tsel[e] = c /\ thdr_first[e]
                 THEN <<thdr[e].txn>> ELSE <<>>
Held(e, c) == IF Valid(e, c) THEN <<q[e][c].txn>> ELSE <<>>

Pending(e, c) ==
  Opened(e, c) \o Filed(e, c) \o Crossing(e, c) \o Leaving(e, c) \o Held(e, c)

Abstract == INSTANCE PacketChannel
  WITH Stream <- Streams, Packet <- 1 .. MaxPkts,
       chan <- [s \in Streams |-> Pending(s[1], s[2])],
       got <- [s \in Streams |-> taken[Peer(s[1])][s[2]]]

(* Nothing the link does loses, duplicates or reorders a packet.           *)
ImplementsChannel == Abstract!Channel

(***************************************************************************)
(* Why: a header is filed with the first beat of its packet, so that a     *)
(* header FIFO never holds more than its data FIFO and the credit taken    *)
(* for the beats makes room for the header too.  Every header filed or     *)
(* opened answers for one last beat, in the data FIFO or still to come.    *)
(***************************************************************************)
LastBeats(s) == Total([i \in DOMAIN s |-> IF s[i].last THEN 1 ELSE 0])
Arriving(e, c) == ~r_first[e] /\ ~cur_is_cred[e] /\ cur_cls[e] = c

HeadersPaired ==
  \A e \in End, c \in Class :
    Len(hfifo[e][c]) + (IF open[e][c] # NoPkt THEN 1 ELSE 0)
      = LastBeats(dfifo[e][c]) + (IF Arriving(e, c) THEN 1 ELSE 0)

(* Everything pending is a packet some source offered.                     *)
Numbered == \A e \in End, c \in Class : Pending(e, c) \in Seq(1 .. MaxPkts)

(* The inductive invariant behind the refinement (MagLinkTheorems).        *)
ChanInv == IInv /\ HeadersPaired /\ Numbered

=============================================================================
