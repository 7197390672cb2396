------------------------------ MODULE MagILink ------------------------------
(***************************************************************************)
(* What one mesh sends another: the mover's remote writes, bursts of NoC   *)
(* flits and doorbells (src/src/kohakumas/mag_ilink.v), with the arbiter   *)
(* that brings the flits of the memory ports to it (mag.v).                *)
(*                                                                         *)
(* The outbound half of one mesh and the inbound half of another, which    *)
(* share no register.  TxClock and RxClock are one clock edge of each; the *)
(* crossing between them keeps packets whole and in order, which MagLink   *)
(* and the packet arbiters are checked for, and takes as long as it likes. *)
(***************************************************************************)
EXTENDS Integers, Sequences, FiniteSets, Totals

CONSTANTS
  MAX_BEATS,   \* longest packet the encapsulator makes
  WR_LIMIT,    \* wr_out at which no write is issued (8)
  WR_MOD,      \* wr_out counts modulo this (16: four bits)
  MEM_PORTS,   \* ports that flits for another mesh come in by
  Sender,      \* compute units that drain into the other mesh
  PortOf,      \* the port each of them reaches
  BurstLen,    \* flits in each of its bursts
  Exclusive,   \* whether a burst begins only when no other is unfinished
  CAP,         \* headers and beats the crossing holds
  MaxBursts, MaxWrites, MaxRings   \* bounds on what is sent

Ports == 0 .. MEM_PORTS - 1
Nobody == "nobody"

ASSUME ILinkAssumption ==
  /\ {MAX_BEATS, WR_LIMIT, MEM_PORTS, CAP} \subseteq Nat \ {0}
  /\ WR_MOD \in Nat /\ WR_LIMIT < WR_MOD
  /\ Nobody \notin Sender
  /\ PortOf \in [Sender -> Ports]
  /\ BurstLen \in [Sender -> Nat \ {0}]
  /\ Exclusive \in BOOLEAN
  /\ {MaxBursts, MaxWrites, MaxRings} \subseteq Nat

(***************************************************************************)
(* What is carried.  A write or a doorbell is known by its number, the     *)
(* flits of a sender are numbered through all its bursts.  A doorbell also *)
(* carries, as its txn, how many writes had been answered when it was rung.*)
(***************************************************************************)
Kind  == {"WR", "FLIT", "DOOR"}
Flit  == [src : Sender, n : Nat]
NoFlit == [src |-> Nobody, n |-> 0]

Load  == [kind : Kind, src : Sender \cup {Nobody}, n : Nat]
NoLoad == [kind |-> "WR", src |-> Nobody, n |-> 0]

(* What crosses: a header, then as many beats as it says.                  *)
Header == [hdr : {TRUE}, load : Load, len : Nat]
Beat   == [hdr : {FALSE}, load : Load, last : BOOLEAN]

VARIABLES
  \* outbound: the mover's write channel, split by address
  aw_got, w_got, rem_r, bpend, loc_aw, loc_w, ob_wr_req, d_r,
  \* the ports' arbiter, and the burst being accumulated
  port, enc_rr, acc_open, acc_beats, acc_ready, acc_nb, ef,
  \* the outbound arbiter
  obst, ob_who, ob_rr, ob_left, ltx_hdr, ltx_dat,
  door_req, door_txn,
  \* the crossing
  cross,
  \* inbound
  inst, in_hdr, in_left, wr_out, lk_aw, lk_w, inj, dbell_n,
  aws, ws,     \* the memory: addresses and data taken, and not answered
  \* counted against the bounds, or to state the properties
  mv, wrote, answered, rung, flits, landed, injected

moverVars == <<aw_got, w_got, rem_r, bpend, loc_aw, loc_w, ob_wr_req, d_r,
               mv, wrote, answered>>
encVars   == <<enc_rr, acc_open, acc_beats, acc_ready, acc_nb, ef>>
obVars    == <<obst, ob_who, ob_rr, ob_left, ltx_hdr, ltx_dat>>
rxVars    == <<inst, in_hdr, in_left, wr_out, lk_aw, lk_w, inj, dbell_n, aws,
               ws, landed, injected>>
vars == <<moverVars, encVars, obVars, rxVars, port, flits, door_req, door_txn,
          rung, cross>>

NoHdr == [hdr |-> TRUE, load |-> NoLoad, len |-> 0]

Init ==
  /\ aw_got = FALSE /\ w_got = FALSE /\ rem_r = FALSE /\ bpend = FALSE
  /\ loc_aw = FALSE /\ loc_w = FALSE /\ ob_wr_req = FALSE /\ d_r = 0
  /\ port = [p \in Ports |-> NoFlit]
  /\ enc_rr = 0 /\ acc_open = Nobody /\ acc_beats = 0
  /\ acc_ready = FALSE /\ acc_nb = 0 /\ ef = <<>>
  /\ obst = "IDLE" /\ ob_who = 0 /\ ob_rr = 0 /\ ob_left = 0
  /\ ltx_hdr = NoHdr /\ ltx_dat = NoLoad
  /\ door_req = FALSE /\ door_txn = 0
  /\ cross = <<>>
  /\ inst = "HDR" /\ in_hdr = NoHdr /\ in_left = 0 /\ wr_out = 0
  /\ lk_aw = 0 /\ lk_w = 0 /\ inj = NoFlit /\ dbell_n = 0
  /\ aws = <<>> /\ ws = <<>>
  /\ mv = 0 /\ wrote = 0 /\ answered = 0 /\ rung = 0 /\ landed = 0
  /\ flits = [s \in Sender |-> 0] /\ injected = [s \in Sender |-> 0]

-----------------------------------------------------------------------------
(***************************************************************************)
(* Outbound.  Room: the crossing takes what is presented in this cycle.    *)
(***************************************************************************)
Room == Len(cross) < CAP

HdrTaken  == obst = "HDR" /\ Room
BeatTaken == obst = "DAT" /\ Room
LastTaken == BeatTaken /\ ob_left = 1

(* The mover presents address and data together, and one write at a time.  *)
(* m is the kind of write it presents, l what the local memory does.       *)
LocalMem == [aw : BOOLEAN, w : BOOLEAN, b : BOOLEAN]

MoverSplit(m, l) ==
  LET aw == m # "NONE"
      w  == aw_got /\ ~w_got
      ob_wr_ack == HdrTaken /\ ob_who = 0
      answer == \/ l.b
                \/ ob_wr_ack
      taken  == bpend
  IN  /\ aw => ~aw_got /\ mv < MaxWrites
      /\ l.aw => loc_aw
      /\ l.w => loc_w
      /\ l.b => w_got /\ ~rem_r /\ ~loc_aw /\ ~loc_w /\ ~bpend
      /\ rem_r' = IF aw THEN m = "REMOTE" ELSE rem_r
      /\ aw_got' = (~taken /\ (aw_got \/ aw))
      /\ w_got' = (~taken /\ (w_got \/ w))
      /\ d_r' = IF w /\ rem_r THEN wrote + 1 ELSE d_r
      /\ ob_wr_req' = ((ob_wr_req /\ ~ob_wr_ack) \/ (w /\ rem_r))
      /\ loc_aw' = ((loc_aw /\ ~l.aw) \/ (w /\ ~rem_r))
      /\ loc_w' = ((loc_w /\ ~l.w) \/ (w /\ ~rem_r))
      /\ bpend' = ((bpend /\ ~taken) \/ answer)
      /\ mv' = IF aw THEN mv + 1 ELSE mv
      /\ wrote' = IF w /\ rem_r THEN wrote + 1 ELSE wrote
      /\ answered' = IF taken /\ rem_r THEN answered + 1 ELSE answered

(***************************************************************************)
(* Encapsulation: the flits of one burst become one packet, or several of  *)
(* MAX_BEATS.  The ports take turns; the turn passes on an accepted flit.  *)
(***************************************************************************)
EncAny == \E p \in Ports : port[p] # NoFlit
Turn(p) == (p - enc_rr) % MEM_PORTS
EncSel == CHOOSE p \in Ports :
            /\ port[p] # NoFlit
            /\ \A r \in Ports : port[r] # NoFlit => Turn(p) <= Turn(r)

EncTake ==
  /\ EncAny
  /\ ~acc_ready
  /\ Len(ef) < MAX_BEATS
  /\ acc_open \in {Nobody, port[EncSel].src}

IsLast(f) == f.n % BurstLen[f.src] = 0
AccCloseLast(f) == IsLast(f)   \* mutant of AccClose
AccClose(f) == IsLast(f) \/ acc_beats + 1 = MAX_BEATS

\* Mutant of EfPop: a registered pop, too late for the header's cycle.
EfPopLate == ob_who = 1 /\ BeatTaken /\ ob_left # 1

(* The head of the FIFO leaves as it is loaded into the beat to be sent.   *)
EfPop == ob_who = 1 /\ (HdrTaken \/ (BeatTaken /\ ob_left # 1))

Encapsulate ==
  LET f == port[EncSel]
      rest == IF EfPop THEN Tail(ef) ELSE ef
      sent == LastTaken /\ ob_who = 1
  IN  IF EncTake
      THEN /\ port' = [port EXCEPT ![EncSel] = NoFlit]
           /\ enc_rr' = (EncSel + 1) % MEM_PORTS
           /\ ef' = Append(rest, f)
           /\ acc_open' = IF AccClose(f) THEN Nobody ELSE f.src
           /\ acc_beats' = IF AccClose(f) THEN 0 ELSE acc_beats + 1
           /\ acc_ready' = AccClose(f)
           /\ acc_nb' = IF AccClose(f) THEN acc_beats + 1 ELSE acc_nb
      ELSE /\ ef' = rest
           /\ acc_ready' = (acc_ready /\ ~sent)
           /\ UNCHANGED <<port, enc_rr, acc_open, acc_beats, acc_nb>>

(***************************************************************************)
(* Outbound arbitration among writes (0), bursts (1) and doorbells (2).    *)
(***************************************************************************)
Req(w) == CASE w = 0 -> ob_wr_req [] w = 1 -> acc_ready [] w = 2 -> door_req

Pick == CHOOSE w \in 0 .. 2 :
          Req(w) /\ \A v \in 0 .. 2 : Req(v) => (w - ob_rr) % 3 <= (v - ob_rr) % 3

ObLoad(w) ==
  CASE w = 0 -> [kind |-> "WR", src |-> Nobody, n |-> d_r]
    [] w = 1 -> [kind |-> "FLIT", src |-> Head(ef).src, n |-> Head(ef).n]
    [] w = 2 -> [kind |-> "DOOR", src |-> Nobody, n |-> door_txn]

Beats(w) == IF w = 1 THEN acc_nb ELSE 1

\* Mutant of ObBeat: the count is compared a beat early.
ObBeatEarly == [hdr |-> FALSE, load |-> ltx_dat, last |-> ob_left <= 2]
ObBeat == [hdr |-> FALSE, load |-> ltx_dat, last |-> ob_left = 1]

Outbound ==
  \/ /\ obst = "IDLE" /\ \E w \in 0 .. 2 : Req(w)
     /\ ob_who' = Pick
     /\ ltx_hdr' = [hdr |-> TRUE, load |-> ObLoad(Pick), len |-> Beats(Pick) - 1]
     /\ ob_left' = Beats(Pick)
     /\ obst' = "HDR"
     /\ UNCHANGED <<ob_rr, ltx_dat, cross>>
  \/ /\ HdrTaken
     /\ cross' = Append(cross, ltx_hdr)
     /\ ltx_dat' = ObLoad(ob_who)
     /\ obst' = "DAT"
     /\ UNCHANGED <<ob_who, ob_rr, ob_left, ltx_hdr>>
  \/ /\ BeatTaken
     /\ cross' = Append(cross, ObBeat)
     /\ IF ob_left = 1
        THEN obst' = "IDLE" /\ ob_rr' = ob_who /\ UNCHANGED <<ob_left, ltx_dat>>
        ELSE /\ ob_left' = ob_left - 1
             /\ ltx_dat' = ObLoad(ob_who)
             /\ UNCHANGED <<obst, ob_rr>>
     /\ UNCHANGED <<ob_who, ltx_hdr>>
  \/ /\ IF obst = "IDLE" THEN \A w \in 0 .. 2 : ~Req(w) ELSE ~Room
     /\ UNCHANGED <<obVars, cross>>

TxClock ==
  /\ \E m \in {"NONE", "LOCAL", "REMOTE"}, l \in LocalMem : MoverSplit(m, l)
  /\ Encapsulate
  /\ Outbound
  /\ door_req' = (door_req /\ ~(LastTaken /\ ob_who = 2))
  /\ UNCHANGED <<rxVars, flits, door_txn, rung>>

(* The host rings.  It has seen the doorbell before this one leave.        *)
Ring ==
  /\ rung < MaxRings
  /\ ~door_req
  /\ door_req' = TRUE
  /\ door_txn' = answered
  /\ rung' = rung + 1
  /\ UNCHANGED <<moverVars, encVars, obVars, rxVars, port, flits, cross>>

(* The NoC brings the next flit of a sender to its port.                   *)
Taken(s) == \A p \in Ports : port[p].src # s
Between(s) == flits[s] % BurstLen[s] = 0

Present(s) ==
  LET p == PortOf[s]
  IN  /\ port[p] = NoFlit
      /\ flits[s] < MaxBursts * BurstLen[s]
      /\ Exclusive => \A t \in Sender \ {s} : Between(t) /\ Taken(t)
      /\ port' = [port EXCEPT ![p] = [src |-> s, n |-> flits[s] + 1]]
      /\ flits' = [flits EXCEPT ![s] = @ + 1]
      /\ UNCHANGED <<moverVars, encVars, obVars, rxVars, door_req, door_txn,
                     rung, cross>>

-----------------------------------------------------------------------------
(***************************************************************************)
(* Inbound.  x says what the memory and the NoC do in this cycle: take the *)
(* address, take the data, answer a write, take the flit injected.         *)
(***************************************************************************)
Far == [aw : BOOLEAN, w : BOOLEAN, b : BOOLEAN, inj : BOOLEAN]

LkFree(x) ==
  /\ wr_out # WR_LIMIT
  /\ lk_aw = 0 \/ x.aw
  /\ lk_w = 0 \/ x.w

InjFree(x) == inj = NoFlit \/ x.inj

HdrIn  == cross # <<>> /\ Head(cross).hdr
BeatIn == cross # <<>> /\ ~Head(cross).hdr

ActWr(x) == inst = "WR" /\ BeatIn /\ LkFree(x)
ActFl(x) == inst = "FLIT" /\ BeatIn /\ InjFree(x)
ActDoorAtOnce == inst = "DOOR" /\ BeatIn   \* mutant of ActDoor
ActDoor  == inst = "DOOR" /\ BeatIn /\ wr_out = 0

NextWrOut(x) ==
  IF x.aw /\ ~x.b THEN (wr_out + 1) % WR_MOD
  ELSE IF x.b /\ ~x.aw THEN (wr_out - 1) % WR_MOD
  ELSE wr_out

Receive(x) ==
  LET b == Head(cross)
  IN  \/ /\ inst = "HDR" /\ HdrIn
         /\ in_hdr' = b /\ in_left' = b.len + 1 /\ inst' = b.load.kind
         /\ cross' = Tail(cross)
         /\ UNCHANGED dbell_n
      \/ /\ ActWr(x) \/ ActFl(x)
         /\ inst' = IF in_left = 1 THEN "HDR" ELSE inst
         /\ in_left' = IF in_left = 1 THEN in_left ELSE in_left - 1
         /\ cross' = Tail(cross)
         /\ UNCHANGED <<in_hdr, dbell_n>>
      \/ /\ ActDoor
         /\ dbell_n' = dbell_n + 1
         /\ inst' = "HDR"
         /\ cross' = Tail(cross)
         /\ UNCHANGED <<in_hdr, in_left>>
      \/ /\ ~(inst = "HDR" /\ HdrIn) /\ ~ActWr(x) /\ ~ActFl(x) /\ ~ActDoor
         /\ UNCHANGED <<inst, in_hdr, in_left, cross, dbell_n>>

(* A write leaves for the memory as address and data; a flit goes into the *)
(* register that injects it.                                               *)
Issue(x) ==
  LET load == Head(cross).load
  IN  /\ lk_aw' = IF ActWr(x) THEN load.n ELSE IF x.aw THEN 0 ELSE lk_aw
      /\ lk_w'  = IF ActWr(x) THEN load.n ELSE IF x.w THEN 0 ELSE lk_w
      /\ inj'   = IF ActFl(x) THEN [src |-> load.src, n |-> load.n]
                  ELSE IF x.inj THEN NoFlit ELSE inj
      /\ wr_out' = NextWrOut(x)

(* The memory takes address and data in any order and answers in order.    *)
Memory(x) ==
  /\ x.aw => lk_aw # 0
  /\ x.w => lk_w # 0
  /\ x.b => aws # <<>> /\ ws # <<>>
  /\ x.inj => inj # NoFlit
  /\ aws' = (IF x.b THEN Tail(aws) ELSE aws) \o (IF x.aw THEN <<lk_aw>> ELSE <<>>)
  /\ ws'  = (IF x.b THEN Tail(ws) ELSE ws) \o (IF x.w THEN <<lk_w>> ELSE <<>>)
  /\ landed' = IF x.b THEN landed + 1 ELSE landed
  /\ injected' = IF x.inj THEN [injected EXCEPT ![inj.src] = @ + 1] ELSE injected

RxClock ==
  /\ \E x \in Far : Memory(x) /\ Receive(x) /\ Issue(x)
  /\ UNCHANGED <<moverVars, encVars, obVars, port, flits, door_req, door_txn,
                 rung>>

Next == TxClock \/ RxClock \/ Ring \/ \E s \in Sender : Present(s)

Spec == Init /\ [][Next]_vars

(***************************************************************************)
(* Fairness: something moves while something can.  What is sent is finite  *)
(* and no step undoes another, so nothing more is needed.                  *)
(***************************************************************************)
LiveSpec == Spec /\ WF_vars(Next)

-----------------------------------------------------------------------------
(***************************************************************************)
(* Properties.                                                             *)
(***************************************************************************)
TypeOK ==
  /\ {aw_got, w_got, rem_r, bpend, loc_aw, loc_w, ob_wr_req, door_req,
      acc_ready} \subseteq BOOLEAN
  /\ port \in [Ports -> Flit \cup {NoFlit}] /\ enc_rr \in Ports
  /\ acc_open \in Sender \cup {Nobody}
  /\ acc_beats \in 0 .. MAX_BEATS - 1 /\ acc_nb \in 0 .. MAX_BEATS
  /\ ef \in Seq(Flit) /\ Len(ef) <= MAX_BEATS
  /\ obst \in {"IDLE", "HDR", "DAT"} /\ {ob_who, ob_rr} \subseteq 0 .. 2
  /\ ob_left \in 0 .. MAX_BEATS
  /\ ltx_hdr \in Header /\ ltx_dat \in Load
  /\ cross \in Seq(Header \cup Beat) /\ Len(cross) <= CAP
  /\ inst \in {"HDR"} \cup Kind /\ in_hdr \in Header
  /\ in_left \in 0 .. MAX_BEATS /\ wr_out \in 0 .. WR_MOD - 1
  /\ inj \in Flit \cup {NoFlit}
  /\ {d_r, door_txn, lk_aw, lk_w, dbell_n, mv, wrote, answered, rung, landed}
       \subseteq Nat
  /\ {aws, ws} \subseteq Seq(Nat) /\ {flits, injected} \subseteq [Sender -> Nat]

(* What the receiver takes for a packet is one: a header, then beats of    *)
(* its kind, the last of which it counts down to; and the flits of a       *)
(* packet are consecutive flits of one burst of one sender, which is what  *)
(* the key that the encapsulator matches is for (lines 288-319).           *)
BurstOf(load) == (load.n - 1) \div BurstLen[load.src]

FramesWhole ==
  cross # <<>> =>
    LET x == Head(cross)
        h == in_hdr.load
    IN  IF inst = "HDR" THEN x.hdr
        ELSE /\ ~x.hdr
             /\ x.last <=> in_left = 1
             /\ x.load.kind = inst
             /\ inst = "FLIT" =>
                  /\ x.load.src = h.src
                  /\ x.load.n = h.n + in_hdr.len + 1 - in_left
                  /\ BurstOf(x.load) = BurstOf(h)

(* Address and data of a write reach the memory by channels of their own,  *)
(* at their own pace: the k-th address and the k-th data belong together   *)
(* (lines 503-504).                                                        *)
Held(v) == IF v = 0 THEN <<>> ELSE <<v>>
WritesPaired == aws \o Held(lk_aw) = ws \o Held(lk_w)

(* What crosses is framed as the receiver reads it, and what it hands to   *)
(* the memory stays paired, over two ports, a mover and a doorbell that    *)
(* take turns at one link.                                                 *)
PacketsWhole == TypeOK /\ FramesWhole /\ WritesPaired

(* A doorbell is counted when every write answered before it was rung has  *)
(* landed, except that the last of them may still be offering its address: *)
(* wr_out counts a write only once its address has been taken.             *)
DoorbellCovers ==
  [][dbell_n' # dbell_n =>
       LET before == in_hdr.load.n
       IN  landed >= before \/ (landed = before - 1 /\ lk_aw # 0)]_vars

(***************************************************************************)
(* Every stream is a channel: the writes, the doorbells and each sender's  *)
(* flits.  A write and a flit are where their beat is, a doorbell is where *)
(* its header is.                                                          *)
(***************************************************************************)
Stream == {"WR", "DOOR"} \cup Sender

Carries(st, x) ==
  CASE st = "WR"   -> ~x.hdr /\ x.load.kind = "WR"
    [] st = "DOOR" -> x.hdr /\ x.load.kind = "DOOR"
    [] OTHER       -> ~x.hdr /\ x.load.kind = "FLIT" /\ x.load.src = st
Carried(st, q) == Picked([i \in DOMAIN q |-> q[i].load.n],
                         {i \in DOMAIN q : Carries(st, q[i])})

FlitOf(s, f)  == IF f.src = s THEN <<f.n>> ELSE <<>>
FlitsOf(s, q) == Picked([i \in DOMAIN q |-> q[i].n], {i \in DOMAIN q : q[i].src = s})

(* Where a packet may be, oldest first: read by the receiver; in the       *)
(* crossing; about to enter it; waiting for the outbound arbiter.          *)
Arriving(st) ==
  CASE st = "WR"   -> ws \o Held(lk_w)
    [] st = "DOOR" -> IF inst = "DOOR" THEN <<in_hdr.load.n>> ELSE <<>>
    [] OTHER       -> FlitOf(st, inj)
Leaving(st) ==
  CASE st = "WR"   -> IF obst = "DAT" /\ ob_who = 0 THEN <<ltx_dat.n>> ELSE <<>>
    [] st = "DOOR" -> <<>>
    [] OTHER       -> IF obst = "DAT" /\ ob_who = 1 THEN FlitOf(st, ltx_dat) ELSE <<>>
Asking(st) ==
  CASE st = "WR"   -> IF ob_wr_req THEN <<d_r>> ELSE <<>>
    [] st = "DOOR" -> IF door_req /\ ~(obst = "DAT" /\ ob_who = 2) THEN <<door_txn>> ELSE <<>>
    [] OTHER       -> FlitsOf(st, ef)

InFlight ==
  [st \in Stream |-> Arriving(st) \o Carried(st, cross) \o Leaving(st) \o Asking(st)]

Arrived == [st \in Stream |-> CASE st = "WR" -> landed [] st = "DOOR" -> dbell_n
                                [] OTHER -> injected[st]]

Number == (0 .. MaxWrites) \cup UNION {1 .. MaxBursts * BurstLen[s] : s \in Sender}

Abstract == INSTANCE PacketChannel WITH Packet <- Number, chan <- InFlight, got <- Arrived

(* No write, doorbell or flit is lost, repeated or overtaken by one of its *)
(* own stream between the mesh it leaves and the memory or NoC it enters.  *)
ImplementsChannel == Abstract!Channel

(* Everything sent arrives: no source of the outbound port waits for ever, *)
(* and no packet waits for ever to be closed.                              *)
AllSent == /\ mv = MaxWrites /\ rung = MaxRings
           /\ \A s \in Sender : flits[s] = MaxBursts * BurstLen[s]
AllArrived == /\ \A p \in Ports : port[p] = NoFlit
              /\ \A st \in Stream : InFlight[st] = <<>>

Delivered == <>(AllSent /\ AllArrived)

=============================================================================
