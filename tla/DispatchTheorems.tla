--------------------------- MODULE DispatchTheorems ---------------------------
(***************************************************************************)
(* Proofs about the control plane (module Dispatch), for any number of     *)
(* units, any depth of the queues and the mesh, any programs and any       *)
(* number of rounds: the credit covers what is outstanding, no queue       *)
(* between the staging RAM and the signal counter overflows, the host's    *)
(* poll is true of the whole machine, and so is a unit's answer that it is *)
(* idle; and every instruction kicked at a unit is reported once, in       *)
(* program order, which is what Jobs promises.                             *)
(***************************************************************************)
EXTENDS Dispatch, TotalsTheorems

(***************************************************************************)
(* Counting what is between the dispatcher and the agent's input.          *)
(***************************************************************************)
One(b) == IF b THEN 1 ELSE 0

(* f concerns u, and is of one of the kinds K.                             *)
Is(f, u, K) == f.peer = u /\ Kind(f) \in K

InLine(K) == Total([u \in Unit |-> CountOf(Line(u), u, K)])

(* The completions that a set of staging slots brings.                     *)
Brings(S) == Cardinality({i \in S : Stage[i].type = "INST" \/ Stage[i].last})

(***************************************************************************)
(* What each place holds.                                                  *)
(***************************************************************************)
Outward(u) == {f \in Flit : f.peer = u /\ f.type \in {"INST", "DATA", "CTRL"}}
Inward(u)  == {f \in Flit : f.peer = u /\ f.type \in {"SIGNAL", "CTRL"}}
Ofs(u, t)  == {f \in Flit : f.peer = u /\ f.type = t}

AllOutward == {f \in Flit : f.peer \in Unit /\ f.type \in {"INST", "DATA", "CTRL"}}
Replies    == {f \in Flit : f.peer \in Unit /\ f.type = "CTRL"}

UnitPlaces(u) ==
  /\ down[u] \in Seq(Outward(u)) /\ up[u] \in Seq(Inward(u))
  /\ instq[u] \in Seq(Ofs(u, "INST")) /\ recvq[u] \in Seq(Ofs(u, "DATA"))
  /\ sigq[u] \in Seq({f \in Ofs(u, "SIGNAL") : f.code # "DATA_RECEIVED"})
  /\ cu_out[u] \in Inward(u) \cup {NoFlit}
  /\ inst_pop[u] => in_flight[u] /\ instq[u] # <<>>
  /\ in_flight[u] => Len(sigq[u]) < SIG_DEPTH

PlacesOK ==
  /\ tx \in Seq(AllOutward) /\ orc_out \in AllOutward \cup {NoFlit}
  /\ rx \in Seq(Replies)
  /\ \A u \in Unit : UnitPlaces(u)

(***************************************************************************)
(* The host and its one register write at a time.                          *)
(***************************************************************************)
Writing(r) == wcmd.reg = r \/ pulse = r

(* Where the host is from the data beat of a write on.                     *)
AfterReg(r) ==
  CASE r = "SIG_DONE"  -> "SEED" [] r = "PROG_DST" -> "BASE"
    [] r = "PROG_BASE" -> "LEN"  [] r = "PROG_LEN" -> "KICK"
    [] r = "TX_KICK"   -> "REPLY" [] OTHER -> "READY"

(* The host is between choosing a program and the dispatcher taking it.    *)
Loading == hst \in {"DST", "BASE", "LEN", "KICK"} \/ Writing("PROG_KICK")
(* The round's reset of SIG_DONE is still to come.                         *)
Clearing == hst \in {"CLEAR", "DONE"} \/ Writing("SIG_DONE")
(* A CU_CTRL read is out.                                                  *)
Reading == hst \in {"REPLY", "POP"} \/ Writing("RX_POP")

WriteOK ==
  /\ wstate # "DATA" => wcmd = NoWrite
  /\ wstate = "DATA" => wcmd.reg # "NONE"
  /\ wstate # "RESP" => pulse = "NONE"
  /\ \A r \in Reg \ {"NONE"} : Writing(r) => hst = AfterReg(r)
  /\ wstate # "IDLE" => hst \in {"SEED", "READY", "BASE", "LEN", "KICK", "REPLY"}

ValuesOK ==
  /\ wcmd.reg = "PROG_CRED" => wcmd.val = SEED
  /\ wcmd.reg = "PROG_DST" => wcmd.val = job.dst
  /\ wcmd.reg = "PROG_BASE" => wcmd.val = job.base
  /\ wcmd.reg = "PROG_LEN" => wcmd.val = job.len
  /\ wcmd.reg = "TX_KICK" => wcmd.val = job.dst
  /\ pulse = "PROG_CRED" => cred_val <= SEED
  /\ pulse = "TX_KICK" => tx_stage = CtrlRead(job.dst)

(* The registers of a program that the host has written.                   *)
DstSet  == \/ hst = "BASE" /\ wcmd.reg # "PROG_DST"
           \/ hst \in {"LEN", "KICK"}
           \/ Writing("PROG_KICK")
BaseSet == \/ hst = "LEN" /\ wcmd.reg # "PROG_BASE"
           \/ hst = "KICK"
           \/ Writing("PROG_KICK")
LenSet  == \/ hst = "KICK" /\ wcmd.reg # "PROG_LEN"
           \/ Writing("PROG_KICK")

JobOK ==
  /\ Loading => job \in Kicks
  /\ hst = "READ" \/ Writing("TX_KICK") => job.dst \in Unit
  /\ DstSet => prog_dst = job.dst
  /\ BaseSet => prog_base = job.base
  /\ LenSet => prog_len = job.len
  /\ hst = "POP" \/ Writing("RX_POP") => rx # <<>>

HostOK == WriteOK /\ ValuesOK /\ JobOK

(***************************************************************************)
(* The dispatcher: it runs and pushes only while the host writes nothing,  *)
(* or the kick of a read, which is ignored.                                *)
(***************************************************************************)
Calm ==
  /\ hst \in {"READY", "AWAIT", "READ", "REPLY"}
  /\ wstate = "IDLE" \/ hst = "REPLY"
  /\ pulse = "NONE"

Left == IF prog_run THEN prog_rd .. prog_rd + prog_left - 1 ELSE {}

LastData(i) == Stage[i].type = "DATA" /\ Stage[i].last

DispOK ==
  /\ prog_run =>
       /\ Calm
       /\ prog_left >= 1 /\ prog_rd + prog_left <= STAGE_FLITS
       /\ prog_dst \in Unit
       /\ \A i \in Left : Stage[i].type = "DATA" =>
            \E j \in Left : j >= i /\ LastData(j)
  /\ disp_push =>
       /\ Calm \/ (hst = "DST" /\ wstate = "IDLE" /\ pulse = "NONE")
       /\ prog_word = 0 /\ ~TxFull /\ prog_credit # 0
       /\ prog_flit.type \in {"INST", "DATA"} /\ prog_dst \in Unit

(***************************************************************************)
(* One read at a time, and what its answer says.                           *)
(***************************************************************************)
ReadOut == InLine({"read"}) # 0 \/ rx # <<>>

ReadsOK ==
  /\ InLine({"read"}) + Len(rx) + One(Writing("TX_KICK")) <= One(Reading)
  /\ ReadOut => ~prog_run /\ ~disp_push

(* Nothing follows a read to its unit.                                     *)
NothingSent == tx = <<>> /\ ~IsFlit(orc_out) /\ ~disp_push

SentOK ==
  /\ \A i \in DOMAIN tx : tx[i].type = "CTRL" => i = Len(tx) /\ ~disp_push
  /\ orc_out.type = "CTRL" => tx = <<>> /\ ~disp_push
  /\ \A u \in Unit : \A i \in DOMAIN down[u] :
       down[u][i].type = "CTRL" => i = Len(down[u]) /\ NothingSent

Idle(u) == ~in_flight[u] /\ instq[u] = <<>> /\ sigq[u] = <<>>

Answered(u) ==
  \/ ctrl_pend[u]
  \/ cu_out[u].type = "CTRL"
  \/ \E i \in DOMAIN up[u] : up[u][i].type = "CTRL"
  \/ \E i \in DOMAIN rx : rx[i].peer = u

SaysIdle(f) == f.type = "CTRL" /\ f.code = "IDLE"

AnswerOK(u) ==
  /\ Answered(u) => down[u] = <<>> /\ NothingSent
  /\ ctrl_pend[u] /\ ctrl_val[u] = "IDLE" => Idle(u)
  /\ SaysIdle(cu_out[u]) => Idle(u)
  /\ \A i \in DOMAIN up[u] : SaysIdle(up[u][i]) =>
       /\ Idle(u) /\ Kind(cu_out[u]) # "job"
       /\ \A j \in DOMAIN up[u] : j > i => Kind(up[u][j]) # "job"
  /\ \A i \in DOMAIN rx : rx[i].peer = u /\ rx[i].code = "IDLE" =>
       /\ Idle(u) /\ Kind(cu_out[u]) # "job"
       /\ \A j \in DOMAIN up[u] : Kind(up[u][j]) # "job"

QuietOK == SentOK /\ \A u \in Unit : AnswerOK(u)

(***************************************************************************)
(* A burst that has begun to arrive is still to end.                       *)
(***************************************************************************)
IsData(f, u) == f.type = "DATA" /\ f.peer = u
EndsBurst(f, u) == IsData(f, u) /\ f.last
Ends(fs, u) == \E i \in DOMAIN fs : EndsBurst(fs[i], u)

(* Every data flit for u in fs has the end of its burst behind it, in fs   *)
(* or among what follows (more).                                           *)
Whole(fs, u, more) ==
  \A i \in DOMAIN fs : IsData(fs[i], u) =>
    more \/ \E j \in DOMAIN fs : j >= i /\ EndsBurst(fs[j], u)

MoreLeft(u)   == prog_run /\ prog_dst = u /\ \E i \in Left : LastData(i)
MorePushed(u) == (disp_push /\ EndsBurst(DispFlit, u)) \/ MoreLeft(u)
MoreTx(u)     == Ends(tx, u) \/ MorePushed(u)
MoreOut(u)    == EndsBurst(orc_out, u) \/ MoreTx(u)
MoreDown(u)   == Ends(down[u], u) \/ MoreOut(u)

BurstOK(u) ==
  /\ Whole(recvq[u], u, MoreDown(u))
  /\ Whole(down[u], u, MoreOut(u))
  /\ IsData(orc_out, u) => MoreOut(u)
  /\ Whole(tx, u, MorePushed(u))
  /\ disp_push /\ IsData(DispFlit, u) => MorePushed(u)

BurstsOK == \A u \in Unit : BurstOK(u)

(***************************************************************************)
(* Every completion the host counts on is on its way.                      *)
(***************************************************************************)
Coming == InLine({"job", "burst"}) + Brings(Left)
            + (IF Loading THEN Brings(Slots(job)) ELSE 0)

SignalsOK ==
  /\ Clearing \/ hst = "SEED" \/ Writing("PROG_CRED") => total = 0
  /\ Coming <= total
  /\ ~Clearing =>
       \E n \in Nat : total = Coming + sig_done_count + n * W16
-----------------------------------------------------------------------------
(***************************************************************************)
(* Lemmas about counting flits.                                            *)
(***************************************************************************)
Weight(f, u, K) == One(Is(f, u, K))

(* The positions that CountOf counts.                                      *)
Where(fs, u, K) == {i \in DOMAIN fs : Is(fs[i], u, K)}

(* The positions that are counted are finitely many, and their number is   *)
(* the count.                                                              *)
LEMMA WhereType ==
  ASSUME NEW S, NEW fs \in Seq(S), NEW u, NEW K
  PROVE  /\ IsFiniteSet(Where(fs, u, K)) /\ CountOf(fs, u, K) \in Nat
         /\ CountOf(fs, u, K) = Cardinality(Where(fs, u, K))
         /\ Where(fs, u, K) \subseteq 1 .. Len(fs)
<1>1. Where(fs, u, K) \subseteq 1 .. Len(fs)
  BY LenProperties DEF Where
<1>2. IsFiniteSet(1 .. Len(fs))
  BY FS_Interval, LenProperties
<1>3. IsFiniteSet(Where(fs, u, K))
  BY <1>1, <1>2, FS_Subset
<1>4. CountOf(fs, u, K) = Cardinality(Where(fs, u, K))
  BY DEF CountOf, Where, Is
<1> QED
  BY <1>1, <1>3, <1>4, FS_CardinalityType

(* A concatenation counts what its two parts count.                        *)
LEMMA WhereConcat ==
  ASSUME NEW S, NEW s \in Seq(S), NEW t \in Seq(S), NEW u, NEW K
  PROVE  CountOf(s \o t, u, K) = CountOf(s, u, K) + CountOf(t, u, K)
<1> DEFINE A == Where(s, u, K)
           B == Where(t, u, K)
           n == Len(s)
           C == {i \in (n + 1) .. (n + Len(t)) : Is(t[i - n], u, K)}
           sh == [i \in B |-> n + i]
<1>1. /\ n \in Nat /\ Len(t) \in Nat
      /\ DOMAIN s = 1 .. n /\ DOMAIN t = 1 .. Len(t)
      /\ s \o t \in Seq(S) /\ DOMAIN (s \o t) = 1 .. (n + Len(t))
      /\ \A i \in 1 .. n : (s \o t)[i] = s[i]
      /\ \A i \in (n + 1) .. (n + Len(t)) : (s \o t)[i] = t[i - n]
  <2>1. s \o t \in Seq(S) /\ Len(s \o t) = n + Len(t)
    BY ConcatProperties
  <2> QED
    BY <2>1, LenProperties, ConcatProperties
<1>2. Where(s \o t, u, K) = A \cup C
  <2> HIDE DEF n
  <2> QED
    BY <1>1 DEF Where
<1>3. A \cap C = {}
  <2> HIDE DEF n
  <2> QED
    BY <1>1 DEF Where
<1>4. sh \in Bijection(B, C)
  <2>1. \A i \in B : sh[i] \in C
    <3> TAKE i \in B
    <3>1. i \in 1 .. Len(t) /\ Is(t[i], u, K)
      BY <1>1 DEF Where
    <3>2. (n + i) - n = i /\ n + i \in (n + 1) .. (n + Len(t))
      BY <1>1, <3>1
    <3>3. n + i \in C
      BY <3>1, <3>2
    <3> QED
      BY <3>3
  <2>2. \A i, j \in B : sh[i] = sh[j] => i = j
    BY <1>1 DEF Where
  <2>3. \A k \in C : \E i \in B : sh[i] = k
    <3> TAKE k \in C
    <3>1. k \in (n + 1) .. (n + Len(t)) /\ Is(t[k - n], u, K)
      OBVIOUS
    <3>2. k - n \in 1 .. Len(t) /\ n + (k - n) = k
      BY <1>1, <3>1
    <3>3. k - n \in B
      BY <1>1, <3>1, <3>2 DEF Where
    <3> QED
      BY <3>2, <3>3
  <2> HIDE DEF B, C
  <2> QED
    BY <2>1, <2>2, <2>3, Fun_IsBij
<1>5. /\ IsFiniteSet(A) /\ CountOf(s, u, K) = Cardinality(A)
      /\ IsFiniteSet(B) /\ CountOf(t, u, K) = Cardinality(B)
      /\ Cardinality(A) \in Nat /\ Cardinality(B) \in Nat
  BY WhereType
<1>6. IsFiniteSet(C) /\ Cardinality(C) = Cardinality(B)
  <2> HIDE DEF B, C
  <2> QED
    BY <1>4, <1>5, FS_Bijection, Fun_ExistsBij
<1>7. Cardinality({}) = 0
  BY FS_EmptySet
<1>8. Cardinality(A \cup C) = Cardinality(A) + Cardinality(C) - Cardinality({})
  <2> HIDE DEF A, C
  <2> QED
    BY <1>3, <1>5, <1>6, FS_Union
<1>9. CountOf(s \o t, u, K) = Cardinality(A \cup C)
  <2>1. CountOf(s \o t, u, K) = Cardinality(Where(s \o t, u, K))
    BY DEF CountOf, Where, Is
  <2> QED
    BY <1>2, <2>1
<1> HIDE DEF A, B, C
<1> QED
  BY <1>5, <1>6, <1>7, <1>8, <1>9

(* An empty place holds nothing.                                           *)
LEMMA CountEmpty ==
  ASSUME NEW u, NEW K
  PROVE  CountOf(<<>>, u, K) = 0
<1>1. {i \in DOMAIN <<>> : <<>>[i].peer = u /\ Kind(<<>>[i]) \in K} = {}
  OBVIOUS
<1> QED
  BY <1>1, FS_EmptySet DEF CountOf

(* A place of one flit holds what the flit weighs.                         *)
LEMMA CountOne ==
  ASSUME NEW f, NEW u, NEW K
  PROVE  CountOf(<<f>>, u, K) = Weight(f, u, K)
<1>1. Where(<<f>>, u, K) = IF Is(f, u, K) THEN {1} ELSE {}
  BY DEF Where
<1>2. CountOf(<<f>>, u, K) = Cardinality(Where(<<f>>, u, K))
  BY DEF CountOf, Where, Is
<1> QED
  BY <1>1, <1>2, FS_Singleton, FS_EmptySet DEF Weight, One

(* A flit pushed adds its weight.                                          *)
LEMMA CountAppend ==
  ASSUME NEW S, NEW s \in Seq(S), NEW f \in S, NEW u, NEW K
  PROVE  CountOf(Append(s, f), u, K) = CountOf(s, u, K) + Weight(f, u, K)
<1> DEFINE t == <<f>>
<1>1. t \in Seq(S) /\ Append(s, f) = s \o t
  OBVIOUS
<1>2. CountOf(t, u, K) = Weight(f, u, K)
  BY CountOne
<1> HIDE DEF t
<1>3. CountOf(s \o t, u, K) = CountOf(s, u, K) + CountOf(t, u, K)
  BY <1>1, WhereConcat
<1> QED
  BY <1>1, <1>2, <1>3

(* A flit popped takes its weight away.                                    *)
LEMMA CountTail ==
  ASSUME NEW S, NEW s \in Seq(S), s # <<>>, NEW u, NEW K
  PROVE  CountOf(s, u, K) = Weight(Head(s), u, K) + CountOf(Tail(s), u, K)
<1> DEFINE h == <<Head(s)>>
           t == Tail(s)
<1>1. h \in Seq(S) /\ t \in Seq(S) /\ s = h \o t
  OBVIOUS
<1>2. CountOf(h, u, K) = Weight(Head(s), u, K)
  BY CountOne
<1> HIDE DEF h, t
<1>3. CountOf(h \o t, u, K) = CountOf(h, u, K) + CountOf(t, u, K)
  BY <1>1, WhereConcat
<1>4. CountOf(s, u, K) = Weight(Head(s), u, K) + CountOf(t, u, K)
  BY <1>1, <1>2, <1>3
<1> QED
  BY <1>4 DEF t

(* Nothing that counts.                                                    *)
LEMMA CountNone ==
  ASSUME NEW S, NEW s \in Seq(S), NEW u, NEW K
  PROVE  CountOf(s, u, K) = 0 <=> \A i \in DOMAIN s : ~Is(s[i], u, K)
<1>1. /\ IsFiniteSet(Where(s, u, K))
      /\ CountOf(s, u, K) = Cardinality(Where(s, u, K))
  BY WhereType
<1>2. Cardinality(Where(s, u, K)) = 0 <=> Where(s, u, K) = {}
  BY <1>1, FS_EmptySet
<1> QED
  BY <1>1, <1>2 DEF Where

(* Everything counts.                                                      *)
LEMMA CountAll ==
  ASSUME NEW S, NEW s \in Seq(S), NEW u, NEW K,
         \A i \in DOMAIN s : Is(s[i], u, K)
  PROVE  CountOf(s, u, K) = Len(s)
<1>1. Where(s, u, K) = 1 .. Len(s)
  BY LenProperties DEF Where
<1>2. Cardinality(1 .. Len(s)) = Len(s)
  <2>1. Len(s) \in Nat
    BY LenProperties
  <2>2. Cardinality(1 .. Len(s)) = IF 1 > Len(s) THEN 0 ELSE Len(s) - 1 + 1
    BY <2>1, FS_Interval
  <2> QED
    BY <2>1, <2>2
<1>3. CountOf(s, u, K) = Cardinality(Where(s, u, K))
  BY WhereType
<1> QED
  BY <1>1, <1>2, <1>3

-----------------------------------------------------------------------------
(***************************************************************************)
(* One clock edge of a unit, register by register.                         *)
(***************************************************************************)
(* What the assumptions say of the constants.                              *)
LEMMA Constants ==
  /\ Unit \subseteq Nat /\ IsFiniteSet(Unit)
  /\ INST_DEPTH \in Nat /\ INST_DEPTH >= 1 /\ RECV_DEPTH \in Nat
  /\ SIG_DEPTH \in Nat /\ SIG_DEPTH >= 1 /\ NET \in Nat /\ NET >= 1
  /\ TX_DEPTH \in Nat /\ RX_DEPTH \in Nat
  /\ SEED \in Nat /\ SEED <= INST_DEPTH /\ SEED < W16
BY UnitAssumption, CuAssumption, OrcAssumption, DispatchAssumption

(* A place of one flit is empty without it.                                *)
LEMMA TailOne ==
  ASSUME NEW S, NEW s \in Seq(S), 1 = Len(s)
  PROVE  Tail(s) = <<>>
<1>1. s # <<>>
  BY EmptySeq
<1>2. Tail(s) \in Seq(S) /\ Len(Tail(s)) = 0
  BY <1>1, HeadTailProperties
<1> QED
  BY <1>2, EmptySeq

(* A sequence over a set is one over any larger set.                       *)
LEMMA SeqMono ==
  ASSUME NEW S, NEW T, S \subseteq T, NEW s \in Seq(S)
  PROVE  s \in Seq(T)
<1>1. Len(s) \in Nat /\ s \in [1 .. Len(s) -> S]
  BY LenProperties
<1>2. s \in [1 .. Len(s) -> T]
  BY <1>1
<1> QED
  BY <1>1, <1>2, IsASeq, SeqDef

Sends(u) == IsFlit(cu_out[u]) /\ ~UpBusy(u)
Takes(u, x, t) == Accepted(u, x) /\ x.type = t

CuMoves(u, x, d) ==
  /\ DatapathCan(u, d)
  /\ x = NoFlit \/ (down[u] # <<>> /\ x = Head(down[u]) /\ x \in Outward(u))
  /\ instq'[u] = Queued(u) \o (IF Takes(u, x, "INST") THEN <<x>> ELSE <<>>)
  /\ recvq'[u] = (IF d.rdy THEN Tail(recvq[u]) ELSE recvq[u])
                   \o (IF Takes(u, x, "DATA") THEN <<x>> ELSE <<>>)
  /\ inst_pop'[u] = d.acc
  /\ in_flight'[u] = (d.acc \/ (in_flight[u] /\ ~d.fin))
  /\ rep'[u] = IF d.acc THEN [txn |-> Head(instq[u]).txn,
                              last |-> Head(instq[u]).last] ELSE rep[u]
  /\ sigq'[u] =
       LET rest == IF SigSent(u, UpBusy(u)) THEN Tail(sigq[u]) ELSE sigq[u]
       IN  IF d.fin THEN Append(rest, Signal(u, rep[u].txn, RetCode(u, d.flt)))
           ELSE rest
  /\ ctrl_pend'[u] = IF Takes(u, x, "CTRL") /\ ~ctrl_pend[u] THEN TRUE
                     ELSE ctrl_pend[u] /\ ~CtrlSent(u, UpBusy(u))
  /\ ctrl_val'[u] = IF Takes(u, x, "CTRL") /\ ~ctrl_pend[u]
                    THEN IF CuBusy(u) THEN "BUSY" ELSE "IDLE"
                    ELSE ctrl_val[u]
  /\ cu_out'[u] = IF SigSent(u, UpBusy(u)) THEN Head(sigq[u])
                  ELSE IF CtrlSent(u, UpBusy(u)) THEN CtrlReply(u, ctrl_val[u])
                  ELSE IF owed[u] /\ SendReady(u, UpBusy(u))
                       THEN Signal(u, 0, "DATA_RECEIVED")
                  ELSE IF UpBusy(u) THEN cu_out[u] ELSE NoFlit
  /\ owed'[u] = (\/ owed[u] /\ ~SendReady(u, UpBusy(u))
                 \/ d.rdy /\ Head(recvq[u]).last)
  /\ down'[u] = IF Accepted(u, x) THEN Tail(down[u]) ELSE down[u]
  /\ up'[u] = IF Sends(u) THEN Append(up[u], cu_out[u]) ELSE up[u]

SameUnit(v) ==
  /\ instq'[v] = instq[v] /\ recvq'[v] = recvq[v] /\ sigq'[v] = sigq[v]
  /\ inst_pop'[v] = inst_pop[v] /\ in_flight'[v] = in_flight[v]
  /\ rep'[v] = rep[v] /\ ctrl_pend'[v] = ctrl_pend[v]
  /\ ctrl_val'[v] = ctrl_val[v] /\ cu_out'[v] = cu_out[v] /\ owed'[v] = owed[v]
  /\ down'[v] = down[v] /\ up'[v] = up[v]

(* The registers are functions on the units.                               *)
UnitFuns ==
  /\ DOMAIN instq = Unit /\ DOMAIN recvq = Unit /\ DOMAIN sigq = Unit
  /\ DOMAIN inst_pop = Unit /\ DOMAIN in_flight = Unit /\ DOMAIN rep = Unit
  /\ DOMAIN ctrl_pend = Unit /\ DOMAIN ctrl_val = Unit
  /\ DOMAIN cu_out = Unit /\ DOMAIN owed = Unit
  /\ DOMAIN down = Unit /\ DOMAIN up = Unit

(* The contents of every place are flits.                                  *)
LEMMA FlitTypes ==
  ASSUME NEW u \in Unit
  PROVE  /\ Outward(u) \subseteq Flit /\ Inward(u) \subseteq Flit
         /\ \A t : Ofs(u, t) \subseteq Flit
         /\ AllOutward \subseteq Flit /\ Replies \subseteq Flit
         /\ NoFlit \in Flit
BY DEF Outward, Inward, Ofs, AllOutward, Replies, NoFlit, Flit, FlitType, Code

(* What a clock edge of u does, place by place; the other units stay.      *)
LEMMA CuPoint ==
  ASSUME TypeOK, PlacesOK, NEW u \in Unit, NEW x \in Arriving(u),
         NEW d \in Datapath, CuEdge(u, x, d)
  PROVE  CuMoves(u, x, d) /\ \A v \in Unit \ {u} : SameUnit(v)
<1>1. UnitFuns
  BY DEF TypeOK, CuTypeOK, UnitFuns
<1>2. UnitPlaces(u)
  BY DEF PlacesOK
<1>3. CuClock(u, x, UpBusy(u), d) /\ DatapathCan(u, d)
  BY DEF CuEdge, CuClock
<1>4. x = NoFlit \/ (down[u] # <<>> /\ x = Head(down[u]) /\ x \in Outward(u))
  <2>1. down[u] # <<>> => Head(down[u]) \in Outward(u)
    BY <1>2, HeadTailProperties DEF UnitPlaces
  <2> QED
    BY <2>1 DEF Arriving
<1>5. ~Accepted(u, NoFlit)
  BY DEF Accepted, IsFlit, NoFlit
<1>6. Accepted(u, x) => x.type \in {"INST", "DATA", "CTRL"}
  BY <1>4, <1>5 DEF Outward
<1>7. Accepted(u, x) /\ x.type \notin {"INST", "CTRL"} <=> Takes(u, x, "DATA")
  BY <1>6 DEF Takes
<1>8. d.rdy => recvq[u] # <<>> /\ ~owed[u] /\ Head(recvq[u]).type = "DATA"
  <2>1. recvq[u] # <<>> => Head(recvq[u]) \in Ofs(u, "DATA")
    BY <1>2, HeadTailProperties DEF UnitPlaces
  <2> QED
    BY <1>3, <2>1 DEF DatapathCan, Ofs
<1>9. /\ instq' = [instq EXCEPT ![u] =
            Queued(u) \o (IF Takes(u, x, "INST") THEN <<x>> ELSE <<>>)]
      /\ recvq' = [recvq EXCEPT ![u] =
            (IF d.rdy THEN Tail(recvq[u]) ELSE recvq[u])
                   \o (IF Takes(u, x, "DATA") THEN <<x>> ELSE <<>>)]
  <2>1. (IF inst_pop[u] /\ instq[u] # <<>> THEN Tail(instq[u]) ELSE instq[u])
          = Queued(u)
    BY <1>2 DEF UnitPlaces, Queued
  <2>2. (IF Accepted(u, x) /\ x.type = "INST" THEN <<x>> ELSE <<>>)
          = IF Takes(u, x, "INST") THEN <<x>> ELSE <<>>
    BY DEF Takes
  <2>3. (IF Accepted(u, x) /\ x.type \notin {"INST", "CTRL"} THEN <<x>> ELSE <<>>)
          = IF Takes(u, x, "DATA") THEN <<x>> ELSE <<>>
    BY <1>7
  <2>4. Queues(u, x, d)
    BY <1>3 DEF CuClock
  <2> QED
    BY <1>1, <2>1, <2>2, <2>3, <2>4, Zenon DEF Queues, UnitFuns
<1>10. /\ inst_pop' = [inst_pop EXCEPT ![u] = d.acc]
       /\ rep' = [rep EXCEPT ![u] =
            IF d.acc THEN [txn |-> Head(instq[u]).txn,
                           last |-> Head(instq[u]).last] ELSE rep[u]]
       /\ in_flight' = [in_flight EXCEPT ![u] =
            IF d.fin THEN FALSE ELSE IF d.acc THEN TRUE ELSE in_flight[u]]
  BY <1>1, <1>3 DEF CuClock, Issue, UnitFuns
<1>11. (IF d.fin THEN FALSE ELSE IF d.acc THEN TRUE ELSE in_flight[u])
         = (d.acc \/ (in_flight[u] /\ ~d.fin))
  <2>1. d.acc => ~in_flight[u]
    BY <1>3 DEF DatapathCan, InstValid
  <2>2. d.fin => in_flight[u]
    BY <1>3 DEF DatapathCan
  <2>3. in_flight[u] \in BOOLEAN /\ d.acc \in BOOLEAN /\ d.fin \in BOOLEAN
    BY DEF TypeOK, CuTypeOK, Datapath
  <2> QED
    BY <2>1, <2>2, <2>3
<1>12. sigq' = [sigq EXCEPT ![u] =
         LET rest == IF SigSent(u, UpBusy(u)) THEN Tail(sigq[u]) ELSE sigq[u]
         IN  IF d.fin
             THEN Append(rest, Signal(u, rep[u].txn, RetCode(u, d.flt)))
             ELSE rest]
  <2>1. d.fin /\ in_flight[u] /\ Len(sigq[u]) < SIG_DEPTH <=> d.fin
    BY <1>2, <1>3 DEF DatapathCan, UnitPlaces
  <2>2. Completions(u, UpBusy(u), d)
    BY <1>3 DEF CuClock
  <2> QED
    BY <1>1, <2>1, <2>2 DEF Completions, UnitFuns
<1>13. /\ ctrl_pend' = [ctrl_pend EXCEPT ![u] =
            IF Takes(u, x, "CTRL") /\ ~ctrl_pend[u] THEN TRUE
            ELSE ctrl_pend[u] /\ ~CtrlSent(u, UpBusy(u))]
       /\ ctrl_val' = [ctrl_val EXCEPT ![u] =
            IF Takes(u, x, "CTRL") /\ ~ctrl_pend[u]
            THEN IF CuBusy(u) THEN "BUSY" ELSE "IDLE"
            ELSE ctrl_val[u]]
  <2>1. CtrlBlock(u, x, UpBusy(u))
    BY <1>3 DEF CuClock
  <2>2. ctrl_val = [ctrl_val EXCEPT ![u] = ctrl_val[u]]
    BY DEF TypeOK, CuTypeOK
  <2> QED
    BY <1>1, <2>1, <2>2 DEF CtrlBlock, Takes, UnitFuns
<1>14. /\ cu_out' = [cu_out EXCEPT ![u] =
            IF SigSent(u, UpBusy(u)) THEN Head(sigq[u])
            ELSE IF CtrlSent(u, UpBusy(u)) THEN CtrlReply(u, ctrl_val[u])
            ELSE IF owed[u] /\ SendReady(u, UpBusy(u))
                 THEN Signal(u, 0, "DATA_RECEIVED")
            ELSE IF UpBusy(u) THEN cu_out[u] ELSE NoFlit]
       /\ owed' = [owed EXCEPT ![u] =
            \/ owed[u] /\ ~SendReady(u, UpBusy(u))
            \/ d.rdy /\ Head(recvq[u]).last]
  <2>1. TxOutput(u, UpBusy(u), d)
    BY <1>3 DEF CuClock
  <2>2. (d.rdy /\ Head(recvq[u]).type = "DATA" /\ Head(recvq[u]).last)
          = (d.rdy /\ Head(recvq[u]).last)
    BY <1>8
  <2> QED
    BY <1>1, <2>1, <2>2 DEF TxOutput, UnitFuns
<1>15. /\ down' = IF Accepted(u, x) THEN [down EXCEPT ![u] = Tail(down[u])] ELSE down
       /\ up' = IF Sends(u) THEN [up EXCEPT ![u] = Append(up[u], cu_out[u])] ELSE up
  BY <1>1 DEF CuEdge, Sends, UnitFuns
<1>16. ASSUME NEW v \in Unit \ {u} PROVE SameUnit(v)
  BY <1>1, <1>9, <1>10, <1>12, <1>13, <1>14, <1>15, Zenon DEF SameUnit, UnitFuns
<1>17. CuMoves(u, x, d)
  <2>1. /\ instq'[u] = Queued(u) \o (IF Takes(u, x, "INST") THEN <<x>> ELSE <<>>)
        /\ recvq'[u] = (IF d.rdy THEN Tail(recvq[u]) ELSE recvq[u])
                         \o (IF Takes(u, x, "DATA") THEN <<x>> ELSE <<>>)
    BY <1>1, <1>9, Zenon DEF UnitFuns
  <2>2. /\ inst_pop'[u] = d.acc
        /\ in_flight'[u] = (d.acc \/ (in_flight[u] /\ ~d.fin))
        /\ rep'[u] = IF d.acc THEN [txn |-> Head(instq[u]).txn,
                                    last |-> Head(instq[u]).last] ELSE rep[u]
    BY <1>1, <1>10, <1>11 DEF UnitFuns
  <2>3. sigq'[u] =
         LET rest == IF SigSent(u, UpBusy(u)) THEN Tail(sigq[u]) ELSE sigq[u]
         IN  IF d.fin
             THEN Append(rest, Signal(u, rep[u].txn, RetCode(u, d.flt)))
             ELSE rest
    BY <1>1, <1>12 DEF UnitFuns
  <2>4. /\ ctrl_pend'[u] = IF Takes(u, x, "CTRL") /\ ~ctrl_pend[u] THEN TRUE
                           ELSE ctrl_pend[u] /\ ~CtrlSent(u, UpBusy(u))
        /\ ctrl_val'[u] = IF Takes(u, x, "CTRL") /\ ~ctrl_pend[u]
                          THEN IF CuBusy(u) THEN "BUSY" ELSE "IDLE"
                          ELSE ctrl_val[u]
    BY <1>1, <1>13 DEF UnitFuns
  <2>5. /\ cu_out'[u] = IF SigSent(u, UpBusy(u)) THEN Head(sigq[u])
                  ELSE IF CtrlSent(u, UpBusy(u)) THEN CtrlReply(u, ctrl_val[u])
                  ELSE IF owed[u] /\ SendReady(u, UpBusy(u))
                       THEN Signal(u, 0, "DATA_RECEIVED")
                  ELSE IF UpBusy(u) THEN cu_out[u] ELSE NoFlit
        /\ owed'[u] = (\/ owed[u] /\ ~SendReady(u, UpBusy(u))
                       \/ d.rdy /\ Head(recvq[u]).last)
    BY <1>1, <1>14 DEF UnitFuns
  <2>6. /\ down'[u] = IF Accepted(u, x) THEN Tail(down[u]) ELSE down[u]
        /\ up'[u] = IF Sends(u) THEN Append(up[u], cu_out[u]) ELSE up[u]
    BY <1>1, <1>15 DEF UnitFuns
  <2> QED
    BY <1>3, <1>4, <2>1, <2>2, <2>3, <2>4, <2>5, <2>6, Zenon DEF CuMoves
<1> QED
  BY <1>16, <1>17

(* The agent and the host do not move with a unit.                         *)
OthersStay ==
  /\ UNCHANGED <<wstate, wcmd>>
  /\ UNCHANGED <<prog_dst, prog_len, prog_base, cred_val, tx_stage>>
  /\ UNCHANGED pulse
  /\ UNCHANGED <<prog_run, prog_left, prog_rd, prog_word, prog_credit>>
  /\ UNCHANGED <<disp_push, prog_flit>>
  /\ UNCHANGED <<tx, orc_out, rx, node_status, sig_done_count>>
  /\ UNCHANGED <<hst, job, total, kicks, rounds, reads>>

(* An edge of a unit leaves the agent, the dispatcher and the host alone.  *)
LEMMA CuOthers ==
  ASSUME NEW u, NEW x, NEW d, CuEdge(u, x, d)
  PROVE  OthersStay
BY DEF CuEdge, OthersStay, orcVars, hostRegs, dispRegs, hostVars

(* The signals and replies that a unit makes.                              *)
LEMMA SignalFlit ==
  ASSUME NEW u \in Unit, NEW t \in Nat, NEW c \in Code
  PROVE  /\ Signal(u, t, c) \in Inward(u)
         /\ Signal(u, t, c) \in Ofs(u, "SIGNAL")
         /\ Signal(u, t, c).code = c /\ Signal(u, t, c).type = "SIGNAL"
         /\ Signal(u, t, c).peer = u
         /\ CtrlReply(u, c) \in Inward(u)
BY Constants DEF Signal, CtrlReply, Inward, Ofs, Flit, FlitType

(* The report of an executed instruction is a signal, and no               *)
(* acknowledgement of a burst.                                             *)
LEMMA ReportFlit ==
  ASSUME TypeOK, NEW u \in Unit, NEW b \in BOOLEAN
  PROVE  /\ Signal(u, rep[u].txn, RetCode(u, b)) \in Ofs(u, "SIGNAL")
         /\ Signal(u, rep[u].txn, RetCode(u, b)).code # "DATA_RECEIVED"
         /\ RetCode(u, b) \in Code \ {"DATA_RECEIVED"}
<1>1. rep[u].txn \in Nat
  BY DEF TypeOK, CuTypeOK
<1>2. RetCode(u, b) \in Code \ {"DATA_RECEIVED"}
  BY DEF RetCode, Code
<1> QED
  BY <1>1, <1>2, SignalFlit

(* What a unit's registers hold after an edge.                             *)
LEMMA CuPlaces ==
  ASSUME TypeOK, PlacesOK, NEW u \in Unit, NEW x, NEW d \in Datapath,
         CuMoves(u, x, d)
  PROVE  /\ UnitPlaces(u)'
         /\ Len(instq'[u]) <= INST_DEPTH /\ Len(recvq'[u]) <= RECV_DEPTH
         /\ Len(sigq'[u]) <= SIG_DEPTH
         /\ Len(down'[u]) <= NET /\ Len(up'[u]) <= NET
         /\ ctrl_val'[u] \in {"BUSY", "IDLE"}
         /\ rep'[u] \in [txn : Nat, last : BOOLEAN]
<1> DEFINE S == {f \in Ofs(u, "SIGNAL") : f.code # "DATA_RECEIVED"}
           X(t) == IF Takes(u, x, t) THEN <<x>> ELSE <<>>
           XI == X("INST")
           XD == X("DATA")
<1> USE Constants
<1>1. UnitPlaces(u)
  BY DEF PlacesOK
<1>2. /\ Len(instq[u]) <= INST_DEPTH /\ Len(recvq[u]) <= RECV_DEPTH
      /\ Len(sigq[u]) <= SIG_DEPTH
      /\ Len(down[u]) <= NET /\ Len(up[u]) <= NET
  BY DEF TypeOK, CuTypeOK
<1>3. ASSUME NEW t PROVE X(t) \in Seq(Ofs(u, t)) /\ Len(X(t)) \in {0, 1}
  <2>1. CASE Takes(u, x, t)
    <3>1. x \in Outward(u) /\ x.type = t
      BY <2>1 DEF CuMoves, Takes, Accepted, IsFlit, NoFlit
    <3>2. x \in Ofs(u, t)
      BY <3>1 DEF Outward, Ofs
    <3> QED
      BY <2>1, <3>2
  <2>2. CASE ~Takes(u, x, t)
    BY <2>2
  <2> QED
    BY <2>1, <2>2
<1>4. ASSUME NEW t, X(t) # <<>>
      PROVE  Len(instq[u]) < INST_DEPTH /\ Len(recvq[u]) < RECV_DEPTH
  BY <1>1, <1>4 DEF Takes, Accepted, CuInBusy, UnitPlaces
<1>5. /\ Queued(u) \in Seq(Ofs(u, "INST"))
      /\ Len(Queued(u)) <= Len(instq[u])
      /\ ~inst_pop[u] => Queued(u) = instq[u]
  <2>1. instq[u] \in Seq(Ofs(u, "INST")) /\ (inst_pop[u] => instq[u] # <<>>)
    BY <1>1 DEF UnitPlaces
  <2> QED
    BY <2>1, HeadTailProperties, LenProperties DEF Queued
<1>6. /\ instq'[u] = Queued(u) \o XI
      /\ instq'[u] \in Seq(Ofs(u, "INST")) /\ Len(instq'[u]) <= INST_DEPTH
      /\ Len(Queued(u)) <= Len(instq'[u])
  <2>1. instq'[u] = Queued(u) \o XI
    BY Zenon DEF CuMoves
  <2>2. /\ XI \in Seq(Ofs(u, "INST")) /\ Len(XI) \in {0, 1}
        /\ XI # <<>> => Len(instq[u]) < INST_DEPTH
    BY <1>3, <1>4
  <2>3. XI = <<>> => Len(XI) = 0
    OBVIOUS
  <2> HIDE DEF XI
  <2>4. /\ Queued(u) \o XI \in Seq(Ofs(u, "INST"))
        /\ Len(Queued(u) \o XI) = Len(Queued(u)) + Len(XI)
    BY <1>5, <2>2, ConcatProperties
  <2>5. Len(Queued(u)) \in Nat /\ Len(instq[u]) \in Nat
    BY <1>1, <1>5, LenProperties DEF UnitPlaces
  <2>6. /\ instq'[u] \in Seq(Ofs(u, "INST"))
        /\ Len(instq'[u]) = Len(Queued(u)) + Len(XI)
    BY <2>1, <2>4, Zenon
  <2>a. 0 # 1
    OBVIOUS
  <2>7. Len(XI) = 1 => Len(instq[u]) < INST_DEPTH
    BY <2>2, <2>3, <2>a, Zenon
  <2>8. /\ Len(instq'[u]) <= INST_DEPTH
        /\ Len(Queued(u)) <= Len(instq'[u])
    <3>1. /\ Len(XI) \in {0, 1}
          /\ Len(instq[u]) <= INST_DEPTH
          /\ Len(Queued(u)) <= Len(instq[u])
          /\ Len(instq'[u]) = Len(Queued(u)) + Len(XI)
      BY <1>2, <1>5, <2>2, <2>6, Zenon
    <3> DEFINE n == Len(instq[u])
               q == Len(Queued(u))
               e == Len(XI)
               m == Len(instq'[u])
    <3>2. /\ n \in Nat /\ n <= INST_DEPTH /\ q \in Nat /\ q <= n
          /\ e \in {0, 1} /\ (e = 1 => n < INST_DEPTH) /\ m = q + e
      BY <2>5, <2>7, <3>1, Zenon
    <3>3. INST_DEPTH \in Nat
      BY Constants, Zenon
    <3> HIDE DEF n, q, e, m
    <3>4. m <= INST_DEPTH /\ q <= m
      BY <3>2, <3>3
    <3> QED
      BY <3>4 DEF m, q
  <2> QED
    BY <2>1, <2>6, <2>8
<1>7. recvq'[u] \in Seq(Ofs(u, "DATA")) /\ Len(recvq'[u]) <= RECV_DEPTH
  <2> DEFINE R == IF d.rdy THEN Tail(recvq[u]) ELSE recvq[u]
  <2>1. recvq'[u] = R \o XD
    BY Zenon DEF CuMoves
  <2>2. /\ XD \in Seq(Ofs(u, "DATA")) /\ Len(XD) \in {0, 1}
        /\ XD # <<>> => Len(recvq[u]) < RECV_DEPTH
    BY <1>3, <1>4
  <2>3. XD = <<>> => Len(XD) = 0
    OBVIOUS
  <2>4. R \in Seq(Ofs(u, "DATA")) /\ Len(R) <= Len(recvq[u])
    <3>1. recvq[u] \in Seq(Ofs(u, "DATA")) /\ (d.rdy => recvq[u] # <<>>)
      BY <1>1 DEF UnitPlaces, CuMoves, DatapathCan
    <3> QED
      BY <3>1, HeadTailProperties, LenProperties
  <2> HIDE DEF XD, R
  <2>5. R \o XD \in Seq(Ofs(u, "DATA"))
        /\ Len(R \o XD) = Len(R) + Len(XD)
    BY <2>2, <2>4, ConcatProperties
  <2>6. Len(R) \in Nat /\ Len(recvq[u]) \in Nat
    BY <1>1, <2>4, LenProperties DEF UnitPlaces
  <2>7. /\ recvq'[u] \in Seq(Ofs(u, "DATA"))
        /\ Len(recvq'[u]) = Len(R) + Len(XD)
    BY <2>1, <2>5, Zenon
  <2>a. 0 # 1
    OBVIOUS
  <2>8. Len(XD) = 1 => Len(recvq[u]) < RECV_DEPTH
    BY <2>2, <2>3, <2>a, Zenon
  <2>9. Len(recvq'[u]) <= RECV_DEPTH /\ Len(R) <= Len(recvq'[u])
    <3>1. /\ Len(XD) \in {0, 1}
          /\ Len(recvq[u]) <= RECV_DEPTH
          /\ Len(R) <= Len(recvq[u])
          /\ Len(recvq'[u]) = Len(R) + Len(XD)
      BY <1>2, <2>2, <2>4, <2>7, Zenon
    <3> DEFINE n == Len(recvq[u])
               q == Len(R)
               e == Len(XD)
               m == Len(recvq'[u])
    <3>2. /\ n \in Nat /\ n <= RECV_DEPTH /\ q \in Nat /\ q <= n
          /\ e \in {0, 1} /\ (e = 1 => n < RECV_DEPTH) /\ m = q + e
      BY <2>6, <2>8, <3>1, Zenon
    <3>3. RECV_DEPTH \in Nat
      BY Constants, Zenon
    <3> HIDE DEF n, q, e, m
    <3>4. m <= RECV_DEPTH /\ q <= m
      BY <3>2, <3>3
    <3> QED
      BY <3>4 DEF m, q
  <2> QED
    BY <2>7, <2>9
<1>8. /\ sigq'[u] \in Seq(S) /\ Len(sigq'[u]) <= SIG_DEPTH
      /\ ~d.fin => Len(sigq'[u]) <= Len(sigq[u])
      /\ d.acc => ~d.fin /\ Len(sigq[u]) < SIG_DEPTH
  <2> DEFINE R == IF SigSent(u, UpBusy(u)) THEN Tail(sigq[u]) ELSE sigq[u]
             g == Signal(u, rep[u].txn, RetCode(u, d.flt))
  <2>1. sigq'[u] = IF d.fin THEN Append(R, g) ELSE R
    BY Zenon DEF CuMoves
  <2>2. g \in S
    BY ReportFlit DEF Datapath
  <2>3. sigq[u] \in Seq(S) /\ (SigSent(u, UpBusy(u)) => sigq[u] # <<>>)
    BY <1>1 DEF UnitPlaces, SigSent
  <2>4. R \in Seq(S) /\ Len(R) <= Len(sigq[u])
    <3> HIDE DEF S
    <3> QED
      BY <2>3, HeadTailProperties, LenProperties
  <2>5. /\ d.fin => Len(sigq[u]) < SIG_DEPTH
        /\ d.acc => ~d.fin /\ Len(sigq[u]) < SIG_DEPTH
    BY <1>1 DEF UnitPlaces, CuMoves, DatapathCan, InstValid
  <2> HIDE DEF R, S, g
  <2>6. /\ Append(R, g) \in Seq(S) /\ Len(Append(R, g)) = Len(R) + 1
        /\ Len(R) \in Nat /\ Len(sigq[u]) \in Nat
    BY <2>2, <2>3, <2>4, AppendProperties, LenProperties
  <2> QED
    BY <1>2, <2>1, <2>4, <2>5, <2>6
<1>9. cu_out'[u] \in Inward(u) \cup {NoFlit}
  <2>1. sigq[u] # <<>> => Head(sigq[u]) \in Inward(u)
    <3>1. sigq[u] # <<>> => Head(sigq[u]) \in S
      <4> HIDE DEF S
      <4> QED
        BY <1>1, HeadTailProperties DEF UnitPlaces, S
    <3>2. S \subseteq Inward(u)
      BY DEF Ofs, Inward
    <3> QED
      BY <3>1, <3>2
  <2>2. /\ Signal(u, 0, "DATA_RECEIVED") \in Inward(u)
        /\ CtrlReply(u, ctrl_val[u]) \in Inward(u)
    <3>1. ctrl_val[u] \in Code /\ "DATA_RECEIVED" \in Code /\ 0 \in Nat
      BY DEF TypeOK, CuTypeOK, Code
    <3> QED
      BY <3>1, SignalFlit
  <2>3. cu_out[u] \in Inward(u) \cup {NoFlit}
    BY <1>1 DEF UnitPlaces
  <2> QED
    BY <2>1, <2>2, <2>3 DEF CuMoves, SigSent
<1>10. down'[u] \in Seq(Outward(u)) /\ Len(down'[u]) <= NET
  <2>1. down[u] \in Seq(Outward(u)) /\ (Accepted(u, x) => down[u] # <<>>)
    BY <1>1 DEF UnitPlaces, CuMoves, Accepted, IsFlit, NoFlit
  <2> QED
    BY <1>2, <2>1, HeadTailProperties, LenProperties DEF CuMoves
<1>11. up'[u] \in Seq(Inward(u)) /\ Len(up'[u]) <= NET
  <2>1. /\ up[u] \in Seq(Inward(u)) /\ Len(up[u]) \in Nat
        /\ Sends(u) => cu_out[u] \in Inward(u) /\ Len(up[u]) < NET
    BY <1>1, LenProperties DEF UnitPlaces, Sends, UpBusy, IsFlit, NoFlit
  <2>2. up'[u] = IF Sends(u) THEN Append(up[u], cu_out[u]) ELSE up[u]
    BY DEF CuMoves
  <2> QED
    BY <1>2, <2>1, <2>2, AppendProperties
<1>12. inst_pop'[u] => in_flight'[u] /\ instq'[u] # <<>>
  <2>1. inst_pop'[u] = d.acc /\ (d.acc => in_flight'[u])
    BY DEF CuMoves
  <2>2. d.acc => ~inst_pop[u] /\ instq[u] # <<>>
    BY <1>1 DEF UnitPlaces, CuMoves, DatapathCan, InstValid
  <2>3. d.acc => Len(instq'[u]) >= 1
    <3>1. /\ instq[u] \in Seq(Ofs(u, "INST"))
          /\ instq[u] # <<>> => Len(instq[u]) \in Nat /\ Len(instq[u]) >= 1
      BY <1>1, LenProperties, EmptySeq DEF UnitPlaces
    <3>2. Len(instq'[u]) \in Nat
      BY <1>6, LenProperties
    <3> QED
      BY <1>5, <1>6, <2>2, <3>1, <3>2
  <2> QED
    BY <2>1, <2>2, <2>3
<1>13. in_flight'[u] => Len(sigq'[u]) < SIG_DEPTH
  <2>1. in_flight'[u] => d.acc \/ (in_flight[u] /\ ~d.fin)
    BY DEF CuMoves
  <2>2. in_flight[u] => Len(sigq[u]) < SIG_DEPTH
    BY <1>1 DEF UnitPlaces
  <2>3. Len(sigq[u]) \in Nat /\ Len(sigq'[u]) \in Nat
    BY <1>1, <1>8, LenProperties DEF UnitPlaces
  <2> QED
    BY <1>8, <2>1, <2>2, <2>3
<1>14. UnitPlaces(u)'
  BY <1>6, <1>7, <1>8, <1>9, <1>10, <1>11, <1>12, <1>13, Zenon DEF UnitPlaces
<1>15. ctrl_val'[u] \in {"BUSY", "IDLE"}
  BY DEF CuMoves, TypeOK, CuTypeOK
<1>16. rep'[u] \in [txn : Nat, last : BOOLEAN]
  <2>1. instq[u] # <<>> => Head(instq[u]) \in Ofs(u, "INST")
    BY <1>1, HeadTailProperties DEF UnitPlaces
  <2>2. d.acc => instq[u] # <<>>
    BY DEF CuMoves, DatapathCan, InstValid
  <2>3. rep[u] \in [txn : Nat, last : BOOLEAN]
    BY DEF TypeOK, CuTypeOK
  <2>4. d.acc => /\ Head(instq[u]).txn \in Nat
                 /\ Head(instq[u]).last \in BOOLEAN
    BY <2>1, <2>2 DEF Ofs, Flit
  <2>5. rep'[u] = IF d.acc THEN [txn |-> Head(instq[u]).txn,
                                 last |-> Head(instq[u]).last] ELSE rep[u]
    BY DEF CuMoves
  <2> QED
    BY <2>3, <2>4, <2>5
<1> QED
  BY <1>6, <1>7, <1>8, <1>10, <1>11, <1>14, <1>15, <1>16

(* After an edge of a unit each of its registers is still a function on    *)
(* the units.                                                              *)
LEMMA CuFuns ==
  ASSUME TypeOK, NEW u \in Unit, NEW x, NEW d, CuEdge(u, x, d)
  PROVE  /\ instq' = [v \in Unit |-> instq'[v]]
         /\ recvq' = [v \in Unit |-> recvq'[v]]
         /\ sigq' = [v \in Unit |-> sigq'[v]]
         /\ inst_pop' = [v \in Unit |-> inst_pop'[v]]
         /\ in_flight' = [v \in Unit |-> in_flight'[v]]
         /\ rep' = [v \in Unit |-> rep'[v]]
         /\ ctrl_pend' = [v \in Unit |-> ctrl_pend'[v]]
         /\ ctrl_val' = [v \in Unit |-> ctrl_val'[v]]
         /\ cu_out' = [v \in Unit |-> cu_out'[v]]
         /\ owed' = [v \in Unit |-> owed'[v]]
         /\ down' = [v \in Unit |-> down'[v]]
         /\ up' = [v \in Unit |-> up'[v]]
<1>1. /\ instq \in [Unit -> Seq(Flit)] /\ recvq \in [Unit -> Seq(Flit)]
      /\ sigq \in [Unit -> Seq(Flit)]
      /\ down \in [Unit -> Seq(Flit)] /\ up \in [Unit -> Seq(Flit)]
      /\ inst_pop \in [Unit -> BOOLEAN] /\ in_flight \in [Unit -> BOOLEAN]
      /\ ctrl_pend \in [Unit -> BOOLEAN] /\ owed \in [Unit -> BOOLEAN]
      /\ rep \in [Unit -> [txn : Nat, last : BOOLEAN]]
      /\ ctrl_val \in [Unit -> {"BUSY", "IDLE"}] /\ cu_out \in [Unit -> Flit]
  BY SMTT(30) DEF TypeOK, CuTypeOK
<1>2. CuClock(u, x, UpBusy(u), d)
  BY DEF CuEdge
<1>3. /\ instq' = [v \in Unit |-> instq'[v]]
      /\ recvq' = [v \in Unit |-> recvq'[v]]
  BY <1>1, <1>2 DEF CuClock, Queues
<1>4. /\ inst_pop' = [v \in Unit |-> inst_pop'[v]]
      /\ in_flight' = [v \in Unit |-> in_flight'[v]]
      /\ rep' = [v \in Unit |-> rep'[v]]
  BY <1>1, <1>2 DEF CuClock, Issue
<1>5. sigq' = [v \in Unit |-> sigq'[v]]
  BY <1>1, <1>2 DEF CuClock, Completions
<1>6. /\ ctrl_pend' = [v \in Unit |-> ctrl_pend'[v]]
      /\ ctrl_val' = [v \in Unit |-> ctrl_val'[v]]
  BY <1>1, <1>2 DEF CuClock, CtrlBlock
<1>7. /\ cu_out' = [v \in Unit |-> cu_out'[v]]
      /\ owed' = [v \in Unit |-> owed'[v]]
  BY <1>1, <1>2 DEF CuClock, TxOutput
<1>8. /\ down' = [v \in Unit |-> down'[v]]
      /\ up' = [v \in Unit |-> up'[v]]
  BY <1>1 DEF CuEdge
<1> QED
  BY <1>3, <1>4, <1>5, <1>6, <1>7, <1>8

(* An edge of a unit keeps the types and the contents of the places.       *)
LEMMA CuTypes ==
  ASSUME TypeOK, PlacesOK, NEW u \in Unit, NEW x \in Arriving(u),
         NEW d \in Datapath, CuEdge(u, x, d)
  PROVE  TypeOK' /\ PlacesOK'
<1>1. CuMoves(u, x, d) /\ \A v \in Unit \ {u} : SameUnit(v)
  BY CuPoint
<1>2. /\ UnitPlaces(u)'
      /\ Len(instq'[u]) <= INST_DEPTH /\ Len(recvq'[u]) <= RECV_DEPTH
      /\ Len(sigq'[u]) <= SIG_DEPTH
      /\ Len(down'[u]) <= NET /\ Len(up'[u]) <= NET
      /\ ctrl_val'[u] \in {"BUSY", "IDLE"}
      /\ rep'[u] \in [txn : Nat, last : BOOLEAN]
  BY <1>1, CuPlaces
<1>3. ASSUME NEW v \in Unit PROVE UnitPlaces(v)'
  BY <1>1, <1>2 DEF PlacesOK, UnitPlaces, SameUnit
<1>4. OthersStay
  BY CuOthers
<1>5. PlacesOK'
  BY <1>3, <1>4 DEF PlacesOK, OthersStay
<1>6. ASSUME NEW v \in Unit
      PROVE  /\ instq'[v] \in Seq(Flit) /\ recvq'[v] \in Seq(Flit)
             /\ sigq'[v] \in Seq(Flit) /\ down'[v] \in Seq(Flit)
             /\ up'[v] \in Seq(Flit) /\ cu_out'[v] \in Flit
  <2>1. {f \in Ofs(v, "SIGNAL") : f.code # "DATA_RECEIVED"} \subseteq Flit
    BY DEF Ofs
  <2>2. UnitPlaces(v)'
    BY <1>3
  <2> QED
    BY <2>1, <2>2, FlitTypes, SeqMono DEF UnitPlaces
<1>7. ASSUME NEW v \in Unit
      PROVE  /\ Len(instq'[v]) <= INST_DEPTH /\ Len(recvq'[v]) <= RECV_DEPTH
             /\ Len(sigq'[v]) <= SIG_DEPTH
             /\ Len(down'[v]) <= NET /\ Len(up'[v]) <= NET
             /\ ctrl_val'[v] \in {"BUSY", "IDLE"}
             /\ rep'[v] \in [txn : Nat, last : BOOLEAN]
  <2>1. CASE v = u
    BY <1>2, <2>1
  <2>2. CASE v # u
    BY <1>1, <2>2 DEF SameUnit, TypeOK, CuTypeOK
  <2> QED
    BY <2>1, <2>2
<1>8. ASSUME NEW v \in Unit
      PROVE  /\ inst_pop'[v] \in BOOLEAN /\ in_flight'[v] \in BOOLEAN
             /\ ctrl_pend'[v] \in BOOLEAN /\ owed'[v] \in BOOLEAN
  <2>0. /\ inst_pop[v] \in BOOLEAN /\ in_flight[v] \in BOOLEAN
        /\ ctrl_pend[v] \in BOOLEAN /\ owed[v] \in BOOLEAN
    BY DEF TypeOK, CuTypeOK
  <2>1. CASE v = u
    BY <1>1, <2>0, <2>1 DEF CuMoves, Datapath
  <2>2. CASE v # u
    BY <1>1, <2>0, <2>2 DEF SameUnit
  <2> QED
    BY <2>1, <2>2
<1>9. CuTypeOK'
  BY <1>6, <1>7, <1>8, CuFuns DEF CuTypeOK
<1>10. /\ {down', up'} \subseteq [Unit -> Seq(Flit)]
       /\ \A v \in Unit : Len(down'[v]) <= NET /\ Len(up'[v]) <= NET
  BY <1>6, <1>7, CuFuns
<1>11. OrcTypeOK'
  BY <1>4 DEF OthersStay, OrcTypeOK, TypeOK
<1>12. faults' \in Nat
  BY DEF CuEdge, TypeOK
<1> QED
  BY <1>4, <1>5, <1>9, <1>10, <1>11, <1>12 DEF TypeOK, OthersStay

-----------------------------------------------------------------------------
(***************************************************************************)
(* What a line holds, place by place.                                      *)
(***************************************************************************)
LEMMA KindOf ==
  ASSUME NEW f
  PROVE  /\ f.type = "INST" => Kind(f) = "job"
         /\ f.type = "SIGNAL" =>
              Kind(f) = IF f.code = "DATA_RECEIVED" THEN "burst" ELSE "job"
         /\ f.type = "DATA" => Kind(f) = IF f.last THEN "burst" ELSE "none"
         /\ f.type = "CTRL" => Kind(f) = "read"
         /\ f.type = "NONE" => Kind(f) = "none"
<1>1. f.type = "INST" => Kind(f) = "job"
  BY DEF Kind, IsSignal
<1>2. f.type = "SIGNAL" =>
        Kind(f) = IF f.code = "DATA_RECEIVED" THEN "burst" ELSE "job"
  BY DEF Kind, IsSignal
<1>3. f.type = "DATA" => Kind(f) = IF f.last THEN "burst" ELSE "none"
  BY DEF Kind, IsSignal
<1>4. f.type = "CTRL" => Kind(f) = "read"
  BY DEF Kind, IsSignal
<1>5. f.type = "NONE" => Kind(f) = "none"
  BY DEF Kind, IsSignal
<1> QED
  BY <1>1, <1>2, <1>3, <1>4, <1>5

(* A flit weighs one if it concerns u and is of one of the kinds, else     *)
(* nothing.                                                                *)
LEMMA WeightType ==
  ASSUME NEW f, NEW u, NEW K
  PROVE  /\ Weight(f, u, K) \in {0, 1}
         /\ Weight(f, u, K) \in Nat
         /\ Is(f, u, K) <=> Weight(f, u, K) = 1
BY DEF Weight, One

(* A link register holds what its flit weighs.                             *)
LEMMA CountFlits ==
  ASSUME NEW f, NEW u, NEW K, "none" \notin K
  PROVE  CountOf(Flits(f), u, K) = Weight(f, u, K)
<1>1. CASE IsFlit(f)
  BY <1>1, CountOne DEF Flits
<1>2. CASE ~IsFlit(f)
  <2>1. Weight(f, u, K) = 0
    BY <1>2, KindOf DEF Weight, One, Is, IsFlit
  <2> QED
    BY <1>2, <2>1, CountEmpty DEF Flits
<1> QED
  BY <1>1, <1>2

CountOwing(u, K) ==
  One(owed[u] /\ "burst" \in K) + One(ctrl_pend[u] /\ "read" \in K)
    + One(in_flight[u] /\ "job" \in K)

CountSent(u, K) ==
  CountOf(down[u], u, K) + Weight(orc_out, u, K) + CountOf(tx, u, K)
    + One(disp_push /\ Is(DispFlit, u, K))

CountUnit(u, K) ==
  CountOf(up[u], u, K) + Weight(cu_out[u], u, K) + CountOf(sigq[u], u, K)
    + CountOwing(u, K) + CountOf(Queued(u), u, K) + CountOf(recvq[u], u, K)

CountLine(u, K) == CountUnit(u, K) + CountSent(u, K)

(* Three places in a row hold the sum of what each holds.                  *)
LEMMA ConcatThree ==
  ASSUME NEW S, NEW a \in Seq(S), NEW b \in Seq(S), NEW c \in Seq(S),
         NEW u, NEW K
  PROVE  /\ a \o b \o c \in Seq(S)
         /\ CountOf(a \o b \o c, u, K)
              = CountOf(a, u, K) + CountOf(b, u, K) + CountOf(c, u, K)
<1> DEFINE ab == a \o b
<1>1. ab \in Seq(S) /\ CountOf(ab, u, K) = CountOf(a, u, K) + CountOf(b, u, K)
  BY WhereConcat, ConcatProperties
<1> HIDE DEF ab
<1>2. CountOf(ab \o c, u, K) = CountOf(ab, u, K) + CountOf(c, u, K)
      /\ ab \o c \in Seq(S)
  BY <1>1, WhereConcat, ConcatProperties
<1>3. /\ CountOf(a, u, K) \in Nat /\ CountOf(b, u, K) \in Nat
      /\ CountOf(c, u, K) \in Nat
  BY WhereType
<1>4. CountOf(ab \o c, u, K)
        = CountOf(a, u, K) + CountOf(b, u, K) + CountOf(c, u, K)
  BY <1>1, <1>2, <1>3
<1> QED
  BY <1>2, <1>4 DEF ab

(* What is on the way to u, as a sum over the places it is in.             *)
LEMMA SentCount ==
  ASSUME TypeOK, DispOK, NEW u \in Unit, NEW K, "none" \notin K
  PROVE  /\ OnTheWay(u) \in Seq(Flit)
         /\ CountOf(OnTheWay(u), u, K) = CountSent(u, K)
         /\ CountSent(u, K) \in Nat
<1> DEFINE p == IF disp_push THEN <<DispFlit>> ELSE <<>>
           a == down[u] \o Flits(orc_out) \o tx
<1>1. down[u] \in Seq(Flit) /\ tx \in Seq(Flit) /\ orc_out \in Flit
  BY DEF TypeOK, OrcTypeOK
<1>2. Flits(orc_out) \in Seq(Flit)
  BY <1>1 DEF Flits
<1>3. p \in Seq(Flit) /\ CountOf(p, u, K) = One(disp_push /\ Is(DispFlit, u, K))
  <2>1. CASE disp_push
    <3>1. prog_flit \in Flit /\ prog_dst \in Unit
      BY <2>1 DEF TypeOK, OrcTypeOK, DispOK
    <3>2. DispFlit \in Flit
      BY <3>1 DEF DispFlit, Flit
    <3>3. CountOf(<<DispFlit>>, u, K) = Weight(DispFlit, u, K)
      BY CountOne
    <3> QED
      BY <2>1, <3>2, <3>3 DEF Weight, One
  <2>2. CASE ~disp_push
    BY <2>2, CountEmpty DEF One
  <2> QED
    BY <2>1, <2>2
<1>4. /\ a \in Seq(Flit)
      /\ CountOf(a, u, K) = CountOf(down[u], u, K) + CountOf(Flits(orc_out), u, K)
                              + CountOf(tx, u, K)
  BY <1>1, <1>2, ConcatThree
<1>5. CountOf(Flits(orc_out), u, K) = Weight(orc_out, u, K)
  BY CountFlits
<1>6. OnTheWay(u) = a \o p
  BY DEF OnTheWay
<1>7. /\ CountOf(down[u], u, K) \in Nat /\ CountOf(tx, u, K) \in Nat
      /\ Weight(orc_out, u, K) \in Nat
      /\ One(disp_push /\ Is(DispFlit, u, K)) \in Nat
  BY <1>1, WhereType, WeightType DEF One
<1> HIDE DEF a, p
<1>8. CountOf(a \o p, u, K) = CountOf(a, u, K) + CountOf(p, u, K)
      /\ a \o p \in Seq(Flit)
  BY <1>3, <1>4, WhereConcat, ConcatProperties
<1> QED
  BY <1>3, <1>4, <1>5, <1>6, <1>7, <1>8 DEF CountSent

(* What a line holds, as a sum over its places.                            *)
LEMMA LineCount ==
  ASSUME TypeOK, PlacesOK, DispOK, NEW u \in Unit, NEW K, "none" \notin K
  PROVE  /\ CountOf(Line(u), u, K) = CountLine(u, K)
         /\ CountLine(u, K) \in Nat
         /\ Line(u) \in Seq(Flit)
<1> DEFINE o == IF owed[u] THEN <<Signal(u, 0, "DATA_RECEIVED")>> ELSE <<>>
           c == IF ctrl_pend[u] THEN <<CtrlReply(u, ctrl_val[u])>> ELSE <<>>
           j == IF in_flight[u] THEN <<Signal(u, rep[u].txn, "INST_COMPLETE")>>
                ELSE <<>>
           w == Owing(u)
           a == up[u] \o Flits(cu_out[u]) \o sigq[u]
           b == Queued(u)
           r == recvq[u]
           s == OnTheWay(u)
<1>1. /\ up[u] \in Seq(Flit) /\ cu_out[u] \in Flit /\ sigq[u] \in Seq(Flit)
      /\ instq[u] \in Seq(Flit) /\ r \in Seq(Flit)
  BY DEF TypeOK, CuTypeOK
<1>2. /\ o \in Seq(Flit) /\ CountOf(o, u, K) = One(owed[u] /\ "burst" \in K)
      /\ c \in Seq(Flit) /\ CountOf(c, u, K) = One(ctrl_pend[u] /\ "read" \in K)
      /\ j \in Seq(Flit) /\ CountOf(j, u, K) = One(in_flight[u] /\ "job" \in K)
  <2> DEFINE so == Signal(u, 0, "DATA_RECEIVED")
             sc == CtrlReply(u, ctrl_val[u])
             sj == Signal(u, rep[u].txn, "INST_COMPLETE")
  <2>1. so \in Flit /\ so.type = "SIGNAL" /\ so.code = "DATA_RECEIVED" /\ so.peer = u
    BY Constants DEF Signal, Flit, FlitType, Code
  <2>2. sc \in Flit /\ sc.type = "CTRL" /\ sc.peer = u
    BY Constants DEF CtrlReply, Flit, FlitType, Code, TypeOK, CuTypeOK
  <2>3. sj \in Flit /\ sj.type = "SIGNAL" /\ sj.code = "INST_COMPLETE" /\ sj.peer = u
    BY Constants DEF Signal, Flit, FlitType, Code, TypeOK, CuTypeOK
  <2> HIDE DEF so, sc, sj
  <2>4. Kind(so) = "burst" /\ Kind(sc) = "read" /\ Kind(sj) = "job"
    BY <2>1, <2>2, <2>3, KindOf
  <2>5. /\ CountOf(<<so>>, u, K) = One("burst" \in K)
        /\ CountOf(<<sc>>, u, K) = One("read" \in K)
        /\ CountOf(<<sj>>, u, K) = One("job" \in K)
    BY <2>1, <2>2, <2>3, <2>4, CountOne DEF Weight, Is
  <2>6. /\ o = IF owed[u] THEN <<so>> ELSE <<>>
        /\ c = IF ctrl_pend[u] THEN <<sc>> ELSE <<>>
        /\ j = IF in_flight[u] THEN <<sj>> ELSE <<>>
    BY DEF so, sc, sj
  <2> HIDE DEF o, c, j
  <2>7. /\ o \in Seq(Flit) /\ CountOf(o, u, K) = One(owed[u] /\ "burst" \in K)
    BY <2>1, <2>5, <2>6, CountEmpty DEF One
  <2>8. /\ c \in Seq(Flit) /\ CountOf(c, u, K) = One(ctrl_pend[u] /\ "read" \in K)
    BY <2>2, <2>5, <2>6, CountEmpty DEF One
  <2>9. /\ j \in Seq(Flit) /\ CountOf(j, u, K) = One(in_flight[u] /\ "job" \in K)
    BY <2>3, <2>5, <2>6, CountEmpty DEF One
  <2> QED
    BY <2>7, <2>8, <2>9
<1>3. w \in Seq(Flit) /\ CountOf(w, u, K) = CountOwing(u, K)
  <2>1. w = o \o c \o j
    BY DEF Owing
  <2> HIDE DEF o, c, j, w
  <2>2. /\ o \o c \o j \in Seq(Flit)
        /\ CountOf(o \o c \o j, u, K)
             = CountOf(o, u, K) + CountOf(c, u, K) + CountOf(j, u, K)
    BY <1>2, ConcatThree
  <2> QED
    BY <1>2, <2>1, <2>2 DEF CountOwing
<1>4. /\ a \in Seq(Flit)
      /\ CountOf(a, u, K) = CountOf(up[u], u, K) + Weight(cu_out[u], u, K)
                              + CountOf(sigq[u], u, K)
  <2>1. Flits(cu_out[u]) \in Seq(Flit)
    BY <1>1 DEF Flits
  <2>2. CountOf(Flits(cu_out[u]), u, K) = Weight(cu_out[u], u, K)
    BY CountFlits
  <2> QED
    BY <1>1, <2>1, <2>2, ConcatThree
<1>5. b \in Seq(Flit)
  <2>1. inst_pop[u] => instq[u] # <<>>
    BY DEF PlacesOK, UnitPlaces
  <2> QED
    BY <1>1, <2>1 DEF Queued
<1>6. s \in Seq(Flit) /\ CountOf(s, u, K) = CountSent(u, K) /\ CountSent(u, K) \in Nat
  BY SentCount
<1>7. Line(u) = a \o w \o b \o r \o s
  BY DEF Line
<1>8. /\ CountOf(a, u, K) \in Nat /\ CountOf(w, u, K) \in Nat
      /\ CountOf(b, u, K) \in Nat /\ CountOf(r, u, K) \in Nat
      /\ CountOf(s, u, K) \in Nat
  BY <1>1, <1>3, <1>4, <1>5, <1>6, WhereType
<1>9. /\ CountOf(Line(u), u, K) = CountOf(a, u, K) + CountOf(w, u, K)
           + CountOf(b, u, K) + CountOf(r, u, K) + CountOf(s, u, K)
      /\ Line(u) \in Seq(Flit)
  <2> HIDE DEF a, w, b, r, s
  <2> DEFINE q == a \o w \o b
  <2>1. /\ q \in Seq(Flit)
        /\ CountOf(q, u, K) = CountOf(a, u, K) + CountOf(w, u, K) + CountOf(b, u, K)
    BY <1>3, <1>4, <1>5, ConcatThree
  <2>2. Line(u) = q \o r \o s
    BY <1>7
  <2> HIDE DEF q
  <2>3. /\ CountOf(q \o r \o s, u, K)
             = CountOf(q, u, K) + CountOf(r, u, K) + CountOf(s, u, K)
        /\ q \o r \o s \in Seq(Flit)
    BY <1>1, <1>6, <2>1, ConcatThree DEF r
  <2> QED
    BY <1>8, <2>1, <2>2, <2>3
<1>10. CountLine(u, K) = CountOf(a, u, K) + CountOf(w, u, K)
         + CountOf(b, u, K) + CountOf(r, u, K) + CountOf(s, u, K)
  <2>1. CountUnit(u, K) = CountOf(a, u, K) + CountOf(w, u, K)
                            + CountOf(b, u, K) + CountOf(r, u, K)
    <3> HIDE DEF a, w
    <3> QED
      BY <1>3, <1>4 DEF CountUnit
  <2> HIDE DEF a, w, b, r, s
  <2> QED
    BY <1>6, <2>1 DEF CountLine
<1> HIDE DEF a, w, b, r, s
<1> QED
  BY <1>8, <1>9, <1>10

(* The same of every state, and so of the one after a step.                *)
LEMMA LineCountAlways ==
  ASSUME NEW u \in Unit, NEW K, "none" \notin K
  PROVE  [](TypeOK /\ PlacesOK /\ DispOK =>
              /\ CountOf(Line(u), u, K) = CountLine(u, K)
              /\ CountLine(u, K) \in Nat)
<1>1. TypeOK /\ PlacesOK /\ DispOK =>
        /\ CountOf(Line(u), u, K) = CountLine(u, K)
        /\ CountLine(u, K) \in Nat
  BY LineCount
<1> QED
  BY <1>1, PTL

(* The same of the next state.                                             *)
LEMMA LineCountNext ==
  ASSUME NEW u \in Unit, NEW K, "none" \notin K, TypeOK', PlacesOK', DispOK'
  PROVE  /\ CountOf(Line(u), u, K)' = CountLine(u, K)'
         /\ CountLine(u, K)' \in Nat
<1>1. [](TypeOK /\ PlacesOK /\ DispOK =>
           /\ CountOf(Line(u), u, K) = CountLine(u, K)
           /\ CountLine(u, K) \in Nat)
  BY LineCountAlways
<1>2. (TypeOK /\ PlacesOK /\ DispOK =>
        /\ CountOf(Line(u), u, K) = CountLine(u, K)
        /\ CountLine(u, K) \in Nat)'
  BY <1>1, PTL
<1> QED
  BY <1>2

(* A clock edge of a unit moves what its line holds from place to place:   *)
(* only a request that finds an answer owed is forgotten.                  *)
LEMMA CuCount ==
  ASSUME TypeOK, PlacesOK, NEW u \in Unit, NEW x, NEW d \in Datapath,
         CuMoves(u, x, d), OthersStay, UnitPlaces(u)',
         NEW K, "none" \notin K
  PROVE  CountLine(u, K)'
           + (IF Takes(u, x, "CTRL") /\ ctrl_pend[u] THEN One("read" \in K) ELSE 0)
           = CountLine(u, K)
<1> DEFINE J == One("job" \in K)
           B == One("burst" \in K)
           R == One("read" \in K)
           m == IF Sends(u) THEN Weight(cu_out[u], u, K) ELSE 0
           t1 == IF SigSent(u, UpBusy(u)) THEN J ELSE 0
           t2 == IF CtrlSent(u, UpBusy(u)) THEN R ELSE 0
           t3 == IF owed[u] /\ SendReady(u, UpBusy(u)) THEN B ELSE 0
           fj == IF d.fin THEN J ELSE 0
           aj == IF d.acc THEN J ELSE 0
           rb == IF d.rdy /\ Head(recvq[u]).last THEN B ELSE 0
           xi == IF Takes(u, x, "INST") THEN J ELSE 0
           xd == IF Takes(u, x, "DATA") THEN Weight(x, u, K) ELSE 0
           xc == IF Takes(u, x, "CTRL") THEN R ELSE 0
           lost == IF Takes(u, x, "CTRL") /\ ctrl_pend[u] THEN R ELSE 0
<1>0. UnitPlaces(u)
  BY DEF PlacesOK
<1>a. /\ J \in {0, 1} /\ B \in {0, 1} /\ R \in {0, 1} /\ m \in {0, 1}
      /\ t1 \in {0, 1} /\ t2 \in {0, 1} /\ t3 \in {0, 1} /\ fj \in {0, 1}
      /\ aj \in {0, 1} /\ rb \in {0, 1} /\ xi \in {0, 1} /\ xd \in {0, 1}
      /\ xc \in {0, 1} /\ lost \in {0, 1}
  BY WeightType DEF One
<1>b. ASSUME NEW f, f.peer = u
      PROVE  /\ f.type = "INST" => Weight(f, u, K) = J
             /\ f.type = "CTRL" => Weight(f, u, K) = R
             /\ f.type = "SIGNAL" /\ f.code # "DATA_RECEIVED" => Weight(f, u, K) = J
             /\ f.type = "SIGNAL" /\ f.code = "DATA_RECEIVED" => Weight(f, u, K) = B
             /\ f.type = "DATA" => Weight(f, u, K) = IF f.last THEN B ELSE 0
  BY <1>b, KindOf DEF Weight, Is, One
<1>c. x.peer = u \/ x = NoFlit
  BY DEF CuMoves, Outward
<1>d. \A t : Takes(u, x, t) => x # NoFlit
  BY DEF Takes, Accepted, IsFlit, NoFlit
<1>e. \A f : f.type = "NONE" => Weight(f, u, K) = 0
  BY KindOf DEF Weight, Is, One
<1>1. CountOf(up[u], u, K)' = CountOf(up[u], u, K) + m
  <2>1. up[u] \in Seq(Inward(u)) /\ (Sends(u) => cu_out[u] \in Inward(u))
    BY <1>0 DEF UnitPlaces, Sends, IsFlit, NoFlit
  <2>2. CountOf(up[u], u, K) \in Nat
    BY <2>1, WhereType
  <2>3. up'[u] = IF Sends(u) THEN Append(up[u], cu_out[u]) ELSE up[u]
    BY DEF CuMoves
  <2>4. Sends(u) => CountOf(Append(up[u], cu_out[u]), u, K)
                      = CountOf(up[u], u, K) + Weight(cu_out[u], u, K)
    BY <2>1, CountAppend
  <2>5. CountOf(up[u], u, K)' = CountOf(up'[u], u, K)
    BY DEF CountOf
  <2> QED
    BY <2>2, <2>3, <2>4, <2>5
<1>2. Weight(cu_out[u], u, K)' + m = Weight(cu_out[u], u, K) + t1 + t2 + t3
  <2>0. Weight(cu_out[u], u, K)' = Weight(cu_out'[u], u, K)
    BY DEF Weight, Is, One, Kind
  <2>1. Weight(cu_out[u], u, K) \in {0, 1}
    BY WeightType
  <2>2. TxFree(u, UpBusy(u)) => m = Weight(cu_out[u], u, K)
    <3>1. ~IsFlit(cu_out[u]) => Weight(cu_out[u], u, K) = 0
      BY <1>e DEF IsFlit
    <3> QED
      BY <3>1 DEF TxFree, Sends
  <2>3. CASE SigSent(u, UpBusy(u))
    <3>1. Head(sigq[u]) \in {f \in Ofs(u, "SIGNAL") : f.code # "DATA_RECEIVED"}
      BY <1>0, <2>3, HeadTailProperties DEF UnitPlaces, SigSent
    <3>2. Weight(Head(sigq[u]), u, K) = J
      BY <1>b, <3>1 DEF Ofs
    <3>3. cu_out'[u] = Head(sigq[u]) /\ t1 = J /\ t2 = 0 /\ t3 = 0
          /\ TxFree(u, UpBusy(u))
      BY <2>3 DEF CuMoves, SigSent, CtrlSent, SendReady
    <3> HIDE DEF m, t1, t2, t3, J
    <3> QED
      BY <1>a, <2>0, <2>1, <2>2, <3>2, <3>3
  <2>4. CASE ~SigSent(u, UpBusy(u)) /\ CtrlSent(u, UpBusy(u))
    <3>1. Weight(CtrlReply(u, ctrl_val[u]), u, K) = R
      BY <1>b DEF CtrlReply
    <3>2. cu_out'[u] = CtrlReply(u, ctrl_val[u]) /\ t1 = 0 /\ t2 = R /\ t3 = 0
          /\ TxFree(u, UpBusy(u))
      BY <2>4 DEF CuMoves, CtrlSent, SendReady
    <3> HIDE DEF m, t1, t2, t3, R
    <3> QED
      BY <1>a, <2>0, <2>1, <2>2, <3>1, <3>2
  <2>5. CASE ~SigSent(u, UpBusy(u)) /\ ~CtrlSent(u, UpBusy(u))
             /\ owed[u] /\ SendReady(u, UpBusy(u))
    <3>1. Weight(Signal(u, 0, "DATA_RECEIVED"), u, K) = B
      BY <1>b DEF Signal
    <3>2. cu_out'[u] = Signal(u, 0, "DATA_RECEIVED") /\ t1 = 0 /\ t2 = 0 /\ t3 = B
          /\ TxFree(u, UpBusy(u))
      BY <2>5 DEF CuMoves, SendReady
    <3> HIDE DEF m, t1, t2, t3, B
    <3> QED
      BY <1>a, <2>0, <2>1, <2>2, <3>1, <3>2
  <2>6. CASE ~SigSent(u, UpBusy(u)) /\ ~CtrlSent(u, UpBusy(u))
             /\ ~(owed[u] /\ SendReady(u, UpBusy(u)))
    <3>1. cu_out'[u] = (IF UpBusy(u) THEN cu_out[u] ELSE NoFlit)
          /\ t1 = 0 /\ t2 = 0 /\ t3 = 0
      BY <2>6 DEF CuMoves
    <3>2. UpBusy(u) => m = 0
      BY DEF Sends
    <3>3. ~UpBusy(u) => m = Weight(cu_out[u], u, K)
      BY <2>2 DEF TxFree
    <3>4. Weight(NoFlit, u, K) = 0
      BY <1>e DEF NoFlit
    <3> HIDE DEF m, t1, t2, t3
    <3> QED
      BY <1>a, <2>0, <2>1, <3>1, <3>2, <3>3, <3>4
  <2> QED
    BY <2>3, <2>4, <2>5, <2>6
<1>3. CountOf(sigq[u], u, K)' + t1 = CountOf(sigq[u], u, K) + fj
  <2> DEFINE S == {f \in Ofs(u, "SIGNAL") : f.code # "DATA_RECEIVED"}
             q == IF SigSent(u, UpBusy(u)) THEN Tail(sigq[u]) ELSE sigq[u]
             g == Signal(u, rep[u].txn, RetCode(u, d.flt))
  <2>1. sigq[u] \in Seq(S) /\ (SigSent(u, UpBusy(u)) => sigq[u] # <<>>)
    BY <1>0 DEF UnitPlaces, SigSent
  <2>2. g \in S /\ Weight(g, u, K) = J
    <3>1. g \in S
      BY ReportFlit DEF Datapath
    <3> QED
      BY <1>b, <3>1 DEF Ofs
  <2>3. SigSent(u, UpBusy(u)) => Weight(Head(sigq[u]), u, K) = J
    <3>1. SigSent(u, UpBusy(u)) => Head(sigq[u]) \in S
      <4> HIDE DEF S
      <4> QED
        BY <2>1, HeadTailProperties
    <3> QED
      BY <1>b, <3>1 DEF Ofs
  <2>4. q \in Seq(S) /\ CountOf(q, u, K) \in Nat /\ CountOf(sigq[u], u, K) \in Nat
    <3> HIDE DEF S
    <3>1. q \in Seq(S)
      BY <2>1, HeadTailProperties
    <3> HIDE DEF q
    <3> QED
      BY <2>1, <3>1, WhereType
  <2>5. CountOf(q, u, K) + t1 = CountOf(sigq[u], u, K)
    <3>1. SigSent(u, UpBusy(u)) =>
            CountOf(sigq[u], u, K) = J + CountOf(Tail(sigq[u]), u, K)
      <4> HIDE DEF S, J
      <4> QED
        BY <2>1, <2>3, CountTail
    <3> HIDE DEF S, J
    <3> QED
      BY <1>a, <2>4, <3>1
  <2>6. sigq'[u] = IF d.fin THEN Append(q, g) ELSE q
    BY Zenon DEF CuMoves
  <2> HIDE DEF S, q, g, J, t1
  <2>7. CountOf(Append(q, g), u, K) = CountOf(q, u, K) + J
    BY <2>2, <2>4, CountAppend
  <2>8. CountOf(sigq[u], u, K)' = CountOf(sigq'[u], u, K)
    BY DEF CountOf
  <2> QED
    BY <1>a, <2>4, <2>5, <2>6, <2>7, <2>8
<1>4. One(owed[u] /\ "burst" \in K)' + t3 = One(owed[u] /\ "burst" \in K) + rb
  <2>1. owed'[u] = (\/ owed[u] /\ ~SendReady(u, UpBusy(u))
                    \/ d.rdy /\ Head(recvq[u]).last)
    BY DEF CuMoves
  <2>2. d.rdy => ~owed[u]
    BY DEF CuMoves, DatapathCan
  <2> QED
    BY <2>1, <2>2 DEF One
<1>5. One(ctrl_pend[u] /\ "read" \in K)' + t2 + lost
        = One(ctrl_pend[u] /\ "read" \in K) + xc
  <2>1. ctrl_pend'[u] = IF Takes(u, x, "CTRL") /\ ~ctrl_pend[u] THEN TRUE
                        ELSE ctrl_pend[u] /\ ~CtrlSent(u, UpBusy(u))
    BY DEF CuMoves
  <2>2. CtrlSent(u, UpBusy(u)) => ctrl_pend[u]
    BY DEF CtrlSent
  <2>3. ctrl_pend[u] \in BOOLEAN
    BY DEF TypeOK, CuTypeOK
  <2>4. CASE "read" \in K
    <3>1. /\ One(ctrl_pend[u] /\ "read" \in K)' = One(ctrl_pend'[u])
          /\ One(ctrl_pend[u] /\ "read" \in K) = One(ctrl_pend[u])
          /\ R = 1
      BY <2>4 DEF One
    <3>2. CASE Takes(u, x, "CTRL") /\ ~ctrl_pend[u]
      <4>1. ctrl_pend'[u] = TRUE /\ t2 = 0 /\ lost = 0 /\ xc = R
        BY <2>1, <2>2, <3>2
      <4> QED
        BY <3>1, <3>2, <4>1 DEF One
    <3>3. CASE Takes(u, x, "CTRL") /\ ctrl_pend[u]
      <4>1. /\ lost = R /\ xc = R
            /\ IF CtrlSent(u, UpBusy(u)) THEN ctrl_pend'[u] = FALSE /\ t2 = R
               ELSE ctrl_pend'[u] = TRUE /\ t2 = 0
        BY <2>1, <2>3, <3>3
      <4> QED
        BY <3>1, <3>3, <4>1 DEF One
    <3>4. CASE ~Takes(u, x, "CTRL")
      <4>1. /\ lost = 0 /\ xc = 0
            /\ IF CtrlSent(u, UpBusy(u)) THEN ctrl_pend'[u] = FALSE /\ t2 = R
               ELSE ctrl_pend'[u] = ctrl_pend[u] /\ t2 = 0
        BY <2>1, <2>3, <3>4
      <4> QED
        BY <2>2, <2>3, <3>1, <4>1 DEF One
    <3> QED
      BY <3>2, <3>3, <3>4
  <2>5. CASE "read" \notin K
    <3>1. /\ One(ctrl_pend[u] /\ "read" \in K)' = 0
          /\ One(ctrl_pend[u] /\ "read" \in K) = 0
          /\ R = 0
      BY <2>5 DEF One
    <3> QED
      BY <3>1
  <2> QED
    BY <2>4, <2>5
<1>6. One(in_flight[u] /\ "job" \in K)' + fj = One(in_flight[u] /\ "job" \in K) + aj
  <2>1. in_flight'[u] = (d.acc \/ (in_flight[u] /\ ~d.fin))
    BY DEF CuMoves
  <2>2. (d.acc => ~in_flight[u]) /\ (d.fin => in_flight[u])
    BY DEF CuMoves, DatapathCan, InstValid
  <2>3. in_flight[u] \in BOOLEAN /\ d.acc \in BOOLEAN /\ d.fin \in BOOLEAN
    BY DEF TypeOK, CuTypeOK, Datapath
  <2>4. CASE "job" \in K
    <3>1. /\ One(in_flight[u] /\ "job" \in K)' = One(in_flight'[u])
          /\ One(in_flight[u] /\ "job" \in K) = One(in_flight[u])
          /\ J = 1
      BY <2>4 DEF One
    <3> QED
      BY <2>1, <2>2, <2>3, <3>1 DEF One
  <2>5. CASE "job" \notin K
    <3>1. /\ One(in_flight[u] /\ "job" \in K)' = 0
          /\ One(in_flight[u] /\ "job" \in K) = 0
          /\ J = 0
      BY <2>5 DEF One
    <3> QED
      BY <3>1
  <2> QED
    BY <2>4, <2>5
<1>7. CountOf(Queued(u), u, K)' + aj = CountOf(Queued(u), u, K) + xi
  <2> DEFINE S == Ofs(u, "INST")
             X == IF Takes(u, x, "INST") THEN <<x>> ELSE <<>>
             q == Queued(u)
             n == instq'[u]
  <2>1. q \in Seq(S)
    BY <1>0, HeadTailProperties DEF UnitPlaces, Queued
  <2>2. X \in Seq(S) /\ CountOf(X, u, K) = xi
    <3>1. Takes(u, x, "INST") => x \in S /\ Weight(x, u, K) = J
      BY <1>b, <1>c, <1>d DEF Takes, CuMoves, Ofs, Outward
    <3>2. CountOf(<<x>>, u, K) = Weight(x, u, K) /\ CountOf(<<>>, u, K) = 0
      BY CountOne, CountEmpty
    <3> HIDE DEF J, S
    <3> QED
      BY <3>1, <3>2
  <2>3. n = q \o X
    BY Zenon DEF CuMoves
  <2>4. n \in Seq(S) /\ CountOf(n, u, K) = CountOf(q, u, K) + xi
    <3> HIDE DEF S, X, q, n, xi
    <3> QED
      BY <2>1, <2>2, <2>3, WhereConcat, ConcatProperties
  <2>5. CountOf(Queued(u), u, K)' = CountOf(IF d.acc THEN Tail(n) ELSE n, u, K)
    <3>1. inst_pop'[u] = d.acc
      BY DEF CuMoves
    <3> QED
      BY <3>1 DEF CountOf, Queued
  <2>6. d.acc => n # <<>>
    BY DEF CuMoves, UnitPlaces
  <2>7. d.acc => CountOf(n, u, K) = J + CountOf(Tail(n), u, K)
    <3>1. d.acc => Head(n) \in S
      <4> HIDE DEF S, n
      <4> QED
        BY <2>4, <2>6, HeadTailProperties
    <3>2. d.acc => Weight(Head(n), u, K) = J
      BY <1>b, <3>1 DEF Ofs
    <3> HIDE DEF S, n, J
    <3> QED
      BY <2>4, <2>6, <3>2, CountTail
  <2>8. /\ CountOf(q, u, K) \in Nat /\ CountOf(n, u, K) \in Nat
        /\ d.acc => CountOf(Tail(n), u, K) \in Nat
    <3> HIDE DEF S, n, q
    <3>1. d.acc => Tail(n) \in Seq(S)
      BY <2>4, <2>6, HeadTailProperties
    <3> QED
      BY <2>1, <2>4, <3>1, WhereType
  <2> HIDE DEF n, q, J, xi
  <2> QED
    BY <1>a, <2>4, <2>5, <2>7, <2>8 DEF q
<1>8. CountOf(recvq[u], u, K)' + rb = CountOf(recvq[u], u, K) + xd
  <2> DEFINE S == Ofs(u, "DATA")
             X == IF Takes(u, x, "DATA") THEN <<x>> ELSE <<>>
             q == IF d.rdy THEN Tail(recvq[u]) ELSE recvq[u]
  <2>1. recvq[u] \in Seq(S) /\ (d.rdy => recvq[u] # <<>>)
    BY <1>0 DEF UnitPlaces, CuMoves, DatapathCan
  <2>2. X \in Seq(S) /\ CountOf(X, u, K) = xd
    <3>1. Takes(u, x, "DATA") => x \in S
      BY <1>c, <1>d DEF Takes, CuMoves, Ofs, Outward
    <3>2. CountOf(<<x>>, u, K) = Weight(x, u, K) /\ CountOf(<<>>, u, K) = 0
      BY CountOne, CountEmpty
    <3> HIDE DEF S
    <3> QED
      BY <3>1, <3>2
  <2>3. q \in Seq(S)
    <3> HIDE DEF S
    <3> QED
      BY <2>1, HeadTailProperties
  <2>4. d.rdy => Weight(Head(recvq[u]), u, K) = rb
    <3>1. d.rdy => Head(recvq[u]) \in S
      <4> HIDE DEF S
      <4> QED
        BY <2>1, HeadTailProperties
    <3> QED
      BY <1>b, <3>1 DEF Ofs
  <2>5. CountOf(q, u, K) + rb = CountOf(recvq[u], u, K)
    <3>1. CountOf(recvq[u], u, K) \in Nat /\ CountOf(q, u, K) \in Nat
      <4> HIDE DEF S, q
      <4> QED
        BY <2>1, <2>3, WhereType
    <3>2. d.rdy => CountOf(recvq[u], u, K)
                     = Weight(Head(recvq[u]), u, K) + CountOf(Tail(recvq[u]), u, K)
      <4> HIDE DEF S
      <4> QED
        BY <2>1, CountTail
    <3>3. ~d.rdy => rb = 0
      OBVIOUS
    <3> HIDE DEF rb
    <3> QED
      BY <1>a, <2>4, <3>1, <3>2, <3>3
  <2>6. recvq'[u] = q \o X
    BY Zenon DEF CuMoves
  <2> HIDE DEF S, X, q, xd, rb
  <2>7. CountOf(q \o X, u, K) = CountOf(q, u, K) + xd /\ CountOf(q, u, K) \in Nat
    BY <2>2, <2>3, WhereConcat, WhereType
  <2>8. CountOf(recvq[u], u, K)' = CountOf(recvq'[u], u, K)
    BY DEF CountOf
  <2> QED
    BY <1>a, <2>5, <2>6, <2>7, <2>8
<1>9. CountOf(down[u], u, K)' + xi + xd + xc = CountOf(down[u], u, K)
  <2>1. down[u] \in Seq(Outward(u))
    BY <1>0 DEF UnitPlaces
  <2>2. CountOf(down[u], u, K)' = CountOf(down'[u], u, K)
    BY DEF CountOf
  <2>3. CASE Accepted(u, x)
    <3>1. x = Head(down[u]) /\ down[u] # <<>> /\ x \in Outward(u)
      BY <2>3 DEF CuMoves, Accepted, IsFlit, NoFlit
    <3>2. CountOf(down[u], u, K) = Weight(x, u, K) + CountOf(Tail(down[u]), u, K)
      BY <2>1, <3>1, CountTail
    <3>3. Weight(x, u, K) = xi + xd + xc
      <4>1. x.peer = u /\ x.type \in {"INST", "DATA", "CTRL"}
        BY <3>1 DEF Outward
      <4>2. \A t : Takes(u, x, t) <=> x.type = t
        BY <2>3 DEF Takes
      <4>3. CASE x.type = "INST"
        <5>1. Weight(x, u, K) = J /\ xi = J /\ xd = 0 /\ xc = 0
          BY <1>b, <4>1, <4>2, <4>3
        <5> HIDE DEF J, xi, xd, xc
        <5> QED
          BY <1>a, <5>1
      <4>4. CASE x.type = "DATA"
        <5>1. Weight(x, u, K) = xd /\ xi = 0 /\ xc = 0
          BY <4>1, <4>2, <4>4
        <5> HIDE DEF xi, xd, xc
        <5> QED
          BY <1>a, <5>1
      <4>5. CASE x.type = "CTRL"
        <5>1. Weight(x, u, K) = R /\ xi = 0 /\ xd = 0 /\ xc = R
          BY <1>b, <4>1, <4>2, <4>5
        <5> HIDE DEF R, xi, xd, xc
        <5> QED
          BY <1>a, <5>1
      <4> QED
        BY <4>1, <4>3, <4>4, <4>5
    <3>4. down'[u] = Tail(down[u])
      BY <2>3 DEF CuMoves
    <3>5. Tail(down[u]) \in Seq(Outward(u))
      BY <2>1, <3>1, HeadTailProperties
    <3>6. CountOf(Tail(down[u]), u, K) \in Nat
      BY <3>5, WhereType
    <3> HIDE DEF xi, xd, xc
    <3> QED
      BY <1>a, <2>2, <3>2, <3>3, <3>4, <3>6
  <2>4. CASE ~Accepted(u, x)
    <3>1. down'[u] = down[u] /\ xi = 0 /\ xd = 0 /\ xc = 0
      BY <2>4 DEF CuMoves, Takes
    <3>2. CountOf(down[u], u, K) \in Nat
      BY <2>1, WhereType
    <3> HIDE DEF xi, xd, xc
    <3> QED
      BY <2>2, <3>1, <3>2
  <2> QED
    BY <2>3, <2>4
<1>10. /\ Weight(orc_out, u, K)' = Weight(orc_out, u, K)
       /\ CountOf(tx, u, K)' = CountOf(tx, u, K)
       /\ One(disp_push /\ Is(DispFlit, u, K))' = One(disp_push /\ Is(DispFlit, u, K))
  <2>1. tx' = tx /\ orc_out' = orc_out /\ disp_push' = disp_push
        /\ prog_flit' = prog_flit /\ prog_dst' = prog_dst
    BY DEF OthersStay
  <2> QED
    BY <2>1 DEF Weight, One, Is, Kind, CountOf, DispFlit
<1>11. /\ CountOf(up[u], u, K) \in Nat /\ CountOf(sigq[u], u, K) \in Nat
       /\ CountOf(Queued(u), u, K) \in Nat /\ CountOf(recvq[u], u, K) \in Nat
       /\ CountOf(down[u], u, K) \in Nat
  <2>1. Queued(u) \in Seq(Ofs(u, "INST"))
    BY <1>0, HeadTailProperties DEF UnitPlaces, Queued
  <2> QED
    BY <1>0, <2>1, WhereType DEF UnitPlaces
<1>12. /\ CountOf(up[u], u, K)' \in Nat /\ CountOf(sigq[u], u, K)' \in Nat
       /\ CountOf(Queued(u), u, K)' \in Nat /\ CountOf(recvq[u], u, K)' \in Nat
       /\ CountOf(down[u], u, K)' \in Nat
  <2>1. /\ CountOf(up[u], u, K)' = CountOf(up'[u], u, K)
        /\ CountOf(sigq[u], u, K)' = CountOf(sigq'[u], u, K)
        /\ CountOf(recvq[u], u, K)' = CountOf(recvq'[u], u, K)
        /\ CountOf(down[u], u, K)' = CountOf(down'[u], u, K)
        /\ CountOf(Queued(u), u, K)' = CountOf(Queued(u)', u, K)
    BY DEF CountOf
  <2>2. Queued(u)' \in Seq(Ofs(u, "INST"))
    BY HeadTailProperties DEF UnitPlaces, Queued
  <2> QED
    BY <2>1, <2>2, WhereType DEF UnitPlaces
<1>13. /\ Weight(cu_out[u], u, K) \in Nat /\ Weight(cu_out[u], u, K)' \in Nat
       /\ Weight(orc_out, u, K) \in Nat /\ CountOf(tx, u, K) \in Nat
       /\ \A b : One(b) \in Nat
       /\ One(owed[u] /\ "burst" \in K)' \in Nat
       /\ One(ctrl_pend[u] /\ "read" \in K)' \in Nat
       /\ One(in_flight[u] /\ "job" \in K)' \in Nat
  <2>1. tx \in Seq(AllOutward)
    BY DEF PlacesOK
  <2>2. Weight(cu_out[u], u, K)' = Weight(cu_out'[u], u, K)
    BY DEF Weight, One, Is, Kind
  <2> QED
    BY <2>1, <2>2, WhereType, WeightType DEF One
<1> HIDE DEF m, t1, t2, t3, fj, aj, rb, xi, xd, xc, lost
<1>14. CountOwing(u, K)' + t2 + t3 + fj + lost = CountOwing(u, K) + rb + xc + aj
  BY <1>4, <1>5, <1>6, <1>13, <1>a DEF CountOwing
<1>15. /\ CountOwing(u, K) \in Nat /\ CountOwing(u, K)' \in Nat
  BY <1>13 DEF CountOwing
<1>16. CountUnit(u, K)' + lost = CountUnit(u, K) + xi + xd + xc
  BY <1>1, <1>2, <1>3, <1>7, <1>8, <1>14, <1>15, <1>11, <1>12, <1>13, <1>a
  DEF CountUnit
<1>17. CountSent(u, K)' + xi + xd + xc = CountSent(u, K)
  BY <1>9, <1>10, <1>11, <1>12, <1>13, <1>a DEF CountSent
<1>18. /\ CountUnit(u, K) \in Nat /\ CountUnit(u, K)' \in Nat
       /\ CountSent(u, K) \in Nat /\ CountSent(u, K)' \in Nat
  BY <1>10, <1>11, <1>12, <1>13, <1>15 DEF CountUnit, CountSent
<1>19. CountLine(u, K)' + lost = CountLine(u, K)
  BY <1>16, <1>17, <1>18, <1>a DEF CountLine
<1> QED
  BY <1>19 DEF lost

(***************************************************************************)
(* What all the lines hold.                                                *)
(***************************************************************************)
LEMMA InLineType ==
  ASSUME TypeOK, PlacesOK, DispOK, NEW K, "none" \notin K
  PROVE  /\ InLine(K) \in Nat
         /\ [v \in Unit |-> CountOf(Line(v), v, K)] \in [Unit -> Nat]
         /\ \A v \in Unit : CountOf(Line(v), v, K) <= InLine(K)
<1> DEFINE f == [v \in Unit |-> CountOf(Line(v), v, K)]
<1>1. ASSUME NEW v \in Unit PROVE CountOf(Line(v), v, K) \in Nat
  BY LineCount
<1>2. f \in [Unit -> Nat] /\ IsFiniteSet(Unit)
  BY <1>1, Constants
<1>3. ASSUME NEW v \in Unit PROVE f[v] <= Total(f)
  <2> HIDE DEF f
  <2> QED
    BY <1>2, TotalAt
<1>4. Total(f) \in Nat
  <2> HIDE DEF f
  <2> QED
    BY <1>2, TotalFun
<1>5. \A v \in Unit : f[v] = CountOf(Line(v), v, K)
  OBVIOUS
<1>6. InLine(K) = Total(f)
  BY DEF InLine
<1>7. \A v \in Unit : CountOf(Line(v), v, K) <= InLine(K)
  <2> HIDE DEF f
  <2> QED
    BY <1>3, <1>5, <1>6
<1> QED
  BY <1>2, <1>4, <1>6, <1>7

(* A step that changes the line of one unit only.                          *)
LEMMA InLineStep ==
  ASSUME TypeOK, PlacesOK, DispOK, TypeOK', PlacesOK', DispOK',
         NEW K, "none" \notin K, NEW u \in Unit,
         \A v \in Unit \ {u} : CountLine(v, K)' = CountLine(v, K)
  PROVE  /\ InLine(K) \in Nat /\ InLine(K)' \in Nat
         /\ CountLine(u, K) \in Nat /\ CountLine(u, K)' \in Nat
         /\ CountLine(u, K) <= InLine(K)
         /\ InLine(K)' + CountLine(u, K) = InLine(K) + CountLine(u, K)'
<1> DEFINE f == [v \in Unit |-> CountOf(Line(v), v, K)]
           g == [v \in Unit |-> CountOf(Line(v), v, K)']
<1>1. ASSUME NEW v \in Unit
      PROVE  /\ CountOf(Line(v), v, K) = CountLine(v, K) /\ CountLine(v, K) \in Nat
             /\ CountOf(Line(v), v, K)' = CountLine(v, K)' /\ CountLine(v, K)' \in Nat
  BY LineCount, LineCountNext
<1>2. /\ f \in [Unit -> Nat] /\ g \in [Unit -> Nat] /\ IsFiniteSet(Unit)
      /\ f[u] = CountLine(u, K) /\ g[u] = CountLine(u, K)'
  BY <1>1, Constants
<1>3. \A v \in Unit \ {u} : g[v] = f[v]
  BY <1>1
<1>4. InLine(K) = Total(f) /\ InLine(K)' = Total(g)
  BY DEF InLine
<1>5. /\ Total(f) \in Nat /\ Total(g) \in Nat
      /\ f[u] <= Total(f)
      /\ Total(g) + f[u] = Total(f) + g[u]
  <2> HIDE DEF f, g
  <2> QED
    BY <1>2, <1>3, TotalAt
<1> HIDE DEF f, g
<1> QED
  BY <1>1, <1>2, <1>4, <1>5

(* A clock edge of a unit adds nothing to the lines, and takes only a read *)
(* from them.                                                              *)
LEMMA CuInLine ==
  ASSUME TypeOK, PlacesOK, DispOK, TypeOK', PlacesOK', DispOK',
         NEW u \in Unit, NEW x \in Arriving(u),
         NEW d \in Datapath, CuEdge(u, x, d), NEW K, "none" \notin K
  PROVE  /\ InLine(K) \in Nat /\ InLine(K)' \in Nat
         /\ InLine(K)' <= InLine(K)
         /\ "read" \notin K => InLine(K)' = InLine(K)
<1>1. CuMoves(u, x, d) /\ (\A v \in Unit \ {u} : SameUnit(v)) /\ OthersStay
  BY CuPoint, CuOthers
<1>2. ASSUME NEW v \in Unit \ {u} PROVE CountLine(v, K)' = CountLine(v, K)
  <2>1. SameUnit(v)
    BY <1>1
  <2>2. /\ CountOf(up[v], v, K)' = CountOf(up[v], v, K)
        /\ CountOf(sigq[v], v, K)' = CountOf(sigq[v], v, K)
        /\ CountOf(recvq[v], v, K)' = CountOf(recvq[v], v, K)
        /\ CountOf(Queued(v), v, K)' = CountOf(Queued(v), v, K)
    BY <2>1 DEF SameUnit, CountOf, Queued
  <2>3. /\ Weight(cu_out[v], v, K)' = Weight(cu_out[v], v, K)
        /\ CountOwing(v, K)' = CountOwing(v, K)
    BY <2>1 DEF SameUnit, Weight, CountOwing, One, Is, Kind
  <2>4. CountSent(v, K)' = CountSent(v, K)
    <3>1. /\ down'[v] = down[v] /\ tx' = tx /\ orc_out' = orc_out
          /\ disp_push' = disp_push /\ prog_flit' = prog_flit
          /\ prog_dst' = prog_dst
      BY <1>1, <2>1 DEF SameUnit, OthersStay
    <3>2. /\ CountOf(down[v], v, K)' = CountOf(down[v], v, K)
          /\ CountOf(tx, v, K)' = CountOf(tx, v, K)
      BY <3>1 DEF CountOf
    <3>3. /\ Weight(orc_out, v, K)' = Weight(orc_out, v, K)
          /\ One(disp_push /\ Is(DispFlit, v, K))' = One(disp_push /\ Is(DispFlit, v, K))
      BY <3>1 DEF Weight, One, Is, Kind, DispFlit
    <3> QED
      BY <3>2, <3>3 DEF CountSent
  <2> QED
    BY <2>2, <2>3, <2>4 DEF CountLine, CountUnit
<1>3. /\ InLine(K) \in Nat /\ InLine(K)' \in Nat
      /\ CountLine(u, K) \in Nat /\ CountLine(u, K)' \in Nat
      /\ InLine(K)' + CountLine(u, K) = InLine(K) + CountLine(u, K)'
  BY <1>2, InLineStep
<1>4. CountLine(u, K)'
           + (IF Takes(u, x, "CTRL") /\ ctrl_pend[u] THEN One("read" \in K) ELSE 0)
           = CountLine(u, K)
  <2>1. UnitPlaces(u)'
    BY DEF PlacesOK
  <2> QED
    BY <1>1, <2>1, CuCount
<1> DEFINE l == IF Takes(u, x, "CTRL") /\ ctrl_pend[u] THEN One("read" \in K) ELSE 0
<1>5. l \in {0, 1} /\ ("read" \notin K => l = 0)
  BY DEF One
<1> HIDE DEF l
<1>6. CountLine(u, K)' + l = CountLine(u, K)
  BY <1>4 DEF l
<1> QED
  BY <1>3, <1>5, <1>6

(***************************************************************************)
(* A clock edge of a unit keeps what concerns the host, the dispatcher and *)
(* the counts.                                                             *)
(***************************************************************************)
LEMMA CuHost ==
  ASSUME OthersStay, HostOK, DispOK
  PROVE  HostOK' /\ DispOK'
<1>1. HostOK'
  BY DEF OthersStay, HostOK, WriteOK, ValuesOK, JobOK, Writing, Loading, TxFull,
         DstSet, BaseSet, LenSet
<1>2. DispOK'
  BY DEF OthersStay, DispOK, Calm, Left, TxFull
<1> QED
  BY <1>1, <1>2

(* An edge of a unit keeps the counts: a flit it takes in becomes what it  *)
(* owes for it, and a report what it owed.                                 *)
LEMMA CuCounts ==
  ASSUME TypeOK, PlacesOK, HostOK, DispOK, CreditCovers, SignalsOK, ReadsOK,
         NEW u \in Unit, NEW x \in Arriving(u),
         NEW d \in Datapath, CuEdge(u, x, d)
  PROVE  CreditCovers' /\ SignalsOK' /\ ReadsOK'
<1>1. TypeOK' /\ PlacesOK' /\ DispOK' /\ OthersStay
  BY CuTypes, CuOthers, CuHost
<1>2. CreditCovers'
  <2>1. InLine({"job"})' = InLine({"job"})
    BY <1>1, CuInLine
  <2>2. Outstanding = InLine({"job"}) /\ Outstanding' = InLine({"job"})'
    BY DEF Outstanding, OutstandingAt, InLine
  <2>3. prog_credit' = prog_credit /\ Uncharged' = Uncharged
    BY <1>1 DEF OthersStay, Uncharged, IsInst
  <2> QED
    BY <2>1, <2>2, <2>3 DEF CreditCovers
<1>3. SignalsOK'
  <2>1. InLine({"job", "burst"})' = InLine({"job", "burst"})
    BY <1>1, CuInLine
  <2>2. /\ Brings(Left)' = Brings(Left) /\ Loading' = Loading
        /\ Brings(Slots(job))' = Brings(Slots(job))
        /\ Clearing' = Clearing /\ hst' = hst /\ total' = total
        /\ Writing("PROG_CRED")' = Writing("PROG_CRED")
        /\ sig_done_count' = sig_done_count
    BY <1>1 DEF OthersStay, Brings, Left, Loading, Slots, Clearing, Writing
  <2>3. Coming' = Coming
    BY <2>1, <2>2 DEF Coming
  <2> QED
    BY <2>2, <2>3 DEF SignalsOK
<1>4. ReadsOK'
  <2>1. /\ InLine({"read"})' <= InLine({"read"})
        /\ InLine({"read"}) \in Nat /\ InLine({"read"})' \in Nat
    BY <1>1, CuInLine
  <2>2. /\ Len(rx)' = Len(rx) /\ Reading' = Reading
        /\ Writing("TX_KICK")' = Writing("TX_KICK")
    BY <1>1 DEF OthersStay, Reading, Writing
  <2>3. /\ Len(rx) \in Nat /\ One(Reading) \in Nat /\ One(Writing("TX_KICK")) \in Nat
        /\ One(Reading)' = One(Reading)
        /\ One(Writing("TX_KICK"))' = One(Writing("TX_KICK"))
    BY <2>2, LenProperties DEF One, PlacesOK
  <2>4. ReadOut' => ReadOut /\ prog_run' = prog_run /\ disp_push' = disp_push
    BY <1>1, <2>1 DEF OthersStay, ReadOut
  <2> QED
    BY <2>1, <2>2, <2>3, <2>4 DEF ReadsOK
<1> QED
  BY <1>2, <1>3, <1>4

-----------------------------------------------------------------------------
(***************************************************************************)
(* Reads: an idle unit stays idle while nothing is sent to it.             *)
(***************************************************************************)
LEMMA IdleStays ==
  ASSUME TypeOK, PlacesOK, NEW u \in Unit, NEW x, NEW d \in Datapath,
         CuMoves(u, x, d), Idle(u), ~Takes(u, x, "INST")
  PROVE  /\ Idle(u)'
         /\ Kind(cu_out[u]) # "job" => Kind(cu_out'[u]) # "job"
         /\ Sends(u) => Kind(cu_out'[u]) # "job"
<1>1. /\ instq[u] = <<>> /\ ~in_flight[u] /\ sigq[u] = <<>>
      /\ ~inst_pop[u]
  BY DEF Idle, PlacesOK, UnitPlaces
<1>2. ~d.acc /\ ~d.fin /\ ~SigSent(u, UpBusy(u))
  BY <1>1 DEF CuMoves, DatapathCan, InstValid, SigSent
<1>3. instq'[u] = <<>>
  <2>1. Queued(u) = <<>>
    BY <1>1 DEF Queued
  <2>2. instq'[u] = Queued(u) \o <<>>
    BY Zenon DEF CuMoves
  <2> QED
    BY <2>1, <2>2
<1>4. ~in_flight'[u] /\ sigq'[u] = <<>>
  BY <1>1, <1>2 DEF CuMoves
<1>5. cu_out'[u] \in {CtrlReply(u, ctrl_val[u]), Signal(u, 0, "DATA_RECEIVED"), NoFlit}
      \/ (UpBusy(u) /\ cu_out'[u] = cu_out[u])
  BY <1>2 DEF CuMoves
<1>6. /\ Kind(CtrlReply(u, ctrl_val[u])) # "job"
      /\ Kind(Signal(u, 0, "DATA_RECEIVED")) # "job"
      /\ Kind(NoFlit) # "job"
  BY KindOf DEF CtrlReply, Signal, NoFlit
<1>7. Sends(u) => ~UpBusy(u)
  BY DEF Sends
<1> QED
  BY <1>3, <1>4, <1>5, <1>6, <1>7 DEF Idle

(* An edge of a unit keeps what is said of reads and their answers.        *)
LEMMA CuQuiet ==
  ASSUME TypeOK, PlacesOK, QuietOK, NEW u \in Unit, NEW x \in Arriving(u),
         NEW d \in Datapath, CuEdge(u, x, d)
  PROVE  QuietOK'
<1>1. CuMoves(u, x, d) /\ (\A v \in Unit \ {u} : SameUnit(v)) /\ OthersStay
  BY CuPoint, CuOthers
<1>2. UnitPlaces(u)
  BY DEF PlacesOK
<1>3. /\ down[u] \in Seq(Outward(u)) /\ Len(down[u]) \in Nat
      /\ DOMAIN down[u] = 1 .. Len(down[u])
      /\ up[u] \in Seq(Inward(u)) /\ Len(up[u]) \in Nat
      /\ DOMAIN up[u] = 1 .. Len(up[u])
  BY <1>2, LenProperties DEF UnitPlaces
<1>4. NothingSent' <=> NothingSent
  BY <1>1 DEF OthersStay, NothingSent
<1>5. Accepted(u, x) => down[u] # <<>> /\ x = down[u][1]
  BY <1>1, <1>3 DEF CuMoves, Accepted, IsFlit, NoFlit
<1>6. SentOK'
  <2>1. ASSUME NEW v \in Unit, NEW i \in DOMAIN down'[v], down'[v][i].type = "CTRL"
        PROVE  i = Len(down'[v]) /\ NothingSent
    <3>1. CASE v = u /\ Accepted(u, x)
      <4>1. down'[u] = Tail(down[u]) /\ down[u] # <<>>
        BY <1>1, <1>5, <3>1 DEF CuMoves
      <4>2. /\ DOMAIN down'[u] = 1 .. Len(down[u]) - 1
            /\ Len(down'[u]) = Len(down[u]) - 1
            /\ \A k \in 1 .. Len(down[u]) - 1 : down'[u][k] = down[u][k + 1]
        BY <1>3, <4>1, HeadTailProperties, LenProperties
      <4>3. i \in 1 .. Len(down[u]) - 1 /\ down[u][i + 1].type = "CTRL"
        BY <2>1, <3>1, <4>2
      <4>4. i + 1 \in DOMAIN down[u]
        BY <1>3, <4>3
      <4>5. i + 1 = Len(down[u]) /\ NothingSent
        BY <4>3, <4>4 DEF QuietOK, SentOK
      <4> QED
        BY <1>3, <3>1, <4>2, <4>3, <4>5
    <3>2. CASE ~(v = u /\ Accepted(u, x))
      <4>1. down'[v] = down[v]
        BY <1>1, <3>2 DEF CuMoves, SameUnit
      <4> QED
        BY <2>1, <4>1 DEF QuietOK, SentOK
    <3> QED
      BY <3>1, <3>2
  <2>2. /\ \A i \in DOMAIN tx' : tx'[i].type = "CTRL" => i = Len(tx') /\ ~disp_push'
        /\ orc_out'.type = "CTRL" => tx' = <<>> /\ ~disp_push'
    BY <1>1 DEF OthersStay, QuietOK, SentOK
  <2> QED
    BY <1>4, <2>1, <2>2 DEF SentOK
<1>7. ASSUME NEW v \in Unit \ {u} PROVE AnswerOK(v)'
  BY <1>1, <1>4 DEF SameUnit, OthersStay, QuietOK, AnswerOK, Answered, Idle, SaysIdle,
                    Kind, IsSignal
<1>8. AnswerOK(u)
  BY DEF QuietOK
<1>9. Takes(u, x, "CTRL") => down'[u] = <<>> /\ NothingSent
  <2>1. ASSUME Takes(u, x, "CTRL")
        PROVE  1 \in DOMAIN down[u] /\ down[u][1].type = "CTRL" /\ down[u] # <<>>
    BY <1>3, <1>5, <2>1 DEF Takes
  <2>2. Takes(u, x, "CTRL") => 1 = Len(down[u]) /\ NothingSent
    BY <2>1 DEF QuietOK, SentOK
  <2>3. Takes(u, x, "CTRL") => down'[u] = Tail(down[u])
    BY <1>1 DEF CuMoves, Takes
  <2> QED
    <3>1. down[u] \in Seq(Outward(u))
      BY <1>3
    <3>2. 1 = Len(down[u]) => Tail(down[u]) = <<>>
      BY <3>1, TailOne, Zenon
    <3> QED
      BY <2>2, <2>3, <3>2, Zenon
<1>10. Answered(u) => down[u] = <<>> /\ NothingSent /\ ~Accepted(u, x) /\ down'[u] = <<>>
  <2>1. Answered(u) => down[u] = <<>> /\ NothingSent
    BY <1>8 DEF AnswerOK
  <2>2. ~Accepted(u, x) => down'[u] = down[u]
    BY <1>1 DEF CuMoves
  <2> QED
    BY <1>5, <2>1, <2>2
<1>11. \A t : Takes(u, x, t) => ~Answered(u)
  BY <1>10 DEF Takes
<1>12. cu_out'[u].type = "CTRL" =>
         \/ ctrl_pend[u] /\ CtrlSent(u, UpBusy(u)) /\ cu_out'[u] = CtrlReply(u, ctrl_val[u])
         \/ UpBusy(u) /\ cu_out[u].type = "CTRL" /\ cu_out'[u] = cu_out[u]
  <2>1. SigSent(u, UpBusy(u)) => Head(sigq[u]).type = "SIGNAL"
    <3>1. SigSent(u, UpBusy(u)) =>
            Head(sigq[u]) \in {f \in Ofs(u, "SIGNAL") : f.code # "DATA_RECEIVED"}
      BY <1>2, HeadTailProperties DEF UnitPlaces, SigSent
    <3> QED
      BY <3>1 DEF Ofs
  <2>2. Signal(u, 0, "DATA_RECEIVED").type = "SIGNAL" /\ NoFlit.type = "NONE"
    BY DEF Signal, NoFlit
  <2>3. cu_out'[u] = IF SigSent(u, UpBusy(u)) THEN Head(sigq[u])
                  ELSE IF CtrlSent(u, UpBusy(u)) THEN CtrlReply(u, ctrl_val[u])
                  ELSE IF owed[u] /\ SendReady(u, UpBusy(u))
                       THEN Signal(u, 0, "DATA_RECEIVED")
                  ELSE IF UpBusy(u) THEN cu_out[u] ELSE NoFlit
    BY <1>1 DEF CuMoves
  <2> QED
    BY <2>1, <2>2, <2>3 DEF CtrlSent
<1>13. /\ DOMAIN up'[u] = 1 .. Len(up'[u])
       /\ \A i \in DOMAIN up'[u] :
            \/ i \in DOMAIN up[u] /\ up'[u][i] = up[u][i]
            \/ /\ Sends(u) /\ up'[u][i] = cu_out[u]
               /\ i = Len(up[u]) + 1 /\ Len(up'[u]) = Len(up[u]) + 1
  <2>1. CASE Sends(u)
    <3>1. cu_out[u] \in Inward(u) /\ up'[u] = Append(up[u], cu_out[u])
      BY <1>1, <1>2, <2>1, SMTT(40) DEF UnitPlaces, Sends, IsFlit, NoFlit, CuMoves
    <3>2. /\ DOMAIN up'[u] = 1 .. Len(up[u]) + 1 /\ Len(up'[u]) = Len(up[u]) + 1
          /\ \A i \in 1 .. Len(up[u]) : up'[u][i] = up[u][i]
          /\ up'[u][Len(up[u]) + 1] = cu_out[u]
      BY <1>3, <3>1, AppendProperties, LenProperties
    <3>3. \A i \in 1 .. Len(up[u]) + 1 : i \in 1 .. Len(up[u]) \/ i = Len(up[u]) + 1
      BY <1>3
    <3> QED
      BY <1>3, <2>1, <3>2, <3>3
  <2>2. CASE ~Sends(u)
    BY <1>1, <1>3, <2>2 DEF CuMoves
  <2> QED
    BY <2>1, <2>2
<1>14. Answered(u)' => Takes(u, x, "CTRL") \/ Answered(u)
  <2>1. ctrl_pend'[u] => Takes(u, x, "CTRL") \/ ctrl_pend[u]
    BY <1>1 DEF CuMoves
  <2>2. cu_out'[u].type = "CTRL" => Answered(u)
    BY <1>12 DEF Answered
  <2>3. (\E i \in DOMAIN up'[u] : up'[u][i].type = "CTRL") => Answered(u)
    BY <1>13 DEF Answered
  <2>4. rx' = rx
    BY <1>1 DEF OthersStay
  <2> QED
    BY <2>1, <2>2, <2>3, <2>4 DEF Answered
<1>15. Answered(u)' => down'[u] = <<>> /\ NothingSent'
  BY <1>4, <1>9, <1>10, <1>14
<1>16. ctrl_pend'[u] /\ ctrl_val'[u] = "IDLE" => Idle(u)'
  <2>1. CASE Takes(u, x, "CTRL") /\ ~ctrl_pend[u]
    <3>1. ctrl_val'[u] = "IDLE" => Idle(u)
      BY <1>1, <2>1 DEF CuMoves, CuBusy, Idle
    <3>2. ~Takes(u, x, "INST")
      BY <2>1 DEF Takes
    <3> QED
      BY <1>1, <3>1, <3>2, IdleStays
  <2>2. CASE ~(Takes(u, x, "CTRL") /\ ~ctrl_pend[u]) /\ ctrl_pend'[u]
    <3>1. ctrl_pend[u] /\ ctrl_val'[u] = ctrl_val[u]
      BY <1>1, <2>2 DEF CuMoves
    <3>2. ~Takes(u, x, "INST")
      BY <1>11, <3>1 DEF Answered
    <3>3. ctrl_val'[u] = "IDLE" => Idle(u)
      BY <1>8, <3>1 DEF AnswerOK
    <3> QED
      BY <1>1, <3>2, <3>3, IdleStays
  <2> QED
    BY <2>1, <2>2
<1>17. SaysIdle(cu_out'[u]) => Idle(u)'
  <2>1. ASSUME SaysIdle(cu_out'[u]) PROVE Idle(u) /\ Answered(u)
    <3>1. CASE ctrl_pend[u] /\ cu_out'[u] = CtrlReply(u, ctrl_val[u])
      <4>1. ctrl_val[u] = "IDLE"
        BY <2>1, <3>1 DEF SaysIdle, CtrlReply
      <4> QED
        BY <1>8, <3>1, <4>1 DEF AnswerOK, Answered
    <3>2. CASE cu_out[u].type = "CTRL" /\ cu_out'[u] = cu_out[u]
      BY <1>8, <2>1, <3>2 DEF AnswerOK, Answered
    <3> QED
      BY <1>12, <2>1, <3>1, <3>2 DEF SaysIdle
  <2>2. Answered(u) => ~Takes(u, x, "INST")
    BY <1>11
  <2> QED
    BY <1>1, <2>1, <2>2, IdleStays
<1>18. ASSUME NEW i \in DOMAIN up'[u], SaysIdle(up'[u][i])
       PROVE  /\ Idle(u)' /\ Kind(cu_out'[u]) # "job"
              /\ \A j \in DOMAIN up'[u] : j > i => Kind(up'[u][j]) # "job"
  <2>1. CASE i \in DOMAIN up[u] /\ up'[u][i] = up[u][i]
    <3>1. /\ Idle(u) /\ Kind(cu_out[u]) # "job"
          /\ \A j \in DOMAIN up[u] : j > i => Kind(up[u][j]) # "job"
          /\ Answered(u)
      BY <1>8, <1>18, <2>1 DEF AnswerOK, Answered, SaysIdle
    <3>2. Idle(u)' /\ Kind(cu_out'[u]) # "job"
      BY <1>1, <1>11, <3>1, IdleStays
    <3>3. \A j \in DOMAIN up'[u] : j > i => Kind(up'[u][j]) # "job"
      BY <1>13, <3>1
    <3> QED
      BY <3>2, <3>3
  <2>2. CASE /\ Sends(u) /\ up'[u][i] = cu_out[u]
             /\ i = Len(up[u]) + 1 /\ Len(up'[u]) = Len(up[u]) + 1
    <3>1. Idle(u) /\ Answered(u)
      BY <1>8, <1>18, <2>2 DEF AnswerOK, Answered, SaysIdle
    <3>2. Idle(u)' /\ Kind(cu_out'[u]) # "job"
      BY <1>1, <1>11, <2>2, <3>1, IdleStays
    <3>3. \A j \in DOMAIN up'[u] : ~(j > i)
      BY <1>3, <1>13, <2>2
    <3> QED
      BY <3>2, <3>3
  <2> QED
    BY <1>13, <2>1, <2>2
<1>19. ASSUME NEW i \in DOMAIN rx', rx'[i].peer = u, rx'[i].code = "IDLE"
       PROVE  /\ Idle(u)' /\ Kind(cu_out'[u]) # "job"
              /\ \A j \in DOMAIN up'[u] : Kind(up'[u][j]) # "job"
  <2>1. rx' = rx
    BY <1>1 DEF OthersStay
  <2>2. /\ Idle(u) /\ Kind(cu_out[u]) # "job"
        /\ \A j \in DOMAIN up[u] : Kind(up[u][j]) # "job"
        /\ Answered(u)
    BY <1>8, <1>19, <2>1 DEF AnswerOK, Answered
  <2>3. Idle(u)' /\ Kind(cu_out'[u]) # "job"
    BY <1>1, <1>11, <2>2, IdleStays
  <2>4. \A j \in DOMAIN up'[u] : Kind(up'[u][j]) # "job"
    BY <1>13, <2>2
  <2> QED
    BY <2>3, <2>4
<1>20. AnswerOK(u)'
  <2>1. /\ SaysIdle(cu_out[u])' <=> SaysIdle(cu_out'[u])
        /\ \A i : SaysIdle(up[u][i])' <=> SaysIdle(up'[u][i])
        /\ Kind(cu_out[u])' = Kind(cu_out'[u])
        /\ \A i : Kind(up[u][i])' = Kind(up'[u][i])
    BY DEF SaysIdle, Kind
  <2> QED
    BY <1>15, <1>16, <1>17, <1>18, <1>19, <2>1 DEF AnswerOK
<1> QED
  BY <1>6, <1>7, <1>20 DEF QuietOK

(***************************************************************************)
(* Bursts: what a queue's flits have behind them.                          *)
(***************************************************************************)
LEMMA EndsAppend ==
  ASSUME NEW S, NEW s \in Seq(S), NEW f \in S, NEW u
  PROVE  Ends(Append(s, f), u) <=> Ends(s, u) \/ EndsBurst(f, u)
<1>1. /\ Len(s) \in Nat /\ DOMAIN s = 1 .. Len(s)
      /\ DOMAIN Append(s, f) = 1 .. Len(s) + 1
      /\ \A i \in 1 .. Len(s) : Append(s, f)[i] = s[i]
      /\ Append(s, f)[Len(s) + 1] = f
  BY AppendProperties, LenProperties
<1> DEFINE a == Append(s, f)
<1>2. \A i \in 1 .. Len(s) + 1 : i \in 1 .. Len(s) \/ i = Len(s) + 1
  BY <1>1
<1>3. Len(s) + 1 \in 1 .. Len(s) + 1 /\ (1 .. Len(s)) \subseteq 1 .. Len(s) + 1
  BY <1>1
<1> QED
  BY <1>1, <1>2, <1>3 DEF Ends

(* A data flit may be appended that ends its burst or has the end of it    *)
(* following.                                                              *)
LEMMA WholeAppend ==
  ASSUME NEW S, NEW s \in Seq(S), NEW f \in S, NEW u, NEW more \in BOOLEAN,
         IsData(f, u) => more \/ EndsBurst(f, u),
         Whole(s, u, more \/ EndsBurst(f, u))
  PROVE  Whole(Append(s, f), u, more)
<1>1. /\ Len(s) \in Nat /\ DOMAIN s = 1 .. Len(s)
      /\ DOMAIN Append(s, f) = 1 .. Len(s) + 1
      /\ \A i \in 1 .. Len(s) : Append(s, f)[i] = s[i]
      /\ Append(s, f)[Len(s) + 1] = f
  BY AppendProperties, LenProperties
<1> DEFINE a == Append(s, f)
<1>2. \A i \in 1 .. Len(s) + 1 : i \in 1 .. Len(s) \/ i = Len(s) + 1
  BY <1>1
<1>3. /\ Len(s) + 1 \in 1 .. Len(s) + 1 /\ (1 .. Len(s)) \subseteq 1 .. Len(s) + 1
      /\ \A i \in 1 .. Len(s) : Len(s) + 1 >= i
  BY <1>1
<1> HIDE DEF a
<1>4. ASSUME NEW i \in DOMAIN a, IsData(a[i], u)
      PROVE  more \/ \E j \in DOMAIN a : j >= i /\ EndsBurst(a[j], u)
  <2>1. CASE i \in 1 .. Len(s)
    <3>1. IsData(s[i], u) /\ i \in DOMAIN s
      BY <1>1, <1>4, <2>1 DEF a
    <3>2. \/ more \/ EndsBurst(f, u)
          \/ \E j \in DOMAIN s : j >= i /\ EndsBurst(s[j], u)
      BY <3>1 DEF Whole
    <3> QED
      BY <1>1, <1>3, <2>1, <3>2 DEF a
  <2>2. CASE i = Len(s) + 1
    <3>1. IsData(f, u) /\ a[Len(s) + 1] = f
      BY <1>1, <1>4, <2>2 DEF a
    <3>2. Len(s) + 1 \in DOMAIN a /\ Len(s) + 1 >= i
      BY <1>1, <1>3, <2>2 DEF a
    <3> QED
      BY <3>1, <3>2
  <2> QED
    BY <1>1, <1>2, <1>4, <2>1, <2>2 DEF a
<1> QED
  BY <1>4 DEF Whole, a

(* What remains of bursts when the first flit of a place leaves it.        *)
LEMMA EndsTail ==
  ASSUME NEW S, NEW s \in Seq(S), s # <<>>, NEW u
  PROVE  /\ Ends(s, u) <=> EndsBurst(Head(s), u) \/ Ends(Tail(s), u)
         /\ \A more \in BOOLEAN : Whole(s, u, more) =>
              /\ Whole(Tail(s), u, more)
              /\ IsData(Head(s), u) =>
                   more \/ EndsBurst(Head(s), u) \/ Ends(Tail(s), u)
<1> DEFINE t == Tail(s)
<1>1. /\ Len(s) \in Nat /\ Len(s) >= 1 /\ DOMAIN s = 1 .. Len(s)
      /\ DOMAIN t = 1 .. Len(s) - 1 /\ Head(s) = s[1]
      /\ \A i \in 1 .. Len(s) - 1 : t[i] = s[i + 1]
  BY HeadTailProperties, LenProperties, EmptySeq
<1>2. /\ \A i \in 1 .. Len(s) - 1 : i + 1 \in 1 .. Len(s)
      /\ \A i \in 1 .. Len(s) : i = 1 \/ (i - 1 \in 1 .. Len(s) - 1 /\ (i - 1) + 1 = i)
      /\ 1 \in 1 .. Len(s)
  BY <1>1
<1> HIDE DEF t
<1>3. Ends(s, u) <=> EndsBurst(Head(s), u) \/ Ends(t, u)
  <2>1. ASSUME NEW i \in DOMAIN s, EndsBurst(s[i], u)
        PROVE  EndsBurst(s[1], u) \/ \E j \in DOMAIN t : EndsBurst(t[j], u)
    <3>1. CASE i = 1
      BY <2>1, <3>1
    <3>2. CASE i # 1
      <4>1. i - 1 \in DOMAIN t /\ t[i - 1] = s[(i - 1) + 1] /\ (i - 1) + 1 = i
        BY <1>1, <1>2, <3>2
      <4> QED
        BY <2>1, <4>1
    <3> QED
      BY <3>1, <3>2
  <2>2. ASSUME NEW j \in DOMAIN t, EndsBurst(t[j], u)
        PROVE  \E i \in DOMAIN s : EndsBurst(s[i], u)
    BY <1>1, <1>2, <2>2
  <2> QED
    BY <1>1, <1>2, <2>1, <2>2 DEF Ends
<1>4. ASSUME NEW more \in BOOLEAN, Whole(s, u, more)
      PROVE  /\ Whole(t, u, more)
             /\ IsData(Head(s), u) =>
                  more \/ EndsBurst(Head(s), u) \/ Ends(t, u)
  <2>1. ASSUME NEW i \in DOMAIN t, IsData(t[i], u)
        PROVE  more \/ \E j \in DOMAIN t : j >= i /\ EndsBurst(t[j], u)
    <3>1. i + 1 \in DOMAIN s /\ IsData(s[i + 1], u) /\ i \in Int /\ i >= 1
      BY <1>1, <1>2, <2>1
    <3>2. more \/ \E j \in DOMAIN s : j >= i + 1 /\ EndsBurst(s[j], u)
      BY <1>4, <3>1 DEF Whole
    <3>3. ASSUME NEW j \in DOMAIN s, j >= i + 1, EndsBurst(s[j], u)
          PROVE  \E k \in DOMAIN t : k >= i /\ EndsBurst(t[k], u)
      <4>1. j - 1 \in DOMAIN t /\ t[j - 1] = s[(j - 1) + 1] /\ (j - 1) + 1 = j
            /\ j - 1 >= i
        BY <1>1, <1>2, <3>1, <3>3
      <4> QED
        BY <3>3, <4>1
    <3> QED
      BY <3>2, <3>3
  <2>2. Whole(t, u, more)
    BY <2>1 DEF Whole
  <2>3. IsData(Head(s), u) => more \/ Ends(s, u)
    BY <1>1, <1>2, <1>4 DEF Whole, Ends
  <2> QED
    BY <1>3, <2>2, <2>3
<1> QED
  BY <1>3, <1>4 DEF t

(* More to come is enough, whatever the queue itself ends with.            *)
LEMMA WholeWeaker ==
  ASSUME NEW s, NEW u, NEW a \in BOOLEAN, NEW b \in BOOLEAN, a => b,
         Whole(s, u, a)
  PROVE  Whole(s, u, b)
BY DEF Whole

(* What is said of the ends of bursts is true or false.                    *)
LEMMA MoreBool ==
  ASSUME NEW u
  PROVE  /\ MoreLeft(u) \in BOOLEAN /\ MorePushed(u) \in BOOLEAN
         /\ MoreTx(u) \in BOOLEAN /\ MoreOut(u) \in BOOLEAN
         /\ MoreDown(u) \in BOOLEAN
         /\ \A fs : Ends(fs, u) \in BOOLEAN
         /\ \A f : EndsBurst(f, u) \in BOOLEAN /\ IsData(f, u) \in BOOLEAN
BY DEF MoreLeft, MorePushed, MoreTx, MoreOut, MoreDown, Ends, EndsBurst, IsData

(* An edge of a unit keeps every burst whole.                              *)
LEMMA CuBursts ==
  ASSUME TypeOK, PlacesOK, BurstsOK, NEW u \in Unit, NEW x \in Arriving(u),
         NEW d \in Datapath, CuEdge(u, x, d)
  PROVE  BurstsOK'
<1> DEFINE S == Outward(u)
           D == Ofs(u, "DATA")
           mo == MoreOut(u)
           R == IF d.rdy THEN Tail(recvq[u]) ELSE recvq[u]
<1>1. CuMoves(u, x, d) /\ (\A v \in Unit \ {u} : SameUnit(v)) /\ OthersStay
  BY CuPoint, CuOthers
<1>2. UnitPlaces(u) /\ BurstOK(u)
  BY DEF PlacesOK, BurstsOK
<1>3. ASSUME NEW v
      PROVE  /\ MoreLeft(v)' = MoreLeft(v) /\ MorePushed(v)' = MorePushed(v)
             /\ MoreTx(v)' = MoreTx(v) /\ MoreOut(v)' = MoreOut(v)
  <2>1. /\ prog_run' = prog_run /\ prog_dst' = prog_dst /\ prog_rd' = prog_rd
        /\ prog_left' = prog_left /\ disp_push' = disp_push
        /\ prog_flit' = prog_flit /\ tx' = tx /\ orc_out' = orc_out
    BY <1>1 DEF OthersStay
  <2>2. MoreLeft(v)' = MoreLeft(v)
    BY <2>1 DEF MoreLeft, Left, LastData
  <2>3. MorePushed(v)' = MorePushed(v)
    BY <2>1, <2>2 DEF MorePushed, EndsBurst, IsData, DispFlit
  <2>4. MoreTx(v)' = MoreTx(v)
    BY <2>1, <2>3 DEF MoreTx, Ends, EndsBurst, IsData
  <2>5. MoreOut(v)' = MoreOut(v)
    BY <2>1, <2>4 DEF MoreOut, EndsBurst, IsData
  <2> QED
    BY <2>2, <2>3, <2>4, <2>5
<1>4. ASSUME NEW v
      PROVE  /\ (IsData(orc_out, v) => MoreOut(v))' <=> (IsData(orc_out, v) => MoreOut(v))
             /\ Whole(tx, v, MorePushed(v))' <=> Whole(tx, v, MorePushed(v))
             /\ (disp_push /\ IsData(DispFlit, v) => MorePushed(v))'
                  <=> (disp_push /\ IsData(DispFlit, v) => MorePushed(v))
  <2>1. /\ prog_dst' = prog_dst /\ disp_push' = disp_push
        /\ prog_flit' = prog_flit /\ tx' = tx /\ orc_out' = orc_out
    BY <1>1 DEF OthersStay
  <2>2. MorePushed(v)' = MorePushed(v) /\ MoreOut(v)' = MoreOut(v)
    BY <1>3
  <2> QED
    BY <2>1, <2>2 DEF Whole, IsData, EndsBurst, DispFlit
<1>5. ASSUME NEW v \in Unit \ {u} PROVE BurstOK(v)'
  <2>1. BurstOK(v) /\ SameUnit(v)
    BY <1>1 DEF BurstsOK
  <2>2. recvq'[v] = recvq[v] /\ down'[v] = down[v]
    BY <2>1 DEF SameUnit
  <2>3. MoreDown(v)' = MoreDown(v)
    BY <1>3, <2>2 DEF MoreDown, Ends, EndsBurst, IsData
  <2>4. Whole(recvq[v], v, MoreDown(v))' /\ Whole(down[v], v, MoreOut(v))'
    BY <1>3, <2>1, <2>2, <2>3 DEF BurstOK, Whole, EndsBurst, IsData
  <2> QED
    BY <1>4, <2>1, <2>4 DEF BurstOK
<1>6. mo \in BOOLEAN /\ Ends(down[u], u) \in BOOLEAN /\ EndsBurst(x, u) \in BOOLEAN
      /\ Ends(Tail(down[u]), u) \in BOOLEAN
      /\ (Ends(down[u], u) \/ mo) \in BOOLEAN
  BY MoreBool
<1>7. /\ recvq[u] \in Seq(D) /\ (d.rdy => recvq[u] # <<>>) /\ R \in Seq(D)
  <2>1. recvq[u] \in Seq(D) /\ (d.rdy => recvq[u] # <<>>)
    BY <1>1, <1>2 DEF UnitPlaces, CuMoves, DatapathCan
  <2> HIDE DEF D
  <2> QED
    BY <2>1, HeadTailProperties
<1>8. Whole(R, u, Ends(down[u], u) \/ mo)
  <2>1. Whole(recvq[u], u, Ends(down[u], u) \/ mo)
    BY <1>2 DEF BurstOK, MoreDown
  <2>2. d.rdy => Whole(Tail(recvq[u]), u, Ends(down[u], u) \/ mo)
    <3> DEFINE m == Ends(down[u], u) \/ mo
    <3>1. m \in BOOLEAN /\ Whole(recvq[u], u, m)
      BY <1>6, <2>1
    <3> HIDE DEF m, D
    <3>2. d.rdy => Whole(Tail(recvq[u]), u, m)
      BY <1>7, <3>1, EndsTail
    <3> QED
      BY <3>2 DEF m
  <2> QED
    BY <2>1, <2>2
<1>9. /\ Whole(recvq'[u], u, Ends(down'[u], u) \/ mo)
      /\ Whole(down'[u], u, mo)
  <2>1. Whole(down[u], u, mo)
    BY <1>2 DEF BurstOK
  <2>2. recvq'[u] = R \o (IF Takes(u, x, "DATA") THEN <<x>> ELSE <<>>)
    BY <1>1, Zenon DEF CuMoves
  <2>3. CASE Accepted(u, x)
    <3>1. /\ down[u] # <<>> /\ x = Head(down[u]) /\ x \in Outward(u)
          /\ down[u] \in Seq(S) /\ down'[u] = Tail(down[u])
      BY <1>1, <1>2, <2>3 DEF UnitPlaces, CuMoves, Accepted, IsFlit, NoFlit
    <3>2. /\ Ends(down[u], u) <=> EndsBurst(x, u) \/ Ends(Tail(down[u]), u)
          /\ Whole(Tail(down[u]), u, mo)
          /\ IsData(x, u) => mo \/ EndsBurst(x, u) \/ Ends(Tail(down[u]), u)
      <4> HIDE DEF S, mo
      <4> QED
        BY <1>6, <2>1, <3>1, EndsTail
    <3>3. Whole(down'[u], u, mo)
      BY <3>1, <3>2
    <3> DEFINE m == Ends(Tail(down[u]), u) \/ mo
    <3>4. m \in BOOLEAN
      BY <1>6
    <3>5. CASE Takes(u, x, "DATA")
      <4>1. recvq'[u] = Append(R, x) /\ x \in D
        <5>1. x \in D
          BY <3>1, <3>5 DEF Takes, Outward, Ofs
        <5>2. recvq'[u] = R \o <<x>>
          BY <2>2, <3>5
        <5> HIDE DEF R, D
        <5> QED
          BY <1>7, <5>1, <5>2
      <4>2. /\ IsData(x, u) => m \/ EndsBurst(x, u)
            /\ (m \/ EndsBurst(x, u)) = (Ends(down[u], u) \/ mo)
        BY <1>6, <3>2
      <4>3. Whole(R, u, m \/ EndsBurst(x, u))
        BY <1>8, <4>2
      <4> HIDE DEF m, R, D
      <4>4. Whole(Append(R, x), u, m)
        BY <1>7, <3>4, <4>1, <4>2, <4>3, WholeAppend
      <4> QED
        BY <3>1, <3>3, <4>1, <4>4 DEF m
    <3>6. CASE ~Takes(u, x, "DATA")
      <4>1. ~EndsBurst(x, u)
        BY <2>3, <3>6 DEF Takes, EndsBurst, IsData
      <4>2. recvq'[u] = R
        <5>1. recvq'[u] = R \o <<>>
          BY <2>2, <3>6
        <5> HIDE DEF R, D
        <5> QED
          BY <1>7, <5>1
      <4>3. (Ends(down[u], u) \/ mo) = m
        BY <1>6, <3>2, <4>1
      <4> QED
        BY <1>8, <3>1, <3>3, <4>2, <4>3
    <3> QED
      BY <3>5, <3>6
  <2>4. CASE ~Accepted(u, x)
    <3>1. down'[u] = down[u] /\ ~Takes(u, x, "DATA")
      BY <1>1, <2>4 DEF CuMoves, Takes
    <3>2. recvq'[u] = R
      <4>1. recvq'[u] = R \o <<>>
        BY <2>2, <3>1
      <4> HIDE DEF R, D
      <4> QED
        BY <1>7, <4>1
    <3> QED
      BY <1>8, <2>1, <3>1, <3>2
  <2> QED
    BY <2>3, <2>4
<1>10. BurstOK(u)'
  <2>1. MoreOut(u)' = mo
    BY <1>3
  <2>2. MoreDown(u)' = (Ends(down'[u], u) \/ mo)
    BY <2>1 DEF MoreDown, Ends, EndsBurst, IsData
  <2>3. /\ Whole(recvq[u], u, MoreDown(u))' <=> Whole(recvq'[u], u, MoreDown(u)')
        /\ Whole(down[u], u, MoreOut(u))' <=> Whole(down'[u], u, MoreOut(u)')
    BY DEF Whole, EndsBurst, IsData
  <2>4. /\ (IsData(orc_out, u) => MoreOut(u))'
        /\ Whole(tx, u, MorePushed(u))'
        /\ (disp_push /\ IsData(DispFlit, u) => MorePushed(u))'
    BY <1>2, <1>4 DEF BurstOK
  <2>5. Whole(recvq[u], u, MoreDown(u))' /\ Whole(down[u], u, MoreOut(u))'
    BY <1>9, <2>1, <2>2, <2>3
  <2> QED
    BY <2>4, <2>5 DEF BurstOK
<1> QED
  BY <1>5, <1>10 DEF BurstsOK

-----------------------------------------------------------------------------
(***************************************************************************)
(* One clock edge of the agent, place by place.                            *)
(***************************************************************************)
Absorbs(x) == IsFlit(x) /\ ~OrcInBusy(x)

Popped == IF TxPop(DownBusy) THEN Tail(tx) ELSE tx
RxLeft == IF pulse = "RX_POP" THEN Tail(rx) ELSE rx

OrcEdgeOf(w, x) ==
  /\ OrcClock(w, x, DownBusy)
  /\ up' = IF IsFlit(x) /\ ~OrcInBusy(x)
           THEN [up EXCEPT ![x.peer] = Tail(@)] ELSE up
  /\ down' = IF OrcSends(DownBusy)
             THEN [down EXCEPT ![orc_out.peer] = Append(@, orc_out)] ELSE down
  /\ UNCHANGED <<cuVars, faults>>

(* A read the host kicks finds room, or is lost.                           *)
MailPushed == pulse = "TX_KICK" /\ ~TxFull

(* What the host does while the agent is clocked: nothing, or it offers    *)
(* its next write.                                                         *)
HostMoves(w) ==
  /\ \/ w = NoWrite /\ hst' = hst
     \/ /\ wstate = "IDLE" /\ w = Offer /\ w # NoWrite
        /\ hst' = AfterWrite
  /\ UNCHANGED <<job, total, kicks, rounds, reads>>

UnitStays(v) ==
  /\ instq'[v] = instq[v] /\ recvq'[v] = recvq[v] /\ sigq'[v] = sigq[v]
  /\ inst_pop'[v] = inst_pop[v] /\ in_flight'[v] = in_flight[v]
  /\ rep'[v] = rep[v] /\ ctrl_pend'[v] = ctrl_pend[v]
  /\ ctrl_val'[v] = ctrl_val[v] /\ cu_out'[v] = cu_out[v] /\ owed'[v] = owed[v]

(* A flit comes from a unit's return link and a flit leaves for a unit.    *)
LinkMoves(x, v) ==
  /\ UnitStays(v)
  /\ up'[v] = IF Absorbs(x) /\ x.peer = v THEN Tail(up[v]) ELSE up[v]
  /\ Absorbs(x) /\ x.peer = v =>
       up[v] # <<>> /\ x = Head(up[v]) /\ x \in Inward(v)
  /\ down'[v] = IF OrcSends(DownBusy) /\ orc_out.peer = v
                THEN Append(down[v], orc_out) ELSE down[v]
  /\ OrcSends(DownBusy) /\ orc_out.peer = v =>
       Len(down[v]) < NET /\ orc_out \in Outward(v)

OrcMoves(x) ==
  /\ x = NoFlit \/ (x.peer \in Unit /\ x \in Inward(x.peer))
  /\ tx' = IF disp_push THEN Append(Popped, DispFlit)
           ELSE IF MailPushed THEN Append(Popped, tx_stage)
           ELSE Popped
  /\ orc_out' = IF TxPop(DownBusy) THEN Head(tx)
                ELSE IF DownBusy THEN orc_out ELSE NoFlit
  /\ rx' = IF Absorbs(x) /\ ~IsSignal(x) THEN Append(RxLeft, x) ELSE RxLeft
  /\ pulse = "RX_POP" => rx # <<>>
  /\ disp_push \/ MailPushed => Len(tx) < TX_DEPTH
  /\ sig_done_count' = IF pulse = "SIG_DONE" THEN 0
                       ELSE IF IsSignal(x) THEN Inc(sig_done_count)
                       ELSE sig_done_count
  /\ IsSignal(x) => Absorbs(x)
  /\ \A v \in Unit : LinkMoves(x, v)

(* The writes that the host offers.                                        *)
LEMMA OfferType ==
  ASSUME JobOK
  PROVE  Offer \in Write
<1>1. hst \in {"DST", "BASE", "LEN", "KICK"} =>
        job.dst \in Nat /\ job.base \in Nat /\ job.len \in Nat
  BY Constants, DispatchAssumption DEF JobOK, Loading
<1>2. hst = "READ" => job.dst \in Nat
  BY Constants DEF JobOK
<1> QED
  BY <1>1, <1>2, Constants DEF Offer, Write, Reg, NoWrite

(* A step of the agent is an edge with one flit presented and one write.   *)
LEMMA OrcCases ==
  ASSUME JobOK, OrcStep
  PROVE  \E w \in Write : \E x \in Presented(up) : OrcEdgeOf(w, x) /\ HostMoves(w)
<1>1. NoWrite \in Write
  BY DEF NoWrite, Write, Reg
<1>2. Offer \in Write
  BY OfferType
<1>3. CASE OrcEdge(NoWrite) /\ UNCHANGED hostVars
  <2>1. HostMoves(NoWrite)
    BY <1>3 DEF HostMoves, hostVars
  <2>2. \E x \in Presented(up) : OrcEdgeOf(NoWrite, x)
    BY <1>3, Zenon DEF OrcEdge, OrcEdgeOf
  <2> QED
    BY <1>1, <2>1, <2>2
<1>4. CASE /\ wstate = "IDLE" /\ Offer # NoWrite
           /\ OrcEdge(Offer) /\ hst' = AfterWrite
           /\ UNCHANGED <<job, total, kicks, rounds, reads>>
  <2>1. HostMoves(Offer)
    BY <1>4, Zenon DEF HostMoves
  <2>2. \E x \in Presented(up) : OrcEdgeOf(Offer, x)
    BY <1>4, Zenon DEF OrcEdge, OrcEdgeOf
  <2> QED
    BY <1>2, <2>1, <2>2
<1> QED
  BY <1>3, <1>4, Zenon DEF OrcStep

(* The agent's edge, with what the invariants say of its guards.           *)
LEMMA OrcPoint ==
  ASSUME TypeOK, PlacesOK, HostOK, DispOK, NEW w, NEW x \in Presented(up),
         OrcEdgeOf(w, x)
  PROVE  OrcMoves(x)
<1>1. UnitFuns
  BY DEF TypeOK, CuTypeOK, UnitFuns
<1>2. /\ WriteFsm(w) /\ Dispatcher(x) /\ Transmit(DownBusy) /\ Receive(x)
  BY DEF OrcEdgeOf, OrcClock
<1>3. x = NoFlit \/ (x.peer \in Unit /\ x \in Inward(x.peer)
                       /\ up[x.peer] # <<>> /\ x = Head(up[x.peer]))
  <2>1. ASSUME NEW u \in Unit, up[u] # <<>>, x = Head(up[u])
        PROVE  x.peer = u /\ x \in Inward(u)
    <3>1. up[u] \in Seq(Inward(u))
      BY DEF PlacesOK, UnitPlaces
    <3>2. x \in Inward(u)
      BY <2>1, <3>1, HeadTailProperties
    <3> QED
      BY <3>2 DEF Inward
  <2> QED
    BY <2>1 DEF Presented
<1>4. Absorbs(x) => x # NoFlit
  BY DEF Absorbs, IsFlit, NoFlit
<1>5. disp_push \/ MailPushed => ~TxFull
  BY DEF DispOK, MailPushed
<1>6. tx \in Seq(Flit) /\ Len(tx) \in Nat /\ TX_DEPTH \in Nat
  BY Constants, LenProperties DEF TypeOK, OrcTypeOK
<1>7. tx' = IF disp_push THEN Append(Popped, DispFlit)
            ELSE IF MailPushed THEN Append(Popped, tx_stage)
            ELSE Popped
  BY <1>2, <1>5 DEF Transmit, Popped, MailPushed
<1>8. orc_out' = IF TxPop(DownBusy) THEN Head(tx)
                 ELSE IF DownBusy THEN orc_out ELSE NoFlit
  BY <1>2 DEF Transmit
<1>9. disp_push \/ MailPushed => Len(tx) < TX_DEPTH
  BY <1>5, <1>6 DEF TxFull
<1>10. pulse = "RX_POP" => rx # <<>>
  BY DEF HostOK, JobOK, Writing
<1>11. rx' = IF Absorbs(x) /\ ~IsSignal(x) THEN Append(RxLeft, x) ELSE RxLeft
  <2>1. IsFlit(x) /\ ~RxFull /\ ~IsSignal(x) <=> Absorbs(x) /\ ~IsSignal(x)
    BY DEF Absorbs, OrcInBusy
  <2> QED
    BY <1>2, <1>10, <2>1 DEF Receive, RxLeft
<1>12. sig_done_count' = IF pulse = "SIG_DONE" THEN 0
                         ELSE IF IsSignal(x) THEN Inc(sig_done_count)
                         ELSE sig_done_count
  BY <1>2 DEF Receive
<1>13. IsSignal(x) => Absorbs(x)
  BY DEF IsSignal, Absorbs, OrcInBusy, IsFlit
<1>14. ASSUME NEW v \in Unit PROVE LinkMoves(x, v)
  <2>1. UnitStays(v)
    BY DEF OrcEdgeOf, cuVars, UnitStays
  <2>2. up'[v] = IF Absorbs(x) /\ x.peer = v THEN Tail(up[v]) ELSE up[v]
    BY <1>1, <1>3, <1>4 DEF OrcEdgeOf, UnitFuns, Absorbs
  <2>3. Absorbs(x) /\ x.peer = v =>
          up[v] # <<>> /\ x = Head(up[v]) /\ x \in Inward(v)
    BY <1>3, <1>4
  <2>4. OrcSends(DownBusy) => orc_out.peer \in Unit /\ orc_out \in Outward(orc_out.peer)
    <3>1. OrcSends(DownBusy) => orc_out \in AllOutward
      BY DEF PlacesOK, OrcSends, IsFlit, NoFlit
    <3> QED
      BY <3>1 DEF AllOutward, Outward
  <2>5. down'[v] = IF OrcSends(DownBusy) /\ orc_out.peer = v
                   THEN Append(down[v], orc_out) ELSE down[v]
    BY <1>1, <2>4 DEF OrcEdgeOf, UnitFuns
  <2>6. OrcSends(DownBusy) /\ orc_out.peer = v => Len(down[v]) < NET
    <3>1. down[v] \in Seq(Flit) /\ Len(down[v]) \in Nat
      BY LenProperties DEF TypeOK
    <3>2. OrcSends(DownBusy) => ~(Len(down[orc_out.peer]) >= NET)
      BY SMTT(40) DEF OrcSends, DownBusy
    <3> QED
      BY <3>1, <3>2, Constants
  <2> QED
    BY <2>1, <2>2, <2>3, <2>4, <2>5, <2>6, Zenon DEF LinkMoves
<1> QED
  BY <1>3, <1>7, <1>8, <1>9, <1>10, <1>11, <1>12, <1>13, <1>14, Zenon DEF OrcMoves

(* A remainder is below its modulus.                                       *)
LEMMA ModRange ==
  ASSUME NEW n \in Int, NEW m \in Nat \ {0}
  PROVE  n % m \in 0 .. m - 1
  OBVIOUS

(* The same, of the width the agent has.                                   *)
LEMMA Mod16 ==
  ASSUME NEW n \in Int
  PROVE  n % W16 \in 0 .. W16 - 1
<1>1. W16 \in Nat \ {0}
  BY DEF W16
<1> QED
  BY <1>1, ModRange

(* A small number fits in 16 bits.                                         *)
LEMMA Small16 ==
  ASSUME NEW n \in Nat, n < W16
  PROVE  n % W16 = n
BY DEF W16

(* A 16-bit counter stays one, and wraps only at its ends.                 *)
LEMMA Counter16 ==
  ASSUME NEW n \in 0 .. W16 - 1
  PROVE  /\ n \in Nat /\ n < W16
         /\ Inc(n) \in 0 .. W16 - 1 /\ Dec(n) \in 0 .. W16 - 1
         /\ Inc(n) = IF n = W16 - 1 THEN 0 ELSE n + 1
         /\ n # 0 => Dec(n) = n - 1
<1>0. W16 \in Nat
  BY DEF W16
<1>1. n \in Nat /\ n + 1 \in Nat /\ n - 1 \in Int /\ (n # 0 => n - 1 \in Nat)
      /\ n < W16 /\ n - 1 < W16 /\ (n # W16 - 1 => n + 1 < W16)
  BY <1>0
<1>2. Inc(n) \in 0 .. W16 - 1 /\ Dec(n) \in 0 .. W16 - 1
  BY <1>1, Mod16 DEF Inc, Dec
<1>3. n # W16 - 1 => Inc(n) = n + 1
  BY <1>1, Small16 DEF Inc
<1>4. n = W16 - 1 => Inc(n) = 0
  BY DEF Inc, W16
<1>5. n # 0 => Dec(n) = n - 1
  BY <1>1, Small16 DEF Dec
<1> QED
  BY <1>1, <1>2, <1>3, <1>4, <1>5

(* What the agent's queues and the links hold after its edge.              *)
LEMMA PoppedType ==
  ASSUME TypeOK, PlacesOK
  PROVE  /\ tx \in Seq(AllOutward) /\ Popped \in Seq(AllOutward)
         /\ Len(tx) \in Nat /\ Len(Popped) \in Nat
         /\ Len(Popped) <= Len(tx) /\ Len(tx) <= TX_DEPTH
         /\ TxPop(DownBusy) => tx # <<>> /\ Head(tx) \in AllOutward
<1>1. tx \in Seq(AllOutward) /\ Len(tx) <= TX_DEPTH
  BY DEF TypeOK, OrcTypeOK, PlacesOK
<1>2. TxPop(DownBusy) => tx # <<>>
  BY DEF TxPop
<1> QED
  BY <1>1, <1>2, HeadTailProperties, LenProperties DEF Popped

(* What is pushed into the transmit FIFO, by the dispatcher or the host,   *)
(* leaves for a unit.                                                      *)
LEMMA PushedFlit ==
  ASSUME TypeOK, HostOK, DispOK
  PROVE  /\ disp_push => DispFlit \in AllOutward /\ DispFlit.peer = prog_dst
         /\ MailPushed => tx_stage \in AllOutward /\ job.dst \in Unit
<1>1. ASSUME disp_push PROVE DispFlit \in AllOutward /\ DispFlit.peer = prog_dst
  <2>1. prog_flit \in Flit /\ prog_dst \in Unit /\ prog_flit.type \in {"INST", "DATA"}
    BY <1>1 DEF TypeOK, OrcTypeOK, DispOK
  <2> QED
    BY <2>1 DEF DispFlit, AllOutward, Flit
<1>2. ASSUME MailPushed PROVE tx_stage \in AllOutward /\ job.dst \in Unit
  <2>1. tx_stage = CtrlRead(job.dst) /\ job.dst \in Unit
    BY <1>2 DEF MailPushed, HostOK, ValuesOK, JobOK, Writing
  <2> QED
    BY <2>1, Constants DEF CtrlRead, AllOutward, Flit, FlitType, Code
<1> QED
  BY <1>1, <1>2

(* A queue of n that loses one or gains one keeps its depth D.             *)
LEMMA Fewer ==
  ASSUME NEW n \in Nat, NEW D \in Nat, n <= D, NEW m, m = n - 1
  PROVE  m <= D
OBVIOUS

(* A counter below its limit may grow by one.                              *)
LEMMA Further ==
  ASSUME NEW n \in Nat, NEW D \in Nat, n < D, NEW m, m = n + 1
  PROVE  m <= D
OBVIOUS

(* The agent's edge keeps the contents of the places and their room.       *)
LEMMA OrcPlaces ==
  ASSUME TypeOK, PlacesOK, HostOK, DispOK, NEW x, OrcMoves(x)
  PROVE  /\ PlacesOK'
         /\ Len(tx') <= TX_DEPTH /\ Len(rx') <= RX_DEPTH
         /\ \A v \in Unit : Len(down'[v]) <= NET /\ Len(up'[v]) <= NET
<1>1. tx' \in Seq(AllOutward) /\ Len(tx') <= TX_DEPTH
  <2>1. /\ disp_push => DispFlit \in AllOutward
        /\ MailPushed => tx_stage \in AllOutward
    BY PushedFlit
  <2>2. \A f \in AllOutward : /\ Append(Popped, f) \in Seq(AllOutward)
                              /\ Len(Append(Popped, f)) = Len(Popped) + 1
    BY PoppedType, AppendProperties
  <2>3. /\ disp_push \/ MailPushed => Len(tx) < TX_DEPTH
        /\ tx' = IF disp_push THEN Append(Popped, DispFlit)
                 ELSE IF MailPushed THEN Append(Popped, tx_stage)
                 ELSE Popped
    BY DEF OrcMoves
  <2> QED
    BY <2>1, <2>2, <2>3, PoppedType, Constants
<1>2. orc_out' \in AllOutward \cup {NoFlit}
  BY PoppedType DEF OrcMoves, PlacesOK
<1>3. rx' \in Seq(Replies) /\ Len(rx') <= RX_DEPTH
  <2>1. rx \in Seq(Replies) /\ Len(rx) \in Nat /\ Len(rx) <= RX_DEPTH
    BY LenProperties DEF PlacesOK, TypeOK, OrcTypeOK
  <2>2. /\ RxLeft \in Seq(Replies) /\ Len(RxLeft) \in Nat /\ Len(RxLeft) <= Len(rx)
    <3>1. pulse = "RX_POP" => rx # <<>>
      BY DEF OrcMoves
    <3> QED
      BY <2>1, <3>1, HeadTailProperties, LenProperties DEF RxLeft
  <2>3. Absorbs(x) /\ ~IsSignal(x) => x \in Replies /\ Len(rx) < RX_DEPTH
    <3>1. Absorbs(x) => x \in Inward(x.peer) /\ x.peer \in Unit
      BY DEF OrcMoves, Absorbs, IsFlit, NoFlit
    <3>2. Absorbs(x) /\ ~IsSignal(x) => ~RxFull
      BY DEF Absorbs, OrcInBusy
    <3> QED
      BY <2>1, <3>1, <3>2, Constants DEF Inward, Replies, IsSignal, RxFull
  <2>4. \A f \in Replies : /\ Append(RxLeft, f) \in Seq(Replies)
                           /\ Len(Append(RxLeft, f)) = Len(RxLeft) + 1
    BY <2>2, AppendProperties
  <2>5. rx' = IF Absorbs(x) /\ ~IsSignal(x) THEN Append(RxLeft, x) ELSE RxLeft
    BY DEF OrcMoves
  <2> QED
    BY <2>1, <2>2, <2>3, <2>4, <2>5, Constants
<1>4. ASSUME NEW v \in Unit
      PROVE  UnitPlaces(v)' /\ Len(down'[v]) <= NET /\ Len(up'[v]) <= NET
  <2>1. UnitPlaces(v) /\ LinkMoves(x, v)
    BY DEF PlacesOK, OrcMoves
  <2>2. Len(down[v]) <= NET /\ Len(up[v]) <= NET
    BY DEF TypeOK
  <2>3. up'[v] \in Seq(Inward(v)) /\ Len(up'[v]) <= NET
    <3>1. up[v] \in Seq(Inward(v)) /\ Len(up[v]) \in Nat
      BY <2>1, LenProperties DEF UnitPlaces
    <3>2. up'[v] = up[v] \/ (up[v] # <<>> /\ up'[v] = Tail(up[v]))
      BY <2>1 DEF LinkMoves
    <3>3. up[v] # <<>> => /\ Tail(up[v]) \in Seq(Inward(v))
                          /\ Len(Tail(up[v])) = Len(up[v]) - 1
      BY <3>1, HeadTailProperties
    <3>4. up[v] # <<>> => Len(Tail(up[v])) <= NET
      BY <2>2, <3>1, <3>3, Constants, Fewer, Zenon
    <3> QED
      BY <2>2, <3>1, <3>2, <3>3, <3>4
  <2>4. down'[v] \in Seq(Outward(v)) /\ Len(down'[v]) <= NET
    <3>1. down[v] \in Seq(Outward(v)) /\ Len(down[v]) \in Nat
      BY <2>1, LenProperties DEF UnitPlaces
    <3>2. \/ down'[v] = down[v]
          \/ /\ orc_out \in Outward(v) /\ Len(down[v]) < NET
             /\ down'[v] = Append(down[v], orc_out)
      BY <2>1 DEF LinkMoves
    <3>3. orc_out \in Outward(v) =>
            /\ Append(down[v], orc_out) \in Seq(Outward(v))
            /\ Len(Append(down[v], orc_out)) = Len(down[v]) + 1
      BY <3>1, AppendProperties
    <3>4. orc_out \in Outward(v) /\ Len(down[v]) < NET =>
            Len(Append(down[v], orc_out)) <= NET
      BY <3>1, <3>3, Constants, Further, Zenon
    <3> QED
      BY <2>2, <3>1, <3>2, <3>3, <3>4
  <2>5. UnitStays(v)
    BY <2>1 DEF LinkMoves
  <2> QED
    BY <2>1, <2>3, <2>4, <2>5 DEF UnitPlaces, UnitStays
<1> QED
  BY <1>1, <1>2, <1>3, <1>4 DEF PlacesOK

(* The agent's registers.                                                  *)
LEMMA RegTypes ==
  ASSUME TypeOK, HostOK, DispOK, NEW w \in Write, WriteFsm(w), NEW x, Dispatcher(x)
  PROVE  /\ wstate' \in {"IDLE", "DATA", "RESP"} /\ wcmd' \in Write
         /\ prog_dst' \in Nat /\ tx_stage' \in Flit
         /\ prog_len' \in 0 .. W16 - 1 /\ prog_base' \in 0 .. W16 - 1
         /\ cred_val' \in 0 .. W16 - 1 /\ pulse' \in Reg
         /\ prog_left' \in 0 .. W16 - 1 /\ prog_credit' \in 0 .. W16 - 1
         /\ prog_run' \in BOOLEAN /\ disp_push' \in BOOLEAN
         /\ prog_rd' \in 0 .. STAGE_FLITS /\ prog_word' \in 0 .. FLIT_WORDS - 1
         /\ prog_flit' \in Flit
<1>0. OrcTypeOK
  BY DEF TypeOK
<1>m. \A n \in Int : n % W16 \in 0 .. W16 - 1
  BY Mod16
<1>1. wstate' \in {"IDLE", "DATA", "RESP"}
  BY <1>0 DEF WriteFsm, OrcTypeOK
<1>2. wcmd' \in Write /\ pulse' \in Reg
  <2>1. NoWrite \in Write /\ "NONE" \in Reg
    BY DEF NoWrite, Write, Reg
  <2>2. wcmd.reg \in Reg
    BY <1>0 DEF OrcTypeOK, Write
  <2> QED
    BY <1>0, <2>1, <2>2 DEF WriteFsm
<1>3. wcmd.val \in Nat
  BY <1>0 DEF OrcTypeOK, Write
<1>4. /\ prog_dst' \in Nat /\ prog_len' \in 0 .. W16 - 1
      /\ prog_base' \in 0 .. W16 - 1 /\ cred_val' \in 0 .. W16 - 1
  BY <1>0, <1>3, <1>m DEF WriteFsm, OrcTypeOK
<1>5. tx_stage' \in Flit
  <2>1. wcmd.reg = "TX_KICK" => wcmd.val \in Unit
    BY DEF HostOK, ValuesOK, JobOK, Writing
  <2>2. \A v \in Unit : CtrlRead(v) \in Flit
    BY DEF CtrlRead, Flit, FlitType, Code
  <2> QED
    BY <1>0, <2>1, <2>2 DEF WriteFsm, OrcTypeOK
<1>6. prog_credit' \in 0 .. W16 - 1
  <2>1. prog_credit \in 0 .. W16 - 1 /\ cred_val \in 0 .. W16 - 1
    BY <1>0 DEF OrcTypeOK
  <2>2. Dec(prog_credit) \in 0 .. W16 - 1 /\ Inc(prog_credit) \in 0 .. W16 - 1
    BY <2>1, Counter16
  <2> QED
    BY <2>1, <2>2 DEF Dispatcher, NextCredit
<1>7. prog_left \in 0 .. W16 - 1 /\ prog_len \in 0 .. W16 - 1
      /\ prog_rd \in 0 .. STAGE_FLITS /\ prog_word \in 0 .. FLIT_WORDS - 1
      /\ prog_run \in BOOLEAN /\ prog_flit \in Flit
      /\ prog_base \in 0 .. W16 - 1
      /\ STAGE_FLITS \in Nat /\ FLIT_WORDS \in Nat /\ FLIT_WORDS >= 2
  BY <1>0, OrcAssumption DEF OrcTypeOK
<1>w. W16 \in Nat /\ W16 >= 2
  BY DEF W16
<1>8. KickTaken => prog_base <= STAGE_FLITS
  <2>1. KickTaken => job \in Kicks /\ prog_base = job.base
    BY DEF KickTaken, HostOK, JobOK, Writing, Loading, BaseSet
  <2> QED
    BY <2>1, DispatchAssumption, <1>7
<1>9. DispCan => /\ prog_left >= 1 /\ prog_rd + prog_left <= STAGE_FLITS
                 /\ prog_rd \in 0 .. STAGE_FLITS - 1
  BY <1>7 DEF DispCan, DispOK
<1>10. DispCan => StagedFlit \in Flit
  <2>1. DispCan => Stage[prog_rd] \in [type : {"INST", "DATA"}, txn : Nat, last : BOOLEAN]
    BY <1>9, OrcAssumption
  <2> QED
    BY <2>1 DEF StagedFlit, Flit, FlitType, Code
<1>11. /\ prog_left' \in 0 .. W16 - 1 /\ prog_run' \in BOOLEAN
       /\ prog_rd' \in 0 .. STAGE_FLITS /\ prog_word' \in 0 .. FLIT_WORDS - 1
       /\ prog_flit' \in Flit /\ disp_push' \in BOOLEAN
  <2>1. CASE KickTaken
    <3>1. /\ prog_run' = TRUE /\ prog_left' = prog_len
          /\ prog_rd' = prog_base /\ prog_word' = 0
          /\ disp_push' = FALSE /\ prog_flit' = prog_flit
      BY <2>1 DEF Dispatcher
    <3>2. prog_left' \in 0 .. W16 - 1 /\ prog_run' \in BOOLEAN
          /\ prog_flit' \in Flit /\ disp_push' \in BOOLEAN
      BY <1>7, <3>1
    <3>3. prog_rd' \in 0 .. STAGE_FLITS
      BY <1>7, <1>8, <1>w, <2>1, <3>1
    <3>4. prog_word' \in 0 .. FLIT_WORDS - 1
      BY <1>7, <3>1
    <3> QED
      BY <3>2, <3>3, <3>4
  <2>2. CASE ~KickTaken /\ DispCan /\ LastWord
    <3>1. /\ prog_flit' = StagedFlit /\ prog_rd' = prog_rd + 1
          /\ prog_word' = 0 /\ disp_push' = TRUE
          /\ prog_run' = (prog_left # 1)
          /\ prog_left' = IF prog_left = 1 THEN prog_left ELSE prog_left - 1
      BY <2>2 DEF Dispatcher
    <3>2. prog_left' \in 0 .. W16 - 1
      BY <1>7, <1>9, <1>w, <2>2, <3>1
    <3> QED
      BY <1>7, <1>9, <1>10, <2>2, <3>1, <3>2
  <2>3. CASE ~KickTaken /\ DispCan /\ ~LastWord
    <3>1. /\ prog_word' = prog_word + 1 /\ disp_push' = FALSE
          /\ UNCHANGED <<prog_run, prog_left, prog_rd, prog_flit>>
      BY <2>3 DEF Dispatcher
    <3>2. prog_word' \in 0 .. FLIT_WORDS - 1
      BY <1>7, <2>3, <3>1 DEF LastWord
    <3> QED
      BY <1>7, <3>1, <3>2
  <2>4. CASE ~KickTaken /\ ~DispCan
    BY <1>7, <2>4 DEF Dispatcher
  <2> QED
    BY <2>1, <2>2, <2>3, <2>4
<1> QED
  BY <1>1, <1>2, <1>4, <1>5, <1>6, <1>11

(* The agent's edge keeps the types.                                       *)
LEMMA OrcTypes ==
  ASSUME TypeOK, PlacesOK, HostOK, DispOK, NEW w \in Write,
         NEW x \in Presented(up), OrcEdgeOf(w, x), HostMoves(w)
  PROVE  TypeOK' /\ PlacesOK' /\ OrcMoves(x)
<1>1. OrcMoves(x)
  BY OrcPoint
<1>2. /\ PlacesOK'
      /\ Len(tx') <= TX_DEPTH /\ Len(rx') <= RX_DEPTH
      /\ \A v \in Unit : Len(down'[v]) <= NET /\ Len(up'[v]) <= NET
  BY <1>1, OrcPlaces
<1>3. /\ WriteFsm(w) /\ Dispatcher(x) /\ Transmit(DownBusy) /\ Receive(x)
  BY DEF OrcEdgeOf, OrcClock
<1>4. tx' \in Seq(Flit) /\ orc_out' \in Flit /\ rx' \in Seq(Flit)
  <2>1. tx' \in Seq(AllOutward) /\ rx' \in Seq(Replies)
        /\ orc_out' \in AllOutward \cup {NoFlit}
    BY <1>2 DEF PlacesOK
  <2>2. /\ AllOutward \subseteq Flit /\ Replies \subseteq Flit /\ NoFlit \in Flit
    BY DEF AllOutward, Replies, NoFlit, Flit, FlitType, Code
  <2> QED
    BY <2>1, <2>2, SeqMono
<1>5. node_status' \in [Unit -> [code : Code, txn : Nat, count : 0 .. W16 - 1]]
  <2>1. node_status \in [Unit -> [code : Code, txn : Nat, count : 0 .. W16 - 1]]
    BY DEF TypeOK, OrcTypeOK
  <2>2. IsSignal(x) => x \in Flit /\ x.peer \in Unit
    BY <1>1 DEF OrcMoves, Inward, IsSignal, NoFlit
  <2>3. \A n \in 0 .. W16 - 1 : Inc(n) \in 0 .. W16 - 1
    BY Counter16
  <2>4. IsSignal(x) =>
          [code |-> x.code, txn |-> x.txn, count |-> Inc(node_status[x.peer].count)]
            \in [code : Code, txn : Nat, count : 0 .. W16 - 1]
    BY <2>1, <2>2, <2>3 DEF Flit
  <2>5. node_status' =
           IF IsSignal(x)
           THEN [node_status EXCEPT ![x.peer] =
                   [code |-> x.code, txn |-> x.txn,
                    count |-> Inc(node_status[x.peer].count)]]
           ELSE node_status
    BY <1>3, <2>1, <2>2 DEF Receive
  <2> HIDE DEF W16
  <2> QED
    BY <2>1, <2>2, <2>4, <2>5
<1>6. sig_done_count' \in 0 .. W16 - 1
  <2>1. sig_done_count \in 0 .. W16 - 1
    BY DEF TypeOK, OrcTypeOK
  <2>2. Inc(sig_done_count) \in 0 .. W16 - 1
    BY <2>1, Counter16
  <2>3. 0 \in 0 .. W16 - 1
    BY DEF W16
  <2> QED
    BY <1>1, <2>1, <2>2, <2>3 DEF OrcMoves
<1>7. OrcTypeOK'
  BY <1>2, <1>3, <1>4, <1>5, <1>6, RegTypes DEF OrcTypeOK
<1>8. CuTypeOK'
  BY DEF OrcEdgeOf, cuVars, TypeOK, CuTypeOK
<1>9. {down', up'} \subseteq [Unit -> Seq(Flit)]
  <2>1. ASSUME NEW v \in Unit PROVE down'[v] \in Seq(Flit) /\ up'[v] \in Seq(Flit)
    <3>1. UnitPlaces(v)'
      BY <1>2 DEF PlacesOK
    <3> QED
      BY <3>1, FlitTypes, SeqMono DEF UnitPlaces
  <2>2. DOMAIN down = Unit /\ DOMAIN up = Unit
    BY DEF TypeOK
  <2>3. down' = [v \in Unit |-> down'[v]] /\ up' = [v \in Unit |-> up'[v]]
    <3>1. down \in [Unit -> Seq(Flit)] /\ up \in [Unit -> Seq(Flit)]
      BY DEF TypeOK
    <3> QED
      BY <3>1 DEF OrcEdgeOf
  <2> QED
    BY <2>1, <2>3
<1>10. hst' \in {"CLEAR", "SEED", "READY", "DST", "BASE", "LEN", "KICK", "READ",
                 "REPLY", "POP", "AWAIT", "DONE"}
  BY DEF HostMoves, AfterWrite, TypeOK
<1>11. {total', kicks', rounds', reads', faults'} \subseteq Nat
  BY DEF HostMoves, OrcEdgeOf, TypeOK
<1> QED
  BY <1>1, <1>2, <1>7, <1>8, <1>9, <1>10, <1>11 DEF TypeOK

(***************************************************************************)
(* The host's write goes through the write FSM.                            *)
(***************************************************************************)
(* An edge on which the host offers nothing and the FSM is idle, or ends   *)
(* its response.                                                           *)
LEMMA FsmRests ==
  ASSUME TypeOK, HostOK, NEW w, WriteFsm(w), HostMoves(w), wstate # "DATA",
         w = NoWrite \/ wstate # "IDLE", NEW x, OrcMoves(x)
  PROVE  /\ wstate' = "IDLE" /\ wcmd' = NoWrite /\ pulse' = "NONE"
         /\ hst' = hst /\ HostOK'
<1>1. wstate \in {"IDLE", "RESP"} /\ (wstate = "IDLE" => w = NoWrite)
  BY DEF TypeOK, OrcTypeOK
<1>2. wstate' = "IDLE" /\ wcmd' = NoWrite /\ pulse' = "NONE"
  BY <1>1 DEF WriteFsm, NoWrite
<1>3. hst' = hst /\ job' = job
  BY <1>1 DEF HostMoves, NoWrite
<1>4. /\ prog_dst' = prog_dst /\ prog_len' = prog_len /\ prog_base' = prog_base
      /\ cred_val' = cred_val /\ tx_stage' = tx_stage
  BY <1>1 DEF WriteFsm
<1>5. wcmd = NoWrite /\ (wstate = "IDLE" => pulse = "NONE")
  BY <1>1 DEF HostOK, WriteOK
<1>6. \A r \in Reg \ {"NONE"} : ~Writing(r)'
  BY <1>2 DEF Writing, NoWrite
<1>7. WriteOK'
  BY <1>2, <1>6 DEF WriteOK
<1>8. ValuesOK'
  BY <1>2 DEF ValuesOK, NoWrite
<1>9. JobOK'
  <2>1. /\ ~Writing("PROG_KICK")' /\ ~Writing("TX_KICK")' /\ ~Writing("RX_POP")'
    BY <1>6 DEF Reg
  <2>2. DstSet' => DstSet
    BY <1>2, <1>3, <1>5, <2>1 DEF DstSet
  <2>3. BaseSet' => BaseSet
    BY <1>2, <1>3, <1>5, <2>1 DEF BaseSet
  <2>4. LenSet' => LenSet
    BY <1>2, <1>3, <1>5, <2>1 DEF LenSet
  <2>5. Loading' => Loading
    BY <1>3, <2>1 DEF Loading
  <2>6. hst' = "POP" => rx' # <<>>
    <3>1. hst = "POP" => pulse # "RX_POP"
      <4>1. pulse = "RX_POP" => hst = "READY"
        BY DEF HostOK, WriteOK, Writing, AfterReg, Reg
      <4> QED
        BY <4>1
    <3>2. hst = "POP" => rx # <<>>
      BY DEF HostOK, JobOK
    <3>3. hst = "POP" => RxLeft # <<>>
      BY <3>1, <3>2 DEF RxLeft
    <3>4. RxLeft # <<>> => rx' # <<>>
      BY DEF OrcMoves
    <3> QED
      BY <1>3, <3>3, <3>4
  <2> QED
    BY <1>3, <1>4, <2>1, <2>2, <2>3, <2>4, <2>5, <2>6 DEF HostOK, JobOK
<1> QED
  BY <1>2, <1>3, <1>7, <1>8, <1>9 DEF HostOK

(* A program lies in the staging RAM, whose slots have 16-bit numbers.     *)
LEMMA KickBounds ==
  ASSUME NEW k \in Kicks
  PROVE  /\ k.dst \in Unit /\ k.len \in Nat /\ k.len # 0 /\ k.base \in Nat
         /\ k.base + k.len <= STAGE_FLITS /\ STAGE_FLITS \in Nat
         /\ k.base < W16 /\ k.len < W16 /\ WholeBursts(k)
<1>1. /\ k.dst \in Unit /\ k.len \in Nat \ {0} /\ k.base \in Nat
      /\ k.base + k.len <= STAGE_FLITS /\ WholeBursts(k)
  BY DispatchAssumption
<1>2. W16 \in Nat
  BY DEF W16
<1>3. STAGE_FLITS \in Nat /\ STAGE_FLITS < W16
  BY <1>2, OrcAssumption
<1> QED
  BY <1>1, <1>2, <1>3

(* An edge on which the host offers a write.                               *)
LEMMA FsmOffers ==
  ASSUME TypeOK, HostOK, NEW w, WriteFsm(w), wstate = "IDLE", w = Offer,
         w # NoWrite, hst' = AfterWrite, job' = job, NEW x, OrcMoves(x)
  PROVE  HostOK' /\ wstate' = "DATA" /\ wcmd' = Offer /\ pulse' = "NONE"
<1>1. hst \in {"CLEAR", "SEED", "DST", "BASE", "LEN", "KICK", "READ", "POP"}
  BY DEF Offer
<1>2. /\ Offer.reg # "NONE"
      /\ hst' = AfterReg(Offer.reg)
      /\ hst' \in {"SEED", "READY", "BASE", "LEN", "KICK", "REPLY"}
  BY <1>1 DEF Offer, AfterReg, AfterWrite
<1>3. wstate' = "DATA" /\ wcmd' = Offer /\ pulse' = "NONE"
  BY <1>2 DEF WriteFsm
<1>4. /\ prog_dst' = prog_dst /\ prog_len' = prog_len /\ prog_base' = prog_base
      /\ cred_val' = cred_val /\ tx_stage' = tx_stage
  BY DEF WriteFsm
<1>5. wcmd = NoWrite /\ pulse = "NONE"
  BY DEF HostOK, WriteOK
<1>6. \A r : Writing(r)' <=> Offer.reg = r \/ r = "NONE"
  BY <1>3 DEF Writing
<1>7. WriteOK'
  BY <1>2, <1>3, <1>6 DEF WriteOK
<1>8. ValuesOK'
  BY <1>1, <1>3 DEF ValuesOK, Offer
<1>9. JobOK'
  <2>1. /\ Offer.reg = "PROG_KICK" <=> hst = "KICK"
        /\ Offer.reg = "TX_KICK" <=> hst = "READ"
        /\ Offer.reg = "RX_POP" <=> hst = "POP"
        /\ Offer.reg = "PROG_DST" <=> hst = "DST"
        /\ Offer.reg = "PROG_BASE" <=> hst = "BASE"
        /\ Offer.reg = "PROG_LEN" <=> hst = "LEN"
    BY <1>1 DEF Offer
  <2>2. /\ Writing("PROG_KICK")' <=> hst = "KICK"
        /\ Writing("TX_KICK")' <=> hst = "READ"
        /\ Writing("RX_POP")' <=> hst = "POP"
    BY <1>6, <2>1
  <2>3. Loading' => Loading
    BY <1>1, <2>2 DEF Loading, AfterWrite
  <2>4. DstSet' => DstSet
    BY <1>1, <1>3, <1>5, <2>1, <2>2 DEF DstSet, AfterWrite, NoWrite
  <2>5. BaseSet' => BaseSet
    BY <1>1, <1>3, <1>5, <2>1, <2>2 DEF BaseSet, AfterWrite, NoWrite
  <2>6. LenSet' => LenSet
    BY <1>1, <1>3, <1>5, <2>1, <2>2 DEF LenSet, AfterWrite, NoWrite
  <2>7. hst' # "READ" /\ hst' # "POP"
    BY <1>2
  <2>8. hst = "POP" => rx' # <<>>
    <3>1. hst = "POP" => rx # <<>>
      BY DEF HostOK, JobOK
    <3>2. RxLeft = rx /\ Append(rx, x) # <<>>
      BY <1>5 DEF RxLeft
    <3> QED
      BY <3>1, <3>2 DEF OrcMoves
  <2> QED
    BY <1>4, <2>2, <2>3, <2>4, <2>5, <2>6, <2>7, <2>8 DEF HostOK, JobOK
<1> QED
  BY <1>3, <1>7, <1>8, <1>9 DEF HostOK

(* The edge that takes the data beat: the register is written, or its      *)
(* request is raised.                                                      *)
LEMMA FsmTakes ==
  ASSUME TypeOK, PlacesOK, HostOK, DispOK, NEW w, WriteFsm(w), HostMoves(w),
         wstate = "DATA", NEW x, OrcMoves(x)
  PROVE  /\ HostOK' /\ wstate' = "RESP" /\ wcmd' = NoWrite /\ hst' = hst
         /\ pulse' = IF Requests(wcmd.reg) THEN wcmd.reg ELSE "NONE"
<1>1. /\ wstate' = "RESP" /\ wcmd' = NoWrite
      /\ pulse' = IF Requests(wcmd.reg) THEN wcmd.reg ELSE "NONE"
  BY DEF WriteFsm
<1>2. hst' = hst /\ job' = job
  BY DEF HostMoves
<1>3. pulse = "NONE" /\ wcmd.reg # "NONE"
  BY DEF HostOK, WriteOK
<1>4. \A r \in Reg \ {"NONE"} : Writing(r)' => wcmd.reg = r /\ Writing(r)
  BY <1>1 DEF Writing, NoWrite
<1>5. WriteOK'
  <2>1. \A r \in Reg \ {"NONE"} : Writing(r)' => hst' = AfterReg(r)
    BY <1>2, <1>4 DEF HostOK, WriteOK
  <2>2. hst' \in {"SEED", "READY", "BASE", "LEN", "KICK", "REPLY"}
    BY <1>2 DEF HostOK, WriteOK
  <2> QED
    BY <1>1, <2>1, <2>2 DEF WriteOK
<1>6. rx' \in {rx} \cup {Append(rx, x)}
  BY <1>3 DEF OrcMoves, RxLeft
<1>7. ValuesOK'
  <2>1. pulse' = "PROG_CRED" => cred_val' <= SEED
    <3>1. pulse' = "PROG_CRED" => cred_val' = SEED % W16
      BY <1>1, <1>3 DEF WriteFsm, HostOK, ValuesOK
    <3>2. SEED % W16 = SEED
      BY Constants, Small16
    <3> QED
      BY <3>1, <3>2, Constants
  <2>2. pulse' = "TX_KICK" => tx_stage' = CtrlRead(job.dst)
    BY <1>1, <1>3 DEF WriteFsm, HostOK, ValuesOK
  <2> QED
    BY <1>1, <1>2, <2>1, <2>2 DEF ValuesOK, NoWrite
<1>8. JobOK'
  <2>0. {"PROG_KICK", "TX_KICK", "RX_POP"} \subseteq Reg \ {"NONE"}
    BY DEF Reg
  <2>1. /\ Writing("PROG_KICK")' => wcmd.reg = "PROG_KICK"
        /\ Writing("TX_KICK")' => wcmd.reg = "TX_KICK"
        /\ Writing("RX_POP")' => wcmd.reg = "RX_POP"
    BY <1>4, <2>0
  <2>2. /\ wcmd.reg = "PROG_DST" => hst = "BASE"
        /\ wcmd.reg = "PROG_BASE" => hst = "LEN"
        /\ wcmd.reg = "PROG_LEN" => hst = "KICK"
        /\ wcmd.reg \in {"PROG_KICK", "RX_POP"} => hst = "READY"
        /\ wcmd.reg = "TX_KICK" => hst = "REPLY"
    BY DEF HostOK, WriteOK, Writing, AfterReg, Reg
  <2>3. hst # "DST" /\ hst # "READ" /\ hst # "POP"
    BY DEF HostOK, WriteOK
  <2>4. /\ Loading' => Loading
        /\ hst' = "READ" \/ Writing("TX_KICK")' => hst = "READ" \/ Writing("TX_KICK")
        /\ hst' = "POP" \/ Writing("RX_POP")' => Writing("RX_POP")
    BY <1>2, <2>1, <2>3 DEF Loading, Writing
  <2>5. ASSUME DstSet' PROVE prog_dst' = job.dst
    <3>1. CASE wcmd.reg = "PROG_DST"
      BY <3>1 DEF WriteFsm, HostOK, ValuesOK
    <3>2. CASE wcmd.reg # "PROG_DST"
      <4>1. DstSet
        BY <1>1, <1>2, <2>1, <2>5, <3>2 DEF DstSet, Writing
      <4> QED
        BY <3>2, <4>1 DEF WriteFsm, HostOK, JobOK
    <3> QED
      BY <3>1, <3>2
  <2>6. ASSUME BaseSet' PROVE prog_base' = job.base
    <3>1. CASE wcmd.reg = "PROG_BASE"
      <4>1. prog_base' = job.base % W16
        BY <3>1 DEF WriteFsm, HostOK, ValuesOK
      <4>2. job \in Kicks
        BY <2>2, <3>1 DEF HostOK, JobOK, Loading
      <4>3. job.base \in Nat /\ job.base < W16
        BY <4>2, KickBounds
      <4> QED
        BY <4>1, <4>3, Small16
    <3>2. CASE wcmd.reg # "PROG_BASE"
      <4>1. BaseSet
        BY <1>1, <1>2, <2>1, <2>6, <3>2 DEF BaseSet, Writing
      <4> QED
        BY <3>2, <4>1 DEF WriteFsm, HostOK, JobOK
    <3> QED
      BY <3>1, <3>2
  <2>7. ASSUME LenSet' PROVE prog_len' = job.len
    <3>1. CASE wcmd.reg = "PROG_LEN"
      <4>1. prog_len' = job.len % W16
        BY <3>1 DEF WriteFsm, HostOK, ValuesOK
      <4>2. job \in Kicks
        BY <2>2, <3>1 DEF HostOK, JobOK, Loading
      <4>3. job.len \in Nat /\ job.len < W16
        BY <4>2, KickBounds
      <4> QED
        BY <4>1, <4>3, Small16
    <3>2. CASE wcmd.reg # "PROG_LEN"
      <4>1. LenSet
        BY <1>1, <1>2, <2>1, <2>7, <3>2 DEF LenSet, Writing
      <4> QED
        BY <3>2, <4>1 DEF WriteFsm, HostOK, JobOK
    <3> QED
      BY <3>1, <3>2
  <2>8. Writing("RX_POP") => rx' # <<>>
    <3>1. Writing("RX_POP") => rx # <<>>
      BY DEF HostOK, JobOK
    <3>2. Append(rx, x) # <<>>
      OBVIOUS
    <3> QED
      BY <1>6, <3>1, <3>2
  <2> QED
    BY <1>2, <2>4, <2>5, <2>6, <2>7, <2>8 DEF HostOK, JobOK
<1> QED
  BY <1>1, <1>2, <1>5, <1>7, <1>8 DEF HostOK

(* An edge of the agent keeps what is known of the host's write.           *)
LEMMA OrcHost ==
  ASSUME TypeOK, PlacesOK, HostOK, DispOK, NEW w, WriteFsm(w), HostMoves(w),
         NEW x, OrcMoves(x)
  PROVE  /\ HostOK'
         /\ \/ /\ wstate' = "IDLE" /\ wcmd' = NoWrite /\ pulse' = "NONE"
               /\ hst' = hst /\ wstate # "DATA"
            \/ /\ wstate = "IDLE" /\ wstate' = "DATA" /\ wcmd' = Offer
               /\ pulse' = "NONE" /\ hst' = AfterWrite /\ Offer # NoWrite
            \/ /\ wstate = "DATA" /\ wstate' = "RESP" /\ wcmd' = NoWrite
               /\ pulse' = IF Requests(wcmd.reg) THEN wcmd.reg ELSE "NONE"
               /\ hst' = hst
<1>1. CASE wstate = "DATA"
  BY <1>1, FsmTakes
<1>2. CASE wstate # "DATA" /\ (w = NoWrite \/ wstate # "IDLE")
  BY <1>2, FsmRests
<1>3. CASE wstate = "IDLE" /\ w # NoWrite
  <2>1. w = Offer /\ hst' = AfterWrite /\ job' = job
    BY <1>3 DEF HostMoves
  <2> QED
    BY <1>3, <2>1, FsmOffers
<1> QED
  BY <1>1, <1>2, <1>3

(***************************************************************************)
(* The dispatcher's three kinds of edge: it takes a kick, it pushes the    *)
(* flit whose last word it reads, or neither.                              *)
(***************************************************************************)
Kicked ==
  /\ pulse = "PROG_KICK" /\ ~prog_run /\ ~disp_push
  /\ prog_run' = TRUE /\ prog_left' = job.len /\ prog_rd' = job.base
  /\ prog_dst' = job.dst /\ disp_push' = FALSE
  /\ hst' = "READY" /\ wstate' = "IDLE" /\ pulse' = "NONE"
  /\ job \in Kicks

Pushed ==
  /\ prog_run /\ ~disp_push /\ ~TxFull /\ prog_credit # 0
  /\ pulse = "NONE"
  /\ prog_flit' = StagedFlit /\ prog_rd' = prog_rd + 1 /\ prog_word' = 0
  /\ disp_push' = TRUE /\ prog_run' = (prog_left # 1)
  /\ prog_left' = IF prog_left = 1 THEN prog_left ELSE prog_left - 1
  /\ prog_dst' = prog_dst

Rested ==
  /\ pulse # "PROG_KICK"
  /\ disp_push' = FALSE
  /\ prog_run' = prog_run /\ prog_left' = prog_left /\ prog_rd' = prog_rd
  /\ prog_run \/ disp_push => prog_dst' = prog_dst /\ pulse = "NONE"

(* The dispatcher takes a kick, pushes a flit or rests; while it runs the  *)
(* host writes nothing that counts.                                        *)
LEMMA DispCases ==
  ASSUME TypeOK, PlacesOK, HostOK, DispOK, NEW w, WriteFsm(w), HostMoves(w),
         NEW x, OrcMoves(x), Dispatcher(x)
  PROVE  /\ Kicked \/ Pushed \/ Rested
         /\ prog_run => Calm'
<1>1. prog_run \/ disp_push => pulse = "NONE" /\ (wstate = "IDLE" \/ hst = "REPLY")
  BY DEF DispOK, Calm
<1>2. prog_run \/ disp_push => prog_dst' = prog_dst
  <2>1. wcmd.reg = "PROG_DST" => hst = "BASE"
    BY DEF HostOK, WriteOK, Writing, AfterReg, Reg
  <2> QED
    BY <1>1, <2>1 DEF WriteFsm
<1>3. ASSUME prog_run PROVE Calm'
  <2>1. Calm
    BY <1>3 DEF DispOK
  <2>2. CASE wstate' = "IDLE" /\ pulse' = "NONE" /\ hst' = hst
    BY <2>1, <2>2 DEF Calm
  <2>3. CASE pulse' = "NONE" /\ hst' = AfterWrite /\ Offer # NoWrite
    <3>1. hst = "READ"
      BY <2>1, <2>3 DEF Calm, Offer
    <3> QED
      BY <2>3, <3>1 DEF Calm, AfterWrite
  <2>4. CASE /\ wstate = "DATA" /\ hst' = hst
             /\ pulse' = IF Requests(wcmd.reg) THEN wcmd.reg ELSE "NONE"
    <3>1. hst = "REPLY" /\ wcmd.reg \in Reg \ {"NONE"}
      BY <2>1, <2>4 DEF Calm, HostOK, WriteOK, TypeOK, OrcTypeOK, Write
    <3>2. AfterReg(wcmd.reg) = "REPLY"
      BY <3>1 DEF HostOK, WriteOK, Writing
    <3>3. wcmd.reg = "TX_KICK"
      BY <3>1, <3>2 DEF AfterReg, Reg
    <3>4. pulse' = "NONE"
      BY <1>3, <2>4, <3>3 DEF Requests
    <3> QED
      BY <2>4, <3>1, <3>4 DEF Calm
  <2> QED
    BY <2>2, <2>3, <2>4, OrcHost
<1>4. pulse = "PROG_KICK" =>
        /\ KickTaken /\ ~prog_run /\ ~disp_push
        /\ prog_len = job.len /\ prog_base = job.base /\ prog_dst' = job.dst
        /\ hst' = "READY" /\ wstate' = "IDLE" /\ pulse' = "NONE" /\ job \in Kicks
  <2>1. pulse = "PROG_KICK" =>
          /\ job \in Kicks /\ prog_len = job.len /\ prog_base = job.base
          /\ prog_dst = job.dst /\ hst = "READY"
    BY DEF HostOK, JobOK, WriteOK, Writing, Loading, DstSet, BaseSet, LenSet,
           AfterReg, Reg
  <2>2. pulse = "PROG_KICK" => wstate = "RESP"
    BY DEF HostOK, WriteOK
  <2>3. pulse = "PROG_KICK" => /\ wstate' = "IDLE" /\ pulse' = "NONE"
                               /\ hst' = hst /\ prog_dst' = prog_dst
    BY <2>2, OrcHost DEF WriteFsm
  <2>4. pulse = "PROG_KICK" => job.len # 0
    BY <2>1, KickBounds
  <2> QED
    BY <1>1, <2>1, <2>2, <2>3, <2>4 DEF KickTaken
<1>5. CASE KickTaken
  <2>1. pulse = "PROG_KICK"
    BY <1>5 DEF KickTaken
  <2>2. /\ prog_run' = TRUE /\ prog_left' = prog_len
        /\ prog_rd' = prog_base /\ disp_push' = FALSE
    BY <1>5 DEF Dispatcher
  <2> QED
    BY <1>3, <1>4, <2>1, <2>2 DEF Kicked
<1>6. CASE ~KickTaken /\ DispCan /\ LastWord
  <2>1. /\ prog_flit' = StagedFlit /\ prog_rd' = prog_rd + 1
        /\ prog_word' = 0 /\ disp_push' = TRUE
        /\ prog_run' = (prog_left # 1)
        /\ prog_left' = IF prog_left = 1 THEN prog_left ELSE prog_left - 1
    BY <1>6 DEF Dispatcher
  <2>2. prog_run /\ ~TxFull /\ prog_credit # 0
    BY <1>6 DEF DispCan
  <2>3. ~disp_push
    BY <1>6, OrcAssumption DEF DispOK, LastWord
  <2> QED
    BY <1>1, <1>2, <1>3, <2>1, <2>2, <2>3 DEF Pushed
<1>7. CASE ~KickTaken /\ ~(DispCan /\ LastWord)
  <2>1. /\ disp_push' = FALSE /\ prog_run' = prog_run
        /\ prog_left' = prog_left /\ prog_rd' = prog_rd
    BY <1>7 DEF Dispatcher
  <2> QED
    BY <1>1, <1>2, <1>3, <1>4, <1>7, <2>1 DEF Rested
<1> QED
  BY <1>5, <1>6, <1>7

(* An interval without its first element.                                  *)
LEMMA OneLess ==
  ASSUME NEW a \in Nat, NEW n \in Nat, n >= 1, n # 1
  PROVE  /\ a \in a .. a + n - 1
         /\ a + 1 .. (a + 1) + (n - 1) - 1 = (a .. a + n - 1) \ {a}
         /\ a + 1 .. (a + 1) + (n - 1) - 1 # {}
<1>1. (a + 1) + (n - 1) - 1 = a + n - 1 /\ a + 1 \in a + 1 .. a + n - 1
  OBVIOUS
<1> QED
  BY <1>1

(* What is left of the program.                                            *)
LEMMA LeftMoves ==
  ASSUME TypeOK, DispOK
  PROVE  /\ Kicked => Left = {} /\ Left' = Slots(job)
         /\ Pushed => /\ prog_rd \in Left /\ Left' = Left \ {prog_rd}
                      /\ prog_rd \in 0 .. STAGE_FLITS - 1
                      /\ prog_run' <=> Left' # {}
         /\ Rested => Left' = Left
         /\ Left \subseteq 0 .. STAGE_FLITS - 1 /\ IsFiniteSet(Left)
<1>1. prog_rd \in Nat /\ prog_left \in Nat /\ STAGE_FLITS \in Nat
  BY OrcAssumption DEF TypeOK, OrcTypeOK
<1>2. prog_run => prog_left >= 1 /\ prog_rd + prog_left <= STAGE_FLITS
  BY DEF DispOK
<1>3. Kicked => Left = {} /\ Left' = Slots(job)
  BY DEF Kicked, Left, Slots
<1>4. Rested => Left' = Left
  BY DEF Rested, Left
<1>5. Left \subseteq 0 .. STAGE_FLITS - 1
  BY <1>1, <1>2 DEF Left
<1>6. IsFiniteSet(Left)
  <2>1. IsFiniteSet(0 .. STAGE_FLITS - 1)
    BY <1>1, FS_Interval
  <2> QED
    BY <1>5, <2>1, FS_Subset
<1>7. ASSUME Pushed
      PROVE  /\ prog_rd \in Left /\ Left' = Left \ {prog_rd}
             /\ prog_rd \in 0 .. STAGE_FLITS - 1
             /\ prog_run' <=> Left' # {}
  <2>1. prog_run /\ prog_rd' = prog_rd + 1 /\ prog_run' = (prog_left # 1)
        /\ prog_left' = IF prog_left = 1 THEN prog_left ELSE prog_left - 1
    BY <1>7 DEF Pushed
  <2>2. Left = prog_rd .. prog_rd + prog_left - 1
    BY <2>1 DEF Left
  <2>3. CASE prog_left = 1
    <3>1. Left' = {} /\ ~prog_run'
      BY <2>1, <2>3 DEF Left
    <3> QED
      BY <1>1, <1>2, <2>1, <2>2, <2>3, <3>1
  <2>4. CASE prog_left # 1
    <3>1. Left' = prog_rd + 1 .. (prog_rd + 1) + (prog_left - 1) - 1 /\ prog_run'
      BY <2>1, <2>4 DEF Left
    <3>2. /\ prog_rd \in prog_rd .. prog_rd + prog_left - 1
          /\ prog_rd + 1 .. (prog_rd + 1) + (prog_left - 1) - 1
               = (prog_rd .. prog_rd + prog_left - 1) \ {prog_rd}
          /\ prog_rd + 1 .. (prog_rd + 1) + (prog_left - 1) - 1 # {}
      BY <1>1, <1>2, <2>1, <2>4, OneLess
    <3>3. prog_rd \in 0 .. STAGE_FLITS - 1
      BY <1>1, <1>2, <2>1
    <3> QED
      BY <2>2, <3>1, <3>2, <3>3, Zenon
  <2> QED
    BY <2>3, <2>4
<1> QED
  BY <1>3, <1>4, <1>5, <1>6, <1>7

(* A burst that the dispatcher has begun to push ends among what is left.  *)
LEMMA BurstLeft ==
  ASSUME TypeOK, DispOK, Pushed,
         Stage[prog_rd].type = "DATA", ~Stage[prog_rd].last
  PROVE  prog_run' /\ \E j \in Left' : LastData(j)
<1>1. prog_rd \in Left /\ Left' = Left \ {prog_rd} /\ (prog_run' <=> Left' # {})
  BY LeftMoves
<1>2. PICK j \in Left : LastData(j)
  BY <1>1 DEF DispOK, Pushed
<1>3. j # prog_rd
  BY <1>2 DEF LastData
<1> QED
  BY <1>1, <1>2, <1>3

(* The agent's edge keeps what is said of the dispatcher.                  *)
LEMMA OrcDisp ==
  ASSUME TypeOK, PlacesOK, HostOK, DispOK, NEW w, WriteFsm(w), HostMoves(w),
         NEW x, OrcMoves(x), Dispatcher(x), Len(tx') \in Nat,
         InInstDone(x) => disp_push \/ prog_credit # W16 - 1
  PROVE  DispOK'
<1>1. /\ Kicked \/ Pushed \/ Rested
      /\ prog_run => Calm'
  BY DispCases
<1>2. prog_rd \in Nat /\ prog_left \in Nat /\ STAGE_FLITS \in Nat
  BY OrcAssumption DEF TypeOK, OrcTypeOK
<1>3. CASE Kicked
  <2>1. /\ prog_run' /\ ~disp_push' /\ prog_left' = job.len /\ prog_rd' = job.base
        /\ prog_dst' = job.dst /\ Calm' /\ job \in Kicks
    BY <1>3 DEF Kicked, Calm
  <2>2. /\ job.dst \in Unit /\ job.len \in Nat /\ job.len # 0 /\ job.base \in Nat
        /\ job.base + job.len <= STAGE_FLITS /\ WholeBursts(job)
    BY <2>1, KickBounds
  <2>3. Left' = Slots(job)
    BY <1>3, LeftMoves
  <2>4. \A i \in Left' : Stage[i].type = "DATA" =>
          \E j \in Left' : j >= i /\ LastData(j)
    BY <2>2, <2>3 DEF WholeBursts, LastData
  <2>5. job.len >= 1
    BY <2>2
  <2> QED
    BY <2>1, <2>2, <2>4, <2>5 DEF DispOK, LastData
<1>4. CASE Pushed
  <2>1. /\ prog_rd \in Left /\ Left' = Left \ {prog_rd}
        /\ prog_rd \in 0 .. STAGE_FLITS - 1
        /\ Left \subseteq 0 .. STAGE_FLITS - 1
    BY <1>4, LeftMoves
  <2>2. /\ prog_run /\ disp_push' /\ prog_word' = 0 /\ prog_flit' = StagedFlit
        /\ prog_dst' = prog_dst /\ prog_rd' = prog_rd + 1
        /\ prog_run' = (prog_left # 1)
        /\ prog_left' = IF prog_left = 1 THEN prog_left ELSE prog_left - 1
        /\ ~disp_push /\ ~TxFull /\ prog_credit # 0 /\ pulse = "NONE"
    BY <1>4 DEF Pushed
  <2>3. /\ Calm' /\ prog_dst' \in Unit
        /\ prog_left >= 1 /\ prog_rd + prog_left <= STAGE_FLITS
    BY <1>1, <2>2 DEF DispOK
  <2>4. prog_run' => prog_left' >= 1 /\ prog_rd' + prog_left' <= STAGE_FLITS
    <3>1. prog_left # 1 =>
            prog_left - 1 >= 1 /\ (prog_rd + 1) + (prog_left - 1) <= STAGE_FLITS
      BY <1>2, <2>3
    <3> QED
      BY <2>2, <3>1, Zenon
  <2>5. ASSUME NEW i \in Left', Stage[i].type = "DATA"
        PROVE  \E j \in Left' : j >= i /\ LastData(j)
    <3>1. i \in Left /\ i # prog_rd /\ i \in Int /\ prog_rd \in Int
      BY <2>1, <2>5
    <3>2. PICK j \in Left : j >= i /\ LastData(j)
      BY <2>2, <2>5, <3>1 DEF DispOK
    <3>3. i > prog_rd
      BY <1>2, <2>2, <3>1 DEF Left
    <3>4. j # prog_rd
      <4>1. j \in Int
        BY <2>1, <3>2
      <4> QED
        BY <3>1, <3>2, <3>3, <4>1
    <3> QED
      BY <2>1, <3>2, <3>4
  <2>6. prog_flit'.type \in {"INST", "DATA"}
    <3>1. Stage[prog_rd] \in [type : {"INST", "DATA"}, txn : Nat, last : BOOLEAN]
      BY <2>1, OrcAssumption
    <3> QED
      BY <2>2, <3>1 DEF StagedFlit
  <2>7. ~TxFull'
    <3>1. tx' = Popped
      BY <2>2 DEF OrcMoves, MailPushed
    <3>2. Len(tx') <= Len(tx) /\ Len(tx) \in Nat
      BY <3>1, PoppedType
    <3> QED
      BY <2>2, <3>2, Constants DEF TxFull
  <2>8. prog_credit' # 0
    <3>1. prog_credit \in 0 .. W16 - 1
      BY DEF TypeOK, OrcTypeOK
    <3>2. prog_credit' = IF InInstDone(x) THEN Inc(prog_credit) ELSE prog_credit
      BY <2>2 DEF Dispatcher, NextCredit
    <3>3. InInstDone(x) => Inc(prog_credit) = prog_credit + 1
      BY <2>2, <3>1, Counter16
    <3>4. prog_credit \in Nat
      BY <3>1, Counter16
    <3> QED
      BY <2>2, <3>2, <3>3, <3>4
  <2> QED
    BY <2>2, <2>3, <2>4, <2>5, <2>6, <2>7, <2>8 DEF DispOK, LastData
<1>5. CASE Rested
  <2>1. /\ ~disp_push' /\ prog_run' = prog_run /\ prog_left' = prog_left
        /\ prog_rd' = prog_rd /\ (prog_run => prog_dst' = prog_dst)
    BY <1>5 DEF Rested
  <2>2. Left' = Left
    BY <1>5, LeftMoves
  <2> QED
    BY <1>1, <2>1, <2>2 DEF DispOK, LastData
<1> QED
  BY <1>1, <1>3, <1>4, <1>5

(***************************************************************************)
(* An edge of the agent takes from a unit's line the flit it absorbs, and  *)
(* adds the flit it pushes next or the read the host kicked.               *)
(***************************************************************************)
LEMMA OrcSent ==
  ASSUME TypeOK, PlacesOK, HostOK, DispOK, PlacesOK', NEW x, OrcMoves(x),
         NEW v \in Unit, NEW K, "none" \notin K
  PROVE  /\ CountSent(v, K) \in Nat /\ CountSent(v, K)' \in Nat
         /\ CountSent(v, K)' = CountSent(v, K) + One(disp_push /\ Is(DispFlit, v, K))'
              + (IF MailPushed THEN Weight(tx_stage, v, K) ELSE 0)
<1> DEFINE s == IF OrcSends(DownBusy) THEN Weight(orc_out, v, K) ELSE 0
           p == IF TxPop(DownBusy) THEN Weight(Head(tx), v, K) ELSE 0
           d == One(disp_push /\ Is(DispFlit, v, K))
           k == IF MailPushed THEN Weight(tx_stage, v, K) ELSE 0
           wo == Weight(orc_out, v, K)
           won == Weight(orc_out', v, K)
           ct == CountOf(tx, v, K)
           ctn == CountOf(tx', v, K)
           cd == CountOf(down[v], v, K)
           cdn == CountOf(down'[v], v, K)
           dn == One(disp_push /\ Is(DispFlit, v, K))'
<1>0. UnitPlaces(v) /\ LinkMoves(x, v)
  BY DEF PlacesOK, OrcMoves
<1>e. \A f : f.type = "NONE" => Weight(f, v, K) = 0
  BY KindOf DEF Weight, Is, One
<1>a. /\ s \in Nat /\ p \in Nat /\ d \in Nat /\ k \in Nat /\ wo \in Nat
      /\ won \in Nat /\ dn \in Nat
  BY WeightType DEF One
<1>1. cd \in Nat /\ cdn \in Nat /\ cdn = cd + s
  <2>1. down[v] \in Seq(Outward(v))
    BY <1>0 DEF UnitPlaces
  <2>2. down'[v] = IF OrcSends(DownBusy) /\ orc_out.peer = v
                   THEN Append(down[v], orc_out) ELSE down[v]
    BY <1>0 DEF LinkMoves
  <2>3. OrcSends(DownBusy) /\ orc_out.peer = v => orc_out \in Outward(v)
    BY <1>0 DEF LinkMoves
  <2>4. cd \in Nat
    BY <2>1, WhereType
  <2>5. CASE OrcSends(DownBusy) /\ orc_out.peer = v
    <3>1. CountOf(Append(down[v], orc_out), v, K) = cd + wo
      BY <2>1, <2>3, <2>5, CountAppend
    <3> HIDE DEF cd, wo
    <3>2. cdn = cd + wo
      BY <2>2, <2>5, <3>1, Zenon
    <3>3. s = wo
      BY <2>5 DEF wo
    <3> HIDE DEF cdn, s
    <3> QED
      BY <1>a, <2>4, <3>2, <3>3
  <2>6. CASE ~(OrcSends(DownBusy) /\ orc_out.peer = v)
    <3>1. cdn = cd
      BY <2>2, <2>6, Zenon
    <3>2. s = 0
      BY <2>6 DEF Weight, Is, One
    <3> HIDE DEF cd, cdn, s
    <3> QED
      BY <2>4, <3>1, <3>2
  <2> QED
    BY <2>5, <2>6
<1>2. won + s = wo + p
  <2>1. orc_out' = IF TxPop(DownBusy) THEN Head(tx)
                   ELSE IF DownBusy THEN orc_out ELSE NoFlit
    BY DEF OrcMoves
  <2>2. ~IsFlit(orc_out) => wo = 0
    BY <1>e DEF IsFlit
  <2>3. CASE TxPop(DownBusy)
    <3>1. s = wo
      BY <2>2, <2>3 DEF TxPop, OrcSends
    <3>2. won = p
      BY <2>1, <2>3
    <3> HIDE DEF s, wo, won, p
    <3> QED
      BY <1>a, <3>1, <3>2
  <2>4. CASE ~TxPop(DownBusy) /\ DownBusy
    <3>1. s = 0 /\ won = wo /\ p = 0
      BY <2>1, <2>4 DEF OrcSends
    <3> HIDE DEF s, wo, won, p
    <3> QED
      BY <1>a, <3>1
  <2>5. CASE ~TxPop(DownBusy) /\ ~DownBusy
    <3>1. s = wo
      BY <2>2, <2>5 DEF OrcSends
    <3>2. won = 0 /\ p = 0
      BY <1>e, <2>1, <2>5 DEF NoFlit
    <3> HIDE DEF s, wo, won, p
    <3> QED
      BY <1>a, <3>1, <3>2
  <2> QED
    BY <2>3, <2>4, <2>5
<1>3. ct \in Nat /\ ctn \in Nat /\ ctn + p = ct + d + k
  <2> DEFINE cp == CountOf(Popped, v, K)
  <2>1. tx \in Seq(AllOutward) /\ Popped \in Seq(AllOutward)
        /\ (TxPop(DownBusy) => tx # <<>>)
    BY PoppedType
  <2>2. ct \in Nat /\ cp \in Nat
    BY <2>1, WhereType
  <2>3. cp + p = ct
    <3>1. TxPop(DownBusy) => ct = Weight(Head(tx), v, K) + CountOf(Tail(tx), v, K)
      BY <2>1, CountTail
    <3>2. CASE TxPop(DownBusy)
      <4>1. cp = CountOf(Tail(tx), v, K) /\ p = Weight(Head(tx), v, K)
        BY <3>2 DEF Popped
      <4> HIDE DEF cp, p, ct
      <4> QED
        BY <1>a, <2>2, <3>1, <3>2, <4>1
    <3>3. CASE ~TxPop(DownBusy)
      <4>1. cp = ct /\ p = 0
        BY <3>3 DEF Popped
      <4> HIDE DEF cp, p, ct
      <4> QED
        BY <2>2, <4>1
    <3> QED
      BY <3>2, <3>3
  <2>4. tx' = IF disp_push THEN Append(Popped, DispFlit)
              ELSE IF MailPushed THEN Append(Popped, tx_stage)
              ELSE Popped
    BY DEF OrcMoves
  <2>5. /\ disp_push => DispFlit \in AllOutward
        /\ MailPushed => tx_stage \in AllOutward
        /\ disp_push => ~MailPushed
    <3>1. disp_push => ~MailPushed
      BY DEF DispOK, Calm, MailPushed
    <3> QED
      BY <3>1, PushedFlit
  <2>6. ctn = cp + d + k
    <3>1. CASE disp_push
      <4>1. CountOf(Append(Popped, DispFlit), v, K) = cp + Weight(DispFlit, v, K)
        BY <2>1, <2>5, <3>1, CountAppend
      <4>2. d = Weight(DispFlit, v, K) /\ k = 0
        BY <2>5, <3>1 DEF Weight, One
      <4>3. ctn = CountOf(Append(Popped, DispFlit), v, K)
        BY <2>4, <3>1, Zenon
      <4> HIDE DEF cp, ctn, d, k
      <4> QED
        BY <1>a, <2>2, <4>1, <4>2, <4>3
    <3>2. CASE ~disp_push /\ MailPushed
      <4>1. CountOf(Append(Popped, tx_stage), v, K) = cp + Weight(tx_stage, v, K)
        BY <2>1, <2>5, <3>2, CountAppend
      <4>2. d = 0 /\ k = Weight(tx_stage, v, K)
        BY <3>2 DEF One
      <4>3. ctn = CountOf(Append(Popped, tx_stage), v, K)
        BY <2>4, <3>2, Zenon
      <4> HIDE DEF cp, ctn, d, k
      <4> QED
        BY <1>a, <2>2, <4>1, <4>2, <4>3
    <3>3. CASE ~disp_push /\ ~MailPushed
      <4>1. d = 0 /\ k = 0 /\ ctn = cp
        BY <2>4, <3>3 DEF One
      <4> HIDE DEF cp, ctn, d, k
      <4> QED
        BY <2>2, <4>1
    <3> QED
      BY <3>1, <3>2, <3>3
  <2> HIDE DEF ct, ctn, cp, p, d, k
  <2> QED
    BY <1>a, <2>2, <2>3, <2>6
<1>4. CountSent(v, K) = cd + wo + ct + d
  BY DEF CountSent
<1>5. CountSent(v, K)' = cdn + won + ctn + dn
  <2>1. /\ CountOf(down[v], v, K)' = cdn /\ CountOf(tx, v, K)' = ctn
        /\ Weight(orc_out, v, K)' = won
    BY DEF CountOf, Weight, One, Is, Kind
  <2> HIDE DEF cdn, ctn, won
  <2> QED
    BY <2>1 DEF CountSent
<1> HIDE DEF s, p, d, k, wo, won, ct, ctn, cd, cdn, dn
<1>6. /\ CountSent(v, K) \in Nat /\ CountSent(v, K)' \in Nat
      /\ CountSent(v, K)' = CountSent(v, K) + dn + k
  BY <1>a, <1>1, <1>2, <1>3, <1>4, <1>5
<1> QED
  BY <1>6 DEF dn, k

(* A flit the agent takes leaves the unit's side of the line.              *)
LEMMA OrcUnit ==
  ASSUME TypeOK, PlacesOK, PlacesOK', NEW x, OrcMoves(x),
         NEW v \in Unit, NEW K, "none" \notin K
  PROVE  /\ CountUnit(v, K) \in Nat /\ CountUnit(v, K)' \in Nat
         /\ CountUnit(v, K)' + (IF Absorbs(x) THEN Weight(x, v, K) ELSE 0)
              = CountUnit(v, K)
<1> DEFINE g == IF Absorbs(x) THEN Weight(x, v, K) ELSE 0
           cu == CountOf(up[v], v, K)
           cun == CountOf(up'[v], v, K)
           rest == Weight(cu_out[v], v, K) + CountOf(sigq[v], v, K)
                     + CountOwing(v, K) + CountOf(Queued(v), v, K)
                     + CountOf(recvq[v], v, K)
<1>0. UnitPlaces(v) /\ LinkMoves(x, v) /\ UnitStays(v)
  BY DEF PlacesOK, OrcMoves, LinkMoves
<1>1. cu \in Nat /\ cun \in Nat /\ g \in Nat /\ cun + g = cu
  <2>1. up[v] \in Seq(Inward(v))
    BY <1>0 DEF UnitPlaces
  <2>2. up'[v] = IF Absorbs(x) /\ x.peer = v THEN Tail(up[v]) ELSE up[v]
    BY <1>0 DEF LinkMoves
  <2>3. Absorbs(x) /\ x.peer = v => up[v] # <<>> /\ x = Head(up[v])
    BY <1>0 DEF LinkMoves
  <2>4. cu \in Nat /\ g \in Nat
    BY <2>1, WhereType, WeightType
  <2>5. CASE Absorbs(x) /\ x.peer = v
    <3>1. cu = Weight(x, v, K) + CountOf(Tail(up[v]), v, K)
      BY <2>1, <2>3, <2>5, CountTail
    <3>2. Tail(up[v]) \in Seq(Inward(v))
      BY <2>1, <2>3, <2>5, HeadTailProperties
    <3>3. CountOf(Tail(up[v]), v, K) \in Nat
      BY <3>2, WhereType
    <3>4. cun = CountOf(Tail(up[v]), v, K) /\ g = Weight(x, v, K)
      BY <2>2, <2>5
    <3> HIDE DEF cu, cun, g
    <3> QED
      BY <2>4, <3>1, <3>3, <3>4
  <2>6. CASE ~(Absorbs(x) /\ x.peer = v)
    <3>1. cun = cu /\ g = 0
      BY <2>2, <2>6 DEF Weight, Is, One
    <3> HIDE DEF cu, cun, g
    <3> QED
      BY <2>4, <3>1
  <2> QED
    BY <2>5, <2>6
<1>2. /\ CountOf(sigq[v], v, K)' = CountOf(sigq[v], v, K)
      /\ CountOf(recvq[v], v, K)' = CountOf(recvq[v], v, K)
      /\ CountOf(Queued(v), v, K)' = CountOf(Queued(v), v, K)
  BY <1>0 DEF UnitStays, CountOf, Queued
<1>3. /\ Weight(cu_out[v], v, K)' = Weight(cu_out[v], v, K)
      /\ CountOwing(v, K)' = CountOwing(v, K)
  BY <1>0 DEF UnitStays, Weight, CountOwing, One, Is, Kind
<1>4. CountOf(up[v], v, K)' = cun
  BY DEF CountOf
<1>5. /\ Weight(cu_out[v], v, K) \in Nat /\ CountOf(sigq[v], v, K) \in Nat
      /\ CountOwing(v, K) \in Nat /\ CountOf(Queued(v), v, K) \in Nat
      /\ CountOf(recvq[v], v, K) \in Nat
  <2>1. Queued(v) \in Seq(Ofs(v, "INST"))
    BY <1>0, HeadTailProperties DEF UnitPlaces, Queued
  <2> QED
    BY <1>0, <2>1, WhereType, WeightType DEF UnitPlaces, CountOwing, One
<1> HIDE DEF cu, cun, g
<1>6. /\ CountUnit(v, K) = cu + Weight(cu_out[v], v, K) + CountOf(sigq[v], v, K)
            + CountOwing(v, K) + CountOf(Queued(v), v, K) + CountOf(recvq[v], v, K)
      /\ CountUnit(v, K)' = cun + Weight(cu_out[v], v, K) + CountOf(sigq[v], v, K)
            + CountOwing(v, K) + CountOf(Queued(v), v, K) + CountOf(recvq[v], v, K)
  BY <1>2, <1>3, <1>4 DEF CountUnit, cu
<1>7. /\ CountUnit(v, K) \in Nat /\ CountUnit(v, K)' \in Nat
      /\ CountUnit(v, K)' + g = CountUnit(v, K)
  BY <1>1, <1>5, <1>6
<1> QED
  BY <1>7 DEF g

(* A line gains what is pushed and loses what the agent takes.             *)
LEMMA OrcCount ==
  ASSUME TypeOK, PlacesOK, HostOK, DispOK, PlacesOK', NEW x, OrcMoves(x),
         NEW v \in Unit, NEW K, "none" \notin K
  PROVE  /\ CountLine(v, K) \in Nat /\ CountLine(v, K)' \in Nat
         /\ CountLine(v, K)' + (IF Absorbs(x) THEN Weight(x, v, K) ELSE 0)
              = CountLine(v, K) + One(disp_push /\ Is(DispFlit, v, K))'
                  + (IF MailPushed THEN Weight(tx_stage, v, K) ELSE 0)
<1> DEFINE g == IF Absorbs(x) THEN Weight(x, v, K) ELSE 0
           k == IF MailPushed THEN Weight(tx_stage, v, K) ELSE 0
           dn == One(disp_push /\ Is(DispFlit, v, K))'
<1>1. /\ CountUnit(v, K) \in Nat /\ CountUnit(v, K)' \in Nat
      /\ CountUnit(v, K)' + g = CountUnit(v, K)
  BY OrcUnit
<1>2. /\ CountSent(v, K) \in Nat /\ CountSent(v, K)' \in Nat
      /\ CountSent(v, K)' = CountSent(v, K) + dn + k
  BY OrcSent
<1>3. g \in Nat /\ k \in Nat /\ dn \in Nat
  BY WeightType DEF One
<1> HIDE DEF g, k, dn
<1>4. /\ CountLine(v, K) \in Nat /\ CountLine(v, K)' \in Nat
      /\ CountLine(v, K)' + g = CountLine(v, K) + dn + k
  BY <1>1, <1>2, <1>3 DEF CountLine
<1> QED
  BY <1>4 DEF g, k, dn


(* What an edge of the agent makes of the lines together.                  *)
LEMMA OrcInLine ==
  ASSUME TypeOK, PlacesOK, HostOK, DispOK, TypeOK', PlacesOK', DispOK',
         NEW x, OrcMoves(x), NEW K, "none" \notin K,
         disp_push' => ~MailPushed
  PROVE  /\ InLine(K) \in Nat /\ InLine(K)' \in Nat
         /\ InLine(K)' + (IF Absorbs(x) THEN One(Kind(x) \in K) ELSE 0)
              = InLine(K)
                  + (IF disp_push' THEN One(Kind(prog_flit') \in K) ELSE 0)
                  + (IF MailPushed THEN One("read" \in K) ELSE 0)
<1> DEFINE f == [v \in Unit |-> CountOf(Line(v), v, K)]
           g == [v \in Unit |-> CountOf(Line(v), v, K)']
           i == IF Absorbs(x) THEN One(Kind(x) \in K) ELSE 0
           p == IF disp_push' THEN One(Kind(prog_flit') \in K) ELSE 0
           k == IF MailPushed THEN One("read" \in K) ELSE 0
<1>0. PICK z \in Unit : TRUE
  BY UnitAssumption
<1> DEFINE a == IF Absorbs(x) THEN x.peer ELSE z
           b == IF disp_push' THEN prog_dst'
                ELSE IF MailPushed THEN job.dst ELSE z
<1>1. /\ f \in [Unit -> Nat] /\ g \in [Unit -> Nat] /\ IsFiniteSet(Unit)
      /\ \A v \in Unit : f[v] = CountLine(v, K) /\ g[v] = CountLine(v, K)'
  <2>1. ASSUME NEW v \in Unit
        PROVE  /\ CountOf(Line(v), v, K) = CountLine(v, K) /\ CountLine(v, K) \in Nat
               /\ CountOf(Line(v), v, K)' = CountLine(v, K)' /\ CountLine(v, K)' \in Nat
    BY LineCount, LineCountNext
  <2> QED
    BY <2>1, Constants
<1>2. InLine(K) = Total(f) /\ InLine(K)' = Total(g)
  BY DEF InLine
<1>3. i \in Nat /\ p \in Nat /\ k \in Nat /\ p + k \in Nat
  BY DEF One
<1>4. a \in Unit
  BY <1>0 DEF OrcMoves, Absorbs, IsFlit, NoFlit
<1>5. b \in Unit
  <2>1. disp_push' => prog_dst' \in Unit
    BY DEF DispOK
  <2>2. MailPushed => job.dst \in Unit
    BY PushedFlit
  <2> QED
    BY <1>0, <2>1, <2>2
<1>6. ASSUME NEW v \in Unit
      PROVE  CountLine(v, K)' + (IF v = a THEN i ELSE 0)
               = CountLine(v, K) + (IF v = b THEN p + k ELSE 0)
  <2> DEFINE gi == IF Absorbs(x) THEN Weight(x, v, K) ELSE 0
             ki == IF MailPushed THEN Weight(tx_stage, v, K) ELSE 0
             di == One(disp_push /\ Is(DispFlit, v, K))'
  <2>1. /\ CountLine(v, K) \in Nat /\ CountLine(v, K)' \in Nat
        /\ CountLine(v, K)' + gi = CountLine(v, K) + di + ki
    BY OrcCount
  <2>2. gi = IF v = a THEN i ELSE 0
    BY DEF Weight, Is, One
  <2>3. di + ki = IF v = b THEN p + k ELSE 0
    <3>1. CASE disp_push'
      <4>1. Kind(DispFlit') = Kind(prog_flit') /\ DispFlit'.peer = prog_dst'
        <5>1. prog_flit' \in Flit
          BY DEF TypeOK, OrcTypeOK
        <5> QED
          BY <5>1 DEF DispFlit, Kind, Flit, IsSignal
      <4>2. Is(DispFlit', v, K) <=> v = b /\ Kind(prog_flit') \in K
        BY <3>1, <4>1 DEF Is
      <4>3. di = IF Is(DispFlit', v, K) THEN 1 ELSE 0
        BY <3>1 DEF One, Is, Kind, IsSignal
      <4>4. ki = 0 /\ k = 0 /\ p = One(Kind(prog_flit') \in K)
        BY <3>1
      <4> HIDE DEF di, ki, k, p
      <4> QED
        BY <4>2, <4>3, <4>4 DEF One
    <3>2. CASE ~disp_push' /\ MailPushed
      <4>1. tx_stage = CtrlRead(job.dst)
        BY <3>2 DEF MailPushed, HostOK, ValuesOK
      <4>2. Kind(tx_stage) = "read" /\ tx_stage.peer = job.dst
        BY <4>1, KindOf DEF CtrlRead
      <4>3. Is(tx_stage, v, K) <=> v = b /\ "read" \in K
        BY <3>2, <4>2 DEF Is
      <4>4. di = 0 /\ p = 0 /\ ki = Weight(tx_stage, v, K) /\ k = One("read" \in K)
        BY <3>2 DEF One
      <4> HIDE DEF di, ki, k, p
      <4> QED
        BY <4>3, <4>4 DEF One, Weight
    <3>3. CASE ~disp_push' /\ ~MailPushed
      <4>1. di = 0 /\ p = 0 /\ ki = 0 /\ k = 0
        BY <3>3 DEF One
      <4> HIDE DEF di, ki, k, p
      <4> QED
        BY <4>1
    <3> QED
      BY <3>1, <3>2, <3>3
  <2>4. di \in Nat /\ ki \in Nat
    BY WeightType DEF One
  <2> HIDE DEF gi, ki, di, i, p, k, a, b
  <2> QED
    BY <2>1, <2>2, <2>3, <2>4
<1>7. \A v \in Unit : g[v] + (IF v = a THEN i ELSE 0) = f[v] + (IF v = b THEN p + k ELSE 0)
  <2> HIDE DEF f, g, i, p, k, a, b
  <2> QED
    BY <1>1, <1>6
<1> HIDE DEF f, g, i, p, k, a, b
<1> DEFINE j == p + k
<1>8. j \in Nat /\ Moved(Unit, f, g, a, b, i, j)
  BY <1>3, <1>7 DEF Moved
<1> HIDE DEF j
<1>9. Total(f) \in Nat /\ Total(g) \in Nat /\ Total(g) + i = Total(f) + j
  BY <1>1, <1>3, <1>4, <1>5, <1>8, TotalMoves
<1>10. Total(g) + i = Total(f) + p + k
  BY <1>3, <1>9 DEF j
<1> QED
  BY <1>2, <1>9, <1>10 DEF i, p, k

(* Nothing of more kinds, nothing of fewer.                                *)
LEMMA InLineNone ==
  ASSUME TypeOK, PlacesOK, DispOK, NEW K, NEW J, J \subseteq K, "none" \notin K,
         InLine(K) = 0
  PROVE  /\ \A v \in Unit : \A i \in DOMAIN Line(v) : ~Is(Line(v)[i], v, K)
         /\ InLine(J) = 0
<1>1. ASSUME NEW v \in Unit
      PROVE  /\ \A i \in DOMAIN Line(v) : ~Is(Line(v)[i], v, K)
             /\ CountOf(Line(v), v, J) = 0
  <2>1. Line(v) \in Seq(Flit) /\ CountOf(Line(v), v, K) \in Nat
    BY LineCount
  <2>2. CountOf(Line(v), v, K) <= 0
    BY InLineType
  <2>3. CountOf(Line(v), v, K) = 0
    BY <2>1, <2>2
  <2>4. \A i \in DOMAIN Line(v) : ~Is(Line(v)[i], v, K)
    BY <2>1, <2>3, CountNone
  <2>5. \A i \in DOMAIN Line(v) : ~Is(Line(v)[i], v, J)
    BY <2>4 DEF Is
  <2> QED
    BY <2>1, <2>4, <2>5, CountNone
<1> DEFINE f == [v \in Unit |-> CountOf(Line(v), v, J)]
<1>2. f \in [Unit -> Nat] /\ \A v \in Unit : f[v] = 0
  BY <1>1
<1>3. InLine(J) = Total(f)
  BY DEF InLine
<1> HIDE DEF f
<1>4. Total(f) = 0
  BY <1>2, TotalZero
<1> QED
  BY <1>1, <1>3, <1>4

(* A completion that arrives was outstanding.                              *)
LEMMA DoneOutstanding ==
  ASSUME TypeOK, PlacesOK, HostOK, DispOK, PlacesOK', CreditCovers,
         NEW x, OrcMoves(x), InInstDone(x)
  PROVE  disp_push \/ prog_credit # W16 - 1
<1> DEFINE v == x.peer
           K == {"job"}
<1>1. IsSignal(x) /\ Absorbs(x) /\ x.peer \in Unit
  BY DEF InInstDone, OrcMoves, IsSignal, NoFlit
<1>2. Kind(x) = "job"
  BY <1>1, KindOf DEF InInstDone, IsSignal
<1>3. Weight(x, v, K) = 1
  BY <1>2 DEF Weight, Is, One
<1> HIDE DEF v
<1>4. /\ CountUnit(v, K) \in Nat /\ CountUnit(v, K)' \in Nat
      /\ CountUnit(v, K)' + 1 = CountUnit(v, K)
  <2>1. /\ CountUnit(v, K) \in Nat /\ CountUnit(v, K)' \in Nat
        /\ CountUnit(v, K)' + (IF Absorbs(x) THEN Weight(x, v, K) ELSE 0)
             = CountUnit(v, K)
    BY <1>1, OrcUnit DEF v
  <2> QED
    BY <1>1, <1>3, <2>1
<1>5. CountSent(v, K) \in Nat
  BY <1>1, OrcSent DEF v
<1>6. CountLine(v, K) >= 1
  BY <1>4, <1>5 DEF CountLine
<1>7. CountOf(Line(v), v, K) = CountLine(v, K) /\ CountLine(v, K) \in Nat
  BY <1>1, LineCount DEF v
<1>8. CountOf(Line(v), v, K) <= InLine(K) /\ InLine(K) \in Nat
  BY <1>1, InLineType DEF v
<1>9. Outstanding = InLine(K)
  BY DEF Outstanding, OutstandingAt, InLine
<1>10. prog_credit \in Nat /\ SEED \in Nat /\ SEED < W16 /\ W16 \in Nat
  <2>1. W16 \in Nat
    BY DEF W16
  <2>2. prog_credit \in 0 .. W16 - 1
    BY DEF TypeOK, OrcTypeOK
  <2> QED
    BY <2>1, <2>2, Constants, Counter16
<1>11. ~disp_push => Uncharged = 0
  BY DEF Uncharged
<1> HIDE DEF K
<1> QED
  BY <1>6, <1>7, <1>8, <1>9, <1>10, <1>11 DEF CreditCovers

(* What a set of staging slots brings.                                     *)
LEMMA BringsTypes ==
  ASSUME TypeOK, HostOK, DispOK
  PROVE  /\ Brings(Left) \in Nat
         /\ Loading => Brings(Slots(job)) \in Nat
         /\ IsFiniteSet(Left) /\ (Loading => IsFiniteSet(Slots(job)))
<1>1. ASSUME NEW S, IsFiniteSet(S) PROVE Brings(S) \in Nat
  <2>1. IsFiniteSet({i \in S : Stage[i].type = "INST" \/ Stage[i].last})
    BY <1>1, FS_Subset
  <2> QED
    BY <2>1, FS_CardinalityType DEF Brings
<1>2. IsFiniteSet(Left)
  BY LeftMoves
<1>3. Loading => IsFiniteSet(Slots(job))
  <2>1. Loading => job \in Kicks
    BY DEF HostOK, JobOK
  <2>2. ASSUME Loading PROVE job.base \in Int /\ job.base + job.len - 1 \in Int
    BY <2>1, <2>2, KickBounds
  <2>3. Loading => IsFiniteSet(job.base .. job.base + job.len - 1)
    BY <2>2, FS_Interval
  <2> QED
    BY <2>3 DEF Slots
<1> QED
  BY <1>1, <1>2, <1>3

(* A credit that comes back for a completion that has arrived.             *)
LEMMA OneBack ==
  ASSUME NEW c \in Nat, NEW d \in Nat, NEW o \in Nat, NEW on \in Nat,
         NEW s \in Nat, NEW p \in {0, 1},
         on + 1 = o + p, c + o <= s, d <= c + 1
  PROVE  d + on <= s + p
OBVIOUS

(***************************************************************************)
(* The credit still covers what is outstanding.                            *)
(***************************************************************************)
LEMMA OrcCredit ==
  ASSUME TypeOK, PlacesOK, HostOK, DispOK, TypeOK', PlacesOK', DispOK',
         CreditCovers, SignalsOK, NEW x, OrcMoves(x), Dispatcher(x),
         disp_push' => pulse = "NONE"
  PROVE  CreditCovers'
<1> DEFINE o == InLine({"job"})
           on == InLine({"job"})'
           g == IF Absorbs(x) THEN One(Kind(x) \in {"job"}) ELSE 0
           p == IF disp_push' THEN One(Kind(prog_flit') \in {"job"}) ELSE 0
           k == IF MailPushed THEN One("read" \in {"job"}) ELSE 0
<1>1. o \in Nat /\ on \in Nat /\ on + g = o + p
  <2>0. disp_push' => ~MailPushed
    BY DEF MailPushed
  <2>1. /\ InLine({"job"}) \in Nat /\ InLine({"job"})' \in Nat
        /\ InLine({"job"})' + g = InLine({"job"}) + p + k
    BY <2>0, OrcInLine
  <2>2. k = 0 /\ p \in Nat
    BY DEF One
  <2> HIDE DEF g, p, k
  <2> QED
    BY <2>1, <2>2
<1>2. Outstanding = o /\ Outstanding' = on
  BY DEF Outstanding, OutstandingAt, InLine
<1>3. g \in {0, 1} /\ p \in {0, 1} /\ Uncharged \in {0, 1}
  BY DEF One, Uncharged
<1>4. Uncharged' = p
  <2>1. disp_push' => prog_flit'.type \in {"INST", "DATA"}
    BY DEF DispOK
  <2>2. Uncharged' = IF disp_push' /\ prog_flit'.type = "INST" THEN 1 ELSE 0
    BY DEF Uncharged, IsInst
  <2>3. disp_push' => (Kind(prog_flit') = "job" <=> prog_flit'.type = "INST")
    BY <2>1, KindOf
  <2> QED
    BY <2>2, <2>3 DEF One
<1>5. InInstDone(x) => g = 1
  <2>1. InInstDone(x) => Absorbs(x) /\ Kind(x) = "job"
    BY KindOf DEF InInstDone, IsSignal, OrcMoves
  <2> QED
    BY <2>1 DEF One
<1>6. ~disp_push => Uncharged = 0
  BY DEF Uncharged
<1>7. prog_credit \in 0 .. W16 - 1 /\ prog_credit' \in 0 .. W16 - 1
  BY DEF TypeOK, OrcTypeOK
<1>8. prog_credit \in Nat /\ prog_credit' \in Nat /\ SEED \in Nat
  BY <1>7, Counter16, Constants
<1>9. prog_credit' = NextCredit(x)
  BY DEF Dispatcher
<1>10. prog_credit + o <= SEED + Uncharged
  BY <1>2 DEF CreditCovers
<1>11. CASE pulse = "PROG_CRED"
  <2>1. prog_credit' = cred_val /\ cred_val <= SEED
    BY <1>9, <1>11 DEF NextCredit, HostOK, ValuesOK
  <2>2. total = 0
    BY <1>11 DEF SignalsOK, Writing
  <2>3. InLine({"job", "burst"}) \in Nat
    BY InLineType
  <2>4. Brings(Left) \in Nat /\ (Loading => Brings(Slots(job)) \in Nat)
    BY BringsTypes
  <2>5. InLine({"job", "burst"}) = 0
    <3>1. Coming <= 0
      BY <2>2 DEF SignalsOK
    <3> QED
      BY <2>3, <2>4, <3>1 DEF Coming
  <2>6. o = 0
    BY <2>5, InLineNone
  <2>7. p = 0
    BY <1>11
  <2> HIDE DEF o, on, g, p
  <2>8. on = 0
    BY <1>1, <1>3, <2>6, <2>7
  <2> QED
    BY <1>2, <1>3, <1>4, <1>8, <2>1, <2>8 DEF CreditCovers
<1>12. CASE pulse # "PROG_CRED" /\ disp_push /\ ~InInstDone(x)
  <2>1. prog_credit # 0
    BY <1>12 DEF DispOK
  <2>2. prog_credit' = Dec(prog_credit)
    BY <1>9, <1>12, <2>1 DEF NextCredit
  <2>3. prog_credit' = prog_credit - 1
    BY <1>7, <2>1, <2>2, Counter16
  <2> HIDE DEF o, on, g, p
  <2> QED
    BY <1>1, <1>2, <1>3, <1>4, <1>8, <1>10, <2>3 DEF CreditCovers
<1>13. CASE pulse # "PROG_CRED" /\ InInstDone(x) /\ ~disp_push
  <2>1. prog_credit' = Inc(prog_credit)
    BY <1>9, <1>13 DEF NextCredit
  <2>2. prog_credit' <= prog_credit + 1
    BY <1>7, <1>8, <2>1, Counter16
  <2>3. g = 1 /\ Uncharged = 0
    BY <1>5, <1>6, <1>13
  <2> HIDE DEF o, on, g, p
  <2>4. on + 1 = o + p /\ prog_credit + o <= SEED
    BY <1>1, <1>8, <1>10, <2>3
  <2>5. prog_credit' + on <= SEED + p
    BY <1>1, <1>3, <1>8, <2>2, <2>4, OneBack
  <2> QED
    BY <1>2, <1>4, <2>5 DEF CreditCovers
<1>14. CASE pulse # "PROG_CRED" /\ (InInstDone(x) <=> disp_push)
  <2>1. prog_credit' = prog_credit
    BY <1>9, <1>14 DEF NextCredit
  <2>2. Uncharged <= g
    BY <1>3, <1>5, <1>6, <1>14
  <2> HIDE DEF o, on, g, p
  <2> QED
    BY <1>1, <1>2, <1>3, <1>4, <1>8, <1>10, <2>1, <2>2 DEF CreditCovers
<1> QED
  BY <1>11, <1>12, <1>13, <1>14

(***************************************************************************)
(* The completions the host counts on.                                     *)
(***************************************************************************)
LEMMA OrcLoading ==
  ASSUME TypeOK, PlacesOK, HostOK, DispOK, NEW w, WriteFsm(w), HostMoves(w),
         NEW x, OrcMoves(x), Dispatcher(x)
  PROVE  /\ Kicked => Loading /\ ~Loading'
         /\ Pushed \/ Rested => (Loading' <=> Loading)
<1>1. \/ /\ wstate' = "IDLE" /\ wcmd' = NoWrite /\ pulse' = "NONE"
         /\ hst' = hst /\ wstate # "DATA"
      \/ /\ wstate = "IDLE" /\ wstate' = "DATA" /\ wcmd' = Offer
         /\ pulse' = "NONE" /\ hst' = AfterWrite /\ Offer # NoWrite
      \/ /\ wstate = "DATA" /\ wstate' = "RESP" /\ wcmd' = NoWrite
         /\ pulse' = IF Requests(wcmd.reg) THEN wcmd.reg ELSE "NONE"
         /\ hst' = hst
  BY OrcHost
<1>2. wstate # "DATA" => wcmd = NoWrite
  BY DEF HostOK, WriteOK
<1>3. wstate # "RESP" => pulse = "NONE"
  BY DEF HostOK, WriteOK
<1>4. CASE Kicked
  <2>1. pulse = "PROG_KICK" /\ hst' = "READY" /\ wstate' = "IDLE"
    BY <1>4 DEF Kicked
  <2>2. pulse' = "NONE" /\ wcmd' = NoWrite
    BY <1>1, <2>1
  <2> QED
    BY <1>4, <2>1, <2>2 DEF Loading, Writing, NoWrite, Kicked, Pushed, Rested
<1>5. CASE Pushed \/ Rested
  <2>1. pulse # "PROG_KICK"
    BY <1>5 DEF Pushed, Rested
  <2>2. ~Kicked
    BY <2>1 DEF Kicked
  <2>3. CASE /\ wstate' = "IDLE" /\ wcmd' = NoWrite /\ pulse' = "NONE"
             /\ hst' = hst /\ wstate # "DATA"
    BY <1>2, <2>1, <2>2, <2>3 DEF Loading, Writing, NoWrite
  <2>4. CASE /\ wstate = "IDLE" /\ wcmd' = Offer /\ pulse' = "NONE"
             /\ hst' = AfterWrite /\ Offer # NoWrite
    <3>1. wcmd.reg # "PROG_KICK"
      BY <1>2, <2>4 DEF NoWrite
    <3>2. hst \in {"CLEAR", "SEED", "DST", "BASE", "LEN", "KICK", "READ", "POP"}
      BY <2>4 DEF Offer
    <3>3. Offer.reg = "PROG_KICK" <=> hst = "KICK"
      BY <3>2 DEF Offer
    <3>4. AfterWrite \in {"DST", "BASE", "LEN", "KICK"} <=> hst \in {"DST", "BASE", "LEN"}
      BY <3>2 DEF AfterWrite
    <3> QED
      BY <2>1, <2>2, <2>4, <3>1, <3>2, <3>3, <3>4 DEF Loading, Writing
  <2>5. CASE /\ wstate = "DATA" /\ wcmd' = NoWrite /\ hst' = hst
             /\ pulse' = IF Requests(wcmd.reg) THEN wcmd.reg ELSE "NONE"
    <3>1. Requests("PROG_KICK")
      BY DEF Requests
    <3>2. pulse' = "PROG_KICK" <=> wcmd.reg = "PROG_KICK"
      BY <2>5, <3>1
    <3> QED
      BY <2>1, <2>2, <2>5, <3>2 DEF Loading, Writing, NoWrite
  <2> QED
    BY <1>1, <2>3, <2>4, <2>5
<1> QED
  BY <1>4, <1>5

(* A slot less brings a completion less, if it is one that brings one.     *)
LEMMA BringsLess ==
  ASSUME NEW S, IsFiniteSet(S), NEW i \in S
  PROVE  /\ Brings(S) \in Nat /\ Brings(S \ {i}) \in Nat
         /\ Brings(S) = Brings(S \ {i})
                          + One(Stage[i].type = "INST" \/ Stage[i].last)
<1> DEFINE A == {j \in S : Stage[j].type = "INST" \/ Stage[j].last}
           B == {j \in S \ {i} : Stage[j].type = "INST" \/ Stage[j].last}
<1>1. IsFiniteSet(A) /\ Cardinality(A) \in Nat /\ IsFiniteSet(B) /\ Cardinality(B) \in Nat
  BY FS_Subset, FS_CardinalityType, FS_RemoveElement
<1>2. Brings(S) = Cardinality(A) /\ Brings(S \ {i}) = Cardinality(B)
  BY DEF Brings
<1>3. CASE Stage[i].type = "INST" \/ Stage[i].last
  <2>1. i \in A /\ B = A \ {i}
    BY <1>3
  <2> HIDE DEF A, B
  <2>2. Cardinality(B) = Cardinality(A) - 1
    BY <1>1, <2>1, FS_RemoveElement
  <2> QED
    BY <1>1, <1>2, <1>3, <2>2 DEF One
<1>4. CASE ~(Stage[i].type = "INST" \/ Stage[i].last)
  <2>1. B = A
    BY <1>4
  <2> HIDE DEF A, B
  <2> QED
    BY <1>1, <1>2, <1>4, <2>1 DEF One
<1> QED
  BY <1>3, <1>4

(* What is coming, less the completion that arrives.                       *)
LEMMA OrcComing ==
  ASSUME TypeOK, PlacesOK, HostOK, DispOK, TypeOK', PlacesOK', HostOK', DispOK',
         NEW w, WriteFsm(w), HostMoves(w), NEW x, OrcMoves(x), Dispatcher(x)
  PROVE  /\ Coming \in Nat /\ Coming' \in Nat
         /\ Coming' + One(IsSignal(x)) = Coming
<1> DEFINE K == {"job", "burst"}
           l == InLine(K)
           ln == InLine(K)'
           g == IF Absorbs(x) THEN One(Kind(x) \in K) ELSE 0
           p == IF disp_push' THEN One(Kind(prog_flit') \in K) ELSE 0
           k == IF MailPushed THEN One("read" \in K) ELSE 0
           b == Brings(Left)
           bn == Brings(Left')
           s == IF Loading THEN Brings(Slots(job)) ELSE 0
           sn == IF Loading' THEN Brings(Slots(job)) ELSE 0
<1>1. Kicked \/ Pushed \/ Rested
  BY DispCases
<1>2. disp_push' => Pushed /\ ~MailPushed
  BY <1>1 DEF Kicked, Pushed, Rested, MailPushed
<1>3. /\ l \in Nat /\ ln \in Nat /\ ln + g = l + p + k
  BY <1>2, OrcInLine
<1>4. k = 0
  BY DEF One
<1>5. g = One(IsSignal(x))
  <2>1. IsSignal(x) => Absorbs(x) /\ Kind(x) \in K
    BY KindOf DEF OrcMoves, IsSignal
  <2>2. Absorbs(x) /\ ~IsSignal(x) => x.type = "CTRL"
    BY DEF OrcMoves, Absorbs, Inward, IsSignal, IsFlit, NoFlit
  <2>3. x.type = "CTRL" => Kind(x) \notin K
    BY KindOf
  <2> QED
    BY <2>1, <2>2, <2>3 DEF One
<1>6. /\ b \in Nat /\ s \in Nat /\ IsFiniteSet(Left)
      /\ (Loading => Brings(Slots(job)) \in Nat)
  BY BringsTypes
<1>7. job' = job
  BY DEF HostMoves
<1>8. Coming = l + b + s
  BY DEF Coming
<1>9. Coming' = ln + bn + sn
  <2>1. /\ Brings(Left)' = bn
        /\ (IF Loading THEN Brings(Slots(job)) ELSE 0)' = sn
    BY <1>7 DEF Brings, Slots
  <2> QED
    BY <2>1 DEF Coming
<1>10. g \in {0, 1}
  BY DEF One
<1>11. /\ bn \in Nat /\ sn \in Nat /\ p \in Nat
       /\ p + bn + sn = b + s
  <2>1. CASE Kicked
    <3>1. Left = {} /\ Left' = Slots(job)
      BY <2>1, LeftMoves
    <3>2. Loading /\ ~Loading'
      BY <2>1, OrcLoading
    <3>3. Brings({}) = 0
      <4>1. {i \in {} : Stage[i].type = "INST" \/ Stage[i].last} = {}
        OBVIOUS
      <4> QED
        BY <4>1, FS_EmptySet DEF Brings
    <3>4. ~disp_push'
      BY <2>1 DEF Kicked
    <3>5. p = 0 /\ sn = 0 /\ b = 0 /\ bn = s
      BY <3>1, <3>2, <3>3, <3>4
    <3> HIDE DEF p, sn, b, bn, s
    <3> QED
      BY <1>6, <3>5
  <2>2. CASE Pushed
    <3>1. prog_rd \in Left /\ Left' = Left \ {prog_rd} /\ prog_rd \in 0 .. STAGE_FLITS - 1
      BY <2>2, LeftMoves
    <3>2. Loading' <=> Loading
      BY <2>2, OrcLoading
    <3> DEFINE e == One(Stage[prog_rd].type = "INST" \/ Stage[prog_rd].last)
    <3>3. bn \in Nat /\ b = bn + e
      BY <1>6, <3>1, BringsLess
    <3>4. p = e
      <4>1. Stage[prog_rd] \in [type : {"INST", "DATA"}, txn : Nat, last : BOOLEAN]
        BY <3>1, OrcAssumption
      <4>2. disp_push' /\ prog_flit' = StagedFlit
        BY <2>2 DEF Pushed
      <4>3. /\ prog_flit'.type = Stage[prog_rd].type
            /\ prog_flit'.last = Stage[prog_rd].last
        BY <4>2 DEF StagedFlit
      <4>4. Kind(prog_flit') \in K
              <=> (Stage[prog_rd].type = "INST" \/ Stage[prog_rd].last)
        BY <4>1, <4>3, KindOf
      <4> QED
        BY <4>2, <4>4 DEF One
    <3>5. sn = s
      BY <3>2
    <3>6. e \in Nat
      BY DEF One
    <3> HIDE DEF p, sn, b, bn, s, e
    <3> QED
      BY <1>6, <3>3, <3>4, <3>5, <3>6
  <2>3. CASE Rested
    <3>1. Left' = Left
      BY <2>3, LeftMoves
    <3>2. Loading' <=> Loading
      BY <2>3, OrcLoading
    <3>3. ~disp_push'
      BY <2>3 DEF Rested
    <3>4. p = 0 /\ bn = b /\ sn = s
      BY <3>1, <3>2, <3>3
    <3> HIDE DEF p, sn, b, bn, s
    <3> QED
      BY <1>6, <3>4
  <2> QED
    BY <1>1, <2>1, <2>2, <2>3
<1> HIDE DEF l, ln, g, p, k, b, bn, s, sn
<1>12. Coming \in Nat /\ Coming' \in Nat /\ Coming' + g = Coming
  BY <1>3, <1>4, <1>6, <1>8, <1>9, <1>10, <1>11
<1> QED
  BY <1>5, <1>12

(* Of t completions in all, c are coming and the 16-bit counter shows the  *)
(* rest as s.                                                              *)
Tallied(t, c, s) == \E n \in Nat : t = c + s + n * W16

(* The counter gains what the host still counts on loses, or wraps.        *)
LEMMA Tally ==
  ASSUME NEW t \in Nat, NEW c \in Nat, NEW d \in Nat, NEW s \in 0 .. W16 - 1,
         Tallied(t, c, s), d + 1 = c
  PROVE  Tallied(t, d, Inc(s))
<1>1. /\ s \in Nat /\ Inc(s) = IF s = W16 - 1 THEN 0 ELSE s + 1
  BY Counter16
<1>0. PICK n \in Nat : t = c + s + n * W16
  BY DEF Tallied
<1>2. CASE s # W16 - 1
  <2> DEFINE y == n * W16
  <2>1. y \in Nat
    BY DEF W16
  <2> HIDE DEF y
  <2>2. t = d + (s + 1) + y
    BY <1>0, <1>1, <2>1 DEF y
  <2> QED
    BY <1>1, <1>2, <2>2, SMTT(40) DEF y, Tallied
<1>3. CASE s = W16 - 1
  <2>1. t = d + 0 + (n + 1) * W16
    BY <1>0, <1>3 DEF W16
  <2>2. n + 1 \in Nat
    OBVIOUS
  <2> QED
    BY <1>1, <1>3, <2>1, <2>2 DEF Tallied
<1> QED
  BY <1>2, <1>3

(* The agent's edge keeps what is said of the signals to come: each is     *)
(* counted as it arrives.                                                  *)
LEMMA OrcSignals ==
  ASSUME TypeOK, PlacesOK, HostOK, DispOK, TypeOK', PlacesOK', HostOK', DispOK',
         SignalsOK, NEW w, WriteFsm(w), HostMoves(w), NEW x, OrcMoves(x),
         Dispatcher(x)
  PROVE  SignalsOK'
<1>1. \/ /\ wstate' = "IDLE" /\ wcmd' = NoWrite /\ pulse' = "NONE"
         /\ hst' = hst /\ wstate # "DATA"
      \/ /\ wstate = "IDLE" /\ wstate' = "DATA" /\ wcmd' = Offer
         /\ pulse' = "NONE" /\ hst' = AfterWrite /\ Offer # NoWrite
      \/ /\ wstate = "DATA" /\ wstate' = "RESP" /\ wcmd' = NoWrite
         /\ pulse' = IF Requests(wcmd.reg) THEN wcmd.reg ELSE "NONE"
         /\ hst' = hst
  BY OrcHost
<1>2. /\ Coming \in Nat /\ Coming' \in Nat
      /\ Coming' + One(IsSignal(x)) = Coming
  BY OrcComing
<1>3. total' = total /\ total \in Nat
  BY DEF HostMoves, TypeOK
<1>4. One(IsSignal(x)) \in Nat
  BY DEF One
<1>5. /\ (Clearing \/ hst = "SEED" \/ Writing("PROG_CRED"))' =>
             Clearing \/ hst = "SEED" \/ Writing("PROG_CRED")
      /\ Clearing /\ pulse # "SIG_DONE" => Clearing'
  <2>1. CASE /\ wstate' = "IDLE" /\ wcmd' = NoWrite /\ pulse' = "NONE"
             /\ hst' = hst /\ wstate # "DATA"
    <3>1. wcmd = NoWrite
      BY <2>1 DEF HostOK, WriteOK
    <3> QED
      BY <2>1, <3>1 DEF Clearing, Writing, NoWrite
  <2>2. CASE /\ wstate = "IDLE" /\ wcmd' = Offer /\ pulse' = "NONE"
             /\ hst' = AfterWrite /\ Offer # NoWrite
    <3>1. hst \in {"CLEAR", "SEED", "DST", "BASE", "LEN", "KICK", "READ", "POP"}
      BY <2>2 DEF Offer
    <3>2. /\ Offer.reg = "SIG_DONE" <=> hst = "CLEAR"
          /\ Offer.reg = "PROG_CRED" <=> hst = "SEED"
      BY <3>1 DEF Offer
    <3>3. /\ AfterWrite \notin {"CLEAR", "DONE"}
          /\ AfterWrite = "SEED" <=> hst = "CLEAR"
      BY <3>1 DEF AfterWrite
    <3>4. wcmd = NoWrite
      BY <2>2 DEF HostOK, WriteOK
    <3> QED
      BY <2>2, <3>1, <3>2, <3>3, <3>4 DEF Clearing, Writing, NoWrite
  <2>3. CASE /\ wstate = "DATA" /\ wcmd' = NoWrite /\ hst' = hst
             /\ pulse' = IF Requests(wcmd.reg) THEN wcmd.reg ELSE "NONE"
    <3>1. Requests("SIG_DONE")
      BY DEF Requests
    <3>2. /\ wcmd.reg = "SIG_DONE" => pulse' = "SIG_DONE"
          /\ pulse' = "SIG_DONE" => wcmd.reg = "SIG_DONE"
          /\ pulse' = "PROG_CRED" => wcmd.reg = "PROG_CRED"
      BY <2>3, <3>1
    <3> QED
      BY <2>3, <3>2 DEF Clearing, Writing, NoWrite
  <2> QED
    BY <1>1, <2>1, <2>2, <2>3
<1>6. (Clearing \/ hst = "SEED" \/ Writing("PROG_CRED"))' => total' = 0
  BY <1>3, <1>5 DEF SignalsOK
<1>7. Coming' <= total'
  <2>1. Coming <= total
    BY DEF SignalsOK
  <2> QED
    BY <1>2, <1>3, <1>4, <2>1
<1>8. ASSUME ~Clearing'
      PROVE  \E n \in Nat : total' = Coming' + sig_done_count' + n * W16
  <2>1. CASE pulse = "SIG_DONE"
    <3>1. total = 0
      BY <2>1 DEF SignalsOK, Clearing, Writing
    <3>2. sig_done_count' = 0
      BY <2>1 DEF OrcMoves
    <3>3. Coming' = 0
      BY <1>2, <1>3, <1>7, <3>1
    <3>4. 0 = 0 + 0 + 0 * W16 /\ 0 \in Nat
      BY DEF W16
    <3> QED
      BY <1>3, <3>1, <3>2, <3>3, <3>4
  <2>2. CASE pulse # "SIG_DONE"
    <3>1. ~Clearing
      BY <1>5, <1>8, <2>2
    <3>2. Tallied(total, Coming, sig_done_count)
      BY <3>1 DEF SignalsOK, Tallied
    <3>3. sig_done_count' = IF IsSignal(x) THEN Inc(sig_done_count) ELSE sig_done_count
      BY <2>2 DEF OrcMoves
    <3>4. CASE ~IsSignal(x)
      <4>0. One(IsSignal(x)) = 0
        BY <3>4 DEF One
      <4>1. Coming' \in Nat /\ Coming' + 0 = Coming
        BY <1>2, <4>0, Zenon
      <4>2. Coming' = Coming
        BY <4>1
      <4> QED
        BY <1>3, <3>2, <3>3, <3>4, <4>2 DEF Tallied
    <3>5. CASE IsSignal(x)
      <4>0. One(IsSignal(x)) = 1
        BY <3>5 DEF One
      <4>1. Coming' + 1 = Coming
        BY <1>2, <4>0
      <4>2. sig_done_count \in 0 .. W16 - 1
        BY DEF TypeOK, OrcTypeOK
      <4>3. Tallied(total, Coming', Inc(sig_done_count))
        BY <1>2, <1>3, <3>2, <4>1, <4>2, Tally
      <4> QED
        BY <1>3, <3>3, <3>5, <4>3 DEF Tallied
    <3> QED
      BY <3>4, <3>5
  <2> QED
    BY <2>1, <2>2
<1> QED
  BY <1>6, <1>7, <1>8 DEF SignalsOK

(***************************************************************************)
(* One read at a time.                                                     *)
(***************************************************************************)
LEMMA OrcReading ==
  ASSUME TypeOK, PlacesOK, HostOK, DispOK, NEW w, WriteFsm(w), HostMoves(w),
         NEW x, OrcMoves(x)
  PROVE  One(Writing("TX_KICK"))' + One(pulse = "TX_KICK") + One(Reading)
           <= One(Reading)' + One(Writing("TX_KICK")) + One(pulse = "RX_POP")
<1>1. \/ /\ wstate' = "IDLE" /\ wcmd' = NoWrite /\ pulse' = "NONE"
         /\ hst' = hst /\ wstate # "DATA"
      \/ /\ wstate = "IDLE" /\ wstate' = "DATA" /\ wcmd' = Offer
         /\ pulse' = "NONE" /\ hst' = AfterWrite /\ Offer # NoWrite
      \/ /\ wstate = "DATA" /\ wstate' = "RESP" /\ wcmd' = NoWrite
         /\ pulse' = IF Requests(wcmd.reg) THEN wcmd.reg ELSE "NONE"
         /\ hst' = hst
  BY OrcHost
<1>2. /\ wstate # "DATA" => wcmd = NoWrite
      /\ wstate # "RESP" => pulse = "NONE"
      /\ Writing("RX_POP") => hst = "READY"
  BY DEF HostOK, WriteOK, AfterReg, Reg
<1>3. CASE /\ wstate' = "IDLE" /\ wcmd' = NoWrite /\ pulse' = "NONE"
           /\ hst' = hst /\ wstate # "DATA"
  <2>1. ~Writing("TX_KICK")'
    BY <1>3 DEF Writing, NoWrite
  <2>2. Writing("TX_KICK") <=> pulse = "TX_KICK"
    BY <1>2, <1>3 DEF Writing, NoWrite
  <2>3. pulse = "RX_POP" => hst = "READY"
    BY <1>2 DEF Writing
  <2>4. Reading' <=> hst \in {"REPLY", "POP"}
    BY <1>3 DEF Reading, Writing, NoWrite
  <2>5. Reading <=> hst \in {"REPLY", "POP"} \/ pulse = "RX_POP"
    BY <1>2, <1>3 DEF Reading, Writing, NoWrite
  <2> QED
    BY <2>1, <2>2, <2>3, <2>4, <2>5 DEF One
<1>4. CASE /\ wstate = "IDLE" /\ wcmd' = Offer /\ pulse' = "NONE"
           /\ hst' = AfterWrite /\ Offer # NoWrite
  <2>1. hst \in {"CLEAR", "SEED", "DST", "BASE", "LEN", "KICK", "READ", "POP"}
    BY <1>4 DEF Offer
  <2>2. /\ Offer.reg = "TX_KICK" <=> hst = "READ"
        /\ Offer.reg = "RX_POP" <=> hst = "POP"
    BY <2>1 DEF Offer
  <2>3. AfterWrite \in {"REPLY", "POP"} <=> hst = "READ"
    BY <2>1 DEF AfterWrite
  <2>4. /\ ~Writing("TX_KICK") /\ pulse = "NONE"
        /\ Writing("TX_KICK")' <=> hst = "READ"
        /\ Reading <=> hst = "POP"
        /\ Reading' <=> hst = "READ" \/ hst = "POP"
    BY <1>2, <1>4, <2>1, <2>2, <2>3 DEF Writing, NoWrite, Reading
  <2> QED
    BY <2>4 DEF One
<1>5. CASE /\ wstate = "DATA" /\ wcmd' = NoWrite /\ hst' = hst
           /\ pulse' = IF Requests(wcmd.reg) THEN wcmd.reg ELSE "NONE"
  <2>1. pulse = "NONE"
    BY <1>2, <1>5
  <2>2. Writing("TX_KICK")' => Writing("TX_KICK")
    BY <1>5 DEF Writing, NoWrite
  <2>3. Reading => Reading'
    <3>1. wcmd.reg = "RX_POP" => rx # <<>>
      BY DEF HostOK, JobOK, Writing
    <3>2. wcmd.reg = "RX_POP" => pulse' = "RX_POP"
      BY <1>5, <3>1 DEF Requests
    <3> QED
      BY <1>5, <2>1, <3>2 DEF Reading, Writing
  <2> QED
    BY <2>1, <2>2, <2>3 DEF One
<1> QED
  BY <1>1, <1>3, <1>4, <1>5

(* The agent's edge keeps one read at a time.                              *)
LEMMA OrcReads ==
  ASSUME TypeOK, PlacesOK, HostOK, DispOK, TypeOK', PlacesOK', DispOK',
         ReadsOK, NEW w, WriteFsm(w), HostMoves(w), NEW x, OrcMoves(x),
         Kicked \/ Pushed \/ Rested
  PROVE  ReadsOK'
<1> DEFINE l == InLine({"read"})
           ln == InLine({"read"})'
           g == IF Absorbs(x) THEN One(Kind(x) \in {"read"}) ELSE 0
           p == IF disp_push' THEN One(Kind(prog_flit') \in {"read"}) ELSE 0
           kk == IF MailPushed THEN One("read" \in {"read"}) ELSE 0
           k == One(pulse = "TX_KICK")
           q == One(pulse = "RX_POP")
           n == Len(rx)
           nn == Len(rx')
<1>1. /\ l \in Nat /\ ln \in Nat /\ ln + g = l + p + kk
  <2>1. disp_push' => ~MailPushed
    BY DEF Kicked, Pushed, Rested, MailPushed
  <2> QED
    BY <2>1, OrcInLine
<1>2. p = 0 /\ kk \in Nat /\ kk <= k
  <2>1. disp_push' => prog_flit'.type \in {"INST", "DATA"}
    BY DEF DispOK
  <2>2. disp_push' => Kind(prog_flit') # "read"
    BY <2>1, KindOf
  <2> QED
    BY <2>2 DEF One, MailPushed
<1>3. g = One(Absorbs(x) /\ ~IsSignal(x))
  <2>1. IsSignal(x) => Kind(x) # "read"
    BY KindOf DEF IsSignal
  <2>2. Absorbs(x) /\ ~IsSignal(x) => Kind(x) = "read"
    BY KindOf DEF OrcMoves, Absorbs, Inward, IsSignal, IsFlit, NoFlit
  <2> QED
    BY <2>1, <2>2 DEF One
<1>4. n \in Nat /\ nn \in Nat /\ nn + q = n + g
  <2>1. rx \in Seq(Replies) /\ rx' \in Seq(Replies)
    BY DEF PlacesOK
  <2>2. /\ RxLeft \in Seq(Replies) /\ Len(RxLeft) \in Nat /\ Len(RxLeft) + q = n
        /\ n \in Nat
    <3>1. pulse = "RX_POP" => rx # <<>>
      BY DEF OrcMoves
    <3>2. CASE pulse = "RX_POP"
      <4>1. RxLeft = Tail(rx) /\ q = 1
        BY <3>2 DEF RxLeft, One
      <4>2. Tail(rx) \in Seq(Replies) /\ Len(Tail(rx)) = Len(rx) - 1
        BY <2>1, <3>1, <3>2, HeadTailProperties
      <4>3. Len(rx) \in Nat /\ Len(Tail(rx)) \in Nat
        BY <2>1, <4>2, LenProperties
      <4> HIDE DEF q
      <4> QED
        BY <4>1, <4>2, <4>3
    <3>3. CASE pulse # "RX_POP"
      <4>1. RxLeft = rx /\ q = 0
        BY <3>3 DEF RxLeft, One
      <4>2. Len(rx) \in Nat
        BY <2>1, LenProperties
      <4> HIDE DEF q
      <4> QED
        BY <2>1, <4>1, <4>2
    <3> QED
      BY <3>2, <3>3
  <2>3. rx' = IF Absorbs(x) /\ ~IsSignal(x) THEN Append(RxLeft, x) ELSE RxLeft
    BY DEF OrcMoves
  <2>4. Len(Append(RxLeft, x)) = Len(RxLeft) + 1
    BY <2>2
  <2>5. nn = Len(RxLeft) + One(Absorbs(x) /\ ~IsSignal(x))
    <3>1. CASE Absorbs(x) /\ ~IsSignal(x)
      <4>1. nn = Len(RxLeft) + 1
        BY <2>3, <2>4, <3>1
      <4> QED
        BY <3>1, <4>1 DEF One
    <3>2. CASE ~(Absorbs(x) /\ ~IsSignal(x))
      <4>1. nn = Len(RxLeft)
        BY <2>3, <3>2
      <4> HIDE DEF nn
      <4> QED
        BY <2>2, <3>2, <4>1 DEF One
    <3> QED
      BY <3>1, <3>2
  <2>6. q \in Nat /\ One(Absorbs(x) /\ ~IsSignal(x)) \in Nat
    BY DEF One
  <2> HIDE DEF g, q, n, nn
  <2> QED
    BY <1>3, <2>2, <2>5, <2>6
<1> DEFINE W == One(Writing("TX_KICK"))
           Wn == One(Writing("TX_KICK"))'
           R == One(Reading)
           Rn == One(Reading)'
<1>5. Wn + k + R <= Rn + W + q
  BY OrcReading
<1>6. W \in Nat /\ Wn \in Nat /\ R \in Nat /\ Rn \in Nat /\ k \in Nat /\ q \in Nat
      /\ g \in Nat
  BY DEF One
<1>7. l + n + W <= R
  BY DEF ReadsOK
<1>8. /\ ReadOut <=> l # 0 \/ n # 0
      /\ ReadOut' <=> ln # 0 \/ nn # 0
      /\ ln + nn + Wn <= Rn /\ (ReadOut' => ~prog_run' /\ ~disp_push') => ReadsOK'
  <2>1. rx \in Seq(Replies) /\ rx' \in Seq(Replies)
    BY DEF PlacesOK
  <2>2. (rx = <<>> <=> n = 0) /\ (rx' = <<>> <=> nn = 0)
    BY <2>1, EmptySeq
  <2> QED
    BY <2>2 DEF ReadsOK, ReadOut
<1>9. R # 0 => ~Kicked
  <2>1. pulse = "PROG_KICK" => hst = "READY" /\ wcmd = NoWrite
    BY DEF HostOK, WriteOK, Writing, AfterReg, Reg
  <2> QED
    BY <2>1 DEF One, Reading, Writing, NoWrite, Kicked
<1>10. k # 0 => ~prog_run /\ ~disp_push /\ ~Kicked
  BY DEF One, DispOK, Calm, Kicked
<1>11. ~prog_run /\ ~Kicked => ~prog_run' /\ ~disp_push'
  BY DEF Pushed, Rested
<1> HIDE DEF l, ln, g, p, kk, k, q, n, nn, W, Wn, R, Rn
<1>12. ln + nn + Wn <= Rn
  BY <1>1, <1>2, <1>4, <1>5, <1>6, <1>7
<1>13. ASSUME ReadOut' PROVE ~prog_run' /\ ~disp_push'
  <2>1. CASE ReadOut
    <3>1. R # 0
      BY <1>1, <1>4, <1>6, <1>7, <1>8, <2>1
    <3>2. ~prog_run
      BY <2>1 DEF ReadsOK
    <3> QED
      BY <1>9, <1>11, <3>1, <3>2
  <2>2. CASE ~ReadOut
    <3>1. k # 0
      BY <1>1, <1>2, <1>4, <1>6, <1>8, <1>13, <2>2
    <3> QED
      BY <1>10, <1>11, <3>1
  <2> QED
    BY <2>1, <2>2
<1> QED
  BY <1>8, <1>12, <1>13

-----------------------------------------------------------------------------
(***************************************************************************)
(* Reads: what is behind one, and what its answer says.                    *)
(***************************************************************************)
(* Nothing of a kind in the lines, nothing of it in any place.             *)
LEMMA PlacesNone ==
  ASSUME TypeOK, PlacesOK, DispOK, NEW K, "none" \notin K, InLine(K) = 0,
         NEW v \in Unit
  PROVE  /\ CountOf(up[v], v, K) = 0 /\ Weight(cu_out[v], v, K) = 0
         /\ CountOf(sigq[v], v, K) = 0 /\ CountOf(Queued(v), v, K) = 0
         /\ CountOf(recvq[v], v, K) = 0
         /\ ~(owed[v] /\ "burst" \in K) /\ ~(ctrl_pend[v] /\ "read" \in K)
         /\ ~(in_flight[v] /\ "job" \in K)
         /\ CountOf(down[v], v, K) = 0 /\ Weight(orc_out, v, K) = 0
         /\ CountOf(tx, v, K) = 0
         /\ ~(disp_push /\ Is(DispFlit, v, K))
<1>1. /\ CountOf(Line(v), v, K) = CountLine(v, K) /\ CountLine(v, K) \in Nat
      /\ CountOf(Line(v), v, K) <= 0
  BY LineCount, InLineType
<1>2. CountLine(v, K) = 0
  BY <1>1
<1>3. UnitPlaces(v)
  BY DEF PlacesOK
<1>4. Queued(v) \in Seq(Ofs(v, "INST"))
  BY <1>3, HeadTailProperties DEF UnitPlaces, Queued
<1> DEFINE e == CountOf(up[v], v, K)
           f == CountOf(sigq[v], v, K)
           g == CountOf(Queued(v), v, K)
           h == CountOf(recvq[v], v, K)
           i == CountOf(down[v], v, K)
           j == CountOf(tx, v, K)
           k == Weight(cu_out[v], v, K)
           l == Weight(orc_out, v, K)
           a == One(owed[v] /\ "burst" \in K)
           b == One(ctrl_pend[v] /\ "read" \in K)
           c == One(in_flight[v] /\ "job" \in K)
           d == One(disp_push /\ Is(DispFlit, v, K))
<1>5. e \in Nat /\ f \in Nat /\ g \in Nat /\ h \in Nat /\ i \in Nat
  BY <1>3, <1>4, WhereType DEF UnitPlaces
<1>6. j \in Nat
  BY WhereType DEF PlacesOK
<1>7. k \in Nat /\ l \in Nat
  BY WeightType
<1>8. a \in Nat /\ b \in Nat /\ c \in Nat /\ d \in Nat
  BY DEF One
<1>9. CountLine(v, K) = (e + k + f + (a + b + c) + g + h) + (i + l + j + d)
  BY DEF CountLine, CountUnit, CountSent, CountOwing
<1>10. a = 0 /\ b = 0 /\ c = 0 /\ d = 0 =>
         /\ ~(owed[v] /\ "burst" \in K) /\ ~(ctrl_pend[v] /\ "read" \in K)
         /\ ~(in_flight[v] /\ "job" \in K)
         /\ ~(disp_push /\ Is(DispFlit, v, K))
  BY DEF One
<1> HIDE DEF a, b, c, d, e, f, g, h, i, j, k, l
<1>11. /\ a = 0 /\ b = 0 /\ c = 0 /\ d = 0 /\ e = 0 /\ f = 0 /\ g = 0
       /\ h = 0 /\ i = 0 /\ j = 0 /\ k = 0 /\ l = 0
  BY <1>2, <1>5, <1>6, <1>7, <1>8, <1>9
<1> QED
  BY <1>10, <1>11 DEF e, f, g, h, i, j, k, l

(* With no read out there is none in any place.                            *)
LEMMA NoRead ==
  ASSUME TypeOK, PlacesOK, DispOK, InLine({"read"}) = 0
  PROVE  /\ \A i \in DOMAIN tx : tx[i].type # "CTRL"
         /\ orc_out.type # "CTRL"
         /\ \A v \in Unit :
              /\ \A i \in DOMAIN down[v] : down[v][i].type # "CTRL"
              /\ ~ctrl_pend[v] /\ cu_out[v].type # "CTRL"
              /\ \A i \in DOMAIN up[v] : up[v][i].type # "CTRL"
<1> DEFINE K == {"read"}
<1>0. "read" \in K /\ "none" \notin K /\ InLine(K) = 0
  OBVIOUS
<1>1. \A f : f.type = "CTRL" => Kind(f) \in K
  BY KindOf
<1> HIDE DEF K
<1>2. ASSUME NEW i \in DOMAIN tx, tx[i].type = "CTRL" PROVE FALSE
  <2>1. tx \in Seq(AllOutward) /\ tx[i] \in AllOutward
    BY <1>2, ElementOfSeq, LenProperties DEF PlacesOK
  <2>2. tx[i].peer \in Unit
    BY <2>1 DEF AllOutward
  <2>3. CountOf(tx, tx[i].peer, K) = 0
    BY <1>0, <2>2, PlacesNone
  <2>4. ~Is(tx[i], tx[i].peer, K)
    BY <1>2, <2>1, <2>3, CountNone
  <2> QED
    BY <1>1, <1>2, <2>4 DEF Is
<1>3. ASSUME orc_out.type = "CTRL" PROVE FALSE
  <2>1. orc_out.peer \in Unit
    BY <1>3 DEF PlacesOK, AllOutward, NoFlit
  <2>2. Weight(orc_out, orc_out.peer, K) = 0
    BY <1>0, <2>1, PlacesNone
  <2> QED
    BY <1>1, <1>3, <2>2 DEF Weight, Is, One
<1>4. ASSUME NEW v \in Unit
      PROVE  /\ \A i \in DOMAIN down[v] : down[v][i].type # "CTRL"
             /\ ~ctrl_pend[v] /\ cu_out[v].type # "CTRL"
             /\ \A i \in DOMAIN up[v] : up[v][i].type # "CTRL"
  <2>1. UnitPlaces(v)
    BY DEF PlacesOK
  <2>2. /\ CountOf(up[v], v, K) = 0 /\ Weight(cu_out[v], v, K) = 0
        /\ CountOf(down[v], v, K) = 0 /\ ~ctrl_pend[v]
    BY <1>0, PlacesNone
  <2>3. ASSUME NEW i \in DOMAIN down[v], down[v][i].type = "CTRL" PROVE FALSE
    <3>1. down[v] \in Seq(Outward(v)) /\ down[v][i] \in Outward(v)
      BY <2>1, <2>3, ElementOfSeq, LenProperties DEF UnitPlaces
    <3>2. ~Is(down[v][i], v, K)
      BY <2>2, <2>3, <3>1, CountNone
    <3> QED
      BY <1>1, <2>3, <3>1, <3>2 DEF Is, Outward
  <2>4. ASSUME NEW i \in DOMAIN up[v], up[v][i].type = "CTRL" PROVE FALSE
    <3>1. up[v] \in Seq(Inward(v)) /\ up[v][i] \in Inward(v)
      BY <2>1, <2>4, ElementOfSeq, LenProperties DEF UnitPlaces
    <3>2. ~Is(up[v][i], v, K)
      BY <2>2, <2>4, <3>1, CountNone
    <3> QED
      BY <1>1, <2>4, <3>1, <3>2 DEF Is, Inward
  <2>5. cu_out[v].type # "CTRL"
    <3>1. cu_out[v].type = "CTRL" => cu_out[v].peer = v
      BY <2>1 DEF UnitPlaces, Inward, NoFlit
    <3> QED
      BY <1>1, <2>2, <3>1 DEF Weight, Is, One
  <2> QED
    BY <2>2, <2>3, <2>4, <2>5
<1> QED
  BY <1>2, <1>3, <1>4

(* While a read is out, or starts, the dispatcher rests.                   *)
LEMMA ReadRests ==
  ASSUME TypeOK, PlacesOK, HostOK, DispOK, ReadsOK
  PROVE  /\ ReadOut => pulse # "TX_KICK" /\ ~prog_run /\ ~disp_push
         /\ pulse = "TX_KICK" => ~prog_run /\ ~disp_push
<1>1. InLine({"read"}) \in Nat
  BY InLineType
<1>2. Len(rx) \in Nat /\ (rx # <<>> => Len(rx) # 0)
  BY LenProperties, EmptySeq DEF PlacesOK
<1>3. ReadOut => ~Writing("TX_KICK")
  BY <1>1, <1>2 DEF ReadOut, ReadsOK, One
<1>4. pulse = "TX_KICK" => ~prog_run /\ ~disp_push
  BY DEF DispOK, Calm
<1> QED
  BY <1>3, <1>4 DEF ReadsOK, Writing

(* Where the flits of the transmit FIFO were before the edge.              *)
LEMMA PoppedAt ==
  ASSUME TypeOK, PlacesOK, NEW i \in DOMAIN Popped
  PROVE  \E k \in DOMAIN tx : /\ Popped[i] = tx[k]
                              /\ k = Len(tx) => i = Len(Popped)
<1>1. tx \in Seq(AllOutward) /\ (TxPop(DownBusy) => tx # <<>>)
  BY PoppedType
<1>2. DOMAIN tx = 1 .. Len(tx) /\ Len(tx) \in Nat
  BY <1>1, LenProperties
<1>3. CASE TxPop(DownBusy)
  <2> DEFINE t == Tail(tx)
  <2>1. /\ Popped = t /\ Len(t) = Len(tx) - 1 /\ DOMAIN t = 1 .. Len(tx) - 1
        /\ \A j \in 1 .. Len(tx) - 1 : t[j] = tx[j + 1]
    BY <1>1, <1>3, HeadTailProperties, LenProperties DEF Popped
  <2> HIDE DEF t
  <2>2. i \in 1 .. Len(tx) - 1
    BY <2>1
  <2>3. i + 1 \in DOMAIN tx /\ Popped[i] = tx[i + 1]
    BY <1>2, <2>1, <2>2
  <2>4. i + 1 = Len(tx) => i = Len(Popped)
    BY <1>2, <2>1, <2>2
  <2> QED
    BY <2>3, <2>4
<1>4. CASE ~TxPop(DownBusy)
  BY <1>4 DEF Popped
<1> QED
  BY <1>3, <1>4

(* The answers: what is known of a unit stays true of it, and what it has  *)
(* answered passes to the host's FIFO.                                     *)
LEMMA OrcAnswer ==
  ASSUME TypeOK, PlacesOK, NEW x, OrcMoves(x), NEW v \in Unit, AnswerOK(v)
  PROVE  /\ Answered(v)' => Answered(v)
         /\ ctrl_pend'[v] /\ ctrl_val'[v] = "IDLE" => Idle(v)'
         /\ SaysIdle(cu_out'[v]) => Idle(v)'
         /\ \A i \in DOMAIN up'[v] : SaysIdle(up'[v][i]) =>
              /\ Idle(v)' /\ Kind(cu_out'[v]) # "job"
              /\ \A j \in DOMAIN up'[v] : j > i => Kind(up'[v][j]) # "job"
         /\ \A i \in DOMAIN rx' : rx'[i].peer = v /\ rx'[i].code = "IDLE" =>
              /\ Idle(v)' /\ Kind(cu_out'[v]) # "job"
              /\ \A j \in DOMAIN up'[v] : Kind(up'[v][j]) # "job"
<1>1. LinkMoves(x, v) /\ UnitStays(v) /\ UnitPlaces(v)
  BY DEF OrcMoves, LinkMoves, PlacesOK
<1>2. /\ Idle(v)' <=> Idle(v)
      /\ cu_out'[v] = cu_out[v] /\ ctrl_pend'[v] = ctrl_pend[v]
      /\ ctrl_val'[v] = ctrl_val[v]
  BY <1>1 DEF UnitStays, Idle
<1>3. up[v] \in Seq(Inward(v)) /\ Len(up[v]) \in Nat /\ DOMAIN up[v] = 1 .. Len(up[v])
  BY <1>1, LenProperties DEF UnitPlaces
<1>4. /\ \A i \in DOMAIN up'[v] :
           \E k \in DOMAIN up[v] :
             /\ up'[v][i] = up[v][k] /\ i \in Int /\ k \in Int
             /\ k = i \/ (k = i + 1 /\ Absorbs(x) /\ x.peer = v)
             /\ k = i => ~(Absorbs(x) /\ x.peer = v)
  <2>1. CASE Absorbs(x) /\ x.peer = v
    <3> DEFINE t == Tail(up[v])
    <3>1. up[v] # <<>> /\ up'[v] = t
      BY <1>1, <2>1 DEF LinkMoves
    <3>2. /\ DOMAIN t = 1 .. Len(up[v]) - 1
          /\ \A i \in 1 .. Len(up[v]) - 1 : t[i] = up[v][i + 1]
      BY <1>3, <3>1, HeadTailProperties, LenProperties
    <3> HIDE DEF t
    <3>3. \A i \in 1 .. Len(up[v]) - 1 :
             i + 1 \in 1 .. Len(up[v]) /\ i \in Int /\ i + 1 \in Int /\ i + 1 # i
      BY <1>3
    <3> QED
      BY <1>3, <2>1, <3>1, <3>2, <3>3
  <2>2. CASE ~(Absorbs(x) /\ x.peer = v)
    <3>1. up'[v] = up[v]
      BY <1>1, <2>2 DEF LinkMoves
    <3> QED
      BY <1>3, <2>2, <3>1
  <2> QED
    BY <2>1, <2>2
<1>5. Absorbs(x) /\ x.peer = v => 1 \in DOMAIN up[v] /\ x = up[v][1]
  <2>1. Absorbs(x) /\ x.peer = v => up[v] # <<>> /\ x = Head(up[v])
    BY <1>1 DEF LinkMoves
  <2>2. up[v] # <<>> => Len(up[v]) # 0 /\ Head(up[v]) = up[v][1]
    BY <1>3, EmptySeq, HeadTailProperties
  <2> QED
    BY <1>3, <2>1, <2>2
<1>6. \A i \in DOMAIN rx' :
        \/ \E k \in DOMAIN rx : rx'[i] = rx[k]
        \/ Absorbs(x) /\ ~IsSignal(x) /\ rx'[i] = x
  <2>1. rx \in Seq(Replies) /\ Len(rx) \in Nat /\ DOMAIN rx = 1 .. Len(rx)
    BY LenProperties DEF PlacesOK
  <2>2. /\ RxLeft \in Seq(Replies) /\ Len(RxLeft) \in Nat
        /\ DOMAIN RxLeft = 1 .. Len(RxLeft)
        /\ \A i \in DOMAIN RxLeft : \E k \in DOMAIN rx : RxLeft[i] = rx[k]
    <3>1. CASE pulse = "RX_POP"
      <4> DEFINE t == Tail(rx)
      <4>1. rx # <<>> /\ RxLeft = t
        BY <3>1 DEF OrcMoves, RxLeft
      <4>2. /\ t \in Seq(Replies) /\ DOMAIN t = 1 .. Len(rx) - 1
            /\ \A i \in 1 .. Len(rx) - 1 : t[i] = rx[i + 1]
            /\ Len(t) \in Nat /\ DOMAIN t = 1 .. Len(t)
        BY <2>1, <4>1, HeadTailProperties, LenProperties
      <4> HIDE DEF t
      <4>3. \A i \in 1 .. Len(rx) - 1 : i + 1 \in 1 .. Len(rx)
        BY <2>1
      <4> QED
        BY <2>1, <4>1, <4>2, <4>3, Zenon
    <3>2. CASE pulse # "RX_POP"
      BY <2>1, <3>2 DEF RxLeft
    <3> QED
      BY <3>1, <3>2, SMTT(40)
  <2>3. rx' = IF Absorbs(x) /\ ~IsSignal(x) THEN Append(RxLeft, x) ELSE RxLeft
    BY DEF OrcMoves
  <2>4. CASE Absorbs(x) /\ ~IsSignal(x)
    <3> DEFINE a == Append(RxLeft, x)
    <3>1. x \in Replies
      BY <2>4 DEF OrcMoves, Absorbs, IsFlit, NoFlit, Inward, Replies, IsSignal
    <3>2. /\ rx' = a /\ DOMAIN a = 1 .. Len(RxLeft) + 1
          /\ \A i \in 1 .. Len(RxLeft) : a[i] = RxLeft[i]
          /\ a[Len(RxLeft) + 1] = x
      BY <2>2, <2>3, <2>4, <3>1, AppendProperties, LenProperties
    <3> HIDE DEF a
    <3>3. \A i \in 1 .. Len(RxLeft) + 1 : i \in 1 .. Len(RxLeft) \/ i = Len(RxLeft) + 1
      BY <2>2
    <3> QED
      BY <2>2, <2>4, <3>2, <3>3
  <2>5. CASE ~(Absorbs(x) /\ ~IsSignal(x))
    BY <2>2, <2>3, <2>5
  <2> QED
    BY <2>4, <2>5
<1>7. Answered(v)' => Answered(v)
  <2>1. (\E i \in DOMAIN up'[v] : up'[v][i].type = "CTRL")
           => \E i \in DOMAIN up[v] : up[v][i].type = "CTRL"
    BY <1>4
  <2>2. Absorbs(x) /\ ~IsSignal(x) => x.type = "CTRL"
    BY DEF OrcMoves, Absorbs, IsFlit, NoFlit, Inward, IsSignal
  <2>3. (\E i \in DOMAIN rx' : rx'[i].peer = v)
           => \/ \E i \in DOMAIN rx : rx[i].peer = v
              \/ \E i \in DOMAIN up[v] : up[v][i].type = "CTRL"
    BY <1>5, <1>6, <2>2
  <2> QED
    BY <1>2, <2>1, <2>3 DEF Answered
<1>8. ASSUME NEW i \in DOMAIN up'[v], SaysIdle(up'[v][i])
      PROVE  /\ Idle(v)' /\ Kind(cu_out'[v]) # "job"
             /\ \A j \in DOMAIN up'[v] : j > i => Kind(up'[v][j]) # "job"
  <2>1. PICK k \in DOMAIN up[v] :
             /\ up'[v][i] = up[v][k] /\ i \in Int /\ k \in Int
             /\ k = i \/ (k = i + 1 /\ Absorbs(x) /\ x.peer = v)
             /\ k = i => ~(Absorbs(x) /\ x.peer = v)
    BY <1>4
  <2>2. /\ Idle(v) /\ Kind(cu_out[v]) # "job"
        /\ \A j \in DOMAIN up[v] : j > k => Kind(up[v][j]) # "job"
    BY <1>8, <2>1 DEF AnswerOK
  <2>3. ASSUME NEW j \in DOMAIN up'[v], j > i PROVE Kind(up'[v][j]) # "job"
    <3>1. PICK m \in DOMAIN up[v] :
             /\ up'[v][j] = up[v][m] /\ j \in Int /\ m \in Int
             /\ m = j \/ (m = j + 1 /\ Absorbs(x) /\ x.peer = v)
             /\ m = j => ~(Absorbs(x) /\ x.peer = v)
      BY <1>4
    <3>2. m > k
      BY <2>1, <2>3, <3>1
    <3> QED
      BY <2>2, <3>1, <3>2
  <2> QED
    BY <1>2, <2>2, <2>3
<1>9. ASSUME NEW i \in DOMAIN rx', rx'[i].peer = v, rx'[i].code = "IDLE"
      PROVE  /\ Idle(v)' /\ Kind(cu_out'[v]) # "job"
             /\ \A j \in DOMAIN up'[v] : Kind(up'[v][j]) # "job"
  <2>1. CASE \E k \in DOMAIN rx : rx'[i] = rx[k]
    <3>1. /\ Idle(v) /\ Kind(cu_out[v]) # "job"
          /\ \A j \in DOMAIN up[v] : Kind(up[v][j]) # "job"
      BY <1>9, <2>1 DEF AnswerOK
    <3>2. \A j \in DOMAIN up'[v] : \E k \in DOMAIN up[v] : up'[v][j] = up[v][k]
      BY <1>4
    <3>3. \A j \in DOMAIN up'[v] : Kind(up'[v][j]) # "job"
      BY <3>1, <3>2
    <3> QED
      BY <1>2, <3>1, <3>3
  <2>2. CASE Absorbs(x) /\ ~IsSignal(x) /\ rx'[i] = x
    <3>1. x.type = "CTRL" /\ x.peer = v
      BY <1>9, <2>2 DEF OrcMoves, Absorbs, IsFlit, NoFlit, Inward, IsSignal
    <3>2. 1 \in DOMAIN up[v] /\ SaysIdle(up[v][1])
      BY <1>5, <1>9, <2>2, <3>1 DEF SaysIdle
    <3>3. /\ Idle(v) /\ Kind(cu_out[v]) # "job"
          /\ \A j \in DOMAIN up[v] : j > 1 => Kind(up[v][j]) # "job"
      BY <3>2 DEF AnswerOK
    <3>4. ASSUME NEW j \in DOMAIN up'[v] PROVE Kind(up'[v][j]) # "job"
      <4>1. PICK m \in DOMAIN up[v] :
             /\ up'[v][j] = up[v][m] /\ j \in Int /\ m \in Int
             /\ m = j \/ (m = j + 1 /\ Absorbs(x) /\ x.peer = v)
             /\ m = j => ~(Absorbs(x) /\ x.peer = v)
        BY <1>4
      <4>2. m = j + 1 /\ j >= 1
        <5>1. m = j + 1
          BY <2>2, <3>1, <4>1
        <5>2. DOMAIN up'[v] = 1 .. Len(up'[v])
          <6>1. up[v] # <<>> /\ up'[v] = Tail(up[v])
            BY <1>1, <2>2, <3>1 DEF LinkMoves
          <6>2. up'[v] \in Seq(Inward(v))
            BY <1>3, <6>1, HeadTailProperties
          <6> QED
            BY <6>2, LenProperties
        <5> QED
          BY <5>1, <5>2
      <4>3. m > 1
        BY <4>1, <4>2
      <4> QED
        BY <3>3, <4>1, <4>3
    <3> QED
      BY <1>2, <3>3, <3>4
  <2> QED
    BY <1>6, <2>1, <2>2
<1>10. ctrl_pend'[v] /\ ctrl_val'[v] = "IDLE" => Idle(v)'
  BY <1>2 DEF AnswerOK
<1>11. SaysIdle(cu_out'[v]) => Idle(v)'
  BY <1>2 DEF AnswerOK
<1> QED
  BY <1>7, <1>8, <1>9, <1>10, <1>11

(* While a read is out nothing is added to what is sent.                   *)
LEMMA OrcSentStill ==
  ASSUME TypeOK, PlacesOK, HostOK, DispOK, ReadsOK, SentOK, ReadOut,
         NEW x, OrcMoves(x), Kicked \/ Pushed \/ Rested
  PROVE  /\ SentOK'
         /\ NothingSent => NothingSent' /\ \A u \in Unit : down'[u] = down[u]
<1>1. pulse # "TX_KICK" /\ ~prog_run /\ ~disp_push
  BY ReadRests
<1>2. ~disp_push'
  BY <1>1 DEF Kicked, Pushed, Rested
<1>3. tx' = Popped
  BY <1>1 DEF OrcMoves, MailPushed
<1>4. /\ orc_out' = IF TxPop(DownBusy) THEN Head(tx)
                    ELSE IF DownBusy THEN orc_out ELSE NoFlit
      /\ \A u \in Unit : LinkMoves(x, u)
  BY DEF OrcMoves
<1>5. /\ tx \in Seq(AllOutward) /\ Len(tx) \in Nat /\ DOMAIN tx = 1 .. Len(tx)
      /\ TxPop(DownBusy) => tx # <<>>
  BY PoppedType, LenProperties
<1>6. tx = <<>> => tx' = <<>> /\ orc_out' \in {orc_out, NoFlit}
  BY <1>3, <1>4, <1>5 DEF Popped
<1>7. ASSUME NothingSent PROVE NothingSent' /\ \A u \in Unit : down'[u] = down[u]
  <2>1. tx = <<>> /\ ~IsFlit(orc_out)
    BY <1>7 DEF NothingSent
  <2>2. tx' = <<>> /\ ~IsFlit(orc_out')
    BY <1>6, <2>1 DEF IsFlit, NoFlit
  <2>3. ~OrcSends(DownBusy)
    BY <2>1 DEF OrcSends
  <2>4. \A u \in Unit : down'[u] = down[u]
    BY <1>4, <2>3 DEF LinkMoves
  <2> QED
    BY <1>2, <2>2, <2>4 DEF NothingSent, IsFlit
<1>8. ASSUME NEW i \in DOMAIN tx', tx'[i].type = "CTRL"
      PROVE  i = Len(tx') /\ ~disp_push'
  <2>1. PICK k \in DOMAIN tx : /\ Popped[i] = tx[k]
                               /\ k = Len(tx) => i = Len(Popped)
    BY <1>3, <1>8, PoppedAt
  <2>2. k = Len(tx)
    BY <1>3, <1>8, <2>1 DEF SentOK
  <2> QED
    BY <1>2, <1>3, <2>1, <2>2
<1>9. ASSUME orc_out'.type = "CTRL" PROVE tx' = <<>> /\ ~disp_push'
  <2>1. CASE TxPop(DownBusy)
    <3>1. tx # <<>> /\ Head(tx) = tx[1] /\ 1 \in DOMAIN tx /\ tx' = Tail(tx)
      <4>1. tx # <<>> /\ Len(tx) # 0
        BY <1>5, <2>1, EmptySeq
      <4> QED
        BY <1>3, <1>5, <2>1, <4>1, HeadTailProperties DEF Popped
    <3>2. tx[1].type = "CTRL"
      BY <1>4, <1>9, <2>1, <3>1
    <3>3. 1 = Len(tx)
      BY <3>1, <3>2 DEF SentOK
    <3>4. Tail(tx) \in Seq(AllOutward) /\ Len(Tail(tx)) = Len(tx) - 1
      BY <1>5, <3>1, HeadTailProperties
    <3>5. Tail(tx) = <<>>
      BY <3>3, <3>4, EmptySeq
    <3> QED
      BY <1>2, <3>1, <3>5
  <2>2. CASE ~TxPop(DownBusy)
    <3>1. orc_out.type = "CTRL"
      BY <1>4, <1>9, <2>2 DEF NoFlit
    <3> QED
      BY <1>2, <1>6, <3>1 DEF SentOK
  <2> QED
    BY <2>1, <2>2
<1>10. ASSUME NEW u \in Unit, NEW i \in DOMAIN down'[u], down'[u][i].type = "CTRL"
       PROVE  i = Len(down'[u]) /\ NothingSent'
  <2>1. down[u] \in Seq(Outward(u)) /\ Len(down[u]) \in Nat
        /\ DOMAIN down[u] = 1 .. Len(down[u])
    BY LenProperties DEF PlacesOK, UnitPlaces
  <2>2. CASE i \in DOMAIN down[u] /\ down'[u][i] = down[u][i]
    <3>1. i = Len(down[u]) /\ NothingSent
      BY <1>10, <2>2 DEF SentOK
    <3> QED
      BY <1>7, <3>1
  <2>3. CASE /\ OrcSends(DownBusy) /\ down'[u][i] = orc_out
             /\ i = Len(down'[u])
    <3>1. tx = <<>> /\ orc_out.type = "CTRL"
      BY <1>10, <2>3 DEF SentOK
    <3>2. ~TxPop(DownBusy) /\ ~DownBusy
      BY <1>5, <2>3, <3>1 DEF OrcSends
    <3>3. orc_out' = NoFlit
      BY <1>4, <3>2
    <3> QED
      BY <1>2, <1>6, <2>3, <3>1, <3>3 DEF NothingSent, IsFlit, NoFlit
  <2>4. \/ i \in DOMAIN down[u] /\ down'[u][i] = down[u][i]
        \/ /\ OrcSends(DownBusy) /\ down'[u][i] = orc_out
           /\ i = Len(down'[u])
    <3>1. CASE OrcSends(DownBusy) /\ orc_out.peer = u
      <4> DEFINE a == Append(down[u], orc_out)
      <4>1. down'[u] = a /\ orc_out \in Outward(u)
        BY <1>4, <3>1 DEF LinkMoves
      <4>2. /\ DOMAIN a = 1 .. Len(down[u]) + 1 /\ Len(a) = Len(down[u]) + 1
            /\ \A k \in 1 .. Len(down[u]) : a[k] = down[u][k]
            /\ a[Len(down[u]) + 1] = orc_out
        BY <2>1, <4>1, AppendProperties, LenProperties
      <4> HIDE DEF a
      <4>3. i \in 1 .. Len(down[u]) \/ i = Len(down[u]) + 1
        BY <1>10, <2>1, <4>1, <4>2
      <4> QED
        BY <2>1, <3>1, <4>1, <4>2, <4>3
    <3>2. CASE ~(OrcSends(DownBusy) /\ orc_out.peer = u)
      <4>1. down'[u] = down[u]
        BY <1>4, <3>2 DEF LinkMoves
      <4> QED
        BY <1>10, <4>1
    <3> QED
      BY <3>1, <3>2
  <2> QED
    BY <2>2, <2>3, <2>4
<1> QED
  BY <1>7, <1>8, <1>9, <1>10 DEF SentOK

(* The read the host kicks is the only one anywhere.                       *)
LEMMA OrcSentFirst ==
  ASSUME TypeOK, PlacesOK, HostOK, DispOK, ReadsOK, ~ReadOut,
         NEW x, OrcMoves(x), Kicked \/ Pushed \/ Rested
  PROVE  SentOK'
<1>1. InLine({"read"}) = 0
  BY DEF ReadOut
<1>2. /\ \A i \in DOMAIN tx : tx[i].type # "CTRL"
      /\ orc_out.type # "CTRL"
      /\ \A v \in Unit : \A i \in DOMAIN down[v] : down[v][i].type # "CTRL"
  BY <1>1, NoRead
<1>3. Popped \in Seq(AllOutward) /\ Len(Popped) \in Nat
      /\ DOMAIN Popped = 1 .. Len(Popped)
      /\ tx \in Seq(AllOutward) /\ (TxPop(DownBusy) => tx # <<>>)
  BY PoppedType, LenProperties
<1>4. \A i \in DOMAIN Popped : Popped[i].type # "CTRL"
  BY <1>2, PoppedAt
<1>5. MailPushed => ~disp_push /\ ~disp_push'
  <2>1. MailPushed => ~prog_run /\ ~disp_push
    BY ReadRests DEF MailPushed
  <2> QED
    BY <2>1 DEF Kicked, Pushed, Rested
<1>6. ASSUME NEW f \in AllOutward
      PROVE  LET a == Append(Popped, f)
             IN  /\ DOMAIN a = 1 .. Len(Popped) + 1 /\ Len(a) = Len(Popped) + 1
                 /\ \A i \in 1 .. Len(Popped) : a[i] = Popped[i]
                 /\ a[Len(Popped) + 1] = f
  BY <1>3, AppendProperties, LenProperties
<1>7. \A i \in 1 .. Len(Popped) + 1 : i \in 1 .. Len(Popped) \/ i = Len(Popped) + 1
  BY <1>3
<1>8. ASSUME NEW i \in DOMAIN tx', tx'[i].type = "CTRL"
      PROVE  i = Len(tx') /\ ~disp_push'
  <2>1. /\ disp_push => DispFlit \in AllOutward
        /\ MailPushed => tx_stage \in AllOutward
    BY PushedFlit
  <2>2. tx' = IF disp_push THEN Append(Popped, DispFlit)
              ELSE IF MailPushed THEN Append(Popped, tx_stage)
              ELSE Popped
    BY DEF OrcMoves
  <2>3. CASE disp_push
    <3>1. DispFlit.type # "CTRL"
      <4>1. prog_flit \in Flit /\ prog_flit.type \in {"INST", "DATA"}
        BY <2>3 DEF TypeOK, OrcTypeOK, DispOK
      <4> QED
        BY <4>1 DEF DispFlit, Flit
    <3> DEFINE a == Append(Popped, DispFlit)
    <3>2. /\ tx' = a /\ DOMAIN a = 1 .. Len(Popped) + 1
          /\ \A j \in 1 .. Len(Popped) : a[j] = Popped[j]
          /\ a[Len(Popped) + 1] = DispFlit
      BY <1>6, <2>1, <2>2, <2>3
    <3> HIDE DEF a
    <3> QED
      BY <1>3, <1>4, <1>7, <1>8, <3>1, <3>2
  <2>4. CASE ~disp_push /\ MailPushed
    <3> DEFINE a == Append(Popped, tx_stage)
    <3>1. /\ tx' = a /\ DOMAIN a = 1 .. Len(Popped) + 1
          /\ Len(a) = Len(Popped) + 1
          /\ \A j \in 1 .. Len(Popped) : a[j] = Popped[j]
      BY <1>6, <2>1, <2>2, <2>4
    <3> HIDE DEF a
    <3> QED
      BY <1>3, <1>4, <1>5, <1>7, <1>8, <2>4, <3>1
  <2>5. CASE ~disp_push /\ ~MailPushed
    BY <1>4, <1>8, <2>2, <2>5
  <2> QED
    BY <2>3, <2>4, <2>5
<1>9. orc_out'.type # "CTRL"
  <2>1. orc_out' = IF TxPop(DownBusy) THEN Head(tx)
                   ELSE IF DownBusy THEN orc_out ELSE NoFlit
    BY DEF OrcMoves
  <2>2. TxPop(DownBusy) => Head(tx).type # "CTRL"
    <3>1. TxPop(DownBusy) => Head(tx) = tx[1] /\ 1 \in DOMAIN tx
      BY <1>3, EmptySeq, HeadTailProperties, LenProperties
    <3> QED
      BY <1>2, <3>1
  <2> QED
    BY <1>2, <2>1, <2>2 DEF NoFlit
<1>10. ASSUME NEW u \in Unit, NEW i \in DOMAIN down'[u]
       PROVE  down'[u][i].type # "CTRL"
  <2>1. down[u] \in Seq(Outward(u)) /\ Len(down[u]) \in Nat
        /\ DOMAIN down[u] = 1 .. Len(down[u])
    BY LenProperties DEF PlacesOK, UnitPlaces
  <2>2. LinkMoves(x, u)
    BY DEF OrcMoves
  <2>3. CASE OrcSends(DownBusy) /\ orc_out.peer = u
    <3> DEFINE a == Append(down[u], orc_out)
    <3>1. down'[u] = a /\ orc_out \in Outward(u)
      BY <2>2, <2>3 DEF LinkMoves
    <3>2. /\ DOMAIN a = 1 .. Len(down[u]) + 1
          /\ \A k \in 1 .. Len(down[u]) : a[k] = down[u][k]
          /\ a[Len(down[u]) + 1] = orc_out
      BY <2>1, <3>1, AppendProperties, LenProperties
    <3> HIDE DEF a
    <3>3. i \in 1 .. Len(down[u]) \/ i = Len(down[u]) + 1
      BY <1>10, <2>1, <3>1, <3>2
    <3> QED
      BY <1>2, <2>1, <3>1, <3>2, <3>3
  <2>4. CASE ~(OrcSends(DownBusy) /\ orc_out.peer = u)
    BY <1>2, <1>10, <2>2, <2>4 DEF LinkMoves
  <2> QED
    BY <2>3, <2>4
<1> QED
  BY <1>8, <1>9, <1>10 DEF SentOK

(* The agent's edge keeps what is said of reads and their answers.         *)
LEMMA OrcQuiet ==
  ASSUME TypeOK, PlacesOK, HostOK, DispOK, ReadsOK, QuietOK,
         NEW x, OrcMoves(x), Kicked \/ Pushed \/ Rested
  PROVE  QuietOK'
<1>1. SentOK'
  BY OrcSentStill, OrcSentFirst DEF QuietOK
<1>2. ASSUME NEW v \in Unit PROVE AnswerOK(v)'
  <2>1. AnswerOK(v)
    BY DEF QuietOK
  <2>2. Answered(v) => ReadOut
    <3>1. InLine({"read"}) = 0 =>
            /\ ~ctrl_pend[v] /\ cu_out[v].type # "CTRL"
            /\ \A i \in DOMAIN up[v] : up[v][i].type # "CTRL"
      BY NoRead
    <3>2. rx = <<>> => ~ \E i \in DOMAIN rx : rx[i].peer = v
      OBVIOUS
    <3> QED
      BY <3>1, <3>2 DEF Answered, ReadOut
  <2>3. /\ Answered(v)' => Answered(v)
        /\ ctrl_pend'[v] /\ ctrl_val'[v] = "IDLE" => Idle(v)'
        /\ SaysIdle(cu_out'[v]) => Idle(v)'
        /\ \A i \in DOMAIN up'[v] : SaysIdle(up'[v][i]) =>
              /\ Idle(v)' /\ Kind(cu_out'[v]) # "job"
              /\ \A j \in DOMAIN up'[v] : j > i => Kind(up'[v][j]) # "job"
        /\ \A i \in DOMAIN rx' : rx'[i].peer = v /\ rx'[i].code = "IDLE" =>
              /\ Idle(v)' /\ Kind(cu_out'[v]) # "job"
              /\ \A j \in DOMAIN up'[v] : Kind(up'[v][j]) # "job"
    BY <2>1, OrcAnswer
  <2>4. Answered(v)' => down'[v] = <<>> /\ NothingSent'
    <3>1. Answered(v)' => ReadOut /\ down[v] = <<>> /\ NothingSent
      BY <2>1, <2>2, <2>3 DEF AnswerOK
    <3>2. ReadOut /\ NothingSent => NothingSent' /\ down'[v] = down[v]
      BY OrcSentStill DEF QuietOK
    <3> QED
      BY <3>1, <3>2
  <2>5. /\ SaysIdle(cu_out[v])' <=> SaysIdle(cu_out'[v])
        /\ \A i : SaysIdle(up[v][i])' <=> SaysIdle(up'[v][i])
        /\ Kind(cu_out[v])' = Kind(cu_out'[v])
        /\ \A i : Kind(up[v][i])' = Kind(up'[v][i])
    BY DEF SaysIdle, Kind
  <2> QED
    BY <2>3, <2>4, <2>5 DEF AnswerOK
<1> QED
  BY <1>1, <1>2 DEF QuietOK

-----------------------------------------------------------------------------
(***************************************************************************)
(* Bursts: the end of a burst moves with an edge of the agent, and is      *)
(* never lost.                                                             *)
(***************************************************************************)
LEMMA PushedMore ==
  ASSUME TypeOK, DispOK, DispOK', Kicked \/ Pushed \/ Rested, NEW v
  PROVE  /\ MoreLeft(v) => MorePushed(v)'
         /\ disp_push' /\ IsData(DispFlit', v) => MorePushed(v)'
<1>1. CASE Kicked
  <2>1. ~prog_run /\ ~disp_push'
    BY <1>1 DEF Kicked
  <2> QED
    BY <2>1 DEF MoreLeft
<1>2. CASE Rested
  <2>1. /\ ~disp_push' /\ prog_run' = prog_run
        /\ prog_run => prog_dst' = prog_dst
    BY <1>2 DEF Rested
  <2>2. Left' = Left
    BY <1>2, LeftMoves
  <2> QED
    BY <2>1, <2>2 DEF MoreLeft, MorePushed, LastData
<1>3. CASE Pushed
  <2>1. /\ prog_rd \in Left /\ Left' = Left \ {prog_rd}
        /\ prog_rd \in 0 .. STAGE_FLITS - 1 /\ (prog_run' <=> Left' # {})
    BY <1>3, LeftMoves
  <2>2. disp_push' /\ prog_flit' = StagedFlit /\ prog_dst' = prog_dst
    BY <1>3 DEF Pushed
  <2>3. /\ DispFlit'.type = Stage[prog_rd].type /\ DispFlit'.peer = prog_dst
        /\ DispFlit'.last = Stage[prog_rd].last
    BY <2>2 DEF DispFlit, StagedFlit
  <2>4. MoreLeft(v)' <=> prog_run' /\ prog_dst = v /\ \E i \in Left' : LastData(i)
    BY <2>2 DEF MoreLeft, LastData
  <2>5. MorePushed(v)' <=> EndsBurst(DispFlit', v) \/ MoreLeft(v)'
    BY <2>2 DEF MorePushed, EndsBurst, IsData
  <2>6. ASSUME MoreLeft(v) PROVE MorePushed(v)'
    <3>1. prog_dst = v
      BY <2>6 DEF MoreLeft
    <3>2. PICK i \in Left : LastData(i)
      BY <2>6 DEF MoreLeft
    <3>3. CASE i = prog_rd
      BY <2>3, <2>5, <3>1, <3>2, <3>3 DEF EndsBurst, IsData, LastData
    <3>4. CASE i # prog_rd
      BY <2>1, <2>4, <2>5, <3>1, <3>2, <3>4
    <3> QED
      BY <3>3, <3>4
  <2>7. ASSUME IsData(DispFlit', v) PROVE MorePushed(v)'
    <3>1. Stage[prog_rd].type = "DATA" /\ prog_dst = v
      BY <2>3, <2>7 DEF IsData
    <3>2. CASE Stage[prog_rd].last
      BY <2>3, <2>5, <2>7, <3>2 DEF EndsBurst
    <3>3. CASE ~Stage[prog_rd].last
      <4>1. prog_run' /\ \E j \in Left' : LastData(j)
        BY <1>3, <3>1, <3>3, BurstLeft
      <4> QED
        BY <2>4, <2>5, <3>1, <4>1
    <3> QED
      BY <3>2, <3>3
  <2> QED
    BY <2>6, <2>7
<1> QED
  BY <1>1, <1>2, <1>3

(* The same along the transmit FIFO and the output register.               *)
LEMMA OrcMore ==
  ASSUME TypeOK, PlacesOK, HostOK, DispOK, DispOK', NEW x, OrcMoves(x),
         Kicked \/ Pushed \/ Rested, NEW v, BurstOK(v)
  PROVE  /\ Whole(tx', v, MorePushed(v)')
         /\ MoreTx(v) => MoreOut(v)'
         /\ IsData(orc_out', v) => MoreOut(v)'
         /\ OrcSends(DownBusy) \/ (EndsBurst(orc_out, v) => MoreOut(v)')
<1> DEFINE ml == MoreLeft(v)
           mp == MorePushed(v)
           mpn == MorePushed(v)'
           mon == MoreOut(v)'
           ed == EndsBurst(DispFlit, v)
           et == Ends(tx, v)
           ep == Ends(Popped, v)
           etn == Ends(tx', v)
           eo == EndsBurst(orc_out, v)
           eon == EndsBurst(orc_out', v)
           eh == EndsBurst(Head(tx), v)
<1>1. /\ tx \in Seq(AllOutward) /\ Popped \in Seq(AllOutward)
      /\ TxPop(DownBusy) => tx # <<>>
  BY PoppedType
<1>2. /\ ml \in BOOLEAN /\ mp \in BOOLEAN /\ mpn \in BOOLEAN /\ mon \in BOOLEAN
      /\ ed \in BOOLEAN /\ et \in BOOLEAN /\ ep \in BOOLEAN /\ etn \in BOOLEAN
      /\ eo \in BOOLEAN /\ eon \in BOOLEAN /\ eh \in BOOLEAN
  BY DEF MoreLeft, MorePushed, MoreOut, MoreTx, Ends, EndsBurst, IsData
<1>3. /\ mp <=> (disp_push /\ ed) \/ ml
      /\ mon <=> eon \/ etn \/ mpn
      /\ MoreTx(v) <=> et \/ mp
      /\ ml => mpn
  <2>1. mon <=> eon \/ etn \/ mpn
    BY DEF MoreOut, MoreTx, Ends, EndsBurst, IsData
  <2>2. ml => mpn
    BY PushedMore
  <2> QED
    BY <2>1, <2>2 DEF MorePushed, MoreTx
<1>4. /\ Whole(tx, v, mp)
      /\ disp_push /\ IsData(DispFlit, v) => mp
      /\ IsData(orc_out, v) => eo \/ et \/ mp
  BY DEF BurstOK, MoreOut, MoreTx
<1>5. /\ Whole(Popped, v, mp)
      /\ TxPop(DownBusy) => (et <=> eh \/ ep)
      /\ TxPop(DownBusy) => (IsData(Head(tx), v) => mp \/ eh \/ ep)
      /\ ~TxPop(DownBusy) => ep = et
  <2>1. CASE TxPop(DownBusy)
    <3>1. /\ Ends(tx, v) <=> EndsBurst(Head(tx), v) \/ Ends(Tail(tx), v)
          /\ \A more \in BOOLEAN : Whole(tx, v, more) =>
               /\ Whole(Tail(tx), v, more)
               /\ IsData(Head(tx), v) =>
                    more \/ EndsBurst(Head(tx), v) \/ Ends(Tail(tx), v)
      BY <1>1, <2>1, EndsTail
    <3>2. Popped = Tail(tx)
      BY <2>1 DEF Popped
    <3> HIDE DEF mp
    <3> QED
      BY <1>2, <1>4, <2>1, <3>1, <3>2
  <2>2. CASE ~TxPop(DownBusy)
    BY <1>4, <2>2 DEF Popped
  <2> QED
    BY <2>1, <2>2
<1>6. tx' = IF disp_push THEN Append(Popped, DispFlit)
            ELSE IF MailPushed THEN Append(Popped, tx_stage)
            ELSE Popped
  BY DEF OrcMoves
<1>7. /\ disp_push => DispFlit \in AllOutward
      /\ MailPushed => tx_stage \in AllOutward
  BY PushedFlit
<1>8. MailPushed => ~IsData(tx_stage, v) /\ ~EndsBurst(tx_stage, v)
  <2>1. MailPushed => tx_stage.type = "CTRL"
    BY DEF MailPushed, HostOK, ValuesOK, CtrlRead
  <2> QED
    BY <2>1 DEF IsData, EndsBurst
<1> HIDE DEF ml, mp, mpn, mon, ed, et, ep, etn, eo, eon, eh
<1>9. Whole(tx', v, mpn) /\ (ep => etn) /\ (mp => etn \/ mpn)
  <2>1. CASE disp_push
    <3>1. /\ IsData(DispFlit, v) => mpn \/ ed
          /\ mp => mpn \/ ed
      BY <1>2, <1>3, <1>4, <2>1
    <3>2. (mpn \/ ed) \in BOOLEAN
      BY <1>2
    <3>3. Whole(Popped, v, mpn \/ ed)
      BY <1>2, <1>5, <3>1, <3>2, WholeWeaker
    <3>4. Whole(Append(Popped, DispFlit), v, mpn)
      BY <1>1, <1>2, <1>7, <2>1, <3>1, <3>3, WholeAppend DEF ed
    <3>5. Ends(Append(Popped, DispFlit), v) <=> Ends(Popped, v) \/ EndsBurst(DispFlit, v)
      BY <1>1, <1>7, <2>1, EndsAppend
    <3>6. tx' = Append(Popped, DispFlit)
      BY <1>6, <2>1
    <3>7. etn <=> ep \/ ed
      BY <3>5, <3>6 DEF etn, ep, ed
    <3> QED
      BY <1>2, <1>3, <2>1, <3>4, <3>6, <3>7
  <2>2. CASE ~disp_push /\ MailPushed
    <3> DEFINE es == EndsBurst(tx_stage, v)
    <3>1. es = FALSE
      BY <1>8, <2>2 DEF EndsBurst, IsData
    <3>2. mp => mpn
      BY <1>2, <1>3, <2>2
    <3>3. Whole(Popped, v, mpn)
      BY <1>2, <1>5, <3>2, WholeWeaker
    <3>4. (mpn \/ es) = mpn
      BY <1>2, <3>1
    <3>5. Whole(Append(Popped, tx_stage), v, mpn)
      BY <1>1, <1>2, <1>7, <1>8, <2>2, <3>3, <3>4, WholeAppend
    <3>6. Ends(Append(Popped, tx_stage), v) <=> Ends(Popped, v) \/ EndsBurst(tx_stage, v)
      BY <1>1, <1>7, <2>2, EndsAppend
    <3>7. tx' = Append(Popped, tx_stage)
      BY <1>6, <2>2
    <3>8. etn <=> ep
      BY <1>8, <2>2, <3>6, <3>7 DEF etn, ep
    <3> QED
      BY <1>2, <3>2, <3>5, <3>7, <3>8
  <2>3. CASE ~disp_push /\ ~MailPushed
    <3>1. tx' = Popped
      BY <1>6, <2>3
    <3>2. mp => mpn
      BY <1>2, <1>3, <2>3
    <3>3. Whole(Popped, v, mpn)
      BY <1>2, <1>5, <3>2, WholeWeaker
    <3>4. etn = ep
      BY <3>1 DEF etn, ep
    <3> QED
      BY <1>2, <3>1, <3>2, <3>3, <3>4
  <2> QED
    BY <2>1, <2>2, <2>3
<1>10. orc_out' = IF TxPop(DownBusy) THEN Head(tx)
                  ELSE IF DownBusy THEN orc_out ELSE NoFlit
  BY DEF OrcMoves
<1>11. TxPop(DownBusy) => eon = eh
  BY <1>10 DEF eon, eh
<1>12. MoreTx(v) => mon
  BY <1>2, <1>3, <1>5, <1>9, <1>11
<1>13. IsData(orc_out', v) => mon
  <2>1. CASE TxPop(DownBusy)
    <3>1. IsData(orc_out', v) => mp \/ eh \/ ep
      BY <1>5, <1>10, <2>1
    <3> QED
      BY <1>2, <1>3, <1>9, <1>11, <2>1, <3>1
  <2>2. CASE ~TxPop(DownBusy) /\ DownBusy
    <3>1. orc_out' = orc_out
      BY <1>10, <2>2
    <3>2. eon = eo
      BY <3>1 DEF eon, eo
    <3>3. IsData(orc_out', v) => eo \/ et \/ mp
      BY <1>4, <3>1
    <3>4. ep = et
      BY <1>5, <2>2
    <3> QED
      BY <1>2, <1>3, <1>9, <3>2, <3>3, <3>4
  <2>3. CASE ~TxPop(DownBusy) /\ ~DownBusy
    BY <1>10, <2>3 DEF IsData, NoFlit
  <2> QED
    BY <2>1, <2>2, <2>3
<1>14. OrcSends(DownBusy) \/ (eo => mon)
  <2>1. CASE ~OrcSends(DownBusy) /\ eo
    <3>1. IsFlit(orc_out) /\ DownBusy
      BY <2>1 DEF OrcSends, eo, EndsBurst, IsData, IsFlit
    <3>2. ~TxPop(DownBusy)
      BY <3>1 DEF TxPop
    <3>3. orc_out' = orc_out
      BY <1>10, <3>1, <3>2
    <3>4. eon = eo
      BY <3>3 DEF eon, eo
    <3> QED
      BY <1>3, <2>1, <3>4
  <2> QED
    BY <1>2, <2>1
<1> QED
  BY <1>9, <1>12, <1>13, <1>14 DEF mpn, mon, eo

(* The agent's edge keeps every burst whole.                               *)
LEMMA OrcBursts ==
  ASSUME TypeOK, PlacesOK, HostOK, DispOK, DispOK', BurstsOK, NEW x, OrcMoves(x),
         Kicked \/ Pushed \/ Rested
  PROVE  BurstsOK'
<1>1. ASSUME NEW v \in Unit PROVE BurstOK(v)'
  <2> DEFINE mo == MoreOut(v)
             mon == MoreOut(v)'
             eo == EndsBurst(orc_out, v)
             ed == Ends(down[v], v)
             edn == Ends(down'[v], v)
             m == ed \/ mo
             mn == edn \/ mon
  <2>1. BurstOK(v) /\ LinkMoves(x, v) /\ UnitPlaces(v)
    BY DEF BurstsOK, OrcMoves, PlacesOK
  <2>2. /\ Whole(tx', v, MorePushed(v)')
        /\ MoreTx(v) => mon
        /\ IsData(orc_out', v) => mon
        /\ OrcSends(DownBusy) \/ (eo => mon)
    BY <2>1, OrcMore
  <2>3. disp_push' /\ IsData(DispFlit', v) => MorePushed(v)'
    BY PushedMore
  <2>4. mo \in BOOLEAN /\ mon \in BOOLEAN /\ eo \in BOOLEAN /\ ed \in BOOLEAN
        /\ edn \in BOOLEAN /\ m \in BOOLEAN /\ mn \in BOOLEAN
        /\ MoreTx(v) \in BOOLEAN
    BY DEF MoreOut, MoreTx, EndsBurst, Ends, IsData
  <2>5. mo <=> eo \/ MoreTx(v)
    BY DEF MoreOut
  <2>6. /\ down[v] \in Seq(Outward(v)) /\ recvq'[v] = recvq[v]
        /\ down'[v] = IF OrcSends(DownBusy) /\ orc_out.peer = v
                      THEN Append(down[v], orc_out) ELSE down[v]
        /\ OrcSends(DownBusy) /\ orc_out.peer = v => orc_out \in Outward(v)
    BY <2>1 DEF UnitPlaces, LinkMoves, UnitStays
  <2>7. /\ Whole(recvq[v], v, m) /\ Whole(down[v], v, mo)
        /\ IsData(orc_out, v) => mo
    BY <2>1 DEF BurstOK, MoreDown
  <2> HIDE DEF mo, mon, eo, ed, edn
  <2>8. Whole(down'[v], v, mon) /\ (m => mn)
    <3>1. CASE OrcSends(DownBusy) /\ orc_out.peer = v
      <4>1. mo => mon \/ eo
        BY <2>2, <2>4, <2>5
      <4>2. (mon \/ eo) \in BOOLEAN
        BY <2>4
      <4>3. Whole(down[v], v, mon \/ eo)
        BY <2>4, <2>7, <4>1, <4>2, WholeWeaker
      <4>4. IsData(orc_out, v) => mon \/ eo
        BY <2>7, <4>1
      <4>5. Whole(Append(down[v], orc_out), v, mon)
        BY <2>4, <2>6, <3>1, <4>3, <4>4, WholeAppend DEF eo
      <4>6. Ends(Append(down[v], orc_out), v) <=> Ends(down[v], v) \/ EndsBurst(orc_out, v)
        BY <2>6, <3>1, EndsAppend
      <4>7. down'[v] = Append(down[v], orc_out)
        BY <2>6, <3>1
      <4>8. edn <=> ed \/ eo
        BY <4>6, <4>7 DEF edn, ed, eo
      <4> QED
        BY <2>4, <4>1, <4>5, <4>7, <4>8
    <3>2. CASE ~(OrcSends(DownBusy) /\ orc_out.peer = v)
      <4>1. down'[v] = down[v]
        BY <2>6, <3>2
      <4>2. edn = ed
        BY <4>1 DEF edn, ed
      <4>3. OrcSends(DownBusy) => ~eo
        BY <3>2 DEF eo, EndsBurst, IsData
      <4>4. mo => mon
        BY <2>2, <2>4, <2>5, <4>3
      <4>5. Whole(down[v], v, mon)
        BY <2>4, <2>7, <4>4, WholeWeaker
      <4> QED
        BY <2>4, <4>1, <4>2, <4>4, <4>5
    <3> QED
      BY <3>1, <3>2
  <2>9. Whole(recvq[v], v, mn)
    <3> HIDE DEF m, mn
    <3> QED
      BY <2>4, <2>7, <2>8, WholeWeaker
  <2>10. /\ Whole(recvq[v], v, MoreDown(v))' <=> Whole(recvq'[v], v, mn)
         /\ Whole(down[v], v, MoreOut(v))' <=> Whole(down'[v], v, mon)
         /\ Whole(tx, v, MorePushed(v))' <=> Whole(tx', v, MorePushed(v)')
         /\ IsData(orc_out, v)' <=> IsData(orc_out', v)
         /\ IsData(DispFlit, v)' <=> IsData(DispFlit', v)
    BY DEF Whole, EndsBurst, IsData, MoreDown, Ends, mon, mn, edn
  <2> QED
    BY <2>2, <2>3, <2>6, <2>8, <2>9, <2>10 DEF BurstOK, mon
<1> QED
  BY <1>1 DEF BurstsOK
-----------------------------------------------------------------------------
(***************************************************************************)
(* The inductive invariant.                                                *)
(***************************************************************************)
DInv ==
  /\ TypeOK /\ PlacesOK /\ HostOK /\ DispOK /\ CreditCovers
  /\ SignalsOK /\ ReadsOK /\ QuietOK /\ BurstsOK

(* A clock edge of a unit keeps it.                                        *)
LEMMA CuInv ==
  ASSUME DInv, NEW u \in Unit, CuStep(u)
  PROVE  DInv'
<1>1. PICK x \in Arriving(u) : \E d \in Datapath : CuEdge(u, x, d)
  BY DEF CuStep
<1>2. PICK d \in Datapath : CuEdge(u, x, d)
  BY <1>1
<1>3. TypeOK' /\ PlacesOK'
  BY <1>2, CuTypes DEF DInv
<1>4. HostOK' /\ DispOK'
  BY <1>2, CuOthers, CuHost DEF DInv
<1>5. CreditCovers' /\ SignalsOK' /\ ReadsOK'
  BY <1>2, CuCounts DEF DInv
<1>6. QuietOK'
  BY <1>2, CuQuiet DEF DInv
<1>7. BurstsOK'
  BY <1>2, CuBursts DEF DInv
<1> QED
  BY <1>3, <1>4, <1>5, <1>6, <1>7, Zenon DEF DInv

(* A clock edge of the agent keeps it.                                     *)
LEMMA OrcInv ==
  ASSUME DInv, OrcStep
  PROVE  DInv'
<1>1. TypeOK /\ PlacesOK /\ HostOK /\ DispOK /\ CreditCovers
      /\ SignalsOK /\ ReadsOK /\ QuietOK /\ BurstsOK
  BY DEF DInv
<1>2. PICK w \in Write : \E x \in Presented(up) : OrcEdgeOf(w, x) /\ HostMoves(w)
  BY <1>1, OrcCases DEF HostOK
<1>3. PICK x \in Presented(up) : OrcEdgeOf(w, x) /\ HostMoves(w)
  BY <1>2
<1>4. WriteFsm(w) /\ Dispatcher(x)
  BY <1>3 DEF OrcEdgeOf, OrcClock
<1>5. TypeOK' /\ PlacesOK' /\ OrcMoves(x)
  BY <1>1, <1>3, OrcTypes
<1>6. HostOK'
  BY <1>1, <1>3, <1>4, <1>5, OrcHost
<1>7. Kicked \/ Pushed \/ Rested
  BY <1>1, <1>3, <1>4, <1>5, DispCases
<1>8. disp_push' => pulse = "NONE"
  BY <1>7 DEF Kicked, Pushed, Rested
<1>9. InInstDone(x) => disp_push \/ prog_credit # W16 - 1
  BY <1>1, <1>5, DoneOutstanding
<1>10. DispOK'
  <2>1. Len(tx') \in Nat
    BY <1>5, LenProperties DEF PlacesOK
  <2> QED
    BY <1>1, <1>3, <1>4, <1>5, <1>9, <2>1, OrcDisp
<1>11. CreditCovers'
  BY <1>1, <1>4, <1>5, <1>8, <1>10, OrcCredit
<1>12. SignalsOK'
  BY <1>1, <1>3, <1>4, <1>5, <1>6, <1>10, OrcSignals
<1>13. ReadsOK'
  BY <1>1, <1>3, <1>4, <1>5, <1>7, <1>10, OrcReads
<1>14. QuietOK'
  BY <1>1, <1>5, <1>7, OrcQuiet
<1>15. BurstsOK'
  BY <1>1, <1>5, <1>7, <1>10, OrcBursts
<1> QED
  BY <1>5, <1>6, <1>10, <1>11, <1>12, <1>13, <1>14, <1>15, Zenon DEF DInv

-----------------------------------------------------------------------------
(***************************************************************************)
(* The host's own steps, between two register writes.                      *)
(***************************************************************************)
OnlyHost == UNCHANGED <<orcVars, cuVars, netVars>>

(* While the host polls, no write is on its way.                           *)
LEMMA PollsQuiet ==
  ASSUME HostOK, Polls
  PROVE  /\ wcmd = NoWrite /\ pulse = "NONE"
         /\ \A r \in Reg \ {"NONE"} : ~Writing(r)
<1>1. wcmd = NoWrite /\ pulse = "NONE"
  BY DEF HostOK, WriteOK, Polls
<1> QED
  BY <1>1 DEF Writing, NoWrite, Reg

(* What the host's step does not touch keeps its part of the invariant.    *)
LEMMA HostRests ==
  ASSUME DInv, OnlyHost
  PROVE  /\ PlacesOK' /\ CreditCovers' /\ QuietOK' /\ BurstsOK'
         /\ \A K : InLine(K)' = InLine(K)
         /\ Brings(Left)' = Brings(Left)
<1>1. orcVars' = orcVars /\ cuVars' = cuVars /\ netVars' = netVars
  BY DEF OnlyHost
<1>2. PlacesOK'
  BY <1>1 DEF DInv, PlacesOK, UnitPlaces, orcVars, hostRegs, dispRegs, cuVars,
     netVars
<1>3. \A u : Line(u)' = Line(u)
  <2> TAKE u
  <2>1. OnTheWay(u)' = OnTheWay(u)
    <3>1. /\ down' = down /\ orc_out' = orc_out /\ tx' = tx
          /\ disp_push' = disp_push /\ prog_flit' = prog_flit
          /\ prog_dst' = prog_dst
      BY <1>1 DEF orcVars, hostRegs, dispRegs, netVars
    <3>2. DispFlit' = DispFlit
      BY <3>1 DEF DispFlit
    <3> QED
      BY <3>1, <3>2 DEF OnTheWay
  <2>2. Owing(u)' = Owing(u) /\ Queued(u)' = Queued(u)
    BY <1>1, Zenon DEF Owing, Queued, cuVars
  <2>3. /\ up'[u] = up[u] /\ Flits(cu_out[u])' = Flits(cu_out[u])
        /\ sigq'[u] = sigq[u] /\ recvq'[u] = recvq[u]
    BY <1>1, Zenon DEF cuVars, netVars
  <2> QED
    BY <2>1, <2>2, <2>3, Zenon DEF Line
<1>4. \A K : InLine(K)' = InLine(K)
  BY <1>3 DEF InLine
<1>5. Outstanding' = Outstanding
  BY <1>3 DEF Outstanding, OutstandingAt
<1>6. CreditCovers'
  <2>1. prog_credit' = prog_credit /\ Uncharged' = Uncharged
    BY <1>1 DEF Uncharged, IsInst, orcVars, dispRegs
  <2> QED
    BY <1>5, <2>1 DEF DInv, CreditCovers
<1>7. QuietOK'
  <2>1. SentOK'
    BY <1>1 DEF DInv, QuietOK, SentOK, NothingSent, orcVars, dispRegs, netVars
  <2>2. ASSUME NEW u \in Unit PROVE AnswerOK(u)'
    <3>1. AnswerOK(u)
      BY DEF DInv, QuietOK
    <3>2. AnswerOK(u)' = AnswerOK(u)
      BY <1>1 DEF AnswerOK, Answered, Idle, NothingSent, orcVars, dispRegs,
         cuVars, netVars
    <3> QED
      BY <3>1, <3>2
  <2> QED
    BY <2>1, <2>2 DEF QuietOK
<1>8. BurstsOK'
  <2>1. ASSUME NEW u \in Unit PROVE BurstOK(u)'
    <3>1. BurstOK(u)
      BY DEF DInv, BurstsOK
    <3>2. BurstOK(u)' = BurstOK(u)
      BY <1>1 DEF BurstOK, MoreDown, MoreOut, MoreTx, MorePushed, MoreLeft, Left,
         DispFlit, orcVars, hostRegs, dispRegs, cuVars, netVars
    <3> QED
      BY <3>1, <3>2
  <2> QED
    BY <2>1 DEF BurstsOK
<1>9. Brings(Left)' = Brings(Left)
  BY <1>1 DEF Brings, Left, orcVars, dispRegs
<1> QED
  BY <1>2, <1>4, <1>6, <1>7, <1>8, <1>9, Zenon

(* A step of the host that takes it to a place the dispatcher and the one  *)
(* read allow keeps the rest.                                              *)
LEMMA HostTurns ==
  ASSUME DInv, Polls, OnlyHost, SignalsOK',
         hst' \in {"DST", "READ", "READY", "POP", "AWAIT", "CLEAR", "DONE"},
         {total', kicks', rounds', reads', faults'} \subseteq Nat,
         prog_run => hst' \in {"AWAIT", "READ", "READY"},
         disp_push => hst' \in {"AWAIT", "DST", "READ", "READY"},
         hst' = "DST" => job' \in Kicks,
         hst' = "READ" => job'.dst \in Unit,
         hst' = "POP" => hst = "REPLY" /\ rx # <<>>,
         hst \in {"REPLY", "POP"} => hst' = "POP" \/ ~ReadOut
  PROVE  DInv'
<1>1. orcVars' = orcVars /\ cuVars' = cuVars /\ netVars' = netVars
  BY DEF OnlyHost
<1>2. /\ wcmd = NoWrite /\ pulse = "NONE"
      /\ \A r \in Reg \ {"NONE"} : ~Writing(r)
  BY PollsQuiet DEF DInv
<1>3. /\ wcmd' = NoWrite /\ pulse' = "NONE" /\ wstate' = "IDLE"
      /\ \A r \in Reg \ {"NONE"} : ~Writing(r)'
  BY <1>1, <1>2 DEF Writing, Polls, orcVars
<1>4. TypeOK'
  <2>1. OrcTypeOK' /\ CuTypeOK'
    BY <1>1, ZenonT(40) DEF DInv, TypeOK, OrcTypeOK, CuTypeOK, orcVars,
       hostRegs, dispRegs, cuVars
  <2>2. /\ {down', up'} \subseteq [Unit -> Seq(Flit)]
        /\ \A u \in Unit : Len(down'[u]) <= NET /\ Len(up'[u]) <= NET
    BY <1>1 DEF DInv, TypeOK, netVars
  <2> QED
    BY <2>1, <2>2 DEF TypeOK
<1>5. HostOK'
  <2>1. WriteOK'
    BY <1>3 DEF WriteOK, NoWrite
  <2>2. ValuesOK'
    BY <1>3 DEF ValuesOK, NoWrite
  <2>3. ~DstSet' /\ ~BaseSet' /\ ~LenSet'
    BY <1>3 DEF DstSet, BaseSet, LenSet, Reg
  <2>4. Loading' => hst' = "DST"
    BY <1>3 DEF Loading, Reg
  <2>5. ~Writing("TX_KICK")' /\ ~Writing("RX_POP")'
    BY <1>3 DEF Reg
  <2>6. rx' = rx
    BY <1>1 DEF orcVars
  <2> QED
    BY <2>1, <2>2, <2>3, <2>4, <2>5, <2>6 DEF HostOK, JobOK
<1>6. DispOK'
  <2>1. DispOK
    BY DEF DInv
  <2>2. /\ dispRegs' = dispRegs /\ Left' = Left /\ TxFull' = TxFull
        /\ prog_dst' = prog_dst
    BY <1>1 DEF Left, TxFull, orcVars, hostRegs, dispRegs
  <2> QED
    BY <1>3, <2>1, <2>2 DEF DispOK, Calm, dispRegs
<1>7. ReadsOK'
  <2>1. InLine({"read"})' = InLine({"read"})
    BY HostRests, Zenon
  <2>2. rx' = rx
    BY <1>1 DEF orcVars
  <2>3. One(Writing("TX_KICK"))' = 0 /\ One(Writing("TX_KICK")) = 0
    BY <1>2, <1>3 DEF One, Reg
  <2>4. prog_run' = prog_run /\ disp_push' = disp_push
    BY <1>1 DEF orcVars, dispRegs
  <2>5. ReadOut' => ~prog_run' /\ ~disp_push'
    BY <2>1, <2>2, <2>4 DEF DInv, ReadsOK, ReadOut
  <2>6. CASE Reading' <=> Reading
    <3>1. One(Reading)' = One(Reading)
      BY <2>6 DEF One
    <3> QED
      BY <2>1, <2>2, <2>3, <2>5, <3>1 DEF DInv, ReadsOK
  <2>7. CASE ~(Reading' <=> Reading)
    <3>1. ~ReadOut
      BY <1>2, <1>3, <2>7 DEF Reading, Reg
    <3>2. InLine({"read"})' = 0 /\ Len(rx') = 0
      BY <2>1, <2>2, <3>1 DEF ReadOut
    <3> QED
      BY <2>3, <2>5, <3>2 DEF ReadsOK, One
  <2> QED
    BY <2>6, <2>7
<1> QED
  BY <1>4, <1>5, <1>6, <1>7, HostRests, Zenon DEF DInv

(* Where there is nothing, all of it is for somebody else.                 *)
LEMMA NothingComing ==
  ASSUME DInv, Coming = 0
  PROVE  /\ ~prog_run /\ ~disp_push /\ Outstanding = 0
         /\ \A u \in Unit : recvq[u] = <<>> /\ ~owed[u]
<1> DEFINE K == {"job", "burst"}
<1>a. TypeOK /\ PlacesOK /\ HostOK /\ DispOK /\ BurstsOK
  BY DEF DInv
<1>1. InLine(K) = 0 /\ Brings(Left) = 0
  <2>1. InLine(K) \in Nat /\ Brings(Left) \in Nat
    BY <1>a, InLineType, BringsTypes
  <2>2. Loading => Brings(Slots(job)) \in Nat
    BY <1>a, BringsTypes
  <2> HIDE DEF K
  <2>3. Coming = InLine(K) + Brings(Left)
                   + (IF Loading THEN Brings(Slots(job)) ELSE 0)
    BY DEF Coming, K
  <2> QED
    BY <2>1, <2>2, <2>3
<1>2. ASSUME prog_run PROVE FALSE
  <2>1. IsFiniteSet(Left)
    BY <1>a, BringsTypes
  <2>2. \A i \in Left : ~(Stage[i].type = "INST" \/ Stage[i].last)
    <3> TAKE i \in Left
    <3>1. /\ Brings(Left \ {i}) \in Nat
          /\ Brings(Left) = Brings(Left \ {i})
                              + One(Stage[i].type = "INST" \/ Stage[i].last)
      BY <2>1, BringsLess
    <3> QED
      BY <1>1, <3>1 DEF One
  <2>3. prog_rd \in Left
    <3>1. prog_rd \in Nat /\ prog_left \in Nat
      BY <1>a, OrcAssumption, Constants, Counter16 DEF TypeOK, OrcTypeOK
    <3>2. prog_left >= 1
      BY <1>a, <1>2 DEF DispOK
    <3>3. prog_rd \in prog_rd .. prog_rd + prog_left - 1
      BY <3>1, <3>2
    <3> QED
      BY <1>2, <3>3 DEF Left
  <2>4. prog_rd \in DOMAIN Stage /\ Stage[prog_rd].type \in {"INST", "DATA"}
    <3>1. prog_rd \in 0 .. STAGE_FLITS - 1
      BY <1>a, <2>3, LeftMoves
    <3> QED
      BY <3>1, OrcAssumption
  <2>5. Stage[prog_rd].type = "DATA"
    BY <2>2, <2>3, <2>4
  <2>6. \E j \in Left : LastData(j)
    BY <1>a, <1>2, <2>3, <2>5 DEF DispOK
  <2> QED
    BY <2>2, <2>6 DEF LastData
<1>4. Outstanding = 0
  <2>1. InLine({"job"}) = 0
    BY <1>a, <1>1, InLineNone
  <2> QED
    BY <2>1 DEF Outstanding, OutstandingAt, InLine
<1>5. ASSUME NEW u \in Unit
      PROVE  /\ ~(disp_push /\ Is(DispFlit, u, K)) /\ ~owed[u]
             /\ ~Ends(tx, u) /\ ~EndsBurst(orc_out, u) /\ ~Ends(down[u], u)
             /\ ~Ends(recvq[u], u)
  <2>1. UnitPlaces(u) /\ tx \in Seq(AllOutward)
    BY <1>a DEF PlacesOK
  <2>2. \A f : EndsBurst(f, u) => Is(f, u, K)
    BY KindOf DEF EndsBurst, IsData, Is
  <2>3. /\ CountOf(recvq[u], u, K) = 0 /\ CountOf(down[u], u, K) = 0
        /\ Weight(orc_out, u, K) = 0 /\ CountOf(tx, u, K) = 0
        /\ ~(owed[u] /\ "burst" \in K)
        /\ ~(disp_push /\ Is(DispFlit, u, K))
    BY <1>a, <1>1, PlacesNone
  <2>4. ~Is(orc_out, u, K)
    BY <2>3, WeightType
  <2>5. \A i \in DOMAIN tx : ~Is(tx[i], u, K)
    BY <2>1, <2>3, CountNone
  <2>6. \A i \in DOMAIN down[u] : ~Is(down[u][i], u, K)
    BY <2>1, <2>3, CountNone DEF UnitPlaces
  <2>7. \A i \in DOMAIN recvq[u] : ~Is(recvq[u][i], u, K)
    BY <2>1, <2>3, CountNone DEF UnitPlaces
  <2> QED
    BY <2>2, <2>3, <2>4, <2>5, <2>6, <2>7 DEF Ends
<1> HIDE DEF K
<1>6. ~disp_push
  <2> SUFFICES ASSUME disp_push PROVE FALSE
    OBVIOUS
  <2>1. DispFlit.peer = prog_dst /\ prog_dst \in Unit
    BY <1>a, PushedFlit DEF DispOK
  <2>2. DispFlit.type \in {"INST", "DATA"} /\ DispFlit.type = prog_flit.type
    BY <1>a DEF DispOK, DispFlit, TypeOK, OrcTypeOK, Flit
  <2>3. ~Is(DispFlit, prog_dst, K)
    BY <1>5, <2>1
  <2>4. DispFlit.type = "DATA"
    BY <2>1, <2>2, <2>3, KindOf DEF Is, K
  <2>5. MorePushed(prog_dst)
    BY <1>a, <2>1, <2>4 DEF BurstsOK, BurstOK, IsData
  <2>6. EndsBurst(DispFlit, prog_dst) => Is(DispFlit, prog_dst, K)
    BY KindOf DEF EndsBurst, IsData, Is, K
  <2> QED
    BY <1>2, <2>3, <2>5, <2>6 DEF MorePushed, MoreLeft
<1>7. ASSUME NEW u \in Unit PROVE recvq[u] = <<>> /\ ~owed[u]
  <2>1. ~MoreDown(u) /\ ~Ends(recvq[u], u)
    BY <1>2, <1>5, <1>6 DEF MoreDown, MoreOut, MoreTx, MorePushed, MoreLeft
  <2>2. recvq[u] \in Seq(Ofs(u, "DATA")) /\ Whole(recvq[u], u, MoreDown(u))
    BY <1>a DEF PlacesOK, UnitPlaces, BurstsOK, BurstOK
  <2>3. ASSUME recvq[u] # <<>> PROVE FALSE
    <3>1. 1 \in DOMAIN recvq[u] /\ recvq[u][1] \in Ofs(u, "DATA")
      BY <2>2, <2>3, LenProperties, EmptySeq, ElementOfSeq
    <3>2. IsData(recvq[u][1], u)
      BY <3>1 DEF IsData, Ofs
    <3> QED
      BY <2>1, <2>2, <3>1, <3>2 DEF Whole, Ends
  <2> QED
    BY <1>5, <2>3
<1> QED
  BY <1>2, <1>4, <1>6, <1>7

(* What the host counts on, while it polls and writes nothing.             *)
LEMMA PollsComing ==
  ASSUME DInv, Polls, hst \notin {"DST", "BASE", "LEN", "KICK"}
  PROVE  /\ ~Loading /\ Coming = InLine({"job", "burst"}) + Brings(Left)
         /\ Coming \in Nat
         /\ (Clearing <=> hst \in {"CLEAR", "DONE"}) /\ ~Writing("PROG_CRED")
<1>1. \A r \in Reg \ {"NONE"} : ~Writing(r)
  BY PollsQuiet DEF DInv
<1>2. ~Writing("PROG_KICK") /\ ~Writing("SIG_DONE") /\ ~Writing("PROG_CRED")
  BY <1>1 DEF Reg
<1>3. ~Loading /\ (Clearing <=> hst \in {"CLEAR", "DONE"})
  BY <1>2 DEF Loading, Clearing
<1>4. InLine({"job", "burst"}) \in Nat /\ Brings(Left) \in Nat
  BY InLineType, BringsTypes DEF DInv
<1>5. Coming = InLine({"job", "burst"}) + Brings(Left) + 0
  BY <1>3 DEF Coming
<1> QED
  BY <1>2, <1>3, <1>4, <1>5

(* The same after a step of the host alone.                                *)
LEMMA TurnsComing ==
  ASSUME DInv, Polls, OnlyHost, hst \notin {"DST", "BASE", "LEN", "KICK"},
         hst' \notin {"BASE", "LEN", "KICK"}
  PROVE  /\ hst' # "DST" => Coming' = Coming
         /\ hst' = "DST" => Coming' = Coming + Brings(Slots(job))'
         /\ (Clearing' <=> hst' \in {"CLEAR", "DONE"}) /\ ~Writing("PROG_CRED")'
         /\ sig_done_count' = sig_done_count
<1>1. /\ wcmd' = wcmd /\ pulse' = pulse /\ sig_done_count' = sig_done_count
  BY DEF OnlyHost, orcVars
<1>2. \A r \in Reg \ {"NONE"} : ~Writing(r)
  BY PollsQuiet DEF DInv
<1>3. ~Writing("PROG_KICK")' /\ ~Writing("SIG_DONE")' /\ ~Writing("PROG_CRED")'
  BY <1>1, <1>2 DEF Reg, Writing
<1>4. /\ (Loading' <=> hst' = "DST")
      /\ (Clearing' <=> hst' \in {"CLEAR", "DONE"})
  BY <1>3 DEF Loading, Clearing
<1>5. /\ InLine({"job", "burst"})' = InLine({"job", "burst"})
      /\ Brings(Left)' = Brings(Left)
  BY HostRests, Zenon
<1>6. Coming = InLine({"job", "burst"}) + Brings(Left) /\ Coming \in Nat
  BY PollsComing
<1>7. Coming' = InLine({"job", "burst"})' + Brings(Left)'
                  + (IF Loading' THEN Brings(Slots(job))' ELSE 0)
  BY DEF Coming
<1>8. hst' # "DST" => Coming' = Coming
  BY <1>4, <1>5, <1>6, <1>7
<1>9. hst' = "DST" => Coming' = Coming + Brings(Slots(job))'
  BY <1>4, <1>5, <1>6, <1>7
<1> QED
  BY <1>1, <1>3, <1>4, <1>8, <1>9

(* A turn that changes nothing the host counts on.                         *)
LEMMA TurnsSignals ==
  ASSUME DInv, Polls, OnlyHost, hst \in {"READY", "REPLY"},
         hst' \in {"READ", "READY", "POP", "AWAIT"}, total' = total
  PROVE  SignalsOK'
<1>1. SignalsOK /\ ~Clearing /\ Coming \in Nat
  BY PollsComing DEF DInv
<1>2. /\ Coming' = Coming /\ ~Clearing' /\ ~Writing("PROG_CRED")'
      /\ sig_done_count' = sig_done_count
  BY TurnsComing
<1> HIDE DEF Coming
<1>3. \E n \in Nat : total = Coming + sig_done_count + n * W16
  BY <1>1 DEF SignalsOK
<1>4. Coming' <= total' /\ \E n \in Nat : total' = Coming' + sig_done_count' + n * W16
  BY <1>1, <1>2, <1>3 DEF SignalsOK
<1> QED
  BY <1>2, <1>4 DEF SignalsOK

(* A program chosen adds its signals to what the host counts on.           *)
LEMMA KickInv ==
  ASSUME DInv, PickKick
  PROVE  DInv'
<1>1. /\ hst = "READY" /\ Polls /\ ~prog_run /\ hst' = "DST" /\ OnlyHost
      /\ kicks' = kicks + 1
      /\ rounds' = rounds /\ reads' = reads /\ faults' = faults
  BY DEF PickKick, OnlyHost
<1>2. PICK k \in Kicks : job' = k /\ total' = total + Signals(k)
  BY DEF PickKick
<1>3. /\ total \in Nat /\ kicks \in Nat /\ rounds \in Nat /\ reads \in Nat
      /\ faults \in Nat
  BY DEF DInv, TypeOK
<1>4. Signals(k) = Brings(Slots(k)) /\ Signals(k) \in Nat
  <2>1. IsFiniteSet(Slots(k))
    <3>1. k.base \in Int /\ k.base + k.len - 1 \in Int
      BY KickBounds
    <3> QED
      BY <3>1, FS_Interval DEF Slots
  <2>2. /\ IsFiniteSet({i \in Slots(k) : Stage[i].type = "INST" \/ Stage[i].last})
    BY <2>1, FS_Subset
  <2> QED
    BY <2>2, FS_CardinalityType DEF Signals, Brings
<1>5. Brings(Slots(job))' = Signals(k)
  BY <1>2, <1>4 DEF Brings, Slots
<1>6. SignalsOK'
  <2>1. ~Clearing /\ Coming \in Nat
    BY <1>1, PollsComing
  <2>2. /\ Coming' = Coming + Signals(k) /\ ~Clearing' /\ ~Writing("PROG_CRED")'
        /\ sig_done_count' = sig_done_count
    BY <1>1, <1>5, TurnsComing
  <2>3. Coming <= total
    BY DEF DInv, SignalsOK
  <2>4. PICK n \in Nat : total = Coming + sig_done_count + n * W16
    BY <2>1 DEF DInv, SignalsOK
  <2>5. sig_done_count \in Nat /\ n * W16 \in Nat
    <3>1. W16 \in Nat
      BY DEF W16
    <3>2. \A a \in Nat, b \in Nat : a * b \in Nat
      OBVIOUS
    <3>3. sig_done_count \in 0 .. W16 - 1
      BY DEF DInv, TypeOK, OrcTypeOK
    <3> QED
      BY <3>1, <3>2, <3>3
  <2> DEFINE m == n * W16
  <2>6. total = Coming + sig_done_count + m /\ m \in Nat
    BY <2>4, <2>5
  <2> HIDE DEF m
  <2>7. total' = Coming' + sig_done_count' + m /\ Coming' <= total'
    BY <1>2, <1>3, <1>4, <2>1, <2>2, <2>3, <2>5, <2>6
  <2>8. \E i \in Nat : total' = Coming' + sig_done_count' + i * W16
    BY <2>7 DEF m
  <2> QED
    BY <1>1, <2>2, <2>7, <2>8 DEF SignalsOK
<1>7. {total', kicks', rounds', reads', faults'} \subseteq Nat
  BY <1>1, <1>2, <1>3, <1>4
<1> QED
  BY <1>1, <1>2, <1>6, <1>7, HostTurns

(* The host's other steps within a round change none of the counts.        *)
LEMMA TurnInv ==
  ASSUME DInv, PickRead \/ GotReply \/ ReadTimesOut \/ StartWait
  PROVE  DInv'
<1>1. /\ Polls /\ OnlyHost /\ total' = total
      /\ hst \in {"READY", "REPLY"} /\ hst' \in {"READ", "READY", "POP", "AWAIT"}
      /\ kicks' = kicks /\ rounds' = rounds /\ reads' \in {reads, reads + 1}
      /\ faults' = faults
  BY DEF PickRead, GotReply, ReadTimesOut, StartWait, OnlyHost
<1>2. /\ hst' = "POP" => hst = "REPLY" /\ rx # <<>>
      /\ hst = "REPLY" /\ hst' # "POP" => ReadTimesOut
      /\ hst' = "READ" => job'.dst \in Unit
  BY DEF PickRead, GotReply, ReadTimesOut, StartWait, NoJob
<1>3. hst' = "POP" => ~prog_run /\ ~disp_push
  BY <1>2 DEF DInv, ReadsOK, ReadOut
<1>4. ReadTimesOut => ~ReadOut
  BY TotalZero DEF ReadTimesOut, ReadOut, InLine
<1>5. {total', kicks', rounds', reads', faults'} \subseteq Nat
  BY <1>1 DEF DInv, TypeOK
<1>6. SignalsOK'
  BY <1>1, TurnsSignals
<1> QED
  BY <1>1, <1>2, <1>3, <1>4, <1>5, <1>6, HostTurns

(* The round ends when the host has read its count: nothing is to come.    *)
LEMMA AllCame ==
  ASSUME DInv, hst = "AWAIT", Polls, sig_done_count = total
  PROVE  Coming = 0
<1>1. ~Clearing /\ Coming \in Nat
  BY PollsComing
<1>2. PICK n \in Nat : total = Coming + sig_done_count + n * W16
  BY <1>1 DEF DInv, SignalsOK
<1> DEFINE m == n * W16
<1>3. m \in Nat
  <2>1. W16 \in Nat
    BY DEF W16
  <2>2. \A a \in Nat, b \in Nat : a * b \in Nat
    OBVIOUS
  <2> QED
    BY <2>1, <2>2
<1>4. total \in Nat
  BY DEF DInv, TypeOK
<1>5. total = Coming + total + m
  BY <1>2
<1> HIDE DEF m, Coming
<1> QED
  BY <1>1, <1>3, <1>4, <1>5

(* At the end of a round nothing is to come, so the next may start from    *)
(* zero.                                                                   *)
LEMMA DoneInv ==
  ASSUME DInv, RoundDone
  PROVE  DInv'
<1>1. /\ hst = "AWAIT" /\ Polls /\ sig_done_count = total /\ OnlyHost
      /\ rounds' = rounds + 1 /\ hst' \in {"CLEAR", "DONE"}
      /\ total' = 0 /\ kicks' = 0
      /\ reads' = reads /\ faults' = faults
  BY DEF RoundDone, OnlyHost
<1>2. Coming = 0
  BY <1>1, AllCame
<1>3. ~prog_run /\ ~disp_push
  BY <1>2, NothingComing
<1>4. SignalsOK'
  <2>1. Coming' = 0 /\ Clearing'
    BY <1>1, <1>2, TurnsComing
  <2> QED
    BY <1>1, <2>1 DEF SignalsOK
<1>5. {total', kicks', rounds', reads', faults'} \subseteq Nat
  BY <1>1 DEF DInv, TypeOK
<1> QED
  BY <1>1, <1>3, <1>4, <1>5, HostTurns

(* Every step of the host keeps the invariant.                             *)
LEMMA HostInv ==
  ASSUME DInv, HostWaits
  PROVE  DInv'
BY KickInv, TurnInv, DoneInv DEF HostWaits
-----------------------------------------------------------------------------
(* Nothing is anywhere at first.                                           *)
LEMMA InitInv == Init => DInv
<1> SUFFICES ASSUME Init PROVE DInv
  OBVIOUS
<1>1. /\ OrcInit /\ CuInit /\ hst = "CLEAR" /\ job = NoJob /\ total = 0
      /\ kicks = 0 /\ rounds = 0 /\ reads = 0 /\ faults = 0
      /\ down = [u \in Unit |-> <<>>] /\ up = [u \in Unit |-> <<>>]
  BY DEF Init
<1>2. NoFlit \in Flit /\ NoFlit.type = "NONE" /\ NoFlit.peer = 0 /\ ~NoFlit.last
  BY DEF NoFlit, Flit, FlitType, Code
<1>3. \A S : <<>> \in Seq(S)
  BY EmptySeq
<1>4. TypeOK
  <2>1. OrcTypeOK
    <3>1. 0 \in 0 .. W16 - 1
      BY DEF W16
    <3>2. 0 \in 0 .. STAGE_FLITS /\ 0 \in 0 .. FLIT_WORDS - 1
      <4>1. W16 \in Nat
        BY DEF W16
      <4>2. STAGE_FLITS \in Nat /\ FLIT_WORDS \in Nat /\ FLIT_WORDS >= 2
        BY <4>1, OrcAssumption
      <4> QED
        BY <4>2
    <3>3. Len(<<>>) <= TX_DEPTH /\ Len(<<>>) <= RX_DEPTH
      BY OrcAssumption
    <3>4. NoWrite \in Write
      BY DEF NoWrite, Write, Reg
    <3>5. [u \in Unit |-> [code |-> "NONE", txn |-> 0, count |-> 0]]
            \in [Unit -> [code : Code, txn : Nat, count : 0 .. W16 - 1]]
      <4>1. [code |-> "NONE", txn |-> 0, count |-> 0]
              \in [code : Code, txn : Nat, count : 0 .. W16 - 1]
        BY <3>1 DEF Code
      <4> QED
        BY <4>1
    <3>6. "NONE" \in Reg
      BY DEF Reg
    <3> QED
      BY <1>1, <1>2, <1>3, <3>1, <3>2, <3>3, <3>4, <3>5, <3>6
         DEF OrcInit, OrcTypeOK
  <2>2. CuTypeOK
    BY <1>1, <1>2, <1>3, Constants DEF CuInit, CuTypeOK, NoRep
  <2> QED
    BY <1>1, <1>3, <2>1, <2>2, Constants DEF TypeOK
<1>5. PlacesOK
  <2>1. ASSUME NEW u \in Unit PROVE UnitPlaces(u)
    BY <1>1, <1>3 DEF CuInit, UnitPlaces
  <2> QED
    BY <1>1, <1>3, <2>1 DEF OrcInit, PlacesOK
<1>6. /\ wstate = "IDLE" /\ wcmd = NoWrite /\ pulse = "NONE"
      /\ ~prog_run /\ ~disp_push /\ rx = <<>> /\ tx = <<>> /\ orc_out = NoFlit
      /\ prog_credit = 0 /\ sig_done_count = 0
      /\ \A r \in Reg \ {"NONE"} : ~Writing(r)
  BY <1>1 DEF OrcInit, Writing, NoWrite, Reg
<1>7. HostOK
  <2>1. WriteOK
    BY <1>6 DEF WriteOK, NoWrite
  <2>2. ValuesOK
    BY <1>6 DEF ValuesOK, NoWrite
  <2>3. JobOK
    BY <1>1, <1>6 DEF JobOK, Loading, DstSet, BaseSet, LenSet, Reg
  <2> QED
    BY <2>1, <2>2, <2>3 DEF HostOK
<1>8. DispOK
  BY <1>6 DEF DispOK
<1>9. ASSUME NEW K, "none" \notin K PROVE InLine(K) = 0
  <2>1. ASSUME NEW u \in Unit PROVE CountOf(Line(u), u, K) = 0
    <3>1. /\ down[u] = <<>> /\ up[u] = <<>> /\ instq[u] = <<>> /\ sigq[u] = <<>>
          /\ recvq[u] = <<>> /\ cu_out[u] = NoFlit /\ ~inst_pop[u]
          /\ ~in_flight[u] /\ ~ctrl_pend[u] /\ ~owed[u]
      BY <1>1 DEF CuInit
    <3>2. Line(u) = <<>>
      BY <1>2, <1>6, <3>1 DEF Line, Owing, Queued, OnTheWay, Flits, IsFlit
    <3> QED
      BY <3>2, CountEmpty
  <2> QED
    BY <2>1, TotalZero DEF InLine
<1>10. CreditCovers
  <2>1. Outstanding = 0
    BY <1>9 DEF Outstanding, OutstandingAt, InLine
  <2> QED
    BY <1>6, <2>1, Constants DEF CreditCovers, Uncharged
<1>11. SignalsOK
  <2>1. Brings(Left) = 0
    <3>1. {i \in Left : Stage[i].type = "INST" \/ Stage[i].last} = {}
      BY <1>6 DEF Left
    <3> QED
      BY <3>1, FS_EmptySet DEF Brings
  <2>2. InLine({"job", "burst"}) = 0
    BY <1>9
  <2>3. ~Loading /\ Clearing
    BY <1>1, <1>6 DEF Loading, Clearing, Reg
  <2>4. Coming = 0
    BY <2>1, <2>2, <2>3 DEF Coming
  <2> QED
    BY <1>1, <2>3, <2>4 DEF SignalsOK
<1>12. ReadsOK
  <2>1. InLine({"read"}) = 0 /\ Len(rx) = 0
    BY <1>6, <1>9
  <2>2. One(Writing("TX_KICK")) = 0 /\ One(Reading) \in Nat
    BY <1>6 DEF One, Reg
  <2> QED
    BY <1>6, <2>1, <2>2 DEF ReadsOK
<1>13. QuietOK
  <2>1. SentOK
    BY <1>1, <1>2, <1>6 DEF SentOK
  <2>2. ASSUME NEW u \in Unit PROVE AnswerOK(u)
    BY <1>1, <1>2, <1>6 DEF CuInit, AnswerOK, Answered, SaysIdle
  <2> QED
    BY <2>1, <2>2 DEF QuietOK
<1>14. BurstsOK
  <2>1. ASSUME NEW u \in Unit PROVE BurstOK(u)
    BY <1>1, <1>2, <1>6 DEF CuInit, BurstOK, Whole, IsData
  <2> QED
    BY <2>1 DEF BurstsOK
<1> QED
  BY <1>4, <1>5, <1>7, <1>8, <1>10, <1>11, <1>12, <1>13, <1>14 DEF DInv

(* A step that changes nothing.                                            *)
LEMMA StutterInv ==
  ASSUME DInv, UNCHANGED vars
  PROVE  DInv'
<1>1. OnlyHost
  BY DEF vars, OnlyHost
<1>2. /\ hst' = hst /\ job' = job /\ total' = total /\ kicks' = kicks
      /\ rounds' = rounds /\ reads' = reads /\ faults' = faults
  BY DEF vars, hostVars
<1>3. orcVars' = orcVars /\ cuVars' = cuVars /\ netVars' = netVars
  BY <1>1 DEF OnlyHost
<1>4. TypeOK'
  <2>1. OrcTypeOK' /\ CuTypeOK'
    BY <1>3, ZenonT(40) DEF DInv, TypeOK, OrcTypeOK, CuTypeOK, orcVars,
       hostRegs, dispRegs, cuVars
  <2>2. /\ {down', up'} \subseteq [Unit -> Seq(Flit)]
        /\ \A u \in Unit : Len(down'[u]) <= NET /\ Len(up'[u]) <= NET
    BY <1>3 DEF DInv, TypeOK, netVars
  <2> QED
    BY <1>2, <2>1, <2>2 DEF DInv, TypeOK
<1>5. OthersStay
  BY <1>2, <1>3 DEF OthersStay, orcVars, hostRegs, dispRegs
<1>6. HostOK' /\ DispOK'
  BY <1>5, CuHost DEF DInv
<1>7. \A K : InLine(K)' = InLine(K)
  BY <1>1, HostRests, Zenon
<1>8. SignalsOK'
  <2>1. /\ Brings(Left)' = Brings(Left) /\ Loading' = Loading
        /\ Brings(Slots(job))' = Brings(Slots(job))
        /\ Clearing' = Clearing /\ hst' = hst /\ total' = total
        /\ Writing("PROG_CRED")' = Writing("PROG_CRED")
        /\ sig_done_count' = sig_done_count
    BY <1>5 DEF OthersStay, Brings, Left, Loading, Slots, Clearing, Writing
  <2>2. Coming' = Coming
    BY <1>7, <2>1 DEF Coming
  <2> QED
    BY <2>1, <2>2 DEF DInv, SignalsOK
<1>9. ReadsOK'
  <2>1. /\ rx' = rx /\ One(Reading)' = One(Reading)
        /\ One(Writing("TX_KICK"))' = One(Writing("TX_KICK"))
        /\ prog_run' = prog_run /\ disp_push' = disp_push
    BY <1>5 DEF OthersStay, One, Reading, Writing
  <2> QED
    BY <1>7, <2>1 DEF DInv, ReadsOK, ReadOut
<1> QED
  BY <1>1, <1>4, <1>6, <1>8, <1>9, HostRests, Zenon DEF DInv

(* The invariant holds in every reachable state.                           *)
THEOREM Inductive == Spec => []DInv
<1>1. Init => DInv
  BY InitInv
<1>2. DInv /\ [Next]_vars => DInv'
  <2> SUFFICES ASSUME DInv, [Next]_vars PROVE DInv'
    OBVIOUS
  <2>1. CASE HostWaits
    BY <2>1, HostInv
  <2>2. CASE OrcStep
    BY <2>2, OrcInv
  <2>3. CASE \E u \in Unit : CuStep(u)
    BY <2>3, CuInv
  <2>4. CASE UNCHANGED vars
    BY <2>4, StutterInv
  <2> QED
    BY <2>1, <2>2, <2>3, <2>4 DEF Next
<1> QED
  BY <1>1, <1>2, PTL DEF Spec
-----------------------------------------------------------------------------
(* What a unit holds and has coming is covered by the credit.              *)
LEMMA RoomEverywhere == DInv => QueuesHold
<1> SUFFICES ASSUME DInv PROVE QueuesHold
  OBVIOUS
<1>1. TypeOK /\ PlacesOK /\ HostOK /\ DispOK /\ CreditCovers
  BY DEF DInv
<1>2. CompletionRoom
  BY <1>1 DEF CompletionRoom, PlacesOK, UnitPlaces
<1>3. PushRoom
  BY <1>1 DEF PushRoom, DispOK
<1>4. ASSUME NEW u \in Unit
      PROVE  Len(instq[u]) + CountOf(OnTheWay(u), u, {"job"}) <= INST_DEPTH
  <2> DEFINE K == {"job"}
             out == InLine(K)
             sent == CountSent(u, K)
             unit == CountUnit(u, K)
             wait == Len(Queued(u))
             exe == One(in_flight[u])
             head == One(inst_pop[u])
             new == Uncharged
  <2>1. /\ CountOf(OnTheWay(u), u, K) = sent /\ sent \in Nat
    BY <1>1, SentCount
  <2>2. /\ CountOf(Line(u), u, K) = CountLine(u, K)
        /\ CountOf(Line(u), u, K) <= out /\ out \in Nat
    BY <1>1, LineCount, InLineType
  <2>3. CountLine(u, K) = unit + sent
    BY DEF CountLine
  <2>4. UnitPlaces(u)
    BY <1>1 DEF PlacesOK
  <2>5. Queued(u) \in Seq(Ofs(u, "INST"))
    BY <2>4, HeadTailProperties DEF UnitPlaces, Queued
  <2>6. CountOf(Queued(u), u, K) = wait /\ wait \in Nat
    <3>1. \A i \in DOMAIN Queued(u) : Queued(u)[i] \in Ofs(u, "INST")
      BY <2>5, ElementOfSeq, LenProperties
    <3>2. \A f \in Ofs(u, "INST") : Is(f, u, K)
      BY KindOf DEF Ofs, Is
    <3> QED
      BY <2>5, <3>1, <3>2, CountAll, LenProperties
  <2>7. unit >= exe + wait /\ unit \in Nat
    <3> DEFINE a == CountOf(up[u], u, K)
               b == Weight(cu_out[u], u, K)
               c == CountOf(sigq[u], u, K)
               d == One(owed[u] /\ "burst" \in K)
               e == One(ctrl_pend[u] /\ "read" \in K)
               g == CountOf(recvq[u], u, K)
    <3>1. a \in Nat /\ b \in Nat /\ c \in Nat /\ g \in Nat
      BY <2>4, WhereType, WeightType DEF UnitPlaces
    <3>2. d \in Nat /\ e \in Nat /\ exe \in Nat
      BY DEF One
    <3>3. One(in_flight[u] /\ "job" \in K) = exe
      BY DEF One
    <3>4. unit = a + b + c + (d + e + exe) + wait + g
      BY <2>6, <3>3 DEF CountUnit, CountOwing
    <3> HIDE DEF a, b, c, d, e, g, unit, wait, exe
    <3> QED
      BY <2>6, <3>1, <3>2, <3>4
  <2>8. Len(instq[u]) = wait + head /\ head <= exe /\ head \in Nat /\ exe \in Nat
    <3>1. inst_pop[u] => in_flight[u] /\ instq[u] # <<>>
      BY <2>4 DEF UnitPlaces
    <3>2. inst_pop[u] => Len(instq[u]) = Len(Tail(instq[u])) + 1
      BY <2>4, <3>1, HeadTailProperties, LenProperties DEF UnitPlaces
    <3>3. Len(instq[u]) \in Nat
      BY <2>4, LenProperties DEF UnitPlaces
    <3> QED
      BY <3>1, <3>2, <3>3 DEF One, Queued
  <2>9. prog_credit + out <= SEED + new
    BY <1>1 DEF CreditCovers, Outstanding, OutstandingAt, InLine
  <2>10. prog_credit \in Nat /\ new \in {0, 1} /\ (new = 1 => prog_credit # 0)
    <3>1. prog_credit \in 0 .. W16 - 1
      BY <1>1 DEF TypeOK, OrcTypeOK
    <3>2. prog_credit \in Nat
      BY <3>1, Counter16
    <3>3. disp_push => prog_credit # 0
      BY <1>1 DEF DispOK
    <3> QED
      BY <3>2, <3>3 DEF Uncharged
  <2>11. SEED \in Nat /\ SEED <= INST_DEPTH /\ INST_DEPTH \in Nat
    BY Constants
  <2>12. CountLine(u, K) <= out /\ unit + sent <= out
    BY <2>2, <2>3
  <2> HIDE DEF K, out, sent, unit, wait, exe, head, new
  <2>13. Len(instq[u]) + sent <= out
    BY <2>1, <2>2, <2>6, <2>7, <2>8, <2>12
  <2>14. out <= SEED
    BY <2>2, <2>9, <2>10, <2>11
  <2>15. Len(instq[u]) + sent <= INST_DEPTH
    BY <2>1, <2>2, <2>6, <2>8, <2>11, <2>13, <2>14
  <2> QED
    BY <2>1, <2>15 DEF K
<1> QED
  BY <1>1, <1>2, <1>3, <1>4 DEF QueuesHold, QueueRoom

(* The count that is read says that nothing is to come, hence that nothing *)
(* is anywhere.                                                            *)
LEMMA OverIsOver == DInv => RoundOver
<1> SUFFICES ASSUME DInv, hst = "AWAIT", Polls, sig_done_count = total
             PROVE  /\ ~prog_run /\ Outstanding = 0
                    /\ \A u \in Unit : recvq[u] = <<>> /\ ~owed[u]
  BY DEF RoundOver
<1>1. Coming = 0
  BY AllCame
<1> QED
  BY <1>1, NothingComing

(* Nothing of a unit is left in its line once it answered that it is idle. *)
LEMMA IdleIsIdle == DInv => IdleReplyTrue
<1> SUFFICES ASSUME DInv, rx # <<>>, Head(rx).code = "IDLE"
             PROVE  OutstandingAt(Head(rx).peer) = 0
  BY DEF IdleReplyTrue
<1> DEFINE u == Head(rx).peer
           K == {"job"}
<1>1. TypeOK /\ PlacesOK /\ DispOK
  BY DEF DInv
<1>2. Head(rx) \in Replies /\ 1 \in DOMAIN rx /\ rx[1] = Head(rx)
  BY <1>1, HeadTailProperties, LenProperties, EmptySeq DEF PlacesOK
<1>3. u \in Unit
  BY <1>2 DEF Replies
<1>4. UnitPlaces(u) /\ AnswerOK(u)
  BY <1>1, <1>3 DEF PlacesOK, DInv, QuietOK
<1>5. Answered(u) /\ down[u] = <<>> /\ NothingSent
  BY <1>2, <1>4 DEF Answered, AnswerOK
<1>6. /\ Idle(u) /\ Kind(cu_out[u]) # "job"
      /\ \A j \in DOMAIN up[u] : Kind(up[u][j]) # "job"
  BY <1>2, <1>4 DEF AnswerOK
<1> HIDE DEF u
<1>7. CountSent(u, K) = 0
  <2>1. CountOf(down[u], u, K) = 0 /\ CountOf(tx, u, K) = 0
    BY <1>5, CountEmpty DEF NothingSent
  <2>2. Weight(orc_out, u, K) = 0
    <3>1. Kind(orc_out) = "none"
      BY <1>5, KindOf DEF NothingSent, IsFlit
    <3> QED
      BY <3>1, WeightType DEF Is
  <2>3. One(disp_push /\ Is(DispFlit, u, K)) = 0
    BY <1>5 DEF NothingSent, One
  <2> QED
    BY <2>1, <2>2, <2>3 DEF CountSent
<1>8. CountUnit(u, K) = 0
  <2>1. CountOf(up[u], u, K) = 0
    <3>1. \A i \in DOMAIN up[u] : ~Is(up[u][i], u, K)
      BY <1>6 DEF Is
    <3> QED
      BY <1>4, <3>1, CountNone DEF UnitPlaces
  <2>2. Weight(cu_out[u], u, K) = 0
    BY <1>6, WeightType DEF Is
  <2>3. CountOf(sigq[u], u, K) = 0 /\ CountOf(Queued(u), u, K) = 0
    BY <1>4, <1>6, CountEmpty DEF Idle, Queued, UnitPlaces
  <2>4. CountOwing(u, K) = 0
    BY <1>6 DEF CountOwing, One, Idle
  <2>5. CountOf(recvq[u], u, K) = 0
    <3>1. recvq[u] \in Seq(Ofs(u, "DATA"))
      BY <1>4 DEF UnitPlaces
    <3>2. \A f \in Ofs(u, "DATA") : ~Is(f, u, K)
      BY KindOf DEF Ofs, Is
    <3>3. \A i \in DOMAIN recvq[u] : ~Is(recvq[u][i], u, K)
      BY <3>1, <3>2, ElementOfSeq, LenProperties
    <3> QED
      BY <3>1, <3>3, CountNone
  <2> QED
    BY <2>1, <2>2, <2>3, <2>4, <2>5 DEF CountUnit
<1>9. CountOf(Line(u), u, K) = 0
  BY <1>1, <1>3, <1>7, <1>8, LineCount DEF CountLine
<1> QED
  BY <1>9 DEF OutstandingAt, u

(***************************************************************************)
(* The theorems.                                                           *)
(***************************************************************************)

(* However the clocks of the agent, the units and the host interleave, the *)
(* credit that is left and the instructions that are out stay within what  *)
(* the host seeded.                                                        *)
THEOREM CreditHolds == Spec => []CreditCovers
<1>1. DInv => CreditCovers
  BY DEF DInv
<1> QED
  BY <1>1, Inductive, PTL

(* No queue between the staging RAM and the signal counter is written when *)
(* it is full.                                                             *)
THEOREM NothingOverflows == Spec => []QueuesHold
  BY RoomEverywhere, Inductive, PTL

(* When the count the host polls is what it kicked, the round is over at   *)
(* every unit.                                                             *)
THEOREM PollIsTrue == Spec => []RoundOver
  BY OverIsOver, Inductive, PTL

(* A unit that answered that it is idle has nothing outstanding.           *)
THEOREM IdleIsTrue == Spec => []IdleReplyTrue
  BY IdleIsIdle, Inductive, PTL
-----------------------------------------------------------------------------
(***************************************************************************)
(* Dispatch implements Jobs: on every edge each place of a unit's line     *)
(* hands on to the next exactly what the next takes in, so the pending     *)
(* jobs lose a report in front and gain a program behind, or stay.         *)
(***************************************************************************)
Cat(a, b) == a \o b

(* Concatenation stays a sequence, and the empty sequence adds nothing.    *)
LEMMA CatType ==
  ASSUME NEW S, NEW a \in Seq(S), NEW b \in Seq(S)
  PROVE  /\ Cat(a, b) \in Seq(S)
         /\ Cat(<<>>, a) = a /\ Cat(a, <<>>) = a
<1>1. a \o b \in Seq(S)
  BY ConcatProperties
<1>2. <<>> \o a = a /\ a \o <<>> = a
  BY ConcatEmptySeq
<1> QED
  BY <1>1, <1>2, Zenon DEF Cat

(* Concatenation is associative.                                           *)
LEMMA CatAssoc ==
  ASSUME NEW S, NEW a \in Seq(S), NEW b \in Seq(S), NEW c \in Seq(S)
  PROVE  Cat(Cat(a, b), c) = Cat(a, Cat(b, c))
<1>1. (a \o b) \o c = a \o (b \o c)
  BY ConcatAssociative
<1> QED
  BY <1>1, Zenon DEF Cat

(***************************************************************************)
(* A place that held a holds b once n has come in behind and m gone out in *)
(* front.                                                                  *)
(***************************************************************************)
Passes(a, n, m, b) ==
  /\ a \in Seq(Nat) /\ n \in Seq(Nat) /\ m \in Seq(Nat) /\ b \in Seq(Nat)
  /\ Cat(a, n) = Cat(m, b)

(* What leaves a place for the one before it stays between the two.        *)
LEMMA PassOn ==
  ASSUME NEW a, NEW b, NEW c, NEW d, NEW n, NEW m, NEW k,
         Passes(a, m, k, c), Passes(b, n, m, d)
  PROVE  Passes(Cat(a, b), n, k, Cat(c, d))
<1> USE DEF Passes
<1> PICK p : p = Cat(a, m)
  OBVIOUS
<1> PICK q : q = Cat(m, d)
  OBVIOUS
<1>1. p \in Seq(Nat) /\ q \in Seq(Nat) /\ Cat(a, b) \in Seq(Nat) /\ Cat(c, d) \in Seq(Nat)
  BY CatType
<1>2. p = Cat(k, c) /\ q = Cat(b, n)
  OBVIOUS
<1>3. Cat(Cat(a, b), n) = Cat(a, q)
  BY <1>2, CatAssoc
<1>4. Cat(a, q) = Cat(p, d)
  BY CatAssoc
<1>5. Cat(p, d) = Cat(k, Cat(c, d))
  BY <1>2, CatAssoc
<1> QED
  BY <1>1, <1>3, <1>4, <1>5, Zenon

(* A place that is left alone.                                             *)
LEMMA PassStays ==
  ASSUME NEW a \in Seq(Nat)
  PROVE  Passes(a, <<>>, <<>>, a)
<1>1. <<>> \in Seq(Nat)
  OBVIOUS
<1> QED
  BY <1>1, CatType DEF Passes

-----------------------------------------------------------------------------
(***************************************************************************)
(* The jobs of a unit among some flits.                                    *)
(***************************************************************************)
JobsAt(fs, u) == {i \in DOMAIN fs : fs[i].peer = u /\ Kind(fs[i]) = "job"}
TxnsOf(fs) == [i \in DOMAIN fs |-> fs[i].txn]

(* The jobs of a unit among some flits, by their positions.                *)
LEMMA JobParts ==
  ASSUME NEW u, NEW fs \in Seq(Flit)
  PROVE  /\ JobTxns(fs, u) = Picked(TxnsOf(fs), JobsAt(fs, u))
         /\ TxnsOf(fs) \in Seq(Nat) /\ Len(TxnsOf(fs)) = Len(fs) /\ Len(fs) \in Nat
         /\ DOMAIN fs = 1 .. Len(fs)
         /\ JobsAt(fs, u) \in SUBSET (1 .. Len(fs))
         /\ JobTxns(fs, u) \in Seq(Nat)
<1>1. Len(fs) \in Nat /\ DOMAIN fs = 1 .. Len(fs)
  BY LenProperties
<1>2. \A i \in 1 .. Len(fs) : fs[i].txn \in Nat
  <2> TAKE i \in 1 .. Len(fs)
  <2>1. fs[i] \in Flit
    BY ElementOfSeq
  <2> QED
    BY <2>1 DEF Flit
<1>3. TxnsOf(fs) = [i \in 1 .. Len(fs) |-> fs[i].txn]
  BY <1>1 DEF TxnsOf
<1>4. TxnsOf(fs) \in Seq(Nat) /\ Len(TxnsOf(fs)) = Len(fs)
  BY <1>1, <1>2, <1>3
<1>5. JobsAt(fs, u) \in SUBSET (1 .. Len(fs))
  BY <1>1 DEF JobsAt
<1>6. JobTxns(fs, u) = Picked(TxnsOf(fs), JobsAt(fs, u))
  BY DEF JobTxns, TxnsOf, JobsAt
<1>7. Picked(TxnsOf(fs), JobsAt(fs, u)) \in Seq(Nat)
  BY <1>4, <1>5, PickedType
<1> QED
  BY <1>1, <1>4, <1>5, <1>6, <1>7

(* No flit is none of the jobs.                                            *)
LEMMA JobsNone ==
  ASSUME NEW u, NEW fs \in Seq(Flit),
         \A i \in DOMAIN fs : ~(fs[i].peer = u /\ Kind(fs[i]) = "job")
  PROVE  JobTxns(fs, u) = <<>>
<1>1. JobsAt(fs, u) = {}
  BY DEF JobsAt
<1> QED
  BY <1>1, JobParts, PickedNone

(* What one flit is to a unit.                                             *)
LEMMA TxnType ==
  ASSUME NEW u, NEW f \in Flit
  PROVE  JobTxn(f, u) \in Seq(Nat) /\ JobTxn(NoFlit, u) = <<>>
<1>1. f.txn \in Nat
  BY DEF Flit
<1>2. Kind(NoFlit) # "job"
  BY KindOf DEF NoFlit
<1> QED
  BY <1>1, <1>2 DEF JobTxn

(* A sequence and one more.                                                *)
With(a, x) == Append(a, x)

(* An element that comes last and is not picked changes nothing.           *)
LEMMA PickedKeeps ==
  ASSUME NEW r \in Seq(Nat), NEW y \in Nat, NEW R \in SUBSET (1 .. Len(r))
  PROVE  Picked(Append(r, y), R) = Picked(r, R)
BY PickedAppend, ZenonT(40)

(* A flit that comes last.                                                 *)
LEMMA JobsAppend ==
  ASSUME NEW u, NEW fs \in Seq(Flit), NEW f \in Flit
  PROVE  JobTxns(Append(fs, f), u) = Cat(JobTxns(fs, u), JobTxn(f, u))
<1> DEFINE gs == Append(fs, f)
           P == JobsAt(fs, u)
           Q == JobsAt(gs, u)
           n == Len(fs)
           x == f.txn
           s == TxnsOf(fs)
<1>1. /\ gs \in Seq(Flit) /\ Len(gs) = n + 1 /\ gs[n + 1] = f
      /\ \A i \in 1 .. n : gs[i] = fs[i]
  BY AppendProperties
<1>2. f.txn \in Nat
  BY DEF Flit
<1> HIDE DEF gs
<1>3. /\ JobTxns(gs, u) = Picked(TxnsOf(gs), Q)
      /\ TxnsOf(gs) \in Seq(Nat) /\ Len(TxnsOf(gs)) = n + 1
      /\ DOMAIN gs = 1 .. n + 1
  BY <1>1, JobParts
<1>4. /\ JobTxns(fs, u) = Picked(s, P) /\ s \in Seq(Nat) /\ Len(s) = n
      /\ n \in Nat /\ DOMAIN fs = 1 .. n /\ P \in SUBSET (1 .. n)
  BY JobParts
<1>5. Q = IF f.peer = u /\ Kind(f) = "job" THEN P \cup {n + 1} ELSE P
  BY <1>1, <1>3, <1>4 DEF JobsAt
<1>6. TxnsOf(gs) = Append(s, x)
  <2>1. Append(s, x) \in Seq(Nat) /\ Len(Append(s, x)) = n + 1 /\ Append(s, x)[n + 1] = x
        /\ \A i \in 1 .. n : Append(s, x)[i] = s[i]
    BY <1>2, <1>4, AppendProperties
  <2>2. \A i \in 1 .. n + 1 : TxnsOf(gs)[i] = gs[i].txn
    BY <1>3 DEF TxnsOf
  <2>3. \A i \in 1 .. n : s[i] = fs[i].txn
    BY <1>4 DEF TxnsOf
  <2>4. \A i \in 1 .. n + 1 : i \in 1 .. n \/ i = n + 1
    BY <1>4
  <2>5. \A i \in 1 .. n + 1 : TxnsOf(gs)[i] = Append(s, x)[i]
    <3> HIDE DEF s, n, x
    <3> QED
      BY <1>1, <2>1, <2>2, <2>3, <2>4 DEF x
  <2> HIDE DEF s, n, x
  <2> QED
    BY <1>3, <2>1, <2>5, SeqEqual
<1> HIDE DEF P, Q, s, n
<1>7. /\ Picked(Append(s, x), P) = Picked(s, P)
      /\ Picked(Append(s, x), P \cup {n + 1}) = Append(Picked(s, P), x)
  <2> PICK r : r = s
    OBVIOUS
  <2> PICK y : y = x
    OBVIOUS
  <2> PICK R : R = P
    OBVIOUS
  <2>1. r \in Seq(Nat) /\ y \in Nat /\ R \in SUBSET (1 .. Len(r)) /\ Len(r) = n
    BY <1>2, <1>4
  <2> HIDE DEF x
  <2>2. Picked(Append(r, y), R) = Picked(r, R)
    BY <2>1, PickedKeeps, Zenon
  <2>3. Picked(With(r, y), R \cup {Len(r) + 1}) = With(Picked(r, R), y)
    BY <2>1, PickedAppend, SMTT(40) DEF With
  <2> QED
    BY <2>1, <2>2, <2>3 DEF With
<1>8. Picked(s, P) \in Seq(Nat)
  BY <1>4, PickedType
<1>9. CASE f.peer = u /\ Kind(f) = "job"
  <2>1. JobTxns(gs, u) = Append(Picked(s, P), x)
    BY <1>3, <1>5, <1>6, <1>7, <1>9
  <2>2. Append(Picked(s, P), x) = Picked(s, P) \o <<x>>
    BY <1>2, <1>8, AppendIsConcat
  <2>3. JobTxn(f, u) = <<x>>
    BY <1>9 DEF JobTxn
  <2> QED
    BY <1>4, <2>1, <2>2, <2>3 DEF Cat, gs
<1>10. CASE ~(f.peer = u /\ Kind(f) = "job")
  <2>1. JobTxns(gs, u) = Picked(s, P)
    BY <1>3, <1>5, <1>6, <1>7, <1>10
  <2>2. Picked(s, P) \o <<>> = Picked(s, P)
    BY <1>8, ConcatEmptySeq
  <2>3. JobTxn(f, u) = <<>>
    BY <1>10 DEF JobTxn
  <2> QED
    BY <1>4, <2>1, <2>2, <2>3 DEF Cat, gs
<1> QED
  BY <1>9, <1>10

(* The first flit, and those behind it.                                    *)
LEMMA JobsTail ==
  ASSUME NEW u, NEW fs \in Seq(Flit), fs # <<>>
  PROVE  /\ Head(fs) \in Flit /\ Tail(fs) \in Seq(Flit)
         /\ JobTxns(fs, u) = Cat(JobTxn(Head(fs), u), JobTxns(Tail(fs), u))
<1> DEFINE gs == Tail(fs)
           n == Len(fs)
           s == TxnsOf(fs)
           P == JobsAt(fs, u)
           Q == JobsAt(gs, u)
<1>1. /\ Head(fs) \in Flit /\ gs \in Seq(Flit) /\ Len(gs) = n - 1 /\ n \in Nat
      /\ n >= 1 /\ Head(fs) = fs[1]
      /\ \A i \in 1 .. n - 1 : gs[i] = fs[i + 1]
  BY HeadTailProperties, LenProperties, EmptySeq
<1> HIDE DEF gs
<1>2. /\ JobTxns(gs, u) = Picked(TxnsOf(gs), Q)
      /\ TxnsOf(gs) \in Seq(Nat) /\ Len(TxnsOf(gs)) = n - 1
      /\ DOMAIN gs = 1 .. n - 1 /\ Q \in SUBSET (1 .. n - 1)
  BY <1>1, JobParts
<1>3. /\ JobTxns(fs, u) = Picked(s, P) /\ s \in Seq(Nat) /\ Len(s) = n
      /\ DOMAIN fs = 1 .. n /\ P \in SUBSET (1 .. n)
  BY JobParts
<1>4. s # <<>> /\ s[1] = Head(fs).txn
  BY <1>1, <1>3 DEF TxnsOf
<1>5. \A i \in 1 .. n - 1 : i \in Q <=> i + 1 \in P
  <2> TAKE i \in 1 .. n - 1
  <2>1. i + 1 \in 1 .. n
    BY <1>1
  <2> QED
    BY <1>1, <1>2, <1>3, <2>1 DEF JobsAt
<1>6. 1 \in P <=> Head(fs).peer = u /\ Kind(Head(fs)) = "job"
  BY <1>1, <1>3 DEF JobsAt
<1>7. TxnsOf(gs) = Tail(s)
  <2> HIDE DEF s
  <2>1. Tail(s) \in Seq(Nat) /\ Len(Tail(s)) = n - 1
        /\ \A i \in 1 .. n - 1 : Tail(s)[i] = s[i + 1]
    BY <1>3, <1>4, HeadTailProperties
  <2>2. \A i \in 1 .. n - 1 : TxnsOf(gs)[i] = Tail(s)[i]
    <3> TAKE i \in 1 .. n - 1
    <3>1. i + 1 \in 1 .. n
      BY <1>1
    <3>2. s[i + 1] = fs[i + 1].txn
      BY <1>3, <3>1 DEF s, TxnsOf
    <3>3. TxnsOf(gs)[i] = gs[i].txn
      BY <1>2 DEF TxnsOf
    <3> QED
      BY <1>1, <2>1, <3>2, <3>3
  <2> QED
    BY <1>2, <2>1, <2>2, SeqEqual
<1> HIDE DEF s, P, Q, n
<1>8. Picked(s, P) = (IF 1 \in P THEN <<s[1]>> ELSE <<>>) \o Picked(Tail(s), Q)
  <2>1. P \in SUBSET (1 .. Len(s)) /\ Q \in SUBSET (1 .. Len(s) - 1)
        /\ \A i \in 1 .. Len(s) - 1 : i \in Q <=> i + 1 \in P
    BY <1>2, <1>3, <1>5
  <2> QED
    BY <1>3, <1>4, <2>1, PickedTail
<1>9. (IF 1 \in P THEN <<s[1]>> ELSE <<>>) = JobTxn(Head(fs), u)
  BY <1>4, <1>6 DEF JobTxn
<1> QED
  BY <1>1, <1>2, <1>3, <1>7, <1>8, <1>9 DEF Cat, gs

(* The size of the staging RAM.                                            *)
LEMMA StageSize == STAGE_FLITS \in Nat
<1>1. W16 \in Nat
  BY DEF W16
<1> QED
  BY <1>1, OrcAssumption

(* The instructions of n staged slots from a on: the first, and the rest.  *)
LEMMA StagedType ==
  ASSUME NEW a \in Nat, NEW n \in Nat, a + n <= STAGE_FLITS
  PROVE  /\ [i \in 1 .. n |-> Stage[a + i - 1].txn] \in Seq(Nat)
         /\ Len([i \in 1 .. n |-> Stage[a + i - 1].txn]) = n
         /\ {i \in 1 .. n : IsInst(Stage[a + i - 1])} \in SUBSET (1 .. n)
         /\ InstTxns(a, n) \in Seq(Nat)
         /\ InstTxns(a, 0) = <<>>
<1> DEFINE s == [i \in 1 .. n |-> Stage[a + i - 1].txn]
           P == {i \in 1 .. n : IsInst(Stage[a + i - 1])}
<1>1. STAGE_FLITS \in Nat
  BY StageSize
<1>2. \A i \in 1 .. n : Stage[a + i - 1].txn \in Nat
  <2> TAKE i \in 1 .. n
  <2>1. a + i - 1 \in 0 .. STAGE_FLITS - 1
    BY <1>1
  <2> QED
    BY <2>1, OrcAssumption
<1>3. s \in Seq(Nat) /\ Len(s) = n
  BY <1>2
<1>4. P \in SUBSET (1 .. n)
  OBVIOUS
<1>5. Picked(s, P) \in Seq(Nat)
  <2> HIDE DEF s, P
  <2> QED
    BY <1>3, <1>4, PickedType
<1>6. InstTxns(a, 0) = <<>>
  <2>1. {i \in 1 .. 0 : IsInst(Stage[a + i - 1])} = {}
    OBVIOUS
  <2> QED
    BY <2>1, PickedNone DEF InstTxns
<1> QED
  BY <1>3, <1>4, <1>5, <1>6 DEF InstTxns

(* The transaction id of a slot that holds an instruction.                 *)
FirstTxn(a) == IF IsInst(Stage[a]) THEN <<Stage[a].txn>> ELSE <<>>

(* One slot and the slots after it.                                        *)
LEMMA StagedNext ==
  ASSUME NEW a \in Nat, NEW n \in Nat, n >= 1, a + n <= STAGE_FLITS
  PROVE  /\ FirstTxn(a) \in Seq(Nat)
         /\ InstTxns(a + 1, n - 1) \in Seq(Nat)
         /\ InstTxns(a, n) = Cat(FirstTxn(a), InstTxns(a + 1, n - 1))
<1> DEFINE s == [i \in 1 .. n |-> Stage[a + i - 1].txn]
           P == {i \in 1 .. n : IsInst(Stage[a + i - 1])}
           b == a + 1
           m == n - 1
           t == [i \in 1 .. m |-> Stage[b + i - 1].txn]
           Q == {i \in 1 .. m : IsInst(Stage[b + i - 1])}
<1>1. b \in Nat /\ m \in Nat /\ b + m <= STAGE_FLITS /\ STAGE_FLITS \in Nat
  BY StageSize
<1> HIDE DEF b, m
<1>2. s \in Seq(Nat) /\ Len(s) = n /\ P \in SUBSET (1 .. n)
  BY StagedType
<1>3. t \in Seq(Nat) /\ Len(t) = m /\ Q \in SUBSET (1 .. m)
      /\ InstTxns(b, m) \in Seq(Nat)
  BY <1>1, StagedType
<1>4. s # <<>> /\ s[1] = Stage[a].txn /\ (1 \in P <=> IsInst(Stage[a]))
  OBVIOUS
<1>5. \A i \in 1 .. m : i + 1 \in 1 .. n /\ a + (i + 1) - 1 = b + i - 1
  BY DEF b, m
<1>6. \A i \in 1 .. m : i \in Q <=> i + 1 \in P
  BY <1>5
<1>7. \A i \in 1 .. m : t[i] = s[i + 1]
  BY <1>5
<1> HIDE DEF s, t, P, Q
<1>8. t = Tail(s)
  <2>1. Tail(s) \in Seq(Nat) /\ Len(Tail(s)) = m
        /\ \A i \in 1 .. m : Tail(s)[i] = s[i + 1]
    BY <1>2, <1>4, HeadTailProperties DEF m
  <2> QED
    BY <1>3, <1>7, <2>1, SeqEqual
<1>9. Picked(s, P) = (IF 1 \in P THEN <<s[1]>> ELSE <<>>) \o Picked(Tail(s), Q)
  <2>1. P \in SUBSET (1 .. Len(s)) /\ Q \in SUBSET (1 .. Len(s) - 1)
        /\ \A i \in 1 .. Len(s) - 1 : i \in Q <=> i + 1 \in P
    BY <1>2, <1>3, <1>6 DEF m
  <2> QED
    BY <1>2, <1>4, <2>1, PickedTail
<1>10. InstTxns(a, n) = Picked(s, P) /\ InstTxns(b, m) = Picked(t, Q)
  BY DEF InstTxns, s, t, P, Q
<1>11. (IF 1 \in P THEN <<s[1]>> ELSE <<>>) = FirstTxn(a)
  BY <1>4 DEF FirstTxn
<1>12. FirstTxn(a) \in Seq(Nat)
  <2>1. a \in 0 .. STAGE_FLITS - 1
    BY <1>1
  <2>2. Stage[a].txn \in Nat
    BY <2>1, OrcAssumption
  <2> QED
    BY <2>2 DEF FirstTxn
<1> QED
  BY <1>3, <1>8, <1>9, <1>10, <1>11, <1>12 DEF Cat, b, m

(* A flit of the dispatcher's is a job of the unit its program is for, if  *)
(* it is an instruction.                                                   *)
LEMMA PushedTxn ==
  ASSUME TypeOK, DispOK, Pushed, NEW u
  PROVE  JobTxn(DispFlit', u) = IF prog_dst = u THEN FirstTxn(prog_rd) ELSE <<>>
<1>1. Stage[prog_rd].type \in {"INST", "DATA"}
  <2>1. prog_rd \in 0 .. STAGE_FLITS - 1
    BY LeftMoves
  <2> QED
    BY <2>1, OrcAssumption
<1> DEFINE f == DispFlit'
<1>2. /\ f.peer = prog_dst /\ f.txn = Stage[prog_rd].txn
      /\ f.type = Stage[prog_rd].type
  BY DEF Pushed, DispFlit, StagedFlit
<1>3. Kind(f) = "job" <=> IsInst(Stage[prog_rd])
  <2> HIDE DEF f
  <2>1. f.type = "DATA" => Kind(f) # "job"
    BY KindOf
  <2>2. f.type = "INST" => Kind(f) = "job"
    BY KindOf
  <2> QED
    BY <1>1, <1>2, <2>1, <2>2 DEF IsInst
<1> HIDE DEF f
<1>4. JobTxn(f, u) = IF prog_dst = u THEN FirstTxn(prog_rd) ELSE <<>>
  BY <1>2, <1>3 DEF JobTxn, FirstTxn
<1> QED
  BY <1>4 DEF f

(* What the dispatcher pushes is the first of what it had left.            *)
LEMMA StagedRest ==
  ASSUME TypeOK, DispOK, Pushed, NEW v, prog_dst = v
  PROVE  /\ FirstTxn(prog_rd) \in Seq(Nat)
         /\ Unsent(v)' \in Seq(Nat)
         /\ Unsent(v) = Cat(FirstTxn(prog_rd), Unsent(v)')
<1>1. prog_rd \in Nat /\ prog_left \in Nat
  BY OrcAssumption DEF TypeOK, OrcTypeOK
<1>2. prog_run /\ prog_left >= 1 /\ prog_rd + prog_left <= STAGE_FLITS
  BY DEF DispOK, Pushed
<1>3. /\ FirstTxn(prog_rd) \in Seq(Nat)
      /\ InstTxns(prog_rd + 1, prog_left - 1) \in Seq(Nat)
      /\ InstTxns(prog_rd, prog_left)
           = Cat(FirstTxn(prog_rd), InstTxns(prog_rd + 1, prog_left - 1))
  BY <1>1, <1>2, StagedNext
<1>4. Unsent(v) = InstTxns(prog_rd, prog_left)
  BY <1>2 DEF Unsent
<1>5. InstTxns(prog_rd + 1, 0) = <<>>
  <2>1. prog_rd + 1 \in Nat /\ 0 \in Nat /\ (prog_rd + 1) + 0 <= STAGE_FLITS
    BY <1>1, <1>2, OrcAssumption
  <2> QED
    BY <2>1, StagedType
<1>6. Unsent(v)' = InstTxns(prog_rd + 1, prog_left - 1)
  <2>1. /\ prog_run' = (prog_left # 1) /\ prog_rd' = prog_rd + 1
        /\ prog_left' = IF prog_left = 1 THEN prog_left ELSE prog_left - 1
        /\ prog_dst' = v
    BY DEF Pushed
  <2>2. CASE prog_left = 1
    <3>1. Unsent(v)' = <<>>
      BY <2>1, <2>2 DEF Unsent
    <3>2. prog_left - 1 = 0
      BY <2>2
    <3> QED
      BY <1>5, <3>1, <3>2
  <2>3. CASE prog_left # 1
    BY <2>1, <2>3 DEF Unsent
  <2> QED
    BY <2>2, <2>3
<1> QED
  BY <1>3, <1>4, <1>6
-----------------------------------------------------------------------------
(***************************************************************************)
(* The line of a unit, place by place.                                     *)
(***************************************************************************)
Flying(u)  == IF in_flight[u] THEN <<rep[u].txn>> ELSE <<>>
Pushing(u) == IF disp_push THEN JobTxn(DispFlit, u) ELSE <<>>

AtUnit(a, b, c, d, e) == Cat(Cat(Cat(Cat(a, b), c), d), e)
Places(a, b, c, d, e, f, g, h, i, j) ==
  Cat(Cat(Cat(Cat(Cat(AtUnit(a, b, c, d, e), f), g), h), i), j)

(* The pending jobs of a unit, in this state and in the next.              *)
LEMMA JobsPlaces ==
  ASSUME NEW u
  PROVE  /\ Unreported(u) =
              Places(JobTxns(up[u], u), JobTxn(cu_out[u], u),
                     JobTxns(sigq[u], u), Flying(u), JobTxns(Queued(u), u),
                     JobTxns(down[u], u), JobTxn(orc_out, u), JobTxns(tx, u),
                     Pushing(u), Unsent(u))
         /\ Unreported(u)' =
              Places(JobTxns(up'[u], u), JobTxn(cu_out'[u], u),
                     JobTxns(sigq'[u], u), Flying(u)', JobTxns(Queued(u)', u),
                     JobTxns(down'[u], u), JobTxn(orc_out', u), JobTxns(tx', u),
                     Pushing(u)', Unsent(u)')
BY DEF Unreported, Dispatched, Flying, Pushing, Places, AtUnit, Cat

(* What is handed on from place to place stays on the line.                *)
LEMMA PassUnit ==
  ASSUME NEW a, NEW b, NEW c, NEW d, NEW e,
         NEW A, NEW B, NEW C, NEW D, NEW E,
         NEW m0, NEW m1, NEW m2, NEW m3, NEW m4, NEW m5,
         Passes(a, m1, m0, A), Passes(b, m2, m1, B), Passes(c, m3, m2, C),
         Passes(d, m4, m3, D), Passes(e, m5, m4, E)
  PROVE  Passes(AtUnit(a, b, c, d, e), m5, m0, AtUnit(A, B, C, D, E))
<1>1. Passes(Cat(a, b), m2, m0, Cat(A, B))
  BY PassOn, Zenon
<1>2. Passes(Cat(Cat(a, b), c), m3, m0, Cat(Cat(A, B), C))
  BY <1>1, PassOn, Zenon
<1>3. Passes(Cat(Cat(Cat(a, b), c), d), m4, m0, Cat(Cat(Cat(A, B), C), D))
  BY <1>2, PassOn, Zenon
<1> QED
  BY <1>3, PassOn, Zenon DEF AtUnit

(* What is handed on along the whole line stays on it.                     *)
LEMMA PassPlaces ==
  ASSUME NEW a, NEW b, NEW c, NEW d, NEW e,
         NEW A, NEW B, NEW C, NEW D, NEW E,
         NEW f, NEW g, NEW h, NEW i, NEW j,
         NEW F, NEW G, NEW H, NEW I, NEW J,
         NEW m0, NEW m5, NEW m6, NEW m7, NEW m8, NEW m9, NEW m10,
         Passes(AtUnit(a, b, c, d, e), m5, m0, AtUnit(A, B, C, D, E)),
         Passes(f, m6, m5, F), Passes(g, m7, m6, G),
         Passes(h, m8, m7, H), Passes(i, m9, m8, I), Passes(j, m10, m9, J)
  PROVE  Passes(Places(a, b, c, d, e, f, g, h, i, j), m10, m0,
                Places(A, B, C, D, E, F, G, H, I, J))
<1> PICK p : p = AtUnit(a, b, c, d, e)
  OBVIOUS
<1> PICK q : q = AtUnit(A, B, C, D, E)
  OBVIOUS
<1>0. Passes(p, m5, m0, q)
  OBVIOUS
<1>1. Passes(Cat(p, f), m6, m0, Cat(q, F))
  BY <1>0, PassOn, Zenon
<1>2. Passes(Cat(Cat(p, f), g), m7, m0, Cat(Cat(q, F), G))
  BY <1>1, PassOn, Zenon
<1>3. Passes(Cat(Cat(Cat(p, f), g), h), m8, m0, Cat(Cat(Cat(q, F), G), H))
  BY <1>2, PassOn, Zenon
<1>4. Passes(Cat(Cat(Cat(Cat(p, f), g), h), i), m9, m0,
             Cat(Cat(Cat(Cat(q, F), G), H), I))
  BY <1>3, PassOn, Zenon
<1>5. Passes(Cat(Cat(Cat(Cat(Cat(p, f), g), h), i), j), m10, m0,
             Cat(Cat(Cat(Cat(Cat(q, F), G), H), I), J))
  BY <1>4, PassOn, Zenon
<1> QED
  BY <1>5, Zenon DEF Places

(* What goes out first and what comes in then.                             *)
LEMMA PassTwice ==
  ASSUME NEW a, NEW b, NEW c, NEW n, NEW m,
         Passes(a, <<>>, m, b), Passes(b, n, <<>>, c)
  PROVE  Passes(a, n, m, c)
<1> USE DEF Passes
<1>1. a = Cat(m, b) /\ c = Cat(b, n)
  BY CatType
<1>2. Cat(Cat(m, b), n) = Cat(m, Cat(b, n))
  BY CatAssoc
<1> QED
  BY <1>1, <1>2, Zenon

(* What comes in first and goes out then.                                  *)
LEMMA PassBoth ==
  ASSUME NEW a, NEW b, NEW c, NEW n, NEW m,
         Passes(a, n, <<>>, b), Passes(b, <<>>, m, c)
  PROVE  Passes(a, n, m, c)
<1> USE DEF Passes
<1>1. Cat(a, n) = b /\ b = Cat(m, c)
  BY CatType
<1> QED
  BY <1>1

(* A register hands on what it held and takes what comes.                  *)
LEMMA PassReplaced ==
  ASSUME NEW m \in Seq(Nat), NEW n \in Seq(Nat)
  PROVE  Passes(m, n, m, n)
BY DEF Passes

(* A queue of flits that gives its first flit, takes one, or rests.        *)
LEMMA PassQueue ==
  ASSUME NEW u, NEW fs \in Seq(Flit)
  PROVE  /\ Passes(JobTxns(fs, u), <<>>, <<>>, JobTxns(fs, u))
         /\ \A f \in Flit :
              Passes(JobTxns(fs, u), JobTxn(f, u), <<>>, JobTxns(Append(fs, f), u))
         /\ fs # <<>> =>
              Passes(JobTxns(fs, u), <<>>, JobTxn(Head(fs), u), JobTxns(Tail(fs), u))
<1>1. JobTxns(fs, u) \in Seq(Nat) /\ <<>> \in Seq(Nat)
  BY JobParts
<1>2. Passes(JobTxns(fs, u), <<>>, <<>>, JobTxns(fs, u))
  BY <1>1, PassStays
<1>3. ASSUME NEW f \in Flit
      PROVE  Passes(JobTxns(fs, u), JobTxn(f, u), <<>>, JobTxns(Append(fs, f), u))
  <2>1. JobTxn(f, u) \in Seq(Nat)
    BY TxnType
  <2>2. JobTxns(Append(fs, f), u) = Cat(JobTxns(fs, u), JobTxn(f, u))
    BY JobsAppend
  <2>3. Cat(JobTxns(fs, u), JobTxn(f, u)) \in Seq(Nat)
    BY <1>1, <2>1, CatType
  <2>4. Cat(<<>>, Cat(JobTxns(fs, u), JobTxn(f, u))) = Cat(JobTxns(fs, u), JobTxn(f, u))
    BY <2>3, CatType
  <2> QED
    BY <1>1, <2>1, <2>2, <2>3, <2>4, Zenon DEF Passes
<1>4. ASSUME fs # <<>>
      PROVE  Passes(JobTxns(fs, u), <<>>, JobTxn(Head(fs), u), JobTxns(Tail(fs), u))
  <2>1. /\ Head(fs) \in Flit /\ Tail(fs) \in Seq(Flit)
        /\ JobTxns(fs, u) = Cat(JobTxn(Head(fs), u), JobTxns(Tail(fs), u))
    BY <1>4, JobsTail
  <2>2. JobTxn(Head(fs), u) \in Seq(Nat) /\ JobTxns(Tail(fs), u) \in Seq(Nat)
    BY <2>1, TxnType, JobParts
  <2>3. Cat(JobTxns(fs, u), <<>>) = JobTxns(fs, u)
    BY <1>1, CatType
  <2> QED
    BY <1>1, <2>1, <2>2, <2>3, Zenon DEF Passes
<1> QED
  BY <1>2, <1>3, <1>4
-----------------------------------------------------------------------------
(***************************************************************************)
(* A clock edge of a unit hands its jobs on from place to place.           *)
(***************************************************************************)
(* The queues and registers hold flits.                                    *)
LEMMA FlitPlaces ==
  ASSUME TypeOK, NEW u \in Unit
  PROVE  /\ up[u] \in Seq(Flit) /\ cu_out[u] \in Flit /\ sigq[u] \in Seq(Flit)
         /\ instq[u] \in Seq(Flit) /\ down[u] \in Seq(Flit)
         /\ orc_out \in Flit /\ tx \in Seq(Flit)
         /\ rep[u].txn \in Nat /\ in_flight[u] \in BOOLEAN
BY DEF TypeOK, CuTypeOK, OrcTypeOK

(* What the report of a unit is to it.                                     *)
LEMMA ReportTxn ==
  ASSUME TypeOK, NEW u \in Unit, NEW b \in BOOLEAN
  PROVE  /\ Signal(u, rep[u].txn, RetCode(u, b)) \in Flit
         /\ JobTxn(Signal(u, rep[u].txn, RetCode(u, b)), u) = <<rep[u].txn>>
<1> DEFINE f == Signal(u, rep[u].txn, RetCode(u, b))
<1>1. f \in Ofs(u, "SIGNAL") /\ f.code # "DATA_RECEIVED"
  BY ReportFlit
<1>2. f.txn = rep[u].txn
  BY DEF Signal
<1> HIDE DEF f
<1>3. f \in Flit /\ f.type = "SIGNAL" /\ f.peer = u
  BY <1>1 DEF Ofs
<1>4. Kind(f) = "job"
  BY <1>1, <1>3, KindOf
<1> QED
  BY <1>2, <1>3, <1>4 DEF JobTxn, f

(* What the places of a unit hand on in a cycle.                           *)
GivesOut(u)    == IF Sends(u) THEN JobTxn(cu_out[u], u) ELSE <<>>
GivesSig(u)    == IF SigSent(u, UpBusy(u)) THEN JobTxn(Head(sigq[u]), u) ELSE <<>>
GivesRep(u, d) == IF d.fin THEN <<rep[u].txn>> ELSE <<>>
GivesInst(u, d) == IF d.acc THEN JobTxn(Head(instq[u]), u) ELSE <<>>
GivesDown(u, x) == IF Accepted(u, x) THEN JobTxn(x, u) ELSE <<>>

(* The return link takes what the transmit register sends.                 *)
LEMMA UpPasses ==
  ASSUME TypeOK, NEW u \in Unit, NEW x, NEW d, CuMoves(u, x, d)
  PROVE  Passes(JobTxns(up[u], u), GivesOut(u), <<>>, JobTxns(up'[u], u))
<1>1. up'[u] = IF Sends(u) THEN Append(up[u], cu_out[u]) ELSE up[u]
  BY DEF CuMoves
<1>2. up[u] \in Seq(Flit) /\ cu_out[u] \in Flit
  BY FlitPlaces
<1> QED
  BY <1>1, <1>2, PassQueue DEF GivesOut

(* The transmit register takes a completion, or what is no report.         *)
LEMMA OutPasses ==
  ASSUME TypeOK, NEW u \in Unit, NEW x, NEW d, CuMoves(u, x, d)
  PROVE  Passes(JobTxn(cu_out[u], u), GivesSig(u), GivesOut(u), JobTxn(cu_out'[u], u))
<1>1. cu_out'[u] = IF SigSent(u, UpBusy(u)) THEN Head(sigq[u])
                  ELSE IF CtrlSent(u, UpBusy(u)) THEN CtrlReply(u, ctrl_val[u])
                  ELSE IF owed[u] /\ SendReady(u, UpBusy(u))
                       THEN Signal(u, 0, "DATA_RECEIVED")
                  ELSE IF UpBusy(u) THEN cu_out[u] ELSE NoFlit
  BY DEF CuMoves
<1>2. cu_out[u] \in Flit /\ sigq[u] \in Seq(Flit)
  BY FlitPlaces
<1>3. JobTxn(cu_out[u], u) \in Seq(Nat) /\ <<>> \in Seq(Nat)
  BY <1>2, TxnType
<1>4. ~IsFlit(cu_out[u]) => JobTxn(cu_out[u], u) = <<>>
  BY KindOf DEF IsFlit, JobTxn
<1>5. TxFree(u, UpBusy(u)) => GivesOut(u) = JobTxn(cu_out[u], u)
  BY <1>4 DEF TxFree, GivesOut, Sends
<1>6. CASE SigSent(u, UpBusy(u))
  <2>1. Head(sigq[u]) \in Flit
    BY <1>2, <1>6, JobsTail DEF SigSent
  <2>2. JobTxn(Head(sigq[u]), u) \in Seq(Nat)
    BY <2>1, TxnType
  <2> QED
    BY <1>1, <1>3, <1>5, <1>6, <2>2, PassReplaced DEF GivesSig, SigSent
<1>7. CASE /\ ~SigSent(u, UpBusy(u))
           /\ CtrlSent(u, UpBusy(u)) \/ (owed[u] /\ SendReady(u, UpBusy(u)))
  <2>1. TxFree(u, UpBusy(u))
    BY <1>7 DEF CtrlSent, SendReady
  <2>2. Kind(CtrlReply(u, ctrl_val[u])) # "job"
    BY KindOf DEF CtrlReply
  <2>3. Kind(Signal(u, 0, "DATA_RECEIVED")) # "job"
    BY KindOf DEF Signal
  <2>4. JobTxn(cu_out'[u], u) = <<>>
    BY <1>1, <1>7, <2>2, <2>3 DEF JobTxn
  <2> QED
    BY <1>3, <1>5, <1>7, <2>1, <2>4, PassReplaced DEF GivesSig
<1>8. CASE /\ ~SigSent(u, UpBusy(u)) /\ ~CtrlSent(u, UpBusy(u))
           /\ ~(owed[u] /\ SendReady(u, UpBusy(u)))
  <2>1. CASE UpBusy(u)
    <3>1. cu_out'[u] = cu_out[u] /\ GivesOut(u) = <<>> /\ GivesSig(u) = <<>>
      BY <1>1, <1>8, <2>1 DEF GivesOut, GivesSig, Sends
    <3> QED
      BY <1>3, <3>1, PassStays
  <2>2. CASE ~UpBusy(u)
    <3>1. cu_out'[u] = NoFlit /\ GivesSig(u) = <<>>
      BY <1>1, <1>8, <2>2 DEF GivesSig
    <3>2. GivesOut(u) = JobTxn(cu_out[u], u)
      BY <1>5, <2>2 DEF TxFree
    <3>3. JobTxn(NoFlit, u) = <<>>
      BY <1>2, TxnType
    <3> QED
      BY <1>3, <3>1, <3>2, <3>3, PassReplaced
  <2> QED
    BY <2>1, <2>2
<1> QED
  BY <1>6, <1>7, <1>8

(* The completion queue takes the report of what retires.                  *)
LEMMA SigPasses ==
  ASSUME TypeOK, NEW u \in Unit, NEW x, NEW d \in Datapath, CuMoves(u, x, d)
  PROVE  Passes(JobTxns(sigq[u], u), GivesRep(u, d), GivesSig(u), JobTxns(sigq'[u], u))
<1> DEFINE rest == IF SigSent(u, UpBusy(u)) THEN Tail(sigq[u]) ELSE sigq[u]
           f == Signal(u, rep[u].txn, RetCode(u, d.flt))
<1>1. sigq'[u] = IF d.fin THEN Append(rest, f) ELSE rest
  BY DEF CuMoves
<1>2. sigq[u] \in Seq(Flit) /\ (SigSent(u, UpBusy(u)) => sigq[u] # <<>>)
  BY FlitPlaces DEF SigSent
<1>3. f \in Flit /\ JobTxn(f, u) = <<rep[u].txn>>
  <2>1. d.flt \in BOOLEAN
    BY DEF Datapath
  <2> QED
    BY <2>1, ReportTxn
<1> HIDE DEF f
<1>4. rest \in Seq(Flit)
  BY <1>2, JobsTail
<1>5. Passes(JobTxns(sigq[u], u), <<>>, GivesSig(u), JobTxns(rest, u))
  BY <1>2, PassQueue DEF GivesSig
<1> HIDE DEF rest
<1>6. CASE ~d.fin
  BY <1>1, <1>5, <1>6 DEF GivesRep
<1>7. CASE d.fin
  <2>1. Passes(JobTxns(rest, u), GivesRep(u, d), <<>>, JobTxns(sigq'[u], u))
    <3>1. Passes(JobTxns(rest, u), JobTxn(f, u), <<>>, JobTxns(Append(rest, f), u))
      BY <1>3, <1>4, PassQueue
    <3> QED
      BY <1>1, <1>3, <1>7, <3>1 DEF GivesRep
  <2> QED
    BY <1>5, <2>1, PassTwice
<1> QED
  BY <1>6, <1>7

(* What is executing retires, or is what the datapath accepts.             *)
LEMMA RepPasses ==
  ASSUME TypeOK, PlacesOK, NEW u \in Unit, NEW x, NEW d \in Datapath, CuMoves(u, x, d)
  PROVE  Passes(Flying(u), GivesInst(u, d), GivesRep(u, d), Flying(u)')
<1>1. /\ in_flight'[u] = (d.acc \/ (in_flight[u] /\ ~d.fin))
      /\ rep'[u] = IF d.acc THEN [txn |-> Head(instq[u]).txn,
                                  last |-> Head(instq[u]).last] ELSE rep[u]
      /\ DatapathCan(u, d)
  BY DEF CuMoves
<1>2. d.acc => ~in_flight[u] /\ instq[u] # <<>> /\ ~d.fin
  BY <1>1 DEF DatapathCan, InstValid
<1>3. d.fin => in_flight[u]
  BY <1>1 DEF DatapathCan
<1>4. rep[u].txn \in Nat /\ <<rep[u].txn>> \in Seq(Nat) /\ <<>> \in Seq(Nat)
  BY FlitPlaces
<1>5. CASE d.acc
  <2>1. Head(instq[u]) \in Flit /\ JobTxn(Head(instq[u]), u) = <<Head(instq[u]).txn>>
    <3>1. instq[u] \in Seq(Ofs(u, "INST"))
      BY DEF PlacesOK, UnitPlaces
    <3>2. Head(instq[u]) \in Ofs(u, "INST")
      BY <1>2, <1>5, <3>1, HeadTailProperties
    <3>3. Kind(Head(instq[u])) = "job"
      BY <3>2, KindOf DEF Ofs
    <3> QED
      BY <3>2, <3>3 DEF Ofs, JobTxn
  <2>2. Flying(u) = <<>> /\ GivesRep(u, d) = <<>>
    BY <1>2, <1>5 DEF Flying, GivesRep
  <2>3. Flying(u)' = JobTxn(Head(instq[u]), u) /\ GivesInst(u, d) = Flying(u)'
    <3>1. in_flight'[u]
      BY <1>1, <1>5, Zenon
    <3>2. rep'[u] = [txn |-> Head(instq[u]).txn, last |-> Head(instq[u]).last]
      BY <1>1, <1>5, Zenon
    <3>3. rep'[u].txn = Head(instq[u]).txn
      BY <3>2
    <3>4. Flying(u)' = <<Head(instq[u]).txn>>
      BY <3>1, <3>3, Zenon DEF Flying
    <3> QED
      BY <1>5, <2>1, <3>4 DEF GivesInst
  <2>4. JobTxn(Head(instq[u]), u) \in Seq(Nat)
    BY <2>1, TxnType
  <2> QED
    BY <1>4, <2>2, <2>3, <2>4, PassReplaced
<1>6. CASE ~d.acc /\ d.fin
  <2>1. /\ Flying(u) = <<rep[u].txn>> /\ GivesRep(u, d) = <<rep[u].txn>>
        /\ Flying(u)' = <<>> /\ GivesInst(u, d) = <<>>
    BY <1>1, <1>3, <1>6 DEF Flying, GivesRep, GivesInst
  <2> QED
    BY <1>4, <2>1, PassReplaced
<1>7. CASE ~d.acc /\ ~d.fin
  <2>1. Flying(u)' = Flying(u) /\ GivesRep(u, d) = <<>> /\ GivesInst(u, d) = <<>>
    BY <1>1, <1>7 DEF Flying, GivesRep, GivesInst
  <2>2. Flying(u) \in Seq(Nat)
    BY <1>4 DEF Flying
  <2> QED
    BY <2>1, <2>2, PassStays
<1> QED
  BY <1>5, <1>6, <1>7

(* What a unit's queue takes is a job of the unit, or nothing to it.       *)
LEMMA TakenTxn ==
  ASSUME NEW u \in Unit, NEW x, NEW d, CuMoves(u, x, d), Accepted(u, x)
  PROVE  /\ down[u] # <<>> /\ x = Head(down[u]) /\ x \in Flit
         /\ Takes(u, x, "INST") \/ JobTxn(x, u) = <<>>
<1>1. down[u] # <<>> /\ x = Head(down[u]) /\ x \in Outward(u)
  BY DEF CuMoves, Accepted, IsFlit, NoFlit
<1>2. x \in Flit /\ x.type \in {"INST", "DATA", "CTRL"}
  BY <1>1 DEF Outward
<1>3. x.type \in {"DATA", "CTRL"} => Kind(x) # "job"
  BY KindOf
<1> QED
  BY <1>1, <1>2, <1>3 DEF Takes, JobTxn

(* The instruction queue takes what arrives; what is accepted has left it  *)
(* as far as reports go, though it is read a cycle later.                  *)
LEMMA InstPasses ==
  ASSUME TypeOK, PlacesOK, NEW u \in Unit, NEW x, NEW d \in Datapath,
         CuMoves(u, x, d)
  PROVE  Passes(JobTxns(Queued(u), u), GivesDown(u, x), GivesInst(u, d),
                JobTxns(Queued(u)', u))
<1> DEFINE X == IF Takes(u, x, "INST") THEN <<x>> ELSE <<>>
           q == Queued(u)
           r == instq'[u]
<1>1. r = q \o X /\ inst_pop'[u] = d.acc /\ DatapathCan(u, d)
  BY DEF CuMoves
<1>2. /\ instq[u] \in Seq(Flit)
      /\ inst_pop[u] => in_flight[u] /\ instq[u] # <<>>
  BY FlitPlaces DEF PlacesOK, UnitPlaces
<1>3. q \in Seq(Flit)
  BY <1>2, JobsTail DEF Queued
<1>4. d.acc => ~in_flight[u] /\ instq[u] # <<>>
  BY <1>1 DEF DatapathCan, InstValid
<1>5. d.acc => q = instq[u] /\ q # <<>>
  BY <1>2, <1>4 DEF Queued
<1>6. Queued(u)' = IF d.acc THEN Tail(r) ELSE r
  BY <1>1 DEF Queued
<1> HIDE DEF q
<1>7. /\ r \in Seq(Flit)
      /\ d.acc => r # <<>> /\ Head(r) = Head(instq[u])
      /\ Passes(JobTxns(q, u), GivesDown(u, x), <<>>, JobTxns(r, u))
  <2>1. CASE Takes(u, x, "INST")
    <3>1. Accepted(u, x) /\ x \in Flit
      BY <2>1, TakenTxn DEF Takes
    <3>2. r = Append(q, x)
      BY <1>1, <1>3, <2>1, <3>1
    <3>3. GivesDown(u, x) = JobTxn(x, u)
      BY <3>1 DEF GivesDown
    <3>4. r \in Seq(Flit)
      BY <1>3, <3>1, <3>2, AppendProperties
    <3>5. d.acc => r # <<>> /\ Head(r) = Head(instq[u])
      <4>1. q # <<>> => Append(q, x) # <<>> /\ Head(Append(q, x)) = Head(q)
        BY <1>3, <3>1
      <4> QED
        BY <1>5, <3>2, <4>1
    <3> HIDE DEF r
    <3>6. Passes(JobTxns(q, u), JobTxn(x, u), <<>>, JobTxns(Append(q, x), u))
      BY <1>3, <3>1, PassQueue
    <3> QED
      BY <3>2, <3>3, <3>4, <3>5, <3>6
  <2>2. CASE ~Takes(u, x, "INST")
    <3>1. r = q
      BY <1>1, <1>3, <2>2, ConcatEmptySeq
    <3>2. GivesDown(u, x) = <<>>
      BY <2>2, TakenTxn DEF GivesDown
    <3> HIDE DEF r
    <3>3. Passes(JobTxns(q, u), <<>>, <<>>, JobTxns(q, u))
      BY <1>3, PassQueue
    <3> QED
      BY <1>3, <1>5, <3>1, <3>2, <3>3
  <2> QED
    BY <2>1, <2>2
<1> HIDE DEF r
<1>8. CASE d.acc
  <2>1. Passes(JobTxns(r, u), <<>>, JobTxn(Head(r), u), JobTxns(Tail(r), u))
    BY <1>7, <1>8, PassQueue
  <2>2. GivesInst(u, d) = JobTxn(Head(r), u)
    BY <1>7, <1>8 DEF GivesInst
  <2>3. Passes(JobTxns(q, u), GivesDown(u, x), JobTxn(Head(r), u), JobTxns(Tail(r), u))
    BY <1>7, <2>1, PassBoth
  <2> QED
    BY <1>6, <1>8, <2>2, <2>3 DEF q
<1>9. CASE ~d.acc
  <2>1. GivesInst(u, d) = <<>>
    BY <1>9 DEF GivesInst
  <2> QED
    BY <1>6, <1>7, <1>9, <2>1 DEF q
<1> QED
  BY <1>8, <1>9

(* The mesh gives what the unit accepts.                                   *)
LEMMA DownPasses ==
  ASSUME TypeOK, NEW u \in Unit, NEW x, NEW d, CuMoves(u, x, d)
  PROVE  Passes(JobTxns(down[u], u), <<>>, GivesDown(u, x), JobTxns(down'[u], u))
<1>1. down'[u] = IF Accepted(u, x) THEN Tail(down[u]) ELSE down[u]
  BY DEF CuMoves
<1>2. down[u] \in Seq(Flit)
  BY FlitPlaces
<1>3. Accepted(u, x) => down[u] # <<>> /\ x = Head(down[u])
  BY TakenTxn
<1> QED
  BY <1>1, <1>2, <1>3, PassQueue DEF GivesDown

(* What the agent holds for a unit.                                        *)
LEMMA AgentTxns ==
  ASSUME TypeOK, HostOK, DispOK, NEW u
  PROVE  /\ JobTxn(orc_out, u) \in Seq(Nat) /\ JobTxns(tx, u) \in Seq(Nat)
         /\ Pushing(u) \in Seq(Nat) /\ Unsent(u) \in Seq(Nat)
<1>1. orc_out \in Flit /\ tx \in Seq(Flit)
  BY DEF TypeOK, OrcTypeOK
<1>2. <<>> \in Seq(Nat)
  OBVIOUS
<1>3. Pushing(u) \in Seq(Nat)
  <2>1. disp_push => DispFlit \in Flit
    BY PushedFlit DEF AllOutward
  <2> QED
    BY <1>2, <2>1, TxnType DEF Pushing
<1>4. Unsent(u) \in Seq(Nat)
  <2>1. prog_rd \in Nat /\ prog_left \in Nat
    BY OrcAssumption DEF TypeOK, OrcTypeOK
  <2>2. prog_run => prog_rd + prog_left <= STAGE_FLITS
    BY DEF DispOK
  <2> QED
    BY <1>2, <2>1, <2>2, StagedType DEF Unsent
<1> QED
  BY <1>1, <1>3, <1>4, TxnType, JobParts

(* A clock edge of a unit neither loses a job, nor makes or reorders one.  *)
LEMMA CuKeepsJobs ==
  ASSUME TypeOK, PlacesOK, HostOK, DispOK, NEW u \in Unit, NEW x,
         NEW d \in Datapath, CuMoves(u, x, d), OthersStay
  PROVE  Unreported(u)' = Unreported(u)
<1> DEFINE a == JobTxns(up[u], u)
           b == JobTxn(cu_out[u], u)
           c == JobTxns(sigq[u], u)
           e == JobTxns(Queued(u), u)
           f == JobTxns(down[u], u)
           A == JobTxns(up'[u], u)
           B == JobTxn(cu_out'[u], u)
           C == JobTxns(sigq'[u], u)
           E == JobTxns(Queued(u)', u)
           F == JobTxns(down'[u], u)
           g == JobTxn(orc_out, u)
           h == JobTxns(tx, u)
           i == Pushing(u)
           j == Unsent(u)
<1>1. /\ Passes(a, GivesOut(u), <<>>, A)
      /\ Passes(b, GivesSig(u), GivesOut(u), B)
      /\ Passes(c, GivesRep(u, d), GivesSig(u), C)
      /\ Passes(Flying(u), GivesInst(u, d), GivesRep(u, d), Flying(u)')
      /\ Passes(e, GivesDown(u, x), GivesInst(u, d), E)
      /\ Passes(f, <<>>, GivesDown(u, x), F)
  BY UpPasses, OutPasses, SigPasses, RepPasses, InstPasses, DownPasses
<1>2. /\ Passes(g, <<>>, <<>>, g) /\ Passes(h, <<>>, <<>>, h)
      /\ Passes(i, <<>>, <<>>, i) /\ Passes(j, <<>>, <<>>, j)
  BY AgentTxns, PassStays
<1>3. /\ orc_out' = orc_out /\ tx' = tx
      /\ Pushing(u)' = Pushing(u) /\ Unsent(u)' = Unsent(u)
  BY DEF OthersStay, Pushing, DispFlit, Unsent
<1>4. /\ Unreported(u) = Places(a, b, c, Flying(u), e, f, g, h, i, j)
      /\ Unreported(u)' = Places(A, B, C, Flying(u)', E, F, g, h, i, j)
  BY <1>3, JobsPlaces
<1> HIDE DEF a, b, c, e, f, g, h, i, j, A, B, C, E, F
<1>5. Passes(AtUnit(a, b, c, Flying(u), e), GivesDown(u, x), <<>>,
             AtUnit(A, B, C, Flying(u)', E))
  BY <1>1, PassUnit, Zenon
<1>6. Passes(Unreported(u), <<>>, <<>>, Unreported(u)')
  BY <1>1, <1>2, <1>4, <1>5, PassPlaces, Zenon
<1> PICK p : p = Unreported(u)
  OBVIOUS
<1> PICK q : q = Unreported(u)'
  OBVIOUS
<1>7. Passes(p, <<>>, <<>>, q)
  BY <1>6
<1>8. p \in Seq(Nat) /\ q \in Seq(Nat) /\ Cat(p, <<>>) = Cat(<<>>, q)
  BY <1>7 DEF Passes
<1>9. Cat(p, <<>>) = p /\ Cat(<<>>, q) = q
  BY <1>8, CatType
<1> QED
  BY <1>8, <1>9
-----------------------------------------------------------------------------
(***************************************************************************)
(* A clock edge of the agent: it may take one report, and the dispatcher   *)
(* may take one program.                                                   *)
(***************************************************************************)
(* What the agent takes of v, hands on towards v, and launches at v.       *)
Brought(v, x) == IF Absorbs(x) THEN JobTxn(x, v) ELSE <<>>
GivesWire(v)  == IF OrcSends(DownBusy) THEN JobTxn(orc_out, v) ELSE <<>>
GivesTx(v)    == IF TxPop(DownBusy) THEN JobTxn(Head(tx), v) ELSE <<>>
GivesStaged(v) == IF Pushed /\ prog_dst = v THEN FirstTxn(prog_rd) ELSE <<>>
Launched(v) == IF Kicked /\ job.dst = v THEN InstTxns(job.base, job.len) ELSE <<>>

(* The agent takes a report from the head of a return link.                *)
LEMMA UpBrings ==
  ASSUME TypeOK, NEW v \in Unit, NEW x, LinkMoves(x, v)
  PROVE  Passes(JobTxns(up[v], v), <<>>, Brought(v, x), JobTxns(up'[v], v))
<1>1. /\ up'[v] = IF Absorbs(x) /\ x.peer = v THEN Tail(up[v]) ELSE up[v]
      /\ Absorbs(x) /\ x.peer = v => up[v] # <<>> /\ x = Head(up[v])
  BY DEF LinkMoves
<1>2. up[v] \in Seq(Flit)
  BY FlitPlaces
<1>3. x.peer # v => JobTxn(x, v) = <<>>
  BY DEF JobTxn
<1>4. CASE Absorbs(x) /\ x.peer = v
  BY <1>1, <1>2, <1>4, PassQueue DEF Brought
<1>5. CASE ~(Absorbs(x) /\ x.peer = v)
  <2>1. Brought(v, x) = <<>>
    BY <1>3, <1>5 DEF Brought
  <2> QED
    BY <1>1, <1>2, <1>5, <2>1, PassQueue
<1> QED
  BY <1>4, <1>5

(* The mesh takes what the output register sends.                          *)
LEMMA DownTakes ==
  ASSUME TypeOK, NEW v \in Unit, NEW x, LinkMoves(x, v)
  PROVE  Passes(JobTxns(down[v], v), GivesWire(v), <<>>, JobTxns(down'[v], v))
<1>1. down'[v] = IF OrcSends(DownBusy) /\ orc_out.peer = v
                 THEN Append(down[v], orc_out) ELSE down[v]
  BY DEF LinkMoves
<1>2. down[v] \in Seq(Flit) /\ orc_out \in Flit
  BY FlitPlaces
<1>3. orc_out.peer # v => JobTxn(orc_out, v) = <<>>
  BY DEF JobTxn
<1>4. CASE OrcSends(DownBusy) /\ orc_out.peer = v
  BY <1>1, <1>2, <1>4, PassQueue DEF GivesWire
<1>5. CASE ~(OrcSends(DownBusy) /\ orc_out.peer = v)
  <2>1. GivesWire(v) = <<>>
    BY <1>3, <1>5 DEF GivesWire
  <2> QED
    BY <1>1, <1>2, <1>5, <2>1, PassQueue
<1> QED
  BY <1>4, <1>5

(* The output register takes the head of the transmit FIFO.                *)
LEMMA WirePasses ==
  ASSUME TypeOK, PlacesOK, NEW v \in Unit, NEW x, OrcMoves(x)
  PROVE  Passes(JobTxn(orc_out, v), GivesTx(v), GivesWire(v), JobTxn(orc_out', v))
<1>1. orc_out' = IF TxPop(DownBusy) THEN Head(tx)
                 ELSE IF DownBusy THEN orc_out ELSE NoFlit
  BY DEF OrcMoves
<1>2. orc_out \in Flit /\ tx \in Seq(Flit)
  BY FlitPlaces
<1>3. JobTxn(orc_out, v) \in Seq(Nat) /\ <<>> \in Seq(Nat) /\ JobTxn(NoFlit, v) = <<>>
  BY <1>2, TxnType
<1>4. ~IsFlit(orc_out) => JobTxn(orc_out, v) = <<>>
  BY KindOf DEF IsFlit, JobTxn
<1>5. CASE TxPop(DownBusy)
  <2>1. GivesWire(v) = JobTxn(orc_out, v)
    BY <1>4, <1>5 DEF TxPop, GivesWire, OrcSends
  <2>2. GivesTx(v) = JobTxn(orc_out', v)
    BY <1>1, <1>5 DEF GivesTx
  <2>3. Head(tx) \in Flit
    BY <1>2, <1>5, JobsTail DEF TxPop
  <2>4. GivesTx(v) \in Seq(Nat)
    BY <1>3, <2>3, TxnType DEF GivesTx
  <2> QED
    BY <1>3, <2>1, <2>2, <2>4, PassReplaced
<1>6. CASE ~TxPop(DownBusy) /\ DownBusy
  <2>1. orc_out' = orc_out /\ GivesTx(v) = <<>> /\ GivesWire(v) = <<>>
    BY <1>1, <1>6 DEF GivesTx, GivesWire, OrcSends
  <2> QED
    BY <1>3, <2>1, PassStays
<1>7. CASE ~TxPop(DownBusy) /\ ~DownBusy
  <2>1. orc_out' = NoFlit /\ GivesTx(v) = <<>>
    BY <1>1, <1>7 DEF GivesTx
  <2>2. GivesWire(v) = JobTxn(orc_out, v)
    BY <1>4, <1>7 DEF GivesWire, OrcSends
  <2> QED
    BY <1>3, <2>1, <2>2, PassReplaced
<1> QED
  BY <1>5, <1>6, <1>7

(* The transmit FIFO takes what the dispatcher pushes; a CU_CTRL read is   *)
(* no job.                                                                 *)
LEMMA TxPasses ==
  ASSUME TypeOK, PlacesOK, HostOK, DispOK, NEW v \in Unit, NEW x, OrcMoves(x)
  PROVE  Passes(JobTxns(tx, v), Pushing(v), GivesTx(v), JobTxns(tx', v))
<1>1. tx' = IF disp_push THEN Append(Popped, DispFlit)
            ELSE IF MailPushed THEN Append(Popped, tx_stage)
            ELSE Popped
  BY DEF OrcMoves
<1>2. tx \in Seq(Flit) /\ (TxPop(DownBusy) => tx # <<>>)
  BY FlitPlaces DEF TxPop
<1>3. Passes(JobTxns(tx, v), <<>>, GivesTx(v), JobTxns(Popped, v))
  BY <1>2, PassQueue DEF Popped, GivesTx
<1>4. Popped \in Seq(Flit)
  BY <1>2, JobsTail DEF Popped
<1>5. Passes(JobTxns(Popped, v), Pushing(v), <<>>, JobTxns(tx', v))
  <2>1. CASE disp_push
    <3>1. DispFlit \in Flit
      BY <2>1, PushedFlit DEF AllOutward
    <3> QED
      BY <1>1, <1>4, <2>1, <3>1, PassQueue DEF Pushing
  <2>2. CASE ~disp_push /\ MailPushed
    <3>1. tx_stage \in Flit
      BY DEF TypeOK, OrcTypeOK
    <3>2. tx_stage.type = "CTRL"
      BY <2>2 DEF MailPushed, HostOK, ValuesOK, CtrlRead
    <3>3. JobTxn(tx_stage, v) = <<>>
      BY <3>2, KindOf DEF JobTxn
    <3>4. Passes(JobTxns(Popped, v), JobTxn(tx_stage, v), <<>>,
                 JobTxns(Append(Popped, tx_stage), v))
      BY <1>4, <3>1, PassQueue
    <3> QED
      BY <1>1, <2>2, <3>3, <3>4 DEF Pushing
  <2>3. CASE ~disp_push /\ ~MailPushed
    BY <1>1, <1>4, <2>3, PassQueue DEF Pushing
  <2> QED
    BY <2>1, <2>2, <2>3
<1> QED
  BY <1>3, <1>5, PassTwice

(* A flit is pushed for one cycle, and another may be made meanwhile.      *)
LEMMA PushPasses ==
  ASSUME TypeOK, HostOK, DispOK, Kicked \/ Pushed \/ Rested, NEW v \in Unit
  PROVE  Passes(Pushing(v), GivesStaged(v), Pushing(v), Pushing(v)')
<1>1. Pushing(v) \in Seq(Nat) /\ <<>> \in Seq(Nat)
  BY AgentTxns
<1>2. CASE Pushed
  <2>1. Pushing(v)' = GivesStaged(v)
    <3>1. disp_push' /\ prog_dst' = prog_dst
      BY <1>2 DEF Pushed
    <3>2. JobTxn(DispFlit', v) = IF prog_dst = v THEN FirstTxn(prog_rd) ELSE <<>>
      BY <1>2, PushedTxn
    <3>3. Pushing(v)' = JobTxn(DispFlit', v)
      BY <3>1 DEF Pushing
    <3> QED
      BY <1>2, <3>2, <3>3 DEF GivesStaged
  <2>2. GivesStaged(v) \in Seq(Nat)
    BY <1>1, <1>2, StagedRest, Zenon DEF GivesStaged
  <2> QED
    BY <1>1, <2>1, <2>2, PassReplaced
<1>3. CASE ~Pushed
  <2>1. Pushing(v)' = <<>> /\ GivesStaged(v) = <<>>
    BY <1>3 DEF Kicked, Rested, Pushing, GivesStaged
  <2> QED
    BY <1>1, <2>1, PassReplaced
<1> QED
  BY <1>2, <1>3

(* The dispatcher takes a program, or cuts the next flit of its own.       *)
LEMMA UnsentPasses ==
  ASSUME TypeOK, HostOK, DispOK, Kicked \/ Pushed \/ Rested, NEW v \in Unit
  PROVE  Passes(Unsent(v), Launched(v), GivesStaged(v), Unsent(v)')
<1>1. Unsent(v) \in Seq(Nat) /\ <<>> \in Seq(Nat)
  BY AgentTxns
<1>2. CASE Kicked
  <2>1. ~Pushed
    BY <1>2 DEF Kicked, Pushed
  <2>2. Unsent(v) = <<>> /\ GivesStaged(v) = <<>>
    BY <1>2, <2>1 DEF Kicked, Unsent, GivesStaged
  <2>3. Unsent(v)' = Launched(v)
    BY <1>2 DEF Kicked, Unsent, Launched
  <2>4. Launched(v) \in Seq(Nat)
    <3>1. job \in Kicks
      BY <1>2 DEF Kicked
    <3> QED
      BY <1>1, <3>1, KickBounds, StagedType DEF Launched
  <2> QED
    BY <1>1, <2>2, <2>3, <2>4, PassReplaced
<1>3. CASE Pushed
  <2>1. Launched(v) = <<>>
    BY <1>3 DEF Kicked, Pushed, Launched
  <2>2. CASE prog_dst = v
    <3>1. /\ FirstTxn(prog_rd) \in Seq(Nat) /\ Unsent(v)' \in Seq(Nat)
          /\ Unsent(v) = Cat(FirstTxn(prog_rd), Unsent(v)')
      BY <1>3, <2>2, StagedRest
    <3>2. GivesStaged(v) = FirstTxn(prog_rd)
      BY <1>3, <2>2 DEF GivesStaged
    <3>3. Cat(Unsent(v), <<>>) = Unsent(v)
      BY <1>1, CatType
    <3> QED
      BY <1>1, <2>1, <3>1, <3>2, <3>3, Zenon DEF Passes
  <2>3. CASE prog_dst # v
    <3>1. Unsent(v) = <<>> /\ Unsent(v)' = <<>> /\ GivesStaged(v) = <<>>
      BY <1>3, <2>3 DEF Unsent, Pushed, GivesStaged
    <3> QED
      BY <1>1, <2>1, <3>1, PassStays
  <2> QED
    BY <2>2, <2>3
<1>4. CASE Rested
  <2>1. ~Kicked /\ ~Pushed
    BY <1>4 DEF Rested, Kicked, Pushed
  <2>2. Launched(v) = <<>> /\ GivesStaged(v) = <<>>
    BY <2>1 DEF Launched, GivesStaged
  <2>3. Unsent(v)' = Unsent(v)
    BY <1>4 DEF Rested, Unsent
  <2> QED
    BY <1>1, <2>2, <2>3, PassStays
<1> QED
  BY <1>2, <1>3, <1>4

(* What a unit holds of its jobs.                                          *)
LEMMA UnitTxns ==
  ASSUME TypeOK, PlacesOK, NEW u \in Unit
  PROVE  /\ JobTxn(cu_out[u], u) \in Seq(Nat) /\ JobTxns(sigq[u], u) \in Seq(Nat)
         /\ Flying(u) \in Seq(Nat) /\ JobTxns(Queued(u), u) \in Seq(Nat)
         /\ JobTxns(up[u], u) \in Seq(Nat) /\ JobTxns(down[u], u) \in Seq(Nat)
<1>1. Queued(u) \in Seq(Flit)
  <2>1. instq[u] \in Seq(Flit) /\ (inst_pop[u] => instq[u] # <<>>)
    BY FlitPlaces DEF PlacesOK, UnitPlaces
  <2> QED
    BY <2>1, JobsTail DEF Queued
<1>2. Flying(u) \in Seq(Nat)
  <2>1. rep[u].txn \in Nat
    BY FlitPlaces
  <2> QED
    BY <2>1 DEF Flying
<1> QED
  BY <1>1, <1>2, FlitPlaces, TxnType, JobParts

(* What the agent takes is a sequence of at most one job.                  *)
LEMMA BroughtType ==
  ASSUME TypeOK, NEW x, OrcMoves(x), NEW v \in Unit
  PROVE  Brought(v, x) \in Seq(Nat)
<1>1. x \in Flit
  BY FlitTypes DEF OrcMoves
<1> QED
  BY <1>1, TxnType DEF Brought

(* What is launched is the instructions of a program.                      *)
LEMMA LaunchedType ==
  ASSUME NEW v
  PROVE  Launched(v) \in Seq(Nat)
<1>1. Kicked => job \in Kicks
  BY DEF Kicked
<1>2. Kicked => InstTxns(job.base, job.len) \in Seq(Nat)
  BY <1>1, KickBounds, StagedType
<1>3. <<>> \in Seq(Nat)
  OBVIOUS
<1> QED
  BY <1>2, <1>3 DEF Launched

(* What the agent takes from a unit is the first of its jobs, and what the *)
(* dispatcher launches comes after all of them.                            *)
LEMMA OrcPassesJobs ==
  ASSUME TypeOK, PlacesOK, HostOK, DispOK, NEW x, OrcMoves(x),
         Kicked \/ Pushed \/ Rested, NEW v \in Unit
  PROVE  \E Y \in Seq(Nat) : /\ Unreported(v) = Cat(Brought(v, x), Y)
                             /\ Unreported(v)' = Cat(Y, Launched(v))
<1> DEFINE a == JobTxns(up[v], v)
           b == JobTxn(cu_out[v], v)
           c == JobTxns(sigq[v], v)
           d == Flying(v)
           e == JobTxns(Queued(v), v)
           f == JobTxns(down[v], v)
           g == JobTxn(orc_out, v)
           h == JobTxns(tx, v)
           i == Pushing(v)
           j == Unsent(v)
           A == JobTxns(up'[v], v)
           F == JobTxns(down'[v], v)
           G == JobTxn(orc_out', v)
           H == JobTxns(tx', v)
           Y == Places(A, b, c, d, e, f, g, h, i, j)
<1>1. LinkMoves(x, v) /\ UnitStays(v)
  BY DEF OrcMoves, LinkMoves
<1>2. /\ Passes(a, <<>>, Brought(v, x), A)
      /\ Passes(f, GivesWire(v), <<>>, F)
      /\ Passes(g, GivesTx(v), GivesWire(v), G)
      /\ Passes(h, Pushing(v), GivesTx(v), H)
      /\ Passes(i, GivesStaged(v), Pushing(v), Pushing(v)')
      /\ Passes(j, Launched(v), GivesStaged(v), Unsent(v)')
  BY <1>1, UpBrings, DownTakes, WirePasses, TxPasses, PushPasses, UnsentPasses
<1>3. /\ b \in Seq(Nat) /\ c \in Seq(Nat) /\ d \in Seq(Nat) /\ e \in Seq(Nat)
      /\ f \in Seq(Nat) /\ g \in Seq(Nat) /\ h \in Seq(Nat) /\ i \in Seq(Nat)
      /\ j \in Seq(Nat)
  BY UnitTxns, AgentTxns
<1>4. A \in Seq(Nat)
  BY <1>2 DEF Passes
<1>5. /\ cu_out'[v] = cu_out[v] /\ sigq'[v] = sigq[v] /\ Queued(v)' = Queued(v)
      /\ Flying(v)' = Flying(v)
  BY <1>1 DEF UnitStays, Queued, Flying
<1>6. /\ Unreported(v) = Places(a, b, c, d, e, f, g, h, i, j)
      /\ Unreported(v)' = Places(A, b, c, d, e, F, G, H, Pushing(v)', Unsent(v)')
  BY <1>5, JobsPlaces
<1> HIDE DEF a, b, c, d, e, f, g, h, i, j, A, F, G, H
<1>7. /\ Passes(b, <<>>, <<>>, b) /\ Passes(c, <<>>, <<>>, c)
      /\ Passes(d, <<>>, <<>>, d) /\ Passes(e, <<>>, <<>>, e)
      /\ Passes(f, <<>>, <<>>, f) /\ Passes(g, <<>>, <<>>, g)
      /\ Passes(h, <<>>, <<>>, h) /\ Passes(i, <<>>, <<>>, i)
      /\ Passes(j, <<>>, <<>>, j) /\ Passes(A, <<>>, <<>>, A)
  BY <1>3, <1>4, PassStays
<1>8. Passes(Unreported(v), <<>>, Brought(v, x), Y)
  <2>1. Passes(AtUnit(a, b, c, d, e), <<>>, Brought(v, x), AtUnit(A, b, c, d, e))
    BY <1>2, <1>7, PassUnit, Zenon
  <2> QED
    BY <1>6, <1>7, <2>1, PassPlaces, Zenon
<1>9. Passes(Y, Launched(v), <<>>, Unreported(v)')
  <2>1. Passes(AtUnit(A, b, c, d, e), <<>>, <<>>, AtUnit(A, b, c, d, e))
    BY <1>7, PassUnit, Zenon
  <2>2. Passes(Places(A, b, c, d, e, f, g, h, i, j), Launched(v), <<>>,
               Places(A, b, c, d, e, F, G, H, Pushing(v)', Unsent(v)'))
    <3> HIDE DEF Y
    <3> PICK I : I = Pushing(v)'
      OBVIOUS
    <3> PICK J : J = Unsent(v)'
      OBVIOUS
    <3> PICK k : k = Pushing(v)
      OBVIOUS
    <3>1. /\ Passes(h, k, GivesTx(v), H) /\ Passes(i, GivesStaged(v), k, I)
          /\ Passes(j, Launched(v), GivesStaged(v), J)
          /\ Passes(f, GivesWire(v), <<>>, F)
          /\ Passes(g, GivesTx(v), GivesWire(v), G)
      BY <1>2
    <3>2. Passes(Places(A, b, c, d, e, f, g, h, i, j), Launched(v), <<>>,
                 Places(A, b, c, d, e, F, G, H, I, J))
      BY <2>1, <3>1, PassPlaces, Zenon
    <3> QED
      BY <3>2
  <2> QED
    BY <1>6, <2>2
<1> HIDE DEF Y
<1>10. Y \in Seq(Nat) /\ Unreported(v) = Cat(Brought(v, x), Y)
  <2> PICK p : p = Unreported(v)
    OBVIOUS
  <2>1. Passes(p, <<>>, Brought(v, x), Y)
    BY <1>8
  <2>2. p \in Seq(Nat) /\ Y \in Seq(Nat) /\ Cat(p, <<>>) = Cat(Brought(v, x), Y)
    BY <2>1 DEF Passes
  <2>3. Cat(p, <<>>) = p
    BY <2>2, CatType
  <2> QED
    BY <2>2, <2>3
<1>11. Unreported(v)' = Cat(Y, Launched(v))
  <2> PICK q : q = Unreported(v)'
    OBVIOUS
  <2>1. Passes(Y, Launched(v), <<>>, q)
    BY <1>9
  <2>2. q \in Seq(Nat) /\ Cat(Y, Launched(v)) = Cat(<<>>, q)
    BY <2>1 DEF Passes
  <2>3. Cat(<<>>, q) = q
    BY <2>2, CatType
  <2> QED
    BY <2>2, <2>3
<1> QED
  BY <1>10, <1>11
-----------------------------------------------------------------------------
(* The agent takes a report.                                               *)
Reports(x) == Absorbs(x) /\ Kind(x) = "job"

(* What an edge of the agent does to a unit's pending jobs.                *)
LEMMA OrcPending ==
  ASSUME TypeOK, PlacesOK, HostOK, DispOK, NEW x, OrcMoves(x),
         Kicked \/ Pushed \/ Rested, NEW v \in Unit
  PROVE  /\ Reports(x) /\ x.peer = v => /\ Unreported(v) # <<>>
                                        /\ Unreported(v)' = Tail(Unreported(v)) \o Launched(v)
         /\ ~(Reports(x) /\ x.peer = v) => Unreported(v)' = Unreported(v) \o Launched(v)
<1>1. PICK Y \in Seq(Nat) : /\ Unreported(v) = Cat(Brought(v, x), Y)
                            /\ Unreported(v)' = Cat(Y, Launched(v))
  BY OrcPassesJobs
<1>2. Brought(v, x) = IF Reports(x) /\ x.peer = v THEN <<x.txn>> ELSE <<>>
  BY DEF Brought, Reports, JobTxn
<1>3. ASSUME Reports(x), x.peer = v
      PROVE  /\ Unreported(v) # <<>>
             /\ Unreported(v)' = Tail(Unreported(v)) \o Launched(v)
  <2>1. Brought(v, x) = <<x.txn>>
    BY <1>2, <1>3
  <2>2. x.txn \in Nat
    <3>1. x \in Flit
      BY FlitTypes DEF OrcMoves
    <3> QED
      BY <3>1 DEF Flit
  <2>3. <<x.txn>> \o Y # <<>> /\ Tail(<<x.txn>> \o Y) = Y
    BY <2>2
  <2> QED
    BY <1>1, <2>1, <2>3, Zenon DEF Cat
<1>4. ASSUME ~(Reports(x) /\ x.peer = v)
      PROVE  Unreported(v)' = Unreported(v) \o Launched(v)
  <2>1. Brought(v, x) = <<>>
    BY <1>2, <1>4
  <2>2. Cat(<<>>, Y) = Y
    BY CatType
  <2> QED
    BY <1>1, <2>1, <2>2, Zenon DEF Cat
<1> QED
  BY <1>3, <1>4

(* An edge of the agent is a step of Jobs: a report of one unit, a program *)
(* for one, both, or neither.                                              *)
LEMMA OrcJobs ==
  ASSUME DInv, OrcStep
  PROVE  Abstract!JNext
<1>1. TypeOK /\ PlacesOK /\ HostOK /\ DispOK /\ CreditCovers
  BY DEF DInv
<1>2. PICK w \in Write : \E x \in Presented(up) : OrcEdgeOf(w, x) /\ HostMoves(w)
  BY <1>1, OrcCases DEF HostOK
<1>3. PICK x \in Presented(up) : OrcEdgeOf(w, x) /\ HostMoves(w)
  BY <1>2
<1>4. WriteFsm(w) /\ Dispatcher(x)
  BY <1>3 DEF OrcEdgeOf, OrcClock
<1>5. OrcMoves(x)
  BY <1>1, <1>3, OrcTypes
<1>6. Kicked \/ Pushed \/ Rested
  BY <1>1, <1>3, <1>4, <1>5, DispCases
<1> DEFINE u == x.peer
           k == job.dst
           p == InstTxns(job.base, job.len)
<1>7. Reports(x) => u \in Unit
  <2>1. ~Absorbs(NoFlit)
    BY DEF Absorbs, IsFlit, NoFlit
  <2> QED
    BY <1>5, <2>1 DEF OrcMoves, Reports
<1>8. Kicked => k \in Unit /\ p \in Programs
  <2>1. Kicked => job \in Kicks
    BY DEF Kicked
  <2> QED
    BY <2>1, KickBounds DEF Programs
<1>9. ASSUME NEW v \in Unit
      PROVE  /\ Reports(x) /\ u = v =>
                  Pending[v] # <<>> /\ Pending'[v] = Tail(Pending[v]) \o Launched(v)
             /\ ~(Reports(x) /\ u = v) => Pending'[v] = Pending[v] \o Launched(v)
             /\ Pending[v] \o <<>> = Pending[v]
             /\ Reports(x) /\ u = v => Tail(Pending[v]) \o <<>> = Tail(Pending[v])
  <2>1. Pending[v] = Unreported(v) /\ Pending'[v] = Unreported(v)'
    BY DEF Pending
  <2>2. Unreported(v) \in Seq(Nat)
    <3>1. PICK Y \in Seq(Nat) : Unreported(v) = Cat(Brought(v, x), Y)
      BY <1>1, <1>5, <1>6, OrcPassesJobs
    <3>2. Brought(v, x) \in Seq(Nat)
      BY <1>1, <1>5, BroughtType
    <3> QED
      BY <3>1, <3>2, CatType
  <2>3. Unreported(v) # <<>> => Tail(Unreported(v)) \in Seq(Nat)
    BY <2>2, HeadTailProperties
  <2> QED
    BY <1>1, <1>5, <1>6, <2>1, <2>2, <2>3, OrcPending, ConcatEmptySeq
<1>10. \A v \in Unit : Launched(v) = IF Kicked /\ k = v THEN p ELSE <<>>
  BY DEF Launched
<1>11. /\ Pending = [v \in Unit |-> Pending[v]]
       /\ Pending' = [v \in Unit |-> Pending'[v]]
  BY DEF Pending
<1> PICK P : P = Pending
  OBVIOUS
<1> PICK Q : Q = Pending'
  OBVIOUS
<1> HIDE DEF u, k, p
<1>12. CASE Reports(x) /\ Kicked
  <2>1. Pending[u] # <<>>
    BY <1>7, <1>9, <1>12
  <2>2. Q = [[P EXCEPT ![u] = Tail(@)] EXCEPT ![k] = @ \o p]
    <3>1. \A v \in Unit : Q[v] = (IF v = u THEN Tail(P[v]) ELSE P[v])
                                   \o (IF k = v THEN p ELSE <<>>)
      BY <1>9, <1>10, <1>12
    <3>2. \A v \in Unit : P[v] \o <<>> = P[v] /\ (v = u => Tail(P[v]) \o <<>> = Tail(P[v]))
      BY <1>9, <1>12
    <3>3. \A v \in Unit : Q[v] = IF v = k THEN (IF v = u THEN Tail(P[v]) ELSE P[v]) \o p
                                 ELSE IF v = u THEN Tail(P[v]) ELSE P[v]
      BY <3>1, <3>2
    <3> QED
      BY <1>7, <1>8, <1>11, <1>12, <3>3
  <2>3. p \in Programs /\ Pending' = [[Pending EXCEPT ![u] = Tail(@)] EXCEPT ![k] = @ \o p]
    BY <1>8, <1>12, <2>2
  <2>4. Abstract!ReportAndKick(u, k)
    BY <2>1, <2>3, Zenon DEF Abstract!ReportAndKick
  <2> QED
    BY <1>7, <1>8, <1>12, <2>4, Zenon DEF Abstract!JNext
<1>13. CASE Reports(x) /\ ~Kicked
  <2>1. Pending[u] # <<>>
    BY <1>7, <1>9, <1>13
  <2>2. Q = [P EXCEPT ![u] = Tail(@)]
    <3>1. \A v \in Unit : Q[v] = IF v = u THEN Tail(P[v]) ELSE P[v]
      BY <1>9, <1>10, <1>13
    <3> QED
      BY <1>7, <1>11, <1>13, <3>1
  <2>3. Abstract!Report(u)
    BY <2>1, <2>2 DEF Abstract!Report
  <2> QED
    BY <1>7, <1>13, <2>3 DEF Abstract!JNext
<1>14. CASE ~Reports(x) /\ Kicked
  <2>1. Q = [P EXCEPT ![k] = @ \o p]
    <3>1. \A v \in Unit : Q[v] = IF v = k THEN P[v] \o p ELSE P[v]
      BY <1>9, <1>10, <1>14
    <3> QED
      BY <1>8, <1>11, <1>14, <3>1
  <2> QED
    BY <1>8, <1>14, <2>1 DEF Abstract!JNext, Abstract!Kick
<1>15. CASE ~Reports(x) /\ ~Kicked
  <2>1. \A v \in Unit : Q[v] = P[v]
    BY <1>9, <1>10, <1>15
  <2>2. Q = P
    BY <1>11, <2>1
  <2> QED
    BY <2>2 DEF Abstract!JNext, Abstract!Rest
<1> QED
  BY <1>12, <1>13, <1>14, <1>15

(* An edge of a unit leaves every unit's pending jobs as they were.        *)
LEMMA CuJobs ==
  ASSUME DInv, NEW u \in Unit, CuStep(u)
  PROVE  Abstract!JNext
<1>1. TypeOK /\ PlacesOK /\ HostOK /\ DispOK
  BY DEF DInv
<1>2. PICK x \in Arriving(u) : \E d \in Datapath : CuEdge(u, x, d)
  BY DEF CuStep
<1>3. PICK d \in Datapath : CuEdge(u, x, d)
  BY <1>2
<1>4. CuMoves(u, x, d) /\ (\A v \in Unit \ {u} : SameUnit(v)) /\ OthersStay
  BY <1>1, <1>3, CuPoint, CuOthers
<1>5. Unreported(u)' = Unreported(u)
  BY <1>1, <1>4, CuKeepsJobs
<1>6. ASSUME NEW v \in Unit \ {u} PROVE Unreported(v)' = Unreported(v)
  <2>1. SameUnit(v)
    BY <1>4
  <2>2. /\ up'[v] = up[v] /\ cu_out'[v] = cu_out[v] /\ sigq'[v] = sigq[v]
        /\ down'[v] = down[v] /\ Queued(v)' = Queued(v) /\ Flying(v)' = Flying(v)
    BY <2>1 DEF SameUnit, Queued, Flying
  <2>3. /\ orc_out' = orc_out /\ tx' = tx
        /\ Pushing(v)' = Pushing(v) /\ Unsent(v)' = Unsent(v)
    BY <1>4 DEF OthersStay, Pushing, DispFlit, Unsent
  <2> QED
    BY <2>2, <2>3, JobsPlaces
<1>7. \A v \in Unit : Unreported(v)' = Unreported(v)
  BY <1>5, <1>6
<1>8. Pending' = Pending
  BY <1>7 DEF Pending
<1> QED
  BY <1>8 DEF Abstract!JNext, Abstract!Rest

(* A step of the host is none of the jobs' business.                       *)
LEMMA HostJobs ==
  ASSUME OnlyHost
  PROVE  Abstract!JNext
<1>1. /\ up' = up /\ cu_out' = cu_out /\ sigq' = sigq /\ down' = down
      /\ instq' = instq /\ inst_pop' = inst_pop /\ in_flight' = in_flight
      /\ rep' = rep /\ orc_out' = orc_out /\ tx' = tx
      /\ disp_push' = disp_push /\ prog_flit' = prog_flit /\ prog_dst' = prog_dst
      /\ prog_run' = prog_run /\ prog_rd' = prog_rd /\ prog_left' = prog_left
  BY DEF OnlyHost, orcVars, hostRegs, dispRegs, cuVars, netVars
<1>2. ASSUME NEW v \in Unit PROVE Unreported(v)' = Unreported(v)
  <2>1. /\ Queued(v)' = Queued(v) /\ Flying(v)' = Flying(v)
        /\ Pushing(v)' = Pushing(v) /\ Unsent(v)' = Unsent(v)
    BY <1>1 DEF Queued, Flying, Pushing, DispFlit, Unsent
  <2> QED
    BY <1>1, <2>1, JobsPlaces
<1>3. Pending' = Pending
  BY <1>2 DEF Pending
<1> QED
  BY <1>3 DEF Abstract!JNext, Abstract!Rest

(* At first nothing is pending.                                            *)
LEMMA InitJobs == Init => Abstract!JInit
<1> SUFFICES ASSUME Init PROVE Abstract!JInit
  OBVIOUS
<1>1. TypeOK
  BY InitInv DEF DInv
<1>2. ASSUME NEW v \in Unit PROVE Unreported(v) = <<>>
  <2>1. /\ up[v] = <<>> /\ cu_out[v] = NoFlit /\ sigq[v] = <<>> /\ ~in_flight[v]
        /\ instq[v] = <<>> /\ ~inst_pop[v] /\ down[v] = <<>>
        /\ orc_out = NoFlit /\ tx = <<>> /\ ~disp_push /\ ~prog_run
    BY DEF Init, CuInit, OrcInit
  <2>2. <<>> \in Seq(Flit) /\ DOMAIN <<>> = {}
    OBVIOUS
  <2>3. JobTxns(<<>>, v) = <<>>
    BY <2>2, JobsNone
  <2>4. JobTxn(NoFlit, v) = <<>>
    BY KindOf DEF JobTxn, NoFlit
  <2>5. Queued(v) = <<>> /\ Flying(v) = <<>> /\ Pushing(v) = <<>> /\ Unsent(v) = <<>>
    BY <2>1 DEF Queued, Flying, Pushing, Unsent
  <2>6. Cat(<<>>, <<>>) = <<>>
    <3>1. <<>> \in Seq(Nat)
      OBVIOUS
    <3> QED
      BY <3>1, CatType
  <2>7. Places(<<>>, <<>>, <<>>, <<>>, <<>>, <<>>, <<>>, <<>>, <<>>, <<>>) = <<>>
    BY <2>6, Zenon DEF Places, AtUnit
  <2> QED
    BY <2>1, <2>3, <2>4, <2>5, <2>7, JobsPlaces
<1>3. Pending = [v \in Unit |-> <<>>]
  BY <1>2 DEF Pending
<1> QED
  BY <1>3 DEF Abstract!JInit

(* The instructions kicked at a unit and not yet reported form a queue, in *)
(* program order: a kick extends it behind, a report takes the first, and  *)
(* nothing else touches it, for every set of units, every program, every   *)
(* depth of the queues and every timing of the clocks.                     *)
THEOREM DispatchIsJobs == Spec => ImplementsJobs
<1>1. Init => Abstract!JInit
  BY InitJobs
<1>2. DInv /\ [Next]_vars => Abstract!JNext
  <2> SUFFICES ASSUME DInv, [Next]_vars PROVE Abstract!JNext
    OBVIOUS
  <2>1. CASE HostWaits
    <3>1. OnlyHost
      BY <2>1 DEF HostWaits, PickKick, PickRead, GotReply, ReadTimesOut,
         StartWait, RoundDone, OnlyHost
    <3> QED
      BY <3>1, HostJobs
  <2>2. CASE OrcStep
    BY <2>2, OrcJobs
  <2>3. CASE \E u \in Unit : CuStep(u)
    BY <2>3, CuJobs
  <2>4. CASE UNCHANGED vars
    <3>1. OnlyHost
      BY <2>4 DEF vars, OnlyHost
    <3> QED
      BY <3>1, HostJobs
  <2> QED
    BY <2>1, <2>2, <2>3, <2>4 DEF Next
<1> QED
  BY <1>1, <1>2, Inductive, PTL DEF Spec, ImplementsJobs, Abstract!JSpec
=============================================================================
