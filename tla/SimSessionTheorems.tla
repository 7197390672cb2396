------------------------- MODULE SimSessionTheorems -------------------------
(***************************************************************************)
(* What holds of the warm simulator session for any number of processes,   *)
(* requests, counts and edits: one owner and one simulator at a time, and  *)
(* every request scored on its own answer.                                 *)
(***************************************************************************)
EXTENDS SimSession, FiniteSetTheorems, TLAPS

(***************************************************************************)
(* The circumstances.  A process is killed while its simulator has nothing *)
(* to do; the tools fail when they are run; and a lock that a dead process *)
(* left is reclaimed by one process, not by two that both have seen it.    *)
(***************************************************************************)
KilledAtRest == CrashAt \subseteq {"idle", "recreate"}
ToolsFail    == FailAt \subseteq {"compile", "elaborate", "open"}
OneReclaims  == CrashAt = {} \/ \A p, q, r \in Proc : p = q \/ q = r \/ r = p

(***************************************************************************)
(* The types.                                                              *)
(***************************************************************************)
Place == {"idle", "create", "sign", "examine", "unlink", "recreate", "build", "compile",
          "elaborate", "open", "ready", "write", "send", "wait", "read", "reopen",
          "rerelease", "close", "release"}

Lock     == [owner : Proc, signed : BOOLEAN]
Problem  == [by : Proc, no : Nat]
Request  == [problem : Problem, ncl : Count, src : Nat]
Options  == [ncl : Count]
Sources  == [ncl : Count, src : Nat]
Snapshot == [ncl : Count, src : Nat, at : Nat]

Result   == [problem : Problem \cup {Absent}, ncl : Count, src : Nat]

Simulator == [state : {"none", "idle", "busy", "hung", "exited"},
              has : Snapshot \cup {Absent}, todo : {<<>>, <<"ready">>, <<"run">>},
              with : Problem \cup {Absent}]

TypeOK ==
  /\ lockFile \in Lock \cup {Absent}
  /\ edits \in Nat
  /\ opts \in Options \cup {Absent}
  /\ stamp \in Snapshot \cup {Absent}
  /\ input \in Problem \cup {Absent}
  /\ answer \in Result \cup {Absent}
  /\ alive \in [Proc -> BOOLEAN]
  /\ pc \in [Proc -> Place]
  /\ ask \in [Proc -> Request \cup {Absent}]
  /\ holds \in [Proc -> BOOLEAN]
  /\ parsed \in [Proc -> Sources \cup {Absent}]
  /\ sim \in [Proc -> Simulator]
  /\ queue \in [Proc -> {<<>>, <<"sentinel">>, <<"end">>}]
  /\ asked \in [Proc -> Nat]
  /\ got \in [Proc -> Result \cup {Absent}]

(* What a process has at hand where it is.                                 *)
AtHand(p) ==
  /\ pc[p] \notin {"idle", "close", "release"} => ask[p] # Absent
  /\ pc[p] = "compile" => opts # Absent
  /\ pc[p] = "elaborate" => parsed[p] # Absent
  /\ pc[p] = "open" => stamp # Absent
  /\ sim[p].state # "none" => sim[p].has # Absent

(***************************************************************************)
(* The conversation of a process with its simulator, by where it is.       *)
(***************************************************************************)
Without == {"create", "sign", "examine", "unlink", "recreate", "build", "compile",
            "elaborate", "open", "rerelease", "release"}

Quiet(p) == sim[p].todo = <<>> /\ queue[p] = <<>> /\ sim[p].state \in {"none", "idle", "exited"}

Talk(p) ==
  /\ sim[p].todo # <<>> => queue[p] = <<>>
  /\ sim[p].state \in {"busy", "hung"} => sim[p].todo = <<"run">>
  /\ sim[p].state \in {"none", "exited"} => sim[p].todo = <<>>
  /\ sim[p].state = "none" => sim[p] = NoSim
  /\ pc[p] \in Without => sim[p] = NoSim /\ queue[p] = <<>>
  /\ pc[p] \in {"idle", "write", "send", "read", "reopen"} => Quiet(p)
  /\ pc[p] \in {"write", "send", "read", "reopen", "ready", "wait"} => sim[p].state # "none"
  /\ pc[p] = "ready" => sim[p].state = "idle" /\ sim[p].todo # <<"run">>
  /\ pc[p] = "wait" => sim[p].todo # <<"ready">>
  /\ sim[p].todo = <<"ready">> => sim[p].state = "idle"

(***************************************************************************)
(* The lock: who holds it, who is creating it, and who is removing the one *)
(* a dead process left.                                                    *)
(***************************************************************************)
Holding == {"build", "compile", "elaborate", "open", "ready", "write", "send", "wait",
            "read", "reopen"}

Own(p) ==
  /\ alive[p] /\ holds[p] => lockFile # Absent /\ lockFile.owner = p /\ lockFile.signed
  /\ alive[p] /\ pc[p] = "sign" => lockFile # Absent /\ lockFile.owner = p /\ ~lockFile.signed
  /\ alive[p] /\ pc[p] = "unlink" => OwnerGone
  /\ pc[p] \in Holding => alive[p] /\ holds[p]
  /\ sim[p].state # "none" => alive[p] /\ holds[p]
  /\ ~alive[p] => pc[p] \in {"idle", "recreate"}
  /\ CrashAt = {} => alive[p]

LockInv == TypeOK /\ \A p \in Proc : AtHand(p) /\ Talk(p) /\ Own(p)

(***************************************************************************)
(* The values: Absent is no record of another kind, and the sequences of   *)
(* one command or one answer.                                              *)
(***************************************************************************)
LEMMA AbsentApart ==
  /\ Absent \notin Lock /\ Absent \notin Snapshot /\ Absent \notin Options
  /\ Absent \notin Sources /\ Absent \notin Request /\ Absent \notin Result
  BY DEF Absent, Lock, Snapshot, Options, Sources, Request, Result

LEMMA RecordApart ==
  /\ \A a, b, c : [problem |-> a, ncl |-> b, src |-> c] # Absent
  /\ \A a, b, c : [ncl |-> a, src |-> b, at |-> c] # Absent
  /\ \A a, b : [ncl |-> a, src |-> b] # Absent /\ [owner |-> a, signed |-> b] # Absent
  /\ \A a : [ncl |-> a] # Absent
  BY DEF Absent

LEMMA Singles ==
  /\ Append(<<>>, "run") = <<"run">> /\ Append(<<>>, "sentinel") = <<"sentinel">>
  /\ Append(<<>>, "end") = <<"end">>
  /\ Tail(<<"sentinel">>) = <<>> /\ Tail(<<"end">>) = <<>>
  /\ \A x : Head(<<x>>) = x /\ Tail(<<x>>) = <<>> /\ <<x>> # <<>>
  /\ \A x, y : <<x>> = <<y>> => x = y
  OBVIOUS

LEMMA SimulatorTypes ==
  ASSUME NEW s \in Simulator, NEW i \in Problem \cup {Absent}
  PROVE  /\ NoSim \in Simulator
         /\ s.todo = <<>> => [s EXCEPT !.todo = Append(@, "run")] \in Simulator
         /\ s.todo = <<"ready">> => [s EXCEPT !.todo = Tail(@)] \in Simulator
         /\ [s EXCEPT !.state = "busy", !.with = i] \in Simulator
         /\ s.todo = <<"run">> => [s EXCEPT !.state = "idle", !.todo = Tail(@), !.with = Absent] \in Simulator
         /\ [s EXCEPT !.state = "exited", !.todo = <<>>] \in Simulator
         /\ [s EXCEPT !.state = "hung"] \in Simulator
         /\ \A h \in Snapshot \cup {Absent} :
              [state |-> "idle", has |-> h, todo |-> <<"ready">>, with |-> Absent] \in Simulator
  <1>1. NoSim \in Simulator BY DEF Simulator, NoSim
  <1>2. s.todo = <<>> => [s EXCEPT !.todo = Append(@, "run")] \in Simulator
    BY Singles DEF Simulator
  <1>3. s.todo = <<"ready">> => [s EXCEPT !.todo = Tail(@)] \in Simulator
    BY Singles DEF Simulator
  <1>4. [s EXCEPT !.state = "busy", !.with = i] \in Simulator
    BY DEF Simulator
  <1>5. s.todo = <<"run">> => [s EXCEPT !.state = "idle", !.todo = Tail(@), !.with = Absent] \in Simulator
    BY Singles DEF Simulator
  <1>6. [s EXCEPT !.state = "exited", !.todo = <<>>] \in Simulator
    BY DEF Simulator
  <1>7. [s EXCEPT !.state = "hung"] \in Simulator
    BY DEF Simulator
  <1>8. ASSUME NEW h \in Snapshot \cup {Absent}
        PROVE  [state |-> "idle", has |-> h, todo |-> <<"ready">>, with |-> Absent] \in Simulator
    BY <1>8 DEF Simulator
  <1> QED BY <1>1, <1>2, <1>3, <1>4, <1>5, <1>6, <1>7, <1>8

LEMMA LockRecord == \A p \in Proc : [owner |-> p, signed |-> FALSE] \in Lock
  BY Zenon DEF Lock

LEMMA LockInit == Init => LockInv
  <1> SUFFICES ASSUME Init PROVE LockInv OBVIOUS
  <1>1. NoSim \in Simulator BY DEF NoSim, Simulator
  <1>2. TypeOK BY <1>1 DEF TypeOK, Init, Place
  <1>3. ASSUME NEW p \in Proc PROVE AtHand(p) /\ Talk(p) /\ Own(p)
    BY <1>3 DEF Init, AtHand, Talk, Own, Quiet, NoSim, Without, Holding
  <1> QED BY <1>2, <1>3 DEF LockInv

(***************************************************************************)
(* Every step keeps the types.                                             *)
(***************************************************************************)
LEMMA TypeStep ==
  ASSUME TypeOK, \A p \in Proc : AtHand(p) /\ Talk(p), Next PROVE TypeOK'
  <1> USE DEF TypeOK, Place, At, Goto
  <1>1. ASSUME NEW p \in Proc, NEW ncl \in Count, Ask(p, ncl) PROVE TypeOK' BY <1>1 DEF Ask, disk, Request, Problem
  <1>2. ASSUME NEW p \in Proc, Create(p, "create", "examine") PROVE TypeOK' BY <1>2, LockRecord, ZenonT(40) DEF Create
  <1>3. ASSUME NEW p \in Proc, Create(p, "recreate", "idle") PROVE TypeOK' BY <1>3, LockRecord, ZenonT(40) DEF Create
  <1>4. ASSUME NEW p \in Proc, Sign(p) PROVE TypeOK' BY <1>4 DEF Sign, Lock
  <1>5. ASSUME NEW p \in Proc, Answered(p, "ready", "write") PROVE TypeOK' BY <1>5, Singles DEF Answered, disk
  <1>5a. ASSUME NEW p \in Proc, Answered(p, "wait", "read") PROVE TypeOK' BY <1>5a, Singles DEF Answered, disk
  <1>6. ASSUME NEW p \in Proc, Send(p) PROVE TypeOK'
    <2>1. [sim[p] EXCEPT !.todo = Append(@, "run")] \in Simulator BY <1>6, SimulatorTypes DEF Send, Talk, Quiet
    <2> QED BY <1>6, <2>1, ZenonT(40) DEF Send, disk
  <1>7. ASSUME NEW p \in Proc, Echo(p) PROVE TypeOK'
    <2>0. sim[p] \in Simulator /\ sim[p].todo = <<"ready">> BY <1>7, Singles DEF Echo, Simulator
    <2>1. [sim[p] EXCEPT !.todo = Tail(@)] \in Simulator BY <2>0, SimulatorTypes
    <2> QED BY <1>7, <2>1, Singles DEF Echo, Talk, disk
  <1>8. ASSUME NEW p \in Proc, RunAll(p) PROVE TypeOK'
    <2>1. [sim[p] EXCEPT !.state = "busy", !.with = input] \in Simulator BY <1>8, SimulatorTypes DEF RunAll
    <2> QED BY <1>8, <2>1 DEF RunAll, disk
  <1>9. ASSUME NEW p \in Proc, Finish(p) PROVE TypeOK'
    <2>1. [sim[p] EXCEPT !.state = "idle", !.todo = Tail(@), !.with = Absent] \in Simulator BY <1>9, SimulatorTypes DEF Finish, Talk
    <2>2. sim[p].has \in Snapshot /\ sim[p].with \in Problem \cup {Absent}
      BY <1>9, AbsentApart DEF Finish, AtHand, Simulator
    <2>3. answer' \in Result BY <1>9, <2>2 DEF Finish, Result, Snapshot
    <2> QED BY <1>9, <2>1, <2>3, Singles DEF Finish, Talk
  <1>10. ASSUME NEW p \in Proc, Exit(p) PROVE TypeOK'
    <2>1. [sim[p] EXCEPT !.state = "exited", !.todo = <<>>] \in Simulator BY <1>10, SimulatorTypes DEF Exit
    <2> QED BY <1>10, <2>1, Singles DEF Exit, disk, Talk
  <1>11. ASSUME NEW p \in Proc, Hang(p) PROVE TypeOK' BY <1>11, Singles, SimulatorTypes DEF Hang, disk
  <1>12. ASSUME NEW p \in Proc, Build(p) PROVE TypeOK'
    <2>1. ask[p].ncl \in Count BY <1>12, AbsentApart DEF Build, AtHand, Request
    <2>2. opts' \in Options \cup {Absent} BY <1>12, <2>1 DEF Build, Options
    <2> QED BY <1>12, <2>2 DEF Build
  <1>13. ASSUME NEW p \in Proc, Compile(p) PROVE TypeOK' BY <1>13 DEF Compile, AtHand, Sources, Options, disk
  <1>14. ASSUME NEW p \in Proc, Elaborate(p) PROVE TypeOK' BY <1>14 DEF Elaborate, AtHand, Sources, Snapshot
  <1>15. ASSUME NEW p \in Proc, Open(p) PROVE TypeOK' BY <1>15, Singles, SimulatorTypes DEF Open, disk
  <1>16. ASSUME NEW p \in Proc, WriteFiles(p) PROVE TypeOK' BY <1>16 DEF WriteFiles, AtHand, Request
  <1>17. ASSUME NEW p \in Proc, ReadResult(p) PROVE TypeOK' BY <1>17 DEF ReadResult, disk
  <1>18. ASSUME NEW p \in Proc, Close(p, "reopen", "rerelease") \/ Close(p, "close", "release") PROVE TypeOK'
    <2>1. NoSim \in Simulator BY DEF NoSim, Simulator
    <2>2. UNCHANGED <<disk, alive, ask, holds, parsed, asked, got>> BY <1>18 DEF Close
    <2>3. sim' \in [Proc -> Simulator] BY <1>18, <2>1, SMTT(40) DEF Close
    <2>4. queue' \in [Proc -> {<<>>, <<"sentinel">>, <<"end">>}] BY <1>18, ZenonT(40) DEF Close
    <2>5. pc' \in [Proc -> Place] BY <1>18, SMTT(40) DEF Close
    <2> QED BY <2>2, <2>3, <2>4, <2>5, ZenonT(40) DEF disk
  <1>19. ASSUME NEW p \in Proc, Release(p, "rerelease", "create") \/ Release(p, "release", "idle") PROVE TypeOK' BY <1>19, ZenonT(40) DEF Release
  <1>20. ASSUME NEW p \in Proc, Crash(p) PROVE TypeOK'
    <2>1. NoSim \in Simulator BY <1>20, SimulatorTypes DEF Crash
    <2> QED BY <1>20, <2>1 DEF Crash, disk
  <1>21. ASSUME NEW p \in Proc, Examine(p) \/ TimeOut(p) \/ Leave(p) \/ Fail(p) PROVE TypeOK' BY <1>21, ZenonT(40) DEF Examine, TimeOut, Leave, Fail, disk
  <1>22. ASSUME NEW p \in Proc, Unlink(p) PROVE TypeOK' BY <1>22 DEF Unlink
  <1>23. ASSUME Edit PROVE TypeOK' BY <1>23 DEF Edit, mine
  <1> QED BY <1>1, <1>2, <1>3, <1>4, <1>5, <1>5a, <1>6, <1>7, <1>8, <1>9, <1>10, <1>11, <1>12, <1>13, <1>14, <1>15, <1>16, <1>17, <1>18,
             <1>19, <1>20, <1>21, <1>22, <1>23 DEF Next, Step, Simulate

-----------------------------------------------------------------------------
(***************************************************************************)
(* One step, process by process.                                           *)
(***************************************************************************)
Acts(p) == Step(p) \/ Simulate(p) \/ Exit(p) \/ Hang(p) \/ Fail(p) \/ Crash(p)

(* What an action of one process leaves to another.                        *)
LEMMA Elsewhere ==
  ASSUME TypeOK, NEW p \in Proc, NEW q \in Proc, p # q, Acts(p)
  PROVE  /\ pc'[q] = pc[q] /\ sim'[q] = sim[q] /\ queue'[q] = queue[q]
         /\ holds'[q] = holds[q] /\ alive'[q] = alive[q] /\ ask'[q] = ask[q]
         /\ parsed'[q] = parsed[q] /\ got'[q] = got[q]
  <1> USE DEF TypeOK, Goto, disk
  <1>1. ASSUME NEW ncl \in Count, Ask(p, ncl) PROVE /\ pc'[q] = pc[q] /\ sim'[q] = sim[q] /\ queue'[q] = queue[q]
         /\ holds'[q] = holds[q] /\ alive'[q] = alive[q] /\ ask'[q] = ask[q]
         /\ parsed'[q] = parsed[q] /\ got'[q] = got[q] BY <1>1 DEF Ask
  <1>2. CASE Create(p, "create", "examine") BY <1>2 DEF Create
  <1>3. CASE Create(p, "recreate", "idle") BY <1>3 DEF Create
  <1>4. CASE Sign(p) BY <1>4 DEF Sign
  <1>5. CASE Examine(p) BY <1>5 DEF Examine
  <1>6. CASE Unlink(p) BY <1>6 DEF Unlink
  <1>7. CASE Build(p) BY <1>7 DEF Build
  <1>8. CASE Compile(p) BY <1>8 DEF Compile
  <1>9. CASE Elaborate(p) BY <1>9 DEF Elaborate
  <1>10. CASE Open(p) BY <1>10 DEF Open
  <1>11. CASE WriteFiles(p) BY <1>11 DEF WriteFiles
  <1>12. CASE Send(p) BY <1>12 DEF Send
  <1>13. CASE Answered(p, "ready", "write") BY <1>13 DEF Answered
  <1>14. CASE Answered(p, "wait", "read") BY <1>14 DEF Answered
  <1>15. CASE TimeOut(p) BY <1>15 DEF TimeOut
  <1>16. CASE ReadResult(p) BY <1>16 DEF ReadResult
  <1>17. CASE Close(p, "reopen", "rerelease") BY <1>17 DEF Close
  <1>18. CASE Release(p, "rerelease", "create") BY <1>18 DEF Release
  <1>19. CASE Close(p, "close", "release") BY <1>19 DEF Close
  <1>20. CASE Release(p, "release", "idle") BY <1>20 DEF Release
  <1>21. CASE Leave(p) BY <1>21 DEF Leave
  <1>22. CASE Echo(p) BY <1>22 DEF Echo
  <1>23. CASE RunAll(p) BY <1>23 DEF RunAll
  <1>24. CASE Finish(p) BY <1>24 DEF Finish
  <1>25. CASE Exit(p) BY <1>25 DEF Exit
  <1>26. CASE Hang(p) BY <1>26 DEF Hang
  <1>27. CASE Fail(p) BY <1>27 DEF Fail
  <1>28. CASE Crash(p) BY <1>28 DEF Crash
  <1> QED BY <1>1, <1>2, <1>3, <1>4, <1>5, <1>6, <1>7, <1>8, <1>9, <1>10, <1>11, <1>12, <1>13, <1>14, <1>15, <1>16, <1>17, <1>18, <1>19, <1>20, <1>21, <1>22, <1>23, <1>24, <1>25, <1>26, <1>27, <1>28 DEF Acts, Step, Simulate

(* A conversation goes on as it should.                                    *)
LEMMA TalkStep ==
  ASSUME TypeOK, KilledAtRest, ToolsFail, NEW p \in Proc, Talk(p), AtHand(p), Acts(p)
  PROVE  Talk(p)'
  <1>0. /\ pc \in [Proc -> Place] /\ sim \in [Proc -> Simulator]
        /\ queue \in [Proc -> {<<>>, <<"sentinel">>, <<"end">>}]
    BY DEF TypeOK
  <1> USE <1>0, Singles DEF Talk, Quiet, Without, At, Goto, disk
  <1>1. ASSUME NEW ncl \in Count, Ask(p, ncl) PROVE Talk(p)' BY <1>1 DEF Ask, Current, NoSim
  <1>2. CASE Create(p, "create", "examine") BY <1>2 DEF Create
  <1>3. CASE Create(p, "recreate", "idle") BY <1>3 DEF Create, NoSim
  <1>4. CASE Sign(p) BY <1>4 DEF Sign
  <1>5. CASE Examine(p) BY <1>5 DEF Examine, NoSim
  <1>6. CASE Unlink(p) BY <1>6 DEF Unlink
  <1>7. CASE Build(p) BY <1>7 DEF Build
  <1>8. CASE Compile(p) BY <1>8 DEF Compile
  <1>9. CASE Elaborate(p) BY <1>9 DEF Elaborate
  <1>10. CASE Open(p) BY <1>10 DEF Open, NoSim
  <1>11. CASE WriteFiles(p) BY <1>11 DEF WriteFiles
  <1>12. CASE Send(p) BY <1>12 DEF Send, Simulator
  <1>13. CASE Answered(p, "ready", "write")
    <2>1. queue[p] \in {<<"sentinel">>, <<"end">>} BY <1>13 DEF Answered
    <2>2. sim'[p] = sim[p] /\ sim[p].todo = <<>> BY <1>13, <2>1 DEF Answered
    <2>3. queue'[p] = <<>> BY <1>13, <2>1 DEF Answered
    <2>4. pc'[p] \in {"idle", "write"} BY <1>13 DEF Answered
    <2> QED BY <1>13, <2>2, <2>3, <2>4 DEF Answered, Simulator
  <1>14. CASE Answered(p, "wait", "read")
    <2>1. queue[p] \in {<<"sentinel">>, <<"end">>} BY <1>14 DEF Answered
    <2>2. sim'[p] = sim[p] /\ sim[p].todo = <<>> BY <1>14, <2>1 DEF Answered
    <2>3. queue'[p] = <<>> BY <1>14, <2>1 DEF Answered
    <2>4. pc'[p] \in {"idle", "read"} BY <1>14 DEF Answered
    <2> QED BY <1>14, <2>2, <2>3, <2>4 DEF Answered, Simulator
  <1>15. CASE TimeOut(p) BY <1>15 DEF TimeOut
  <1>16. CASE ReadResult(p) BY <1>16 DEF ReadResult
  <1>17. CASE Close(p, "reopen", "rerelease") BY <1>17 DEF Close, NoSim
  <1>18. CASE Release(p, "rerelease", "create") BY <1>18 DEF Release
  <1>19. CASE Close(p, "close", "release") BY <1>19 DEF Close, NoSim
  <1>20. CASE Release(p, "release", "idle") BY <1>20 DEF Release, NoSim
  <1>21. CASE Leave(p) BY <1>21 DEF Leave
  <1>22. CASE Echo(p)
    <2>1. sim[p].todo = <<"ready">> /\ queue[p] = <<>> BY <1>22 DEF Echo, Simulator
    <2>2. sim'[p].state = sim[p].state /\ sim'[p].todo = <<>> BY <1>22, <2>1 DEF Echo, Simulator
    <2>3. queue'[p] = <<"sentinel">> /\ pc'[p] = pc[p] BY <1>22, <2>1 DEF Echo
    <2> QED BY <1>22, <2>1, <2>2, <2>3 DEF Echo, NoSim
  <1>23. CASE RunAll(p)
    <2>1. sim[p].todo = <<"run">> /\ queue[p] = <<>> BY <1>23 DEF RunAll, Simulator
    <2>2. sim'[p].state = "busy" /\ sim'[p].todo = <<"run">> BY <1>23, <2>1 DEF RunAll, Simulator
    <2>3. queue'[p] = <<>> /\ pc'[p] = pc[p] BY <1>23, <2>1 DEF RunAll
    <2> QED BY <1>23, <2>1, <2>2, <2>3 DEF RunAll, NoSim
  <1>24. CASE Finish(p) BY <1>24 DEF Finish, Simulator
  <1>25. CASE Exit(p) BY <1>25 DEF Exit, Simulator
  <1>26. CASE Hang(p)
    <2>1. sim[p].todo = <<"run">> /\ queue[p] = <<>> BY <1>26 DEF Hang
    <2>2. sim'[p].state = "hung" /\ sim'[p].todo = <<"run">> BY <1>26, <2>1 DEF Hang, Simulator
    <2>3. queue'[p] = <<>> /\ pc'[p] = pc[p] BY <1>26, <2>1 DEF Hang
    <2> QED BY <1>26, <2>1, <2>2, <2>3 DEF Hang, NoSim
  <1>27. CASE Fail(p)
    <2>1. sim[p] = NoSim /\ queue[p] = <<>> BY <1>27 DEF Fail, ToolsFail
    <2>2. sim'[p] = NoSim /\ queue'[p] = <<>> BY <1>27, <2>1 DEF Fail
    <2>3. pc'[p] = "idle" BY <1>27 DEF Fail
    <2> QED BY <2>2, <2>3 DEF NoSim
  <1>28. CASE Crash(p) BY <1>28 DEF Crash, Simulator, NoSim, KilledAtRest
  <1> QED BY <1>1, <1>2, <1>3, <1>4, <1>5, <1>6, <1>7, <1>8, <1>9, <1>10, <1>11, <1>12, <1>13, <1>14, <1>15, <1>16, <1>17, <1>18, <1>19, <1>20, <1>21, <1>22, <1>23, <1>24, <1>25, <1>26, <1>27, <1>28 DEF Acts, Step, Simulate

(* What is at hand stays there: nothing is removed from the disk but the   *)
(* lock.                                                                   *)
LEMMA DiskKept ==
  ASSUME NEW p \in Proc, Acts(p)
  PROVE  (opts # Absent => opts' # Absent) /\ (stamp # Absent => stamp' # Absent)
  <1> USE DEF disk
  <1>1. CASE Build(p) BY <1>1, RecordApart DEF Build
  <1>2. CASE Elaborate(p) BY <1>2, RecordApart DEF Elaborate
  <1> QED BY <1>1, <1>2 DEF Acts, Step, Simulate, Ask, Create, Sign, Examine, Unlink, Compile, Open, WriteFiles, Send, Answered,
      TimeOut, ReadResult, Close, Release, Leave, Echo, RunAll, Finish, Exit, Hang, Fail, Crash

LEMMA AtHandStep ==
  ASSUME TypeOK, ToolsFail, NEW p \in Proc, AtHand(p), Talk(p), Acts(p)
  PROVE  AtHand(p)'
  <1>0. /\ pc \in [Proc -> Place] /\ sim \in [Proc -> Simulator]
        /\ ask \in [Proc -> Request \cup {Absent}] /\ parsed \in [Proc -> Sources \cup {Absent}]
    BY DEF TypeOK
  <1> USE <1>0, RecordApart DEF AtHand, At, Goto, disk
  <1>1. ASSUME NEW ncl \in Count, Ask(p, ncl) PROVE AtHand(p)' BY <1>1 DEF Ask, Current, Talk
  <1>2. CASE Create(p, "create", "examine") BY <1>2 DEF Create, Talk
  <1>3. CASE Create(p, "recreate", "idle") BY <1>3 DEF Create, Talk
  <1>4. CASE Sign(p) BY <1>4 DEF Sign, Talk
  <1>5. CASE Examine(p) BY <1>5 DEF Examine, Talk
  <1>6. CASE Unlink(p) BY <1>6 DEF Unlink, Talk
  <1>7. CASE Build(p) BY <1>7 DEF Build, Current, Talk
  <1>8. CASE Compile(p) BY <1>8 DEF Compile
  <1>9. CASE Elaborate(p) BY <1>9 DEF Elaborate
  <1>10. CASE Open(p) BY <1>10 DEF Open, Simulator, Talk
  <1>11. CASE WriteFiles(p) BY <1>11 DEF WriteFiles, Talk
  <1>12. CASE Send(p) BY <1>12 DEF Send, Simulator, Talk
  <1>13. CASE Answered(p, "ready", "write") BY <1>13 DEF Answered, Talk
  <1>14. CASE Answered(p, "wait", "read") BY <1>14 DEF Answered, Talk
  <1>15. CASE TimeOut(p) BY <1>15 DEF TimeOut, Talk
  <1>16. CASE ReadResult(p) BY <1>16 DEF ReadResult, Talk
  <1>17. CASE Close(p, "reopen", "rerelease") BY <1>17 DEF Close, NoSim, Talk
  <1>18. CASE Release(p, "rerelease", "create") BY <1>18 DEF Release, Talk
  <1>19. CASE Close(p, "close", "release") BY <1>19 DEF Close, NoSim, Talk
  <1>20. CASE Release(p, "release", "idle") BY <1>20 DEF Release, Talk
  <1>21. CASE Leave(p) BY <1>21 DEF Leave, Talk
  <1>22. CASE Echo(p) BY <1>22 DEF Echo, Simulator, Talk
  <1>23. CASE RunAll(p) BY <1>23 DEF RunAll, Simulator, Talk
  <1>24. CASE Finish(p) BY <1>24 DEF Finish, Simulator, Talk
  <1>25. CASE Exit(p) BY <1>25 DEF Exit, Simulator, Talk
  <1>26. CASE Hang(p) BY <1>26 DEF Hang, Simulator, Talk
  <1>27. CASE Fail(p) BY <1>27 DEF Fail, Talk, ToolsFail
  <1>28. CASE Crash(p) BY <1>28 DEF Crash, Simulator, NoSim, Talk
  <1> QED BY <1>1, <1>2, <1>3, <1>4, <1>5, <1>6, <1>7, <1>8, <1>9, <1>10, <1>11, <1>12, <1>13, <1>14, <1>15, <1>16, <1>17, <1>18, <1>19, <1>20, <1>21, <1>22, <1>23, <1>24, <1>25, <1>26, <1>27, <1>28 DEF Acts, Step, Simulate

(* Two processes that run do not both hold the lock, nor does one hold it  *)
(* that another is creating.                                               *)
LEMMA OneHolder ==
  ASSUME NEW p \in Proc, NEW q \in Proc, Own(p), Own(q), alive[p], alive[q],
         holds[p] \/ pc[p] = "sign", holds[q] \/ pc[q] = "sign"
  PROVE  p = q
  BY SMTT(40) DEF Own

(* The lock is changed by the process that holds it or is creating it, by  *)
(* one that found none, and by one that removes a dead owner's.            *)
LEMMA LockChanges ==
  ASSUME TypeOK, NEW p \in Proc, Own(p), Acts(p), lockFile' # lockFile
  PROVE  /\ alive[p] /\ alive' = alive
         /\ holds[p] \/ pc[p] = "sign" \/ lockFile = Absent \/ OwnerGone
         /\ lockFile # Absent /\ OwnerGone => pc[p] = "unlink"
  <1> USE DEF At, Goto, disk
  <1>1. CASE Create(p, "create", "examine") BY <1>1 DEF Create, Own, OwnerGone, TypeOK, Lock
  <1>2. CASE Create(p, "recreate", "idle") BY <1>2 DEF Create, Own, OwnerGone, TypeOK, Lock
  <1>3. CASE Sign(p) BY <1>3 DEF Sign, Own, OwnerGone, TypeOK, Lock
  <1>4. CASE Unlink(p) BY <1>4 DEF Unlink, Own, OwnerGone, TypeOK, Lock
  <1>5. CASE Release(p, "rerelease", "create") BY <1>5 DEF Release, Own, OwnerGone, TypeOK, Lock
  <1>6. CASE Release(p, "release", "idle") BY <1>6, SMTT(40) DEF Release, Own, OwnerGone, TypeOK, Lock
  <1> QED BY <1>1, <1>2, <1>3, <1>4, <1>5, <1>6
      DEF Acts, Step, Simulate, Ask, Examine, Build, Compile, Elaborate, Open, WriteFiles, Send, Answered,
          TimeOut, ReadResult, Close, Leave, Echo, RunAll, Finish, Exit, Hang, Fail, Crash

LEMMA OwnStep ==
  ASSUME TypeOK, KilledAtRest, ToolsFail, NEW p \in Proc, AtHand(p), Talk(p), Own(p), Acts(p)
  PROVE  Own(p)'
  <1>0. /\ pc \in [Proc -> Place] /\ sim \in [Proc -> Simulator]
        /\ alive \in [Proc -> BOOLEAN] /\ holds \in [Proc -> BOOLEAN]
        /\ lockFile \in Lock \cup {Absent}
    BY DEF TypeOK
  <1> USE <1>0, RecordApart DEF Own, OwnerGone, Holding, At, Goto, disk
  <1>1. ASSUME NEW ncl \in Count, Ask(p, ncl) PROVE Own(p)' BY <1>1 DEF Ask, Talk
  <1>2. CASE Create(p, "create", "examine")
    <2>1. CASE holds[p] BY <1>2, <2>1 DEF Create, Talk, NoSim, Without
    <2>2. CASE ~holds[p] /\ lockFile = Absent
      <3>1. lockFile' = [owner |-> p, signed |-> FALSE] /\ pc'[p] = "sign" BY <1>2, <2>2 DEF Create
      <3> QED BY <1>2, <2>2, <3>1 DEF Create, Talk, NoSim, Without
    <2>3. CASE ~holds[p] /\ lockFile # Absent BY <1>2, <2>3 DEF Create, Talk, NoSim, Without
    <2> QED BY <2>1, <2>2, <2>3
  <1>3. CASE Create(p, "recreate", "idle") BY <1>3 DEF Create, Lock, Talk, NoSim, Without
  <1>4. CASE Sign(p) BY <1>4 DEF Sign, Lock
  <1>5. CASE Examine(p) BY <1>5 DEF Examine, Lock
  <1>6. CASE Unlink(p) BY <1>6 DEF Unlink
  <1>7. CASE Build(p) BY <1>7 DEF Build, Current
  <1>8. CASE Compile(p) BY <1>8 DEF Compile
  <1>9. CASE Elaborate(p) BY <1>9 DEF Elaborate
  <1>10. CASE Open(p) BY <1>10 DEF Open, Simulator, Talk
  <1>11. CASE WriteFiles(p) BY <1>11 DEF WriteFiles
  <1>12. CASE Send(p) BY <1>12 DEF Send, Simulator, Talk
  <1>13. CASE Answered(p, "ready", "write") BY <1>13 DEF Answered
  <1>14. CASE Answered(p, "wait", "read") BY <1>14 DEF Answered
  <1>15. CASE TimeOut(p) BY <1>15 DEF TimeOut
  <1>16. CASE ReadResult(p) BY <1>16 DEF ReadResult
  <1>17. CASE Close(p, "reopen", "rerelease") BY <1>17 DEF Close, NoSim
  <1>18. CASE Release(p, "rerelease", "create") BY <1>18 DEF Release, Lock, Talk, NoSim, Without
  <1>19. CASE Close(p, "close", "release") BY <1>19 DEF Close, NoSim
  <1>20. CASE Release(p, "release", "idle") BY <1>20 DEF Release, Lock, Talk, NoSim, Without
  <1>21. CASE Leave(p) BY <1>21 DEF Leave
  <1>22. CASE Echo(p) BY <1>22 DEF Echo, Simulator, Talk
  <1>23. CASE RunAll(p) BY <1>23 DEF RunAll, Simulator, Talk
  <1>24. CASE Finish(p) BY <1>24 DEF Finish, Simulator, Talk
  <1>25. CASE Exit(p) BY <1>25 DEF Exit, Simulator, Talk
  <1>26. CASE Hang(p) BY <1>26 DEF Hang, Simulator, Talk
  <1>27. CASE Fail(p) BY <1>27 DEF Fail, Talk, NoSim, Without, ToolsFail
  <1>28. CASE Crash(p)
    <2>1. pc[p] \in {"idle", "recreate"} BY <1>28 DEF Crash, KilledAtRest
    <2>2. sim'[p] = NoSim BY <1>28, <2>1 DEF Crash, Talk, Quiet, Without, NoSim
    <2>3. ~alive'[p] /\ pc'[p] = pc[p] BY <1>28 DEF Crash
    <2>4. CrashAt # {} BY <1>28 DEF Crash
    <2> QED BY <2>1, <2>2, <2>3, <2>4 DEF NoSim
  <1> QED BY <1>1, <1>2, <1>3, <1>4, <1>5, <1>6, <1>7, <1>8, <1>9, <1>10, <1>11, <1>12, <1>13, <1>14, <1>15, <1>16, <1>17, <1>18, <1>19, <1>20, <1>21, <1>22, <1>23, <1>24, <1>25, <1>26, <1>27, <1>28 DEF Acts, Step, Simulate

(* A process keeps what it has of the lock while another acts.  With more  *)
(* than one that reclaims the lock of a dead process this fails.           *)
LEMMA OwnElsewhere ==
  ASSUME TypeOK, OneReclaims, NEW p \in Proc, NEW q \in Proc, p # q, \A r \in Proc : Own(r), Acts(p)
  PROVE  Own(q)'
  <1>1. /\ pc'[q] = pc[q] /\ sim'[q] = sim[q] /\ holds'[q] = holds[q] /\ alive'[q] = alive[q]
    BY Elsewhere
  <1>2. CASE lockFile' = lockFile
    <2>1. \A r \in Proc : ~alive[r] => ~alive'[r]
      BY DEF TypeOK, Acts, Step, Simulate, Ask, Create, Sign, Examine, Unlink, Build, Compile, Elaborate, Open, WriteFiles, Send, Answered,
             TimeOut, ReadResult, Close, Release, Leave, Echo, RunAll, Finish, Exit, Hang, Fail, Crash
    <2> QED BY <1>1, <1>2, <2>1, AbsentApart, SMTT(40) DEF Own, OwnerGone, TypeOK, Lock
  <1>3. CASE lockFile' # lockFile
    <2>1. /\ alive[p] /\ alive' = alive
          /\ holds[p] \/ pc[p] = "sign" \/ lockFile = Absent \/ OwnerGone
          /\ lockFile # Absent /\ OwnerGone => pc[p] = "unlink"
      BY <1>3, LockChanges
    <2>2. ~(alive[q] /\ (holds[q] \/ pc[q] = "sign"))
      BY <2>1, OneHolder DEF Own, OwnerGone
    <2>3. ~(alive[q] /\ pc[q] = "unlink")
      <3> SUFFICES ASSUME alive[q], pc[q] = "unlink" PROVE FALSE OBVIOUS
      <3>1. lockFile # Absent /\ lockFile.owner \in Proc /\ ~alive[lockFile.owner]
        BY AbsentApart DEF Own, OwnerGone, TypeOK, Lock
      <3>2. CrashAt # {} BY <3>1 DEF Own
      <3>3. lockFile.owner # p /\ lockFile.owner # q BY <2>1, <3>1
      <3> QED BY <3>1, <3>2, <3>3 DEF OneReclaims
    <2> QED BY <1>1, <2>1, <2>2, <2>3 DEF Own
  <1> QED BY <1>2, <1>3

LEMMA LockNext ==
  ASSUME LockInv, KilledAtRest, ToolsFail, OneReclaims, [Next]_vars
  PROVE  LockInv'
  <1> USE DEF LockInv
  <1>1. CASE \E p \in Proc : Acts(p)
    <2>1. PICK p \in Proc : Acts(p) BY <1>1
    <2>2. Next BY <2>1 DEF Acts, Next
    <2>3. TypeOK' BY <2>2, TypeStep
    <2>4. ASSUME NEW q \in Proc PROVE AtHand(q)' /\ Talk(q)' /\ Own(q)'
      <3>1. CASE q = p BY <2>1, <3>1, AtHandStep, TalkStep, OwnStep
      <3>2. CASE q # p
        <4>1. Own(q)' BY <2>1, <3>2, OwnElsewhere
        <4>2. /\ pc'[q] = pc[q] /\ sim'[q] = sim[q] /\ queue'[q] = queue[q]
              /\ ask'[q] = ask[q] /\ parsed'[q] = parsed[q]
          BY <2>1, <3>2, Elsewhere
        <4>3. (opts # Absent => opts' # Absent) /\ (stamp # Absent => stamp' # Absent)
          BY <2>1, DiskKept
        <4> QED BY <4>1, <4>2, <4>3 DEF AtHand, Talk, Quiet
      <3> QED BY <3>1, <3>2
    <2> QED BY <2>3, <2>4
  <1>2. CASE Edit
    <2>1. Next BY <1>2 DEF Next
    <2>2. TypeOK' BY <2>1, TypeStep
    <2> QED BY <1>2, <2>2 DEF Edit, mine, AtHand, Talk, Quiet, Own, OwnerGone
  <1>3. CASE UNCHANGED vars
    BY <1>3 DEF vars, disk, mine, TypeOK, AtHand, Talk, Quiet, Own, OwnerGone
  <1> QED BY <1>1, <1>2, <1>3 DEF Next, Acts

LEMMA LockAlways ==
  ASSUME KilledAtRest, ToolsFail, OneReclaims PROVE Spec => []LockInv
  BY LockInit, LockNext, PTL DEF Spec

(***************************************************************************)
(* Each variable of the session keeps its type.                            *)
(***************************************************************************)
THEOREM SimTypesCorrect ==
  ASSUME KilledAtRest, ToolsFail, OneReclaims PROVE Spec => []TypeOK
  <1>1. LockInv => TypeOK BY DEF LockInv
  <1> QED BY <1>1, LockAlways, PTL

(***************************************************************************)
(* One process believes that it owns the directory, the one its lock       *)
(* names, and one simulator runs in it (_acquire, _release): for any       *)
(* number of processes when none is killed, and over the lock of a process *)
(* killed at rest when one other reclaims it.                              *)
(***************************************************************************)
THEOREM OneAtATime ==
  ASSUME KilledAtRest, ToolsFail, OneReclaims PROVE Spec => []Exclusive
  <1>1. ASSUME LockInv PROVE Exclusive
    <2>1. OneOwner BY <1>1 DEF LockInv, Own, OneOwner
    <2>2. OneSimulator
      <3> DEFINE Running == {p \in Proc : sim[p].state \in {"idle", "busy", "hung"}}
      <3>1. \A p, q \in Running : p = q BY <1>1, OneHolder DEF LockInv, Own
      <3>2. CASE Running = {} BY <3>2, FS_EmptySet DEF OneSimulator
      <3>3. CASE Running # {}
        <4>1. PICK p \in Proc : p \in Running BY <3>3
        <4>2. Running = {p} BY <3>1, <4>1
        <4>3. Cardinality({p}) = 1 BY FS_Singleton
        <4> HIDE DEF Running
        <4>4. Cardinality(Running) <= 1 BY <4>2, <4>3
        <4> QED BY <4>4 DEF OneSimulator, Running
      <3> QED BY <3>2, <3>3
    <2> QED BY <2>1, <2>2 DEF Exclusive
  <1> QED BY <1>1, LockAlways, PTL

-----------------------------------------------------------------------------
(***************************************************************************)
(* The answers.  A compilation that has begun is carried through; one that *)
(* is not leaves the options of one machine beside the snapshot of another.*)
(***************************************************************************)
Compiles == FailAt \subseteq {"open"}

(* An answer to the request k.                                             *)
Answers(a, k) == a # Absent /\ a.problem = k.problem /\ a.ncl = k.ncl /\ a.src >= k.src

(* The snapshot on the disk: of the sources it was written with, and of    *)
(* the options beside it unless a compilation is under way.                *)
DiskOK ==
  /\ stamp # Absent => stamp.src = stamp.at /\ stamp.src <= edits
  /\ stamp # Absent /\ opts # Absent /\ (\A p \in Proc : pc[p] \notin {"compile", "elaborate"})
       => stamp.ncl = opts.ncl

(* What the process is serving, from the disk to the answer.               *)
Serves(p) ==
  /\ ask[p] # Absent => ask[p].src <= edits
  /\ pc[p] = "compile" => opts.ncl = ask[p].ncl
  /\ pc[p] = "elaborate" =>
       /\ opts # Absent /\ opts.ncl = ask[p].ncl
       /\ parsed[p].ncl = ask[p].ncl /\ parsed[p].src = edits
  /\ pc[p] = "open" => stamp.ncl = ask[p].ncl /\ stamp.src >= ask[p].src
  /\ sim[p].state # "none" => sim[p].has = stamp
  /\ pc[p] \in {"ready", "write", "send", "wait"} =>
       stamp.ncl = ask[p].ncl /\ stamp.src >= ask[p].src
  /\ pc[p] = "send" => input = ask[p].problem
  /\ pc[p] = "wait" /\ sim[p].state = "idle" /\ sim[p].todo # <<>> => input = ask[p].problem
  /\ pc[p] = "wait" /\ sim[p].state = "busy" => sim[p].with = ask[p].problem
  /\ pc[p] = "wait" /\ queue[p] = <<"sentinel">> => Answers(answer, ask[p])
  /\ pc[p] = "read" => Answers(answer, ask[p])
  /\ got[p] # Absent => ask[p] # Absent /\ Answers(got[p], ask[p])

AnswerInv == DiskOK /\ \A p \in Proc : Serves(p)

LEMMA AnswerInit == Init => AnswerInv
  BY DEF Init, AnswerInv, DiskOK, Serves, NoSim

(* The snapshot, the options, the problem and the answer are written by    *)
(* who holds the lock.                                                     *)
LEMMA WrittenByHolder ==
  ASSUME TypeOK, NEW p \in Proc, Own(p), Talk(p), Acts(p),
         <<opts, stamp, input, answer>>' # <<opts, stamp, input, answer>>
  PROVE  alive[p] /\ holds[p]
  <1> USE DEF Own, Holding, At, Goto, disk
  <1>1. CASE Build(p) BY <1>1 DEF Build
  <1>2. CASE Elaborate(p) BY <1>2 DEF Elaborate
  <1>3. CASE WriteFiles(p) BY <1>3 DEF WriteFiles
  <1>4. CASE Finish(p) BY <1>4 DEF Finish
  <1> QED BY <1>1, <1>2, <1>3, <1>4
      DEF Acts, Step, Simulate, Ask, Create, Sign, Examine, Unlink, Compile, Open, Send, Answered,
          TimeOut, ReadResult, Close, Release, Leave, Echo, RunAll, Exit, Hang, Fail, Crash

LEMMA ServesElsewhere ==
  ASSUME TypeOK, NEW p \in Proc, NEW q \in Proc, p # q, Own(p), Own(q), Talk(p), Serves(q), Acts(p)
  PROVE  Serves(q)'
  <1>1. /\ pc'[q] = pc[q] /\ sim'[q] = sim[q] /\ queue'[q] = queue[q] /\ ask'[q] = ask[q]
        /\ parsed'[q] = parsed[q] /\ got'[q] = got[q]
    BY Elsewhere, SMTT(40)
  <1>2. edits' = edits
    BY DEF disk, Acts, Step, Simulate, Ask, Create, Sign, Examine, Unlink, Build, Compile, Elaborate, Open, WriteFiles, Send,
           Answered, TimeOut, ReadResult, Close, Release, Leave, Echo, RunAll, Finish, Exit, Hang, Fail, Crash
  <1>3. CASE pc[q] \in Holding \/ sim[q].state # "none"
    <2>1. UNCHANGED <<opts, stamp, input, answer>> BY <1>3, WrittenByHolder, OneHolder DEF Own
    <2> QED BY <1>1, <1>2, <2>1 DEF Serves, Answers
  <1>4. CASE pc[q] \notin Holding /\ sim[q].state = "none"
    BY <1>1, <1>2, <1>4, SMTT(40) DEF Serves, Holding, Answers
  <1> QED BY <1>3, <1>4

LEMMA ServesStep ==
  ASSUME LockInv, AnswerInv, KilledAtRest, Compiles, NEW p \in Proc, Acts(p)
  PROVE  Serves(p)'
  <1>0. /\ pc \in [Proc -> Place] /\ sim \in [Proc -> Simulator]
        /\ ask \in [Proc -> Request \cup {Absent}] /\ parsed \in [Proc -> Sources \cup {Absent}]
        /\ queue \in [Proc -> {<<>>, <<"sentinel">>, <<"end">>}]
        /\ got \in [Proc -> Result \cup {Absent}] /\ edits \in Nat
        /\ stamp \in Snapshot \cup {Absent} /\ answer \in Result \cup {Absent}
        /\ opts \in Options \cup {Absent}
        /\ AtHand(p) /\ Talk(p) /\ Own(p) /\ Serves(p)
    BY DEF LockInv, TypeOK, AnswerInv
  <1>a. ASSUME alive[p], holds[p], pc[p] \notin {"compile", "elaborate"}, stamp # Absent, opts # Absent
        PROVE  stamp.ncl = opts.ncl
    BY <1>a, OneHolder DEF AnswerInv, DiskOK, LockInv, Own, Holding
  <1>b. stamp # Absent => stamp.src = stamp.at /\ stamp.src <= edits
    BY DEF AnswerInv, DiskOK
  <1>c. stamp # Absent => stamp \in Snapshot BY <1>0
  <1> USE <1>0, RecordApart DEF Serves, At, Goto, disk
  <1>1. ASSUME NEW ncl \in Count, Ask(p, ncl) PROVE Serves(p)'
    <2>1. /\ ask'[p] # Absent /\ ask'[p].ncl = ncl /\ ask'[p].src = edits
          /\ UNCHANGED <<edits, opts, stamp, input, answer, sim, queue, parsed>> /\ got'[p] = Absent
      BY <1>1, RecordApart DEF Ask
    <2>2. CASE pc'[p] = "write"
      <3>1. sim[p].state # "none" /\ Current(ncl) BY <1>1, <2>2 DEF Ask, Talk
      <3>2. stamp.ncl = ncl /\ stamp.src >= edits BY <1>1, <1>a, <1>b, <3>1 DEF Ask, Current, Own
      <3> QED BY <2>1, <2>2, <3>2
    <2>3. CASE pc'[p] \in {"create", "reopen"} BY <2>1, <2>3
    <2> QED BY <1>1, <2>2, <2>3 DEF Ask
  <1>2. CASE Create(p, "create", "examine") BY <1>2 DEF Create
  <1>3. CASE Create(p, "recreate", "idle") BY <1>3 DEF Create
  <1>4. CASE Sign(p) BY <1>4 DEF Sign
  <1>5. CASE Examine(p) BY <1>5 DEF Examine
  <1>6. CASE Unlink(p) BY <1>6 DEF Unlink
  <1>7. CASE Build(p)
    <2>1. ask[p] # Absent /\ sim'[p].state = "none" /\ alive[p] /\ holds[p]
      BY <1>7 DEF Build, AtHand, Talk, Without, NoSim, Own, Holding
    <2>2. CASE Current(ask[p].ncl)
      <3>1. stamp.ncl = ask[p].ncl /\ stamp.src >= edits
        BY <1>7, <1>a, <1>b, <2>1, <2>2 DEF Build, Current
      <3>2. ask[p].src \in Nat /\ stamp.src \in Nat BY <2>1, <2>2, <1>c DEF Request, Snapshot, Current
      <3> QED BY <1>7, <2>1, <2>2, <3>1, <3>2 DEF Build
    <2>3. CASE ~Current(ask[p].ncl) BY <1>7, <2>1, <2>3 DEF Build
    <2> QED BY <2>2, <2>3
  <1>8. CASE Compile(p)
    <2>1. sim'[p].state = "none" /\ opts # Absent BY <1>8 DEF Compile, AtHand, Talk, Without, NoSim
    <2>2. parsed'[p] = [ncl |-> opts.ncl, src |-> edits] /\ pc'[p] = "elaborate" BY <1>8 DEF Compile
    <2> QED BY <1>8, <2>1, <2>2 DEF Compile
  <1>9. CASE Elaborate(p)
    <2>1. sim'[p].state = "none" /\ ask[p] # Absent BY <1>9 DEF Elaborate, AtHand, Talk, Without, NoSim
    <2>2. stamp'.ncl = ask[p].ncl /\ stamp'.src = edits /\ pc'[p] = "open" BY <1>9 DEF Elaborate
    <2>3. ask[p].src \in Nat BY <2>1 DEF Request
    <2> QED BY <1>9, <2>1, <2>2, <2>3 DEF Elaborate
  <1>10. CASE Open(p) BY <1>10 DEF Open
  <1>11. CASE WriteFiles(p) BY <1>11 DEF WriteFiles
  <1>12. CASE Send(p)
    <2>1. queue'[p] = <<>> BY <1>12 DEF Send, Talk, Quiet
    <2>2. sim'[p].state = sim[p].state /\ sim'[p].has = sim[p].has BY <1>12 DEF Send, Simulator
    <2>3. sim[p].state # "busy" BY <1>12 DEF Send, Talk, Quiet
    <2> QED BY <1>12, Singles, <2>1, <2>2, <2>3 DEF Send
  <1>13. CASE Answered(p, "ready", "write") BY <1>13 DEF Answered
  <1>14. CASE Answered(p, "wait", "read") BY <1>14 DEF Answered
  <1>15. CASE TimeOut(p) BY <1>15 DEF TimeOut
  <1>16. CASE ReadResult(p)
    <2>1. got'[p] = answer /\ pc'[p] = "idle" BY <1>16 DEF ReadResult
    <2>2. ask[p] # Absent BY <1>16 DEF ReadResult, AtHand
    <2> QED BY <1>16, <2>1, <2>2 DEF ReadResult, Answers
  <1>17. CASE Close(p, "reopen", "rerelease")
    <2>1. sim'[p].state = "none" /\ pc'[p] = "rerelease" BY <1>17 DEF Close, NoSim
    <2> QED BY <1>17, <2>1 DEF Close, Answers
  <1>18. CASE Release(p, "rerelease", "create") BY <1>18 DEF Release
  <1>19. CASE Close(p, "close", "release")
    <2>1. sim'[p].state = "none" /\ pc'[p] = "release" BY <1>19 DEF Close, NoSim
    <2> QED BY <1>19, <2>1 DEF Close, Answers
  <1>20. CASE Release(p, "release", "idle") BY <1>20 DEF Release
  <1>21. CASE Leave(p) BY <1>21 DEF Leave
  <1>22. CASE Echo(p)
    <2>1. sim[p].todo = <<"ready">> BY <1>22, Singles DEF Echo, Simulator
    <2>2. pc'[p] = pc[p] /\ pc[p] # "wait" BY <1>22, <2>1 DEF Echo, Talk
    <2>3. sim'[p].state = sim[p].state /\ sim'[p].has = sim[p].has BY <1>22 DEF Echo, Simulator
    <2> QED BY <1>22, <2>2, <2>3 DEF Echo, Answers
  <1>23. CASE RunAll(p) BY <1>23 DEF RunAll
  <1>24. CASE Finish(p)
    <2>1. sim[p].todo = <<"run">> /\ queue[p] = <<>> BY <1>24, Singles DEF Finish, Talk
    <2>2. /\ sim'[p].state = "idle" /\ sim'[p].todo = <<>> /\ sim'[p].has = sim[p].has
      BY <1>24, <2>1, Singles DEF Finish, Simulator
    <2>3. /\ answer' = [problem |-> sim[p].with, ncl |-> sim[p].has.ncl, src |-> sim[p].has.src]
          /\ pc'[p] = pc[p] /\ got'[p] = got[p] /\ ask'[p] = ask[p] /\ parsed'[p] = parsed[p]
          /\ UNCHANGED <<edits, opts, stamp, input>>
      BY <1>24 DEF Finish
    <2>4. pc[p] \notin {"read", "send"} BY <1>24 DEF Finish, Talk, Quiet
    <2>5. pc[p] = "wait" => Answers(answer, ask[p])' BY <1>24, <2>3 DEF Finish, Answers
    <2> QED BY <1>24, <2>2, <2>3, <2>4, <2>5 DEF Finish, Answers
  <1>25. CASE Exit(p)
    <2>1. sim'[p].state = "exited" /\ sim'[p].has = sim[p].has BY <1>25 DEF Exit, Simulator
    <2>2. queue[p] = <<>> BY <1>25, Singles DEF Exit, Talk
    <2>3. queue'[p] = <<"end">> BY <1>25, <2>2, Singles DEF Exit
    <2> QED BY <1>25, <2>1, <2>3, Singles DEF Exit, Answers
  <1>26. CASE Hang(p) BY <1>26 DEF Hang
  <1>27. CASE Fail(p) BY <1>27 DEF Fail
  <1>28. CASE Crash(p)
    <2>1. pc'[p] = pc[p] /\ pc[p] \in {"idle", "recreate"} BY <1>28 DEF Crash, KilledAtRest
    <2>2. sim'[p].state = "none" BY <1>28, <2>1 DEF Crash, Talk, Quiet, Without, NoSim
    <2> QED BY <1>28, <2>1, <2>2 DEF Crash, Answers
  <1> QED BY <1>1, <1>2, <1>3, <1>4, <1>5, <1>6, <1>7, <1>8, <1>9, <1>10, <1>11, <1>12, <1>13, <1>14, <1>15, <1>16, <1>17, <1>18, <1>19, <1>20, <1>21, <1>22, <1>23, <1>24, <1>25, <1>26, <1>27, <1>28, ZenonT(40) DEF Acts, Step, Simulate

(* The disk holds a whole snapshot whenever nobody compiles.               *)
LEMMA DiskStep ==
  ASSUME LockInv, AnswerInv, KilledAtRest, Compiles, NEW p \in Proc, Acts(p)
  PROVE  DiskOK'
  <1>0. /\ pc \in [Proc -> Place] /\ edits \in Nat
        /\ ask \in [Proc -> Request \cup {Absent}]
        /\ stamp \in Snapshot \cup {Absent} /\ opts \in Options \cup {Absent}
        /\ AtHand(p) /\ Talk(p) /\ Own(p) /\ Serves(p)
    BY DEF LockInv, TypeOK, AnswerInv
  <1>1. CASE Build(p) /\ ~Current(ask[p].ncl)
    <2>1. stamp' = stamp /\ edits' = edits /\ pc'[p] = "compile"
      BY <1>0, <1>1 DEF Build, Goto
    <2> QED BY <2>1 DEF AnswerInv, DiskOK
  <1>2. CASE Elaborate(p)
    <2>1. stamp' = [ncl |-> parsed[p].ncl, src |-> parsed[p].src, at |-> edits]
          /\ edits' = edits /\ opts' = opts /\ pc[p] = "elaborate"
      BY <1>2 DEF Elaborate, At
    <2>2. stamp'.ncl = opts'.ncl /\ stamp'.src = edits /\ stamp'.at = edits
      BY <1>0, <2>1 DEF Serves
    <2> QED BY <1>0, <2>1, <2>2 DEF DiskOK
  <1>3. CASE ~Elaborate(p) /\ UNCHANGED <<stamp, opts, edits>> /\ pc'[p] \notin {"compile", "elaborate"}
    <2>1. \A q \in Proc : q # p => pc'[q] = pc[q] BY Elsewhere DEF LockInv
    <2>2. pc[p] \notin {"compile", "elaborate"}
      <3> SUFFICES ASSUME pc[p] \in {"compile", "elaborate"} PROVE FALSE OBVIOUS
      <3>1. Step(p) => Compile(p)
        BY <1>3 DEF Step, Ask, Create, Sign, Examine, Unlink, Build, Open, WriteFiles, Send,
           Answered, TimeOut, ReadResult, Close, Release, Leave, At
      <3>2. Simulate(p) \/ Exit(p) \/ Hang(p) => pc'[p] = pc[p]
        BY DEF Simulate, Echo, RunAll, Finish, Exit, Hang
      <3>3. ~Fail(p) /\ ~Crash(p) BY DEF Fail, Crash, KilledAtRest, Compiles
      <3> QED BY <1>0, <1>3, <3>1, <3>2, <3>3 DEF Acts, Compile, Goto
    <2> QED BY <1>3, <2>1, <2>2 DEF AnswerInv, DiskOK
  <1>4. CASE UNCHANGED <<stamp, opts, edits>> /\ pc'[p] \in {"compile", "elaborate"}
    BY <1>0, <1>4, SMTT(40) DEF AnswerInv, DiskOK
  <1>5. Elaborate(p) \/ (Build(p) /\ ~Current(ask[p].ncl)) \/ UNCHANGED <<stamp, opts, edits>>
    <2>1. Build(p) => ~Current(ask[p].ncl) \/ UNCHANGED <<stamp, opts, edits>> BY DEF Build, disk
    <2> QED BY <2>1 DEF Acts, Step, Simulate, Ask, Create, Sign, Examine, Unlink, Compile, Open, WriteFiles, Send,
           Answered, TimeOut, ReadResult, Close, Release, Leave, Echo, RunAll, Finish, Exit, Hang, Fail, Crash, disk
  <1> QED BY <1>1, <1>2, <1>3, <1>4, <1>5

LEMMA AnswerNext ==
  ASSUME LockInv, AnswerInv, KilledAtRest, Compiles, OneReclaims, [Next]_vars
  PROVE  AnswerInv'
  <1> USE DEF AnswerInv
  <1>1. CASE \E p \in Proc : Acts(p)
    <2>1. PICK p \in Proc : Acts(p) BY <1>1
    <2>2. DiskOK' BY <2>1, DiskStep
    <2>3. ASSUME NEW q \in Proc PROVE Serves(q)'
      <3>1. CASE q = p BY <2>1, <3>1, ServesStep
      <3>2. CASE q # p BY <2>1, <3>2, ServesElsewhere DEF LockInv
      <3> QED BY <3>1, <3>2
    <2> QED BY <2>2, <2>3
  <1>2. CASE Edit
    <2>1. /\ edits \in Nat /\ stamp \in Snapshot \cup {Absent}
          /\ \A p \in Proc : ask[p] \in Request \cup {Absent}
      BY DEF LockInv, TypeOK
    <2>2. edits' = edits + 1 /\ UNCHANGED <<lockFile, opts, stamp, input, answer>> /\ UNCHANGED mine
          /\ \A p \in Proc : pc[p] \notin {"compile", "elaborate"}
      BY <1>2 DEF Edit
    <2>3. DiskOK' BY <2>1, <2>2 DEF DiskOK, mine, Snapshot
    <2>4. ASSUME NEW p \in Proc PROVE Serves(p)'
      <3>1. ask[p] # Absent => ask[p].src <= edits + 1 BY <2>1 DEF Serves, Request
      <3> QED BY <2>2, <3>1 DEF Serves, Answers, mine
    <2> QED BY <2>3, <2>4
  <1>3. CASE UNCHANGED vars
    BY <1>3 DEF vars, disk, mine, DiskOK, Serves, Answers
  <1> QED BY <1>1, <1>2, <1>3 DEF Next, Acts

(***************************************************************************)
(* A request is scored on the answer to its own problem, by a machine of   *)
(* the count it asked for and of sources no older than it (run, build,     *)
(* _tcl, read_result): while other processes ask, the sources are edited,  *)
(* the simulator hangs, exits or fails to start, and processes are killed  *)
(* at rest.                                                                *)
(***************************************************************************)
THEOREM AnswersOwn ==
  ASSUME KilledAtRest, Compiles, OneReclaims PROVE Spec => []AnswerOwn
  <1>1. ToolsFail BY DEF Compiles, ToolsFail
  <1>2. AnswerInv => AnswerOwn BY DEF AnswerInv, Serves, Answers, AnswerOwn
  <1>3. Spec => []LockInv BY <1>1, LockAlways
  <1>4. LockInv /\ AnswerInv /\ [Next]_vars => AnswerInv' BY AnswerNext
  <1> QED BY <1>2, <1>3, <1>4, AnswerInit, PTL DEF Spec
=============================================================================
