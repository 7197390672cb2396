----------------------------- MODULE SimSession -----------------------------
(***************************************************************************)
(* The warm simulator session (src/src/ktpu/hw/sim.py, class Session).     *)
(*                                                                         *)
(* Several processes share one work directory.  In it lie a lock file, the *)
(* option file of the last compilation, the elaborated snapshot, the       *)
(* problem the bench reads at time zero and the answer it writes at the    *)
(* end.  A process keeps the simulator it has started between requests and *)
(* talks to it through a pipe: every command is followed by a sentinel     *)
(* that the simulator echoes when it has carried the command out, and a    *)
(* reader thread turns what it prints into a queue.                        *)
(*                                                                         *)
(* File modification times are modelled by the number of edits the sources *)
(* have had: the snapshot is newer than the sources when no edit has been  *)
(* made since it was written.  Process identifiers are not used again.     *)
(***************************************************************************)
EXTENDS Integers, Sequences, FiniteSets

CONSTANTS
  Proc,       \* the processes
  Count,      \* the cluster counts a bench can be built for
  MaxAsks,    \* requests of each process
  MaxEdits,   \* edits of the RTL sources
  CrashAt,    \* the program points at which a process may be killed
  FailAt,     \* the program points at which a tool may fail
  Hangs       \* TRUE: a simulator may stop answering

ASSUME CountsGiven == Count # {} /\ MaxAsks \in [Proc -> Nat] /\ MaxEdits \in Nat

VARIABLES
  lockFile,   \* session.lock: who created it and whether the pid is in it
  edits,      \* edits of the sources so far
  opts,       \* xvlog.f: the cluster count it was written with
  stamp,      \* the snapshot: its count, the sources it has, when it was written
  input,      \* the problem files
  answer,     \* the result file
  alive,      \* which processes run
  pc,         \* where each is in start() and run()
  ask,        \* the request each is serving
  holds,      \* self._lock is set
  parsed,     \* what xvlog has read
  sim,        \* self.proc, the simulator of a process
  queue,      \* self._q, what its reader has taken from the pipe
  asked,      \* requests each has made
  got         \* the answer the last request of each was scored on

disk == <<lockFile, edits, opts, stamp, input, answer>>
mine == <<alive, pc, ask, holds, parsed, sim, queue, asked, got>>
vars == <<disk, mine>>

Absent == [none |-> TRUE]
NoSim  == [state |-> "none", has |-> Absent, todo |-> <<>>, with |-> Absent]

Init ==
  /\ lockFile = Absent /\ opts = Absent /\ stamp = Absent
  /\ input = Absent /\ answer = Absent /\ edits = 0
  /\ alive = [p \in Proc |-> TRUE]
  /\ pc = [p \in Proc |-> "idle"]
  /\ ask = [p \in Proc |-> Absent]
  /\ holds = [p \in Proc |-> FALSE]
  /\ parsed = [p \in Proc |-> Absent]
  /\ sim = [p \in Proc |-> NoSim]
  /\ queue = [p \in Proc |-> <<>>]
  /\ asked = [p \in Proc |-> 0]
  /\ got = [p \in Proc |-> Absent]

At(p, l)   == alive[p] /\ pc[p] = l
Goto(p, l) == pc' = [pc EXCEPT ![p] = l]

(***************************************************************************)
(* What the directory says about the snapshot.  xvlog.f carries the        *)
(* options and the modification times answer for the sources.              *)
(***************************************************************************)
CurrentByDate(ncl) == stamp # Absent /\ opts # Absent /\ stamp.at >= edits

Current(ncl) ==
  /\ stamp # Absent /\ opts # Absent
  /\ opts.ncl = ncl
  /\ stamp.at >= edits

(***************************************************************************)
(* A request: the count becomes the module's, a stale simulator is closed, *)
(* and one that is running is kept.                                        *)
(***************************************************************************)
Ask(p, ncl) ==
  /\ At(p, "idle") /\ asked[p] < MaxAsks[p]
  /\ asked' = [asked EXCEPT ![p] = @ + 1]
  /\ ask' = [ask EXCEPT ![p] = [problem |-> [by |-> p, no |-> asked[p]], ncl |-> ncl, src |-> edits]]
  /\ got' = [got EXCEPT ![p] = Absent]
  /\ Goto(p, IF sim[p] = NoSim THEN "create"
             ELSE IF Current(ncl) THEN "write" ELSE "reopen")
  /\ UNCHANGED <<disk, alive, holds, parsed, sim, queue>>

(***************************************************************************)
(* _acquire.  Creating the file is exclusive; a lock that is there is read *)
(* and its owner looked up, and only the lock of a dead owner is removed.  *)
(* A file without a pid in it counts as owned.                             *)
(***************************************************************************)
Create(p, here, taken) ==
  /\ At(p, here)
  /\ UNCHANGED <<edits, opts, stamp, input, answer, alive, ask, holds, parsed,
                 sim, queue, asked, got>>
  /\ IF holds[p] THEN Goto(p, "build") /\ UNCHANGED lockFile
     ELSE IF lockFile = Absent
     THEN /\ lockFile' = [owner |-> p, signed |-> FALSE]
          /\ Goto(p, "sign")
     ELSE Goto(p, taken) /\ UNCHANGED lockFile

Sign(p) ==
  /\ At(p, "sign")
  /\ lockFile' = IF lockFile # Absent /\ lockFile.owner = p
                 THEN [lockFile EXCEPT !.signed = TRUE] ELSE lockFile
  /\ holds' = [holds EXCEPT ![p] = TRUE]
  /\ Goto(p, "build")
  /\ UNCHANGED <<edits, opts, stamp, input, answer, alive, ask, parsed, sim,
                 queue, asked, got>>

OwnerGuessed == lockFile # Absent /\ lockFile.signed

OwnerGone == lockFile # Absent /\ lockFile.signed /\ ~alive[lockFile.owner]

Examine(p) ==
  /\ At(p, "examine")
  /\ Goto(p, IF OwnerGone THEN "unlink" ELSE "idle")
  /\ UNCHANGED <<disk, alive, ask, holds, parsed, sim, queue, asked, got>>

Unlink(p) ==
  /\ At(p, "unlink")
  /\ lockFile' = Absent
  /\ Goto(p, "recreate")
  /\ UNCHANGED <<edits, opts, stamp, input, answer, alive, ask, holds, parsed,
                 sim, queue, asked, got>>

(***************************************************************************)
(* build: nothing when the snapshot is current; otherwise the option file  *)
(* is written, xvlog reads the sources, and xelab writes the snapshot.     *)
(***************************************************************************)
Build(p) ==
  /\ At(p, "build")
  /\ IF Current(ask[p].ncl) THEN Goto(p, "open") /\ UNCHANGED opts
     ELSE opts' = [ncl |-> ask[p].ncl] /\ Goto(p, "compile")
  /\ UNCHANGED <<lockFile, edits, stamp, input, answer, alive, ask, holds,
                 parsed, sim, queue, asked, got>>

Compile(p) ==
  /\ At(p, "compile")
  /\ parsed' = [parsed EXCEPT ![p] = [ncl |-> opts.ncl, src |-> edits]]
  /\ Goto(p, "elaborate")
  /\ UNCHANGED <<disk, alive, ask, holds, sim, queue, asked, got>>

Elaborate(p) ==
  /\ At(p, "elaborate")
  /\ stamp' = [ncl |-> parsed[p].ncl, src |-> parsed[p].src, at |-> edits]
  /\ parsed' = [parsed EXCEPT ![p] = Absent]
  /\ Goto(p, "open")
  /\ UNCHANGED <<lockFile, edits, opts, input, answer, alive, ask, holds,
                 sim, queue, asked, got>>

(***************************************************************************)
(* start: the simulator loads the snapshot, and a first command proves it  *)
(* answers.  The queue is a new one.                                       *)
(***************************************************************************)
Open(p) ==
  /\ At(p, "open")
  /\ sim' = [sim EXCEPT ![p] =
               [state |-> "idle", has |-> stamp, todo |-> <<"ready">>, with |-> Absent]]
  /\ queue' = [queue EXCEPT ![p] = <<>>]
  /\ Goto(p, "ready")
  /\ UNCHANGED <<disk, alive, ask, holds, parsed, asked, got>>

WriteFiles(p) ==
  /\ At(p, "write")
  /\ input' = ask[p].problem
  /\ Goto(p, "send")
  /\ UNCHANGED <<lockFile, edits, opts, stamp, answer, alive, ask, holds,
                 parsed, sim, queue, asked, got>>

(***************************************************************************)
(* _tcl: a command to a simulator that has exited is refused, and the      *)
(* session keeps it; otherwise the command is written and the queue is     *)
(* read up to a sentinel, the end of the output or the deadline.           *)
(***************************************************************************)
Send(p) ==
  /\ At(p, "send")
  /\ IF sim[p].state = "exited" THEN Goto(p, "idle") /\ UNCHANGED sim
     ELSE /\ sim' = [sim EXCEPT ![p].todo = Append(@, "run")]
          /\ Goto(p, "wait")
  /\ UNCHANGED <<disk, alive, ask, holds, parsed, queue, asked, got>>

Answered(p, here, next) ==
  /\ At(p, here) /\ queue[p] # <<>>
  /\ queue' = [queue EXCEPT ![p] = Tail(@)]
  /\ Goto(p, IF Head(queue[p]) = "sentinel" THEN next ELSE "idle")
  /\ UNCHANGED <<disk, alive, ask, holds, parsed, sim, asked, got>>

WaitsForReady(p) ==
  /\ Hangs /\ At(p, "ready") /\ Goto(p, "close")
  /\ UNCHANGED <<disk, alive, ask, holds, parsed, sim, queue, asked, got>>

TimeOut(p) ==
  /\ Hangs
  /\ At(p, "ready") \/ At(p, "wait")
  /\ Goto(p, "close")
  /\ UNCHANGED <<disk, alive, ask, holds, parsed, sim, queue, asked, got>>

ReadResult(p) ==
  /\ At(p, "read")
  /\ got' = [got EXCEPT ![p] = answer]
  /\ Goto(p, "idle")
  /\ UNCHANGED <<disk, alive, ask, holds, parsed, sim, queue, asked>>

(***************************************************************************)
(* close: the simulator is told to exit and killed with its children when  *)
(* it does not (taskkill /T: the tools the session starts, xsim.bat and    *)
(* those that build its xsimk.exe, are those of Windows); then the lock    *)
(* file is removed, whoever wrote it.                                      *)
(***************************************************************************)
Close(p, here, next) ==
  /\ At(p, here)
  /\ sim' = [sim EXCEPT ![p] = NoSim]
  /\ queue' = [queue EXCEPT ![p] = <<>>]
  /\ Goto(p, next)
  /\ UNCHANGED <<disk, alive, ask, holds, parsed, asked, got>>

Release(p, here, next) ==
  /\ At(p, here)
  /\ lockFile' = IF holds[p] THEN Absent ELSE lockFile
  /\ holds' = [holds EXCEPT ![p] = FALSE]
  /\ Goto(p, next)
  /\ UNCHANGED <<edits, opts, stamp, input, answer, alive, ask, parsed, sim,
                 queue, asked, got>>

\* The caller leaves the with block.
Leave(p) ==
  /\ At(p, "idle") /\ (sim[p] # NoSim \/ holds[p])
  /\ Goto(p, "close")
  /\ UNCHANGED <<disk, alive, ask, holds, parsed, sim, queue, asked, got>>

(***************************************************************************)
(* The simulator: it takes its commands in order, reads the problem when a *)
(* run starts, writes the answer when it ends and then echoes the          *)
(* sentinel.  It exits when its input is closed, but a run that is under   *)
(* way is finished first.                                                  *)
(***************************************************************************)
Echo(p) ==
  /\ sim[p].state = "idle" /\ sim[p].todo # <<>> /\ Head(sim[p].todo) = "ready"
  /\ sim' = [sim EXCEPT ![p].todo = Tail(@)]
  /\ queue' = [queue EXCEPT ![p] = Append(@, "sentinel")]
  /\ UNCHANGED <<disk, alive, pc, ask, holds, parsed, asked, got>>

RunAll(p) ==
  /\ sim[p].state = "idle" /\ sim[p].todo # <<>> /\ Head(sim[p].todo) = "run"
  /\ sim' = [sim EXCEPT ![p].state = "busy", ![p].with = input]
  /\ UNCHANGED <<disk, alive, pc, ask, holds, parsed, queue, asked, got>>

Finish(p) ==
  /\ sim[p].state = "busy"
  /\ answer' = [problem |-> sim[p].with, ncl |-> sim[p].has.ncl, src |-> sim[p].has.src]
  /\ sim' = [sim EXCEPT ![p].state = "idle", ![p].todo = Tail(@), ![p].with = Absent]
  /\ queue' = [queue EXCEPT ![p] = Append(@, "sentinel")]
  /\ UNCHANGED <<lockFile, edits, opts, stamp, input, alive, pc, ask, holds,
                 parsed, asked, got>>

\* The simulator stops by itself: the reader meets the end of its output.
Exit(p) ==
  /\ Hangs /\ sim[p].state = "busy"
  /\ sim' = [sim EXCEPT ![p].state = "exited", ![p].todo = <<>>]
  /\ queue' = [queue EXCEPT ![p] = Append(@, "end")]
  /\ UNCHANGED <<disk, alive, pc, ask, holds, parsed, asked, got>>

\* xvlog, xelab or the launch of xsim fails: start() raises where it is.
Fail(p) ==
  /\ alive[p] /\ pc[p] \in FailAt
  /\ Goto(p, "idle")
  /\ UNCHANGED <<disk, alive, ask, holds, parsed, sim, queue, asked, got>>

\* It stops answering, and its output does not end.
Hang(p) ==
  /\ Hangs /\ sim[p].state = "busy"
  /\ sim' = [sim EXCEPT ![p].state = "hung"]
  /\ UNCHANGED <<disk, alive, pc, ask, holds, parsed, queue, asked, got>>

(***************************************************************************)
(* The environment: an editor, and a process that is killed.  Its          *)
(* simulator is left without an input.                                     *)
(***************************************************************************)
Edit ==
  /\ edits < MaxEdits
  /\ \A p \in Proc : pc[p] \notin {"compile", "elaborate"}
  /\ edits' = edits + 1
  /\ UNCHANGED <<lockFile, opts, stamp, input, answer, mine>>

Crash(p) ==
  /\ alive[p] /\ pc[p] \in CrashAt
  /\ alive' = [alive EXCEPT ![p] = FALSE]
  /\ sim' = [sim EXCEPT ![p] = IF @.state \in {"busy", "hung"} \/ @.todo # <<>> THEN @ ELSE NoSim]
  /\ UNCHANGED <<disk, pc, ask, holds, parsed, queue, asked, got>>

Step(p) ==
  \/ \E ncl \in Count : Ask(p, ncl)
  \/ Create(p, "create", "examine")
  \/ Create(p, "recreate", "idle")
  \/ Sign(p) \/ Examine(p) \/ Unlink(p)
  \/ Build(p) \/ Compile(p) \/ Elaborate(p) \/ Open(p)
  \/ WriteFiles(p) \/ Send(p)
  \/ Answered(p, "ready", "write")
  \/ Answered(p, "wait", "read")
  \/ TimeOut(p) \/ ReadResult(p)
  \/ Close(p, "reopen", "rerelease") \/ Release(p, "rerelease", "create")
  \/ Close(p, "close", "release") \/ Release(p, "release", "idle")
  \/ Leave(p)

Simulate(p) == Echo(p) \/ RunAll(p) \/ Finish(p)

Next ==
  \/ \E p \in Proc : Step(p) \/ Simulate(p) \/ Exit(p) \/ Hang(p) \/ Fail(p) \/ Crash(p)
  \/ Edit

Spec == Init /\ [][Next]_vars

(***************************************************************************)
(* Whoever believes that it owns the directory is the one its lock names   *)
(* (_acquire: two processes cannot both believe they own the snapshot).    *)
(***************************************************************************)
OneOwner ==
  \A p \in Proc : alive[p] /\ holds[p] =>
    lockFile # Absent /\ lockFile.owner = p /\ lockFile.signed

(***************************************************************************)
(* No two simulators run in the directory (_acquire: two simulators in one *)
(* directory is the failure this lock exists to prevent).                  *)
(***************************************************************************)
OneSimulator ==
  Cardinality({p \in Proc : sim[p].state \in {"idle", "busy", "hung"}}) <= 1

(* One process at a time, also over a lock file that is created, signed,   *)
(* examined, removed and created again in separate steps, and over a       *)
(* process that died with it (sim.py, _acquire and release).               *)
Exclusive == OneOwner /\ OneSimulator

(***************************************************************************)
(* A request is scored on the answer to its own problem, computed by a     *)
(* machine of the count it asked for and of sources no older than it.      *)
(***************************************************************************)
AnswerOwn ==
  \A p \in Proc : got[p] # Absent =>
    /\ got[p].problem = ask[p].problem
    /\ got[p].ncl = ask[p].ncl
    /\ got[p].src >= ask[p].src

\* Every request of a process that runs ends, with an answer or an error.
Ends == \A p \in Proc : [](alive[p] => <>(pc[p] = "idle" \/ ~alive[p]))

\* A process that runs goes on, and so does its simulator unless it stops.
LiveSpec == Spec /\ \A p \in Proc : WF_vars(Step(p)) /\ WF_vars(Simulate(p))
=============================================================================
