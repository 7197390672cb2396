-------------------------------- MODULE Jobs --------------------------------
(***************************************************************************)
(* What dispatch promises: every instruction of a program that was kicked  *)
(* at a unit is reported by that unit, once, in program order.             *)
(***************************************************************************)
EXTENDS Sequences

CONSTANTS Unit,    \* the compute units
          Program  \* the programs that may be kicked: sequences of instructions

VARIABLE jobs  \* jobs[u]: kicked at u and not yet reported, oldest first

JInit == jobs = [u \in Unit |-> <<>>]

(* In most cycles nothing is kicked or reported; in one the agent may take *)
(* a report of one unit and launch a program at one, the same or another.  *)
Rest      == UNCHANGED jobs
Report(u) == jobs[u] # <<>> /\ jobs' = [jobs EXCEPT ![u] = Tail(@)]
Kick(u)   == \E p \in Program : jobs' = [jobs EXCEPT ![u] = @ \o p]
ReportAndKick(u, v) ==
  /\ jobs[u] # <<>>
  /\ \E p \in Program :
       jobs' = [[jobs EXCEPT ![u] = Tail(@)] EXCEPT ![v] = @ \o p]

JNext == \/ Rest
         \/ \E u \in Unit : Report(u) \/ Kick(u)
         \/ \E u \in Unit, v \in Unit : ReportAndKick(u, v)

JSpec == JInit /\ [][JNext]_jobs

=============================================================================
