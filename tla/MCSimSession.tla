---------------------------- MODULE MCSimSession ----------------------------
(* Instances of SimSession. *)
EXTENDS SimSession

\* The first process makes two requests, the second one.
Asks == <<2, 1>>

\* A process is killed when its simulator has nothing to do.
AtRest == {"idle", "recreate"}

Launch == {"open"}
=============================================================================
