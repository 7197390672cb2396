------------------------------- MODULE Machine -------------------------------
(***************************************************************************)
(* The card as the host's driver meets it: the agent's registers, the      *)
(* dispatcher that streams the staged flits, the units that execute them,  *)
(* and the mailbox.  Cycles and routes are left to Dispatch and NocMesh;   *)
(* here a unit has a queue for each class of flit, and what it sends       *)
(* arrives in the order sent, any time later.                              *)
(*                                                                         *)
(* A memory word is a number; Never is the word that nothing has written.  *)
(***************************************************************************)
EXTENDS DeviceProgram

(* Of Hw: nodes, coordinate -> [kind, version]; agent, its coordinate;     *)
(* grid, columns and rows; rx, the mailbox; words, of memory; cycles, the  *)
(* range of a cycle counter.                                               *)
Never == 0
Nodes == DOMAIN Hw.nodes
L1    == 0 .. 1     \* words of a unit's L1
FromL1 == -1        \* a kernel that reads its L1 instead of memory

VARIABLES
  mem,    \* word -> value
  stage,  \* the staging memory: slot -> flit
  agent,  \* the dispatcher's registers, the completion counter, the mailbox
  unit    \* node -> its queues and its datapath

machine == <<mem, stage, agent, unit>>

NoFlitHere == [op |-> "NONE", a |-> 0, b |-> 0, of |-> 0]

MachineInit ==
  /\ mem = [w \in 0 .. Hw.words - 1 |-> Never]
  /\ stage = [s \in 0 .. Hw.stage - 1 |-> NoFlitHere]
  /\ agent = [dst |-> Hw.agent, base |-> 0, len |-> 0, run |-> 0, next |-> 0, cred |-> 0,
              of |-> 0, count |-> 0, rx |-> <<>>,
              status |-> [n \in Nodes |-> [count |-> 0, valid |-> 0, code |-> "NONE", arg |-> 0]]]
  /\ unit = [n \in Nodes |-> [inst |-> <<>>, data |-> <<>>, ctl |-> <<>>, out |-> <<>>,
                              l1 |-> [w \in L1 |-> Never], acc |-> Never, code |-> Never,
                              src |-> 0, dst |-> 0, buf |-> 0, at |-> 0, left |-> 0,
                              drop |-> FALSE, err |-> FALSE,
                              busy |-> 0, compute |-> 0, worked |-> 0]]

---------------------------------------------------------------------------
(* A register write.  The dispatcher takes a kick only when it is idle and *)
(* has something to stream.                                                *)
RegWrite(reg, data, of) ==
    CASE reg.name = "SIG_DONE"  -> [agent EXCEPT !.count = 0]
      [] reg.name = "PROG_CRED" -> [agent EXCEPT !.cred = data.count]
      [] reg.name = "PROG_DST"  -> [agent EXCEPT !.dst = data.node]
      [] reg.name = "PROG_BASE" -> [agent EXCEPT !.base = data.slot]
      [] reg.name = "PROG_LEN"  -> [agent EXCEPT !.len = data.count]
      [] reg.name = "PROG_KICK" ->
           IF agent.run = 1 \/ agent.len = 0 THEN agent
           ELSE [agent EXCEPT !.run = 1, !.next = 0, !.of = of]

RegValue(reg) ==
    CASE reg.name = "SIG_DONE"    -> [count |-> agent.count]
      [] reg.name = "PROG_STAT"   -> [run |-> agent.run]
      [] reg.name = "CAPS"        -> [grid |-> Hw.grid]
      [] reg.name = "NODE_STATUS" -> agent.status[<<reg.x, reg.y>>]

(* A question in the mailbox: what it is for, its tag, and which of all    *)
(* the questions it is.  It is not sent while a program is streamed; the   *)
(* agent's own coordinate sends it back; where no node is it is dropped.   *)
Question(node, idx, txn, id) ==
    IF agent.run = 1 THEN UNCHANGED machine
    ELSE IF node = Hw.agent
    THEN /\ agent' = [agent EXCEPT !.rx = Append(@, [op |-> "REQUEST", src |-> node,
                          txn |-> txn, id |-> id, value |-> [kind |-> "NONE", version |-> 0]])]
         /\ UNCHANGED <<mem, stage, unit>>
    ELSE /\ unit' = IF node \in Nodes
                    THEN [unit EXCEPT ![node].ctl = Append(@, [idx |-> idx, txn |-> txn, id |-> id])]
                    ELSE unit
         /\ UNCHANGED <<mem, stage, agent>>

---------------------------------------------------------------------------
(* The dispatcher: the next staged flit, for one credit.  A data flit does *)
(* not wait in the instruction queue.                                      *)
CanStream == agent.run = 1 /\ agent.cred > 0
Stream ==
  LET flit == [stage[agent.base + agent.next] EXCEPT !.of = <<@, agent.of>>]
      last == agent.next + 1 = agent.len
  IN  /\ CanStream
      /\ agent' = [agent EXCEPT !.cred = @ - 1, !.next = @ + 1, !.run = IF last THEN 0 ELSE 1]
      /\ unit' = IF agent.dst \notin Nodes THEN unit
                 ELSE IF flit.op \in {"BURST", "DATA"}
                      THEN [unit EXCEPT ![agent.dst].data = Append(@, flit)]
                      ELSE [unit EXCEPT ![agent.dst].inst = Append(@, flit)]
      /\ UNCHANGED <<mem, stage>>

Signal(code, arg) == [op |-> "SIGNAL", code |-> code, arg |-> arg]

(* What an instruction does to its unit; every one of them is signalled    *)
(* complete.  A cluster fills, multiplies and drains; a vector core loads  *)
(* its program and its addresses, and runs them.                           *)
Work(v) == v + 10
Executed(u, i) ==
    CASE i.op = "FILL"  -> [u EXCEPT !.l1[0] = mem[i.a]]
      [] i.op = "GEMM"  -> [u EXCEPT !.acc = Work(u.l1[0])]
      [] i.op = "DRAIN" -> u
      [] i.op = "IMEM"  -> [u EXCEPT !.code = i.a]
      [] i.op = "DESC"  -> [u EXCEPT !.src = i.a, !.dst = i.b]
      [] i.op \in {"RUN", "RUN_PEER"} -> u

Runs(i) == i.op \in {"RUN", "RUN_PEER"}
Operand(u) == IF u.src = FromL1 THEN u.l1[0] ELSE mem[u.src]
(* A kernel faults, and stores nothing, that was not loaded, or that runs  *)
(* after a burst which named a place that its core lacks.                  *)
Faults(u, i) == Runs(i) /\ (u.code = Never \/ u.err)
Stores(u, i) == i.op = "DRAIN" \/ (Runs(i) /\ ~Faults(u, i))
Stored(u, i) == IF i.op = "DRAIN" THEN u.acc ELSE Operand(u) + u.code
StoreAt(u, i) == IF i.op = "DRAIN" THEN i.b ELSE u.dst
Spent(u, i) ==
    [u EXCEPT !.inst = Tail(@), !.busy = (@ + 3) % Hw.cycles, !.worked = @ + 3,
              !.compute = CASE i.op = "GEMM" -> (@ + 2) % Hw.cycles
                            [] Runs(i) -> 2
                            [] OTHER -> @,
              !.err = @ /\ ~Runs(i),
              !.out = Append(@, Signal(IF Faults(u, i) THEN "FAULT" ELSE "INST", 0))]

(* A kernel may send a word to the core that i.b names, which answers the  *)
(* agent.                                                                  *)
Peer(n) == CHOOSE p \in Nodes : p # n /\ Hw.nodes[p].kind = "VC"
Run(n) ==
  LET u == unit[n]
      i == Head(u.inst)
      done == [unit EXCEPT ![n] = Spent(Executed(u, i), i)]
      word == <<[op |-> "BURST", a |-> 1, b |-> 0, of |-> <<0, 0>>],
                [op |-> "DATA", a |-> u.code, b |-> 1, of |-> <<0, 0>>]>>
  IN  /\ u.inst # <<>>
      /\ unit' = IF i.op = "RUN_PEER" /\ ~Faults(u, i) THEN [done EXCEPT ![Peer(n)].data = @ \o word] ELSE done
      /\ mem' = IF Stores(u, i) THEN [mem EXCEPT ![StoreAt(u, i)] = Stored(u, i)] ELSE mem
      /\ UNCHANGED <<stage, agent>>

(* A burst: its descriptor, then its words into L1; the last is signalled. *)
(* A vector core has one buffer; a burst for another, or for more words    *)
(* than there are, is counted out, and the next kernel told.               *)
Misplaced(d) == d.b # 0 \/ d.a - 1 \notin L1
Land(n) ==
  LET u == unit[n]
      d == Head(u.data)
      rest == [u EXCEPT !.data = Tail(@)]
  IN  /\ u.data # <<>>
      /\ unit' = [unit EXCEPT ![n] =
           IF d.op = "BURST"
           THEN [rest EXCEPT !.left = d.a, !.buf = d.b, !.at = 0,
                             !.drop = Misplaced(d), !.err = @ \/ Misplaced(d)]
           ELSE [rest EXCEPT !.l1 = IF u.drop THEN @ ELSE [@ EXCEPT ![u.at] = d.a],
                             !.at = @ + 1, !.left = @ - 1,
                             !.out = IF u.left = 1 /\ ~u.drop THEN Append(@, Signal("DATA", u.buf))
                                     ELSE @]]
      /\ UNCHANGED <<mem, stage, agent>>

(* A unit answers a question whatever else it does.                        *)
Register(n, idx) ==
    CASE idx = "CAPS"     -> Hw.nodes[n]
      [] idx = "COUNTERS" -> [busy |-> unit[n].busy, worked |-> unit[n].worked]
      [] idx = "DBG"      -> [compute |-> unit[n].compute,
                              cumulative |-> Hw.nodes[n].kind = "MG"]
      [] idx = "STATUS"   -> [busy |-> unit[n].inst # <<>>]
Reply(n) ==
  LET q == Head(unit[n].ctl)
  IN  /\ unit[n].ctl # <<>>
      /\ unit' = [unit EXCEPT ![n].ctl = Tail(@), ![n].out = Append(@,
             [op |-> "RESPONSE", src |-> n, txn |-> q.txn, id |-> q.id, value |-> Register(n, q.idx)])]
      /\ UNCHANGED <<mem, stage, agent>>

(* The agent counts a signal, returns the credit of an instruction, and    *)
(* keeps a reply for the host while there is room.                         *)
CanArrive(n) == unit[n].out # <<>> /\ (Head(unit[n].out).op = "SIGNAL" \/ Len(agent.rx) < Hw.rx)
Arrive(n) ==
  LET m == Head(unit[n].out)
  IN  /\ CanArrive(n)
      /\ unit' = [unit EXCEPT ![n].out = Tail(@)]
      /\ agent' = IF m.op = "SIGNAL"
           THEN [agent EXCEPT !.count = (@ + 1) % Hw.wrap,
                              !.cred = IF m.code = "INST" THEN @ + 1 ELSE @,
                              !.status[n] = [count |-> (@.count + 1) % Hw.wrap, valid |-> 1,
                                             code |-> m.code, arg |-> m.arg]]
           ELSE [agent EXCEPT !.rx = Append(@, m)]
      /\ UNCHANGED <<mem, stage>>

MachineNext == Stream \/ \E n \in Nodes : Run(n) \/ Land(n) \/ Reply(n) \/ Arrive(n)

(* Nothing the machine still does by itself.                               *)
Quiet == /\ ~CanStream
         /\ \A n \in Nodes : /\ unit[n].inst = <<>> /\ unit[n].data = <<>> /\ unit[n].ctl = <<>>
                             /\ ~CanArrive(n)
=============================================================================
