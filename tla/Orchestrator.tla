---------------------------- MODULE Orchestrator ----------------------------
(***************************************************************************)
(* The agent that dispatches programs to the compute units and counts      *)
(* their completions (src/src/kohakunoc/noc_orchestrator.v).               *)
(*                                                                         *)
(* OrcClock is one clock edge of the module: every always block, reading   *)
(* the registers as they were and the inputs of that cycle.  Its write     *)
(* requests are pulses that last one cycle, a dispatched flit is pushed a  *)
(* cycle after its last word was read, and the credit is charged then: the *)
(* races this module has are between those cycles.                         *)
(***************************************************************************)
EXTENDS NocFlits

CONSTANTS
  STAGE_FLITS,  \* slots of the staging RAM
  Stage,        \* its contents: slot -> the instruction or data staged there
  FLIT_WORDS,   \* words the dispatcher reads per flit (5)
  TX_DEPTH, RX_DEPTH

W16 == 65536

ASSUME OrcAssumption ==
  /\ STAGE_FLITS \in 1 .. W16 - 1   \* PROG_BASE and PROG_LEN have 16 bits
  /\ Stage \in [0 .. STAGE_FLITS - 1 ->
                  [type : {"INST", "DATA"}, txn : Nat, last : BOOLEAN]]
  /\ FLIT_WORDS \in Nat /\ FLIT_WORDS >= 2
  /\ TX_DEPTH \in Nat \ {0}
  /\ RX_DEPTH \in Nat \ {0}

(***************************************************************************)
(* A register write by the host.  val is the data; for TX_KICK, whose flit *)
(* the host wrote to TX_FLIT before it, the unit a CU_CTRL read is for.    *)
(***************************************************************************)
Reg == {"NONE", "PROG_DST", "PROG_LEN", "PROG_BASE", "PROG_CRED", "PROG_KICK",
        "SIG_DONE", "TX_KICK", "RX_POP"}
Write   == [reg : Reg, val : Nat]
NoWrite == [reg |-> "NONE", val |-> 0]

VARIABLES
  wstate, wcmd,       \* the AXI write FSM and the write it is handling
  prog_dst, prog_len, prog_base, cred_val, tx_stage,    \* written by the host
  pulse,              \* the register whose one-cycle request is high, or NONE
  prog_run, prog_left, prog_rd, prog_word, prog_credit, \* the dispatcher
  disp_push, prog_flit,
  tx, orc_out,        \* transmit FIFO, output register
  rx,                 \* flits that are not signals, for the host to read
  node_status, sig_done_count

hostRegs == <<prog_dst, prog_len, prog_base, cred_val, tx_stage>>
dispRegs == <<prog_run, prog_left, prog_rd, prog_word, prog_credit, disp_push,
              prog_flit>>
orcVars == <<wstate, wcmd, hostRegs, pulse, dispRegs, tx, orc_out, rx,
             node_status, sig_done_count>>

OrcInit ==
  /\ wstate = "IDLE" /\ wcmd = NoWrite
  /\ prog_dst = 0 /\ prog_len = 0 /\ prog_base = 0 /\ cred_val = 0
  /\ tx_stage = NoFlit
  /\ pulse = "NONE"
  /\ prog_run = FALSE /\ prog_left = 0 /\ prog_rd = 0 /\ prog_word = 0
  /\ prog_credit = 0
  /\ disp_push = FALSE /\ prog_flit = NoFlit
  /\ tx = <<>> /\ orc_out = NoFlit /\ rx = <<>>
  /\ node_status = [u \in Unit |-> [code |-> "NONE", txn |-> 0, count |-> 0]]
  /\ sig_done_count = 0

-----------------------------------------------------------------------------
TxFull == Len(tx) >= TX_DEPTH
RxFull == Len(rx) >= RX_DEPTH

(* noc_in_busy: signals are absorbed whatever the receive FIFO holds.      *)
OrcInBusy(x) == RxFull /\ ~IsSignal(x)

(* in_inst_done: the only code that returns a credit.                      *)
InInstDone(x) == IsSignal(x) /\ x.code = "INST_COMPLETE"

(***************************************************************************)
(* The AXI write FSM.  A request is raised by the data beat and seen by    *)
(* the other blocks in the next cycle only.                                *)
(***************************************************************************)
RequestsNoClear(reg) ==   \* mutant of Requests: SIG_DONE clears nothing
  \/ reg \in {"PROG_CRED", "PROG_KICK"}
  \/ reg = "TX_KICK" /\ ~TxFull /\ ~prog_run
  \/ reg = "RX_POP" /\ rx # <<>>

Requests(reg) ==
  \/ reg \in {"PROG_CRED", "PROG_KICK", "SIG_DONE"}
  \/ reg = "TX_KICK" /\ ~TxFull /\ ~prog_run
  \/ reg = "RX_POP" /\ rx # <<>>

(* A mailbox flit carries the header the host wrote: a CU_CTRL read.       *)
CtrlRead(u) == [type |-> "CTRL", peer |-> u, txn |-> 0, last |-> TRUE,
                code |-> "NONE"]

WriteFsm(w) ==
  LET Sets(reg) == wstate = "DATA" /\ wcmd.reg = reg
  IN  /\ wstate' = CASE wstate = "IDLE" -> IF w.reg = "NONE" THEN "IDLE" ELSE "DATA"
                     [] wstate = "DATA" -> "RESP"
                     [] wstate = "RESP" -> "IDLE"
      /\ wcmd' = IF wstate = "IDLE" THEN w ELSE NoWrite
      /\ pulse' = IF wstate = "DATA" /\ Requests(wcmd.reg) THEN wcmd.reg
                  ELSE "NONE"
      /\ prog_dst'  = IF Sets("PROG_DST") THEN wcmd.val ELSE prog_dst
      /\ prog_len'  = IF Sets("PROG_LEN") THEN wcmd.val % W16 ELSE prog_len
      /\ prog_base' = IF Sets("PROG_BASE") THEN wcmd.val % W16 ELSE prog_base
      /\ cred_val'  = IF Sets("PROG_CRED") THEN wcmd.val % W16 ELSE cred_val
      /\ tx_stage'  = IF Sets("TX_KICK") THEN CtrlRead(wcmd.val) ELSE tx_stage

(***************************************************************************)
(* The dispatcher.  x is the flit presented on the NoC input this cycle.   *)
(***************************************************************************)
Dec(n) == (n - 1) % W16
Inc(n) == (n + 1) % W16

\* Mutants of NextCredit: of a push and a completion in one cycle, only the
\* one or only the other is counted.
NextCreditLose(x) ==
  IF pulse = "PROG_CRED" THEN cred_val
  ELSE IF disp_push /\ prog_credit # 0 THEN Dec(prog_credit)
  ELSE IF InInstDone(x) THEN Inc(prog_credit)
  ELSE prog_credit
NextCreditGain(x) ==
  IF pulse = "PROG_CRED" THEN cred_val
  ELSE IF InInstDone(x) THEN Inc(prog_credit)
  ELSE IF disp_push /\ prog_credit # 0 THEN Dec(prog_credit)
  ELSE prog_credit

NextCredit(x) ==
  IF pulse = "PROG_CRED" THEN cred_val
  ELSE IF disp_push /\ ~InInstDone(x) /\ prog_credit # 0 THEN Dec(prog_credit)
  ELSE IF InInstDone(x) /\ ~disp_push THEN Inc(prog_credit)
  ELSE prog_credit

KickTaken == pulse = "PROG_KICK" /\ ~prog_run /\ prog_len # 0
DispCan   == prog_run /\ ~TxFull /\ prog_credit # 0

LastWord == prog_word = FLIT_WORDS - 1

(* What the slot prog_rd holds once its last word is in prog_flit.         *)
StagedFlit == [type |-> Stage[prog_rd].type, peer |-> 0,
               txn |-> Stage[prog_rd].txn, last |-> Stage[prog_rd].last,
               code |-> "NONE"]

Dispatcher(x) ==
  /\ prog_credit' = NextCredit(x)
  /\ \/ /\ KickTaken
        /\ prog_run' = TRUE /\ prog_left' = prog_len
        /\ prog_rd' = prog_base /\ prog_word' = 0
        /\ disp_push' = FALSE
        /\ UNCHANGED prog_flit
     \/ /\ ~KickTaken /\ DispCan /\ LastWord
        /\ prog_flit' = StagedFlit
        /\ prog_rd' = prog_rd + 1 /\ prog_word' = 0
        /\ disp_push' = TRUE
        /\ prog_run' = (prog_left # 1)
        /\ prog_left' = IF prog_left = 1 THEN prog_left ELSE prog_left - 1
     \/ /\ ~KickTaken /\ DispCan /\ ~LastWord
        /\ prog_word' = prog_word + 1
        /\ disp_push' = FALSE
        /\ UNCHANGED <<prog_run, prog_left, prog_rd, prog_flit>>
     \/ /\ ~KickTaken /\ ~DispCan
        /\ disp_push' = FALSE
        /\ UNCHANGED <<prog_run, prog_left, prog_rd, prog_word, prog_flit>>

(* The header is stamped as the flit is pushed, from the register as it is *)
(* in that cycle.                                                          *)
DispFlit == [prog_flit EXCEPT !.peer = prog_dst]

(***************************************************************************)
(* Transmit FIFO and output register: busy is noc_out_busy this cycle.     *)
(***************************************************************************)
OrcSends(busy) == IsFlit(orc_out) /\ ~busy
TxPop(busy) == tx # <<>> /\ (~IsFlit(orc_out) \/ ~busy)

Transmit(busy) ==
  LET popped == IF TxPop(busy) THEN Tail(tx) ELSE tx
      f == IF disp_push THEN DispFlit ELSE tx_stage
  IN  /\ orc_out' = IF TxPop(busy) THEN Head(tx)
                    ELSE IF busy THEN orc_out ELSE NoFlit
      /\ tx' = IF (disp_push \/ pulse = "TX_KICK") /\ ~TxFull
               THEN Append(popped, f) ELSE popped

(* Signals are summarised; anything else that is accepted is queued.       *)
Receive(x) ==
  LET popped == IF pulse = "RX_POP" /\ rx # <<>> THEN Tail(rx) ELSE rx
  IN  /\ rx' = IF IsFlit(x) /\ ~RxFull /\ ~IsSignal(x) THEN Append(popped, x)
               ELSE popped
      /\ node_status' =
           IF IsSignal(x)
           THEN [node_status EXCEPT ![x.peer] =
                   [code |-> x.code, txn |-> x.txn, count |-> Inc(@.count)]]
           ELSE node_status
      /\ sig_done_count' = IF pulse = "SIG_DONE" THEN 0
                           ELSE IF IsSignal(x) THEN Inc(sig_done_count)
                           ELSE sig_done_count

OrcClock(w, x, busy) ==
  WriteFsm(w) /\ Dispatcher(x) /\ Transmit(busy) /\ Receive(x)

-----------------------------------------------------------------------------
OrcTypeOK ==
  /\ wstate \in {"IDLE", "DATA", "RESP"}
  /\ wcmd \in Write
  /\ prog_dst \in Nat /\ tx_stage \in Flit
  /\ {prog_len, prog_base, cred_val, prog_left, prog_credit, sig_done_count}
       \subseteq 0 .. W16 - 1
  /\ pulse \in Reg
  /\ prog_run \in BOOLEAN /\ disp_push \in BOOLEAN
  /\ prog_rd \in 0 .. STAGE_FLITS /\ prog_word \in 0 .. FLIT_WORDS - 1
  /\ prog_flit \in Flit /\ orc_out \in Flit
  /\ tx \in Seq(Flit) /\ Len(tx) <= TX_DEPTH
  /\ rx \in Seq(Flit) /\ Len(rx) <= RX_DEPTH
  /\ node_status \in
       [Unit -> [code : Code, txn : Nat, count : 0 .. W16 - 1]]

=============================================================================
