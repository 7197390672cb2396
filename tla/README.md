# KohakuTPU: a verification development in TLA+

KohakuTPU is a tensor processor in Verilog (`src/src`: a mesh network of
compute units, memory gateways that join meshes, AXI plumbing) with a Python
compiler and host runtime (`src/src/ktpu`). This directory models its control
(the protocols by which the blocks exchange flits, packets, credit and
completions), model-checks it with TLC and proves the main results with TLAPS.

All source paths below are relative to the repository.

## 1. Inventory

| Part | State it keeps | Operations | Talks to | What is hard | What makes it correct |
|---|---|---|---|---|---|
| **Link end** `kohakumas/mag_link.v`, pipe `mag_link_pipe.v` | a held header, a credit counter and a debt counter per class, transmit FSM, inbound framing, four receive FIFOs | accept a header, grant, send a beat, build and send a credit packet, decode a beat, drain | the peer end over registers with no backpressure; sources and consumers by valid/ready | four parties touch one counter in one cycle; headers and data travel by separate FIFOs; credit kept back | no overflow, credit conserved, packets in order, no mutual wait, a stalled class does not stop the other |
| **Interlink endpoint** `mag_ilink.v` | mover split, outbound round robin, inbound write accounting, doorbells | encapsulate, retire, ring, configure | link end, local AXI, agent | doorbell against data still being written; clear against set | a doorbell never overtakes the data it announces; every class gets the outbound port |
| **Packet arbiters, switch** `il_pkt_arb.v`, `mag_switch.v` | lock, round robin, per-port queues | merge two packet streams, split one, route on the 2x2 of meshes | link ends | packets must not interleave; cyclic waits across four meshes | atomic packets, no deadlock |
| **Router** `kohakunoc/noc_inport.v`, `noc_outport.v`, `noc_router.v` | a hold slot per input and local input, a round-robin counter per output | load, route, arbitrate, send | neighbours by rd/busy | round robin that advances whether or not it was used; turns masked off | flits neither lost nor doubled, order per flow, no deadlock |
| **Compute-unit base** `noc_cu_base.v`, `noc_cu_null.v` | instruction and receive queues, pending acknowledgement, completion, fault, transmit slot | accept a flit, retire, answer CU_CTRL | router; the unit's datapath | one pending slot each for several kinds of event | every instruction is completed or faulted once, no credit is lost |
| **Orchestrator** `noc_orchestrator.v` | staged program, batches, credit per unit, signal FIFO, counters, transmit FIFO | stage, kick, dispatch, count, collect | host by AXI, units by flits | credit and counters updated by a stream of signals while the dispatcher runs | no instruction overruns a unit's queue, a kicked program finishes |
| **Memory gateway** `mag.v`, `mag_mem_port.v`, `mag_dram_port.v`, `mx_quant.v` | intake queues, read engine, write slots | admit, read, quantise, answer, write | NoC ports, AXI | partial writes from several units interleaved; admission margins | every request answered once, no intake overflow |
| **Mover** `mm_mover.v`, `mm_prng.v` | descriptor walk | copy, fill, gather | AXI | read/write channels in flight | every byte of the descriptor once |
| **AXI blocks** `kohakuaxi/*` | arbiters, bursts, clock-crossing queues | split a command into bursts, route responses | memory | 4 KB boundary, WLAST, two masters | legal bursts that cover the command, responses to their owner |
| **Matmul cluster** `kohakutpu/matmul/*` | L1 banks, sweep counters, accumulator tile, command queue, drain | FILL, GEMM, DRAIN | NoC | fills overlapping sweeps, results matched to commands by order | a sweep reads only what was filled; a result is emitted after its last K block |
| **Vector core** `kohakutpu/vector/*` | program counter, register pending counts, fill slots | issue, fill, drain, halt | NoC | non-blocking fills, 14-deep lanes with no bypass | no register or L1 word read before it is written |
| **Kernel authoring** `ktpu/dsl` | the traced graph | arithmetic, views, reductions, powers, `trace`; the kernels of `library.py` and `nn.py` | the graph builders | a rescaled running sum, a mask on one block only, empty groups, odd strides | a traced kernel computes the formula it is named for |
| **Compiler** `ktpu/ir`, `passes`, `codegen` | the graph, blockings, bands, the memory map, instructions per node | fold views, split and absorb, tile, lower, verify, place, lay out, generate | the interpreters and the machine | regions laid out one way and read another; operands shared by instances; wide reductions in two passes | what runs is what the graph means |
| **Kernel planner, bench** `ktpu/hw/kernel.py`, `bench.py` | tiles, chunks, banks, rounds, the host program, telemetry | plan, upload, run, collect, report | clusters through the dispatcher | double buffering in two banks, tiles lent from one round to the next, fills while a sweep runs | the product is whole, no sweep is disturbed, the verdict is right |
| **Simulator session** `ktpu/hw/sim.py` | lock file, sources, option file, snapshot, problem files, the process and its reader's queue | acquire, build, start, run, time out, close | other processes over the file system; xsim over a pipe | a lock left by a dead process; a snapshot of other options; a late sentinel | one owner, the answer is of the question, every request ends |
| **Card runtime** `ktpu/hw/fpga.py`, `device.py`, `chain.py`, `vector.py`, `board.py` | tags, buffers, the baseline of counters, a plan's state | run, product, kernel, push, launch, control read, sweep, check, upload, download | the orchestrator's registers, memory and staging memory over PCIe or JTAG | late replies, timed-out runs, short transfers, a shifted write path, staging memory reused | memory and answers are what the calls do one after the other |
| **Memory planner, allocator** `ktpu/hw/memplan.py`, `runtime.py` | free list, high-water mark, placements, what is written | `alloc`, `free`, `solve`, `verify`, `wrote`, `check` | the card runtime | merging of freed spans, reuse between steps, steps issued out of order | live tensors are apart, a read sees the last write or is refused |

`PROJECT.json` lists every part with its status.

## 2. Plan

Ordered by how much of the machine rests on the part and how little a
simulation can say about it.

| # | Part | Modules | What it is held to | State |
|---|---|---|---|---|
| 1 | interlink credit protocol | `MagLink`, `Totals` | `PacketChannel` | checked; types, conservation, room, freedom from mutual wait and the refinement proved |
| 2 | control plane: orchestrator, unit base, host | `Orchestrator`, `CuBase`, `NocFlits`, `Dispatch` | `Jobs` | checked; credit, queues, the poll, the idle answer and the refinement of `Jobs` proved for any number of units |
| 3 | mesh of routers | `NocMesh` | every flow in order at its endpoint | checked; types, turns, destination, freedom from deadlock and order of delivery proved for every mesh |
| 4 | interlink endpoint and switch | `MagILink`, `MagSwitch` | `PacketChannel` | checked; whole packets, paired writes, covered doorbells, whole streams and both refinements proved |
| 5 | graph, views and their folding | `GraphIR`, `Tracer`, `ViewPass`, `Views` | the meaning of the graph (`Run` of `GraphIR`), element for element | checked |
| 6 | compiler, code generator, instruction interpreter | `Sched`, `Lower`, `Codegen`, `MeshInterp`, `Compile` | the meaning of the graph | checked |
| 7 | kernels of the library | `Kernels` | their formulas, in `MCCompile` | checked |
| 8 | kernel planner, bench, report | `DeviceProgram`, `Bench`, `PlanRun` | the matrix product | checked |
| 9 | simulator session | `SimSession` | one owner, own answer | checked; both proved |
| 10 | card runtime, memory planner, allocator | `Machine`, `Arena`, `Session` | the calls one after the other | checked; the allocator proved |
| 11 | memory port: intake margins, write slots, read engine | `MagMemPort` | requests answered once | to do |
| 12 | matmul cluster: command queue, clock crossing | `MxCluster` | a result is the fold of its K blocks | to do |
| 13 | AXI arbiters and burst splitter | `AxiN1`, `AxiBursts` | responses to their owner; bursts tile the command | to do |
| 14 | vector core issue and fills | `VecCore` | no read before its write | to do |

There is one run per question: two for the link, two for the control plane, one
for each other part. Bounds are the smallest at which the hazard of the part
happens (section 4 says, part by part, which).

## 3. How the modules are built

A component's module holds its state, `Init`, one action per operation, `Next`,
`Spec`, the fair specification and the properties. `MC...` modules give the
constants that a `.cfg` cannot spell. `...Theorems` modules hold proofs. Bounds
on traffic (`MaxPkts`, `MaxFlits`, `MaxKicks`, ...), on the length of a chain (`MaxViews`)
and on requests and edits (`MaxAsks`, `MaxEdits`) are constants that appear
only in the guards of the environment, and wires and queues have the depth of a
constant, so nothing else is cut off. Runs say `CHECK_DEADLOCK FALSE` because
that traffic is finite: when it has been delivered, the system stops.
`session_calls` checks deadlock; a session that has ended stutters (`Closed`).

The compiler, the planner and the runtime are programs that a caller drives, and
mostly functions. Such a function is an operator; the module that drives it
(`Views`, `Compile`, `PlanRun`, `Session`) has the actions, and its initial
states or its constants list what is asked. A function that raises returns the
empty set or a refusal, which the driver takes as an action of its own.
Operators marked as the mutant of a definition are plausible mistakes in the
code it models; no specification uses them.

`PacketChannel` is what every crossing between two meshes is held to: per
stream, what was accepted is delivered once and in order, and nothing vanishes
on the way (`got` counts what the receiver really has). `MagLink`, `MagILink`
and `MagSwitch` each implement it, at their own level, by a refinement mapping
that lists where a packet can be, oldest first; each of the three refinements is
checked by TLC and proved for every value of the constants. The levels fit together so:
`MagSwitch` takes a link to be what `MagLink` was checked to be, `MagILink`
takes the crossing to be what `MagSwitch` was checked to be.

## 4. The models

### 4.1 The link (`MagLink`)

**What.** Both ends of `mag_link.v` and the pipe between them. Per end: the held
headers `q`, the transmitter `tst`..`csend`, credit `cred` and debt `ret`, the
inbound framing, the receive FIFOs. `OfferHeader`, `StartCredit`, `Grant`,
`SendCredit`, `SendBeat` are the transmit half, `Arrive` the receive half,
`PopHeader` and `PopBeat` the consumer (`il_pkt_demux4` and the merges, which
draw a header, then its beats), `FlagLen` the length fault.

**Clock edges as interleavings.** A clock edge does several of these at once. It
is the same as doing them in this order: `Grant` or `StartCredit` (which read
the slot as it was) before `OfferHeader`; `Arrive` before `PopBeat` when the
FIFO is full and after it otherwise; each reads registers only it or an earlier
one writes. The pipe is a queue of at most `DEPTH` beats: a beat takes at least
its place, and any longer time.

**Assumed of the neighbours.** A source's beats agree with its header's length
(the assertion at line 449 says so), headers are offered on the class their
destination asks for, consumers draw a header before its beats. `RX_BEATS` fits
its 16-bit counter.

**Runs.** `link_duplex`: both ends send, so that credit packets and data
compete for one wire in both directions, with `RX_BEATS` = 3, `CRED_BATCH` = 2,
`MAX_BEATS` = 2, the tightest values that meet `Headroom` (section 6 says what
happens beyond it). `TXN_MAX` = 1 makes the cap on a returned count (line 305)
bite. `link_stall`: one end sends on both classes more packets than a FIFO
holds, consumers of class 1 may never draw, and class 1 offers a packet longer
than `MAX_BEATS`.

**Fairness.** `LinkFairness`: registers are clocked. `ConsumerFairness(c)`:
consumers of class `c` go on drawing. Sources need not offer.

**Proved** (`MagLinkTheorems`), for every buffer, batch, packet length, pipe and
traffic: `TypeOK`, `CreditConserved`, `DataRoom`, `NoCreditDeadlock`. None of
them is inductive alone. Conservation needs `WireFramed`: the class a beat is
charged to at the sender is the class the receiver files it under, and the
receiver works that out from the framing of what is on the wire, so the
invariant must know how the receiver stands before every beat of the wire.
`IInv` is the conjunction; there is one lemma per action that keeps it.
`Totals` and `TotalsTheorems` give the sum over a wire (a cardinality, so that
its laws can be proved without induction) and what appending and removing a
beat does to it. `DataRoom` is then arithmetic: a beat on the wire is part of a
sum of `RX_BEATS`. `NoCreditDeadlock` is the same sum with everything else zero.

`ImplementsChannel` is the theorem `LinkIsChannel`. A packet of a stream is, from
the oldest place to the newest, with a consumer that has drawn its header
(`Opened`), in a header FIFO (`Filed`), on the wire (`Crossing`), about to leave
(`Leaving`) or held in a slot (`Held`), and `Pending` is these five sequences one
after the other. Each action shortens one at its head and lengthens the one
before at its end, appends to the last (a packet is accepted), removes the head of the first
(it is delivered), or leaves all five alone; there is one lemma per action that says
which, for every stream. `Totals` has the sequence of the numbers picked
from a queue of beats (`Picked`, by rank, so that its laws need no induction either).
What the steps need beyond `IInv` is in `ChanInv`:

- `HeadersPaired`: each header that is filed or whose packet is being drawn
  answers for one last beat, in the data FIFO or still to come. A header
  is filed by `mag_link.v` without a look at the room in its FIFO; it has room because
  the credit it was sent on is for beats and each header comes with at least one.
- `Numbered`: whatever is pending is the number of a packet some source offered.

Only liveness is TLC's.

### 4.2 The control plane (`Dispatch`, `Orchestrator`, `CuBase`, `NocFlits`)

**What.** `OrcClock` and `CuClock` are one clock edge of `noc_orchestrator.v`
and `noc_cu_base.v`: every register assigned in their always blocks, in one
step, since what these blocks get wrong they get wrong within a cycle.
`Dispatch` composes an orchestrator, units, the mesh between them (a queue of
`NET` flits per unit and direction) and the host of `device.py` and
`kernel.py`: clear `SIG_DONE`, seed the credit, kick each program once the last
has been streamed, read a status through the mailbox at any time between two
programs' writes, poll until `SIG_DONE` equals the number of completions. A read
looks at nothing first (`fpga.ctrl_read`): the agent ignores `TX_KICK` while a
program runs or its transmit FIFO is full, and a request of the cycle in which
a dispatched flit takes the last place is lost. Parties are clocked on their own,
which covers all latencies and alignments.

**Abstracted.** Register writes are single-beat AXI writes with their response;
the host reads registers directly. The staging RAM's contents are fixed during
a round. A program slot is two words in TLC, five in the code: enough for the
check of credit to be a cycle away from its charge. Queues have one entry where
the code is meant to work with a full one. The datapath is nondeterministic
within its obligations (`DatapathCan`).

**Assumed of the host.** It obeys the driver: polls `run` before a kick, seeds at
most `inst_depth` credits, and gives a round enough of them: no completion is
returned for the last instruction of a program or for a fault
(`SEED` = 4 >= 2 programs + 1 fault in `dispatch_one`). Its time-out of a read, which
is of seconds, ends reads that were dropped and no other (`ReadTimesOut`); answers
that come after it are 4.11's. A program holds each burst
it begins up to the burst's last flit (`WholeBursts`; `cu_data_flits`,
`device.py:230-235`), and addresses and lengths fit the 16-bit registers
(`STAGE_FLITS`, `SEED` < `W16`).

**Runs.** `dispatch_one` has the long rounds, the fault and the second round
(stale counts); `QueuesHold` says there that no queue is written without room,
although its room was looked at a cycle before, for everything that is
dispatched; a mailbox request has no such promise. `dispatch_two` has two units,
data and status reads, some of them dropped.

**Fairness.** The orchestrator and the units are clocked, the host goes on
polling, datapaths retire what they accept.

**Proved** (`DispatchTheorems`), for any set of units, any programs, any depth of
queues, mesh and staging RAM, any number of words per flit, rounds, reads and
faults, under the assumptions above: `CreditCovers`, `QueuesHold`, `RoundOver`
and `IdleReplyTrue`. None of the four is inductive. `DInv` adds, part by part,
what makes them so:

- `PlacesOK`: which flits each queue, link and register holds, and that a unit
  that executes has room for its completion;
- `HostOK`, `DispOK`: the host writes one register at a time, and from which write
  to which (`WriteOK`, `JobOK`); the dispatcher runs, and pushes the cycle after
  its check, only while its credit is not spent and no write is on its way but the
kick of a read, which is ignored;
- `SignalsOK`: `total` is what is still to come (flits in the lines, slots left, the
  program being loaded) plus `sig_done_count`, up to multiples of 2^16: equality with
  the count that is polled then leaves nothing to come;
- `ReadsOK`, `QuietOK`: one status read is out at a time, and while it is, from the
  transmit FIFO until its answer is popped, the dispatcher rests; so nothing follows
  it to its unit, and nothing of the unit follows an answer that says idle;
- `BurstsOK`: the end of a burst that has begun to arrive is behind it, in the mesh,
  the FIFO or the slots left, so that no data is left in a receive queue
  when no acknowledgement is due.

All flits that concern a unit are one sequence, `Line(u)`, from the agent's input back
to the dispatcher; `CountOf` counts those of a kind in it, and `Total` (see 4.1) sums
over the units. A clock edge of a unit or of the agent moves flits along the line:
`CuCount` and `OrcCount` say, place by place, that it neither loses nor doubles one,
and `InLine` is what the inequalities of credit, completions and reads are about.

**Refinement.** `Jobs`: per unit a queue of instructions; a kick appends the
instructions of a program, a report removes the oldest. The refinement mapping
`Unreported(u)` joins, oldest first, the transaction ids of the unit's jobs in every
place from the agent's input back to the slots of the program that are left. One
clock edge of the agent may take a report of one unit and a kick at another.

**Refinement proved** (`DispatchIsJobs`), under the same assumptions. `Passes(a, n, m, b)`
says that a place that held `a` holds `b` once `n` has come in behind and `m` has gone out
in front. Each place has a lemma that names what it takes in and gives (`UpPasses`,
`OutPasses`, ..., `UnsentPasses`); `PassOn` joins neighbours, so that along the whole line
only the two ends are left: the report the agent takes and the program it launches
(`OrcPassesJobs`). A unit's edge leaves its line as it is (`CuKeepsJobs`), whichever of
completion, reply and data wins the transmit register. `DInv` supplies the rest: the ids
in a place are natural numbers, a unit that executes has its instruction in `rep`, nothing is
kicked while a program still runs. That every job is reported at last (`HostFinishes`)
is not part of `Jobs` and stays with TLC.

**Also seen.** `docs/spec/control-registers.md:320-322` says that `TX_KICK` is ignored
while `prog_run` is set and that a host must check; the driver does not, and a
read during a program ends in its time-out. `device.py:582-584` says that DST, BASE and LEN are latched by the
kick; PROG_DST is not (`noc_orchestrator.v:347`), so that a write to it while
a program runs redirects the rest. The driver polls first and is not exposed.
The comment at line 224 says that signals can never be blocked by a full
receive FIFO; a refused reply in front of them on the link does block them
where the orchestrator is attached to the mesh directly, while in the ships
`mag.v` (385-399) drops the refused flit instead.

### 4.3 The mesh (`NocMesh`)

**What.** The first part of the module is pure: `Route` (dimension order on the clamped
destination), `Kill` (the masked turns), how ports are wired and where
endpoints attach. The second moves flits: `Inject`, `Load`, `Grant`, `Send`,
`Deliver`. A clock edge is a sequence of these moves (sends and deliveries,
then grants, then loads). Which of several requests an output favours is left
open, because `port_rr` advances in every cycle, used or not. Endpoints take
what they are sent: an endpoint that never does stops the mesh, whatever the
mesh does.

**Run.** `mesh_gateway`: two by two routers with FIFOs of one flit, flows that
cross at a gateway beside the grid, so that the outward hop turns from y to x,
against a flow in the opposite direction.

**Fairness.** With finite traffic and no step that undoes another, "something
moves while something can" is enough. With endless traffic an input is not
sure of its turn; nothing in the repository promises it one.

**Proved** (`NocMeshTheorems`), for every grid, FIFO depth and traffic:
`TypeOK`, `TurnsLegal`, `HomeOnly`, `NoDeadlock`, `FlowIntact`. The invariant `MInv` adds to
the types what a flit's place says about its destination (`Entered`: a flit
that came in from the west goes no further west, one that came in by a y link
is in its column). `NoDeadlock` orders the inputs by `Rank`: every hop
ascends it, so among the inputs that hold something one of highest rank (it
exists, ranks being bounded) has a flit that can move. `docs/arch/noc/routing.md`
line 44 says that a y-to-x turn never happens; the outward hop to an endpoint
beside the grid is one, and `Kill` rightly leaves it open there: the input it
leads to is outside the grid, where nothing waits.

`FlowIntact` says of each flow that the numbers in the mesh are those sent and
not yet got, each in one slot (a register or a place in a FIFO), the older
ahead of the younger. Its invariant `FInv` adds `OnTheWay`: a flit is at an
input its flow passes (`Passes`: the row of its first router, then the column
of its destination). From the hops to go (`ToGo`) follows the rest: inputs of
one flow equally far from the end are the same input, a hop takes exactly one
off, nothing is farther than where flits enter, and a flit that leaves has none
to go, so that it is the oldest. A step is a map from the slots after it to
those before it that keeps the order (`Moved`). `Delivered` is TLC's.

### 4.4 The interlink endpoint (`MagILink`)

**What.** The outbound half of one mesh and the inbound half of another, with the
crossing (a queue of `CAP` items) between them. `TxClock` is a clock edge of
the first: the mover's write split, the arbiter of `mag.v` and the
encapsulator, the outbound arbiter. `RxClock` is one of the second: the inbound
state machine, the write registers and their count, the injection register.
What the memory and the NoC do in that cycle is the parameter `x`. `Present`
and `Ring` are the sending units and the host.

**Abstracted and assumed.** One destination mesh, so the key of a burst is its
sender. The interlink stays enabled; the clearing of counts, the fault and
status registers are left out. The host rings when the doorbell before has
left (`ring()` does not check: a second ring overwrites the first). `Exclusive`
says that a unit begins a remote burst only when no other is unfinished:
nothing in the repository sees to that (section 6). The memory answers in order and takes address and data in
any order.

**Run.** `ilink_drain`: a burst longer than a packet (three flits, two to a
packet) and one of one flit, two mover writes, a doorbell. Two writes let one
be answered while the next is held and let a write overtake its own address.
`PacketsWhole` puts together the framing of what crosses and the pairing of the
writes it becomes; `DoorbellCovers` is as strong as the code allows.

**Proved** (`MagILinkTheorems`), for every number of ports and senders, every
length of burst and packet and every depth of the crossing: `PacketsWhole` from
`ILinkAssumption` alone (`FramedAndPaired`), `DoorbellCovers` under the premise
`[]FewAddresses` (`DoorbellAfterWrites`). `PacketsWhole` looks at the crossing only;
the invariant `ILinkInv` looks at the *line*, the crossing and behind it what the outbound
arbiter has still to send of the packet whose header has left (`ToSend`): the
line is framed as the receiver stands (`Framed`), the FIFO of the encapsulator is
one run of consecutive flits of one burst (`EncOK`), what is being sent agrees with its
count (`OutOK`), a port holds the last flit its sender presented (`PortsOK`).
`DoorInv` adds that a doorbell, wherever it is, has as many writes before it on
the line and behind it as `n` says (`DoorsOK`, with a counting function along
the line), and that `wr_out` is the number of addresses the memory has not
answered. The latter needs the premise: `lk_free` compares the four-bit count
with 8 only, so that the code itself does not keep it below 16 (section 6).
`FewAddresses` holds in `ilink_drain`.

The refinement, `ImplementsChannel`, is proved from `ILinkAssumption` alone
(`LinkEndIsChannel`). A stream is under way in four places, oldest first: what the
receiver has taken and the memory, the count or the NoC has not (`Arriving`), what is
in the crossing (`Carried`), what the outbound arbiter is sending (`Leaving`), and what
waits to ask it (`Asking`). A clock edge of the sender moves packets from a later place to
an earlier one and puts at most one new one behind them; a clock edge of the receiver
reads one item of the crossing and may deliver the first of the stream. `RelayInv` adds
to `ILinkInv` what this needs: a mover write has been numbered before it asks
(`MoverOK`), the writes of the crossing are numbered from one (`NumbersOK`), numbers
stay within their bounds (`LimitsOK`), and the packet being sent is the one that asked (`SendingOK`).
What a stream has in the crossing and in the FIFO is a selection from a sequence, of which
`Totals` proves how it changes at either end (`Picked`), so that no induction over a
filter is needed. Only `Delivered` is TLC's.

**Also seen.** "The last winner drops to the back" (line 395), while `pick`
gives the last winner the first turn. It does not starve anyone at full speed,
the mover needing more cycles per write than the port.

### 4.5 The switch (`MagSwitch`)

**What.** Four meshes, in each the demux of local egress, the two merges with
their locks and turns, the two links. `SendHdr`, `SendBeat` are local egress,
`ForwardHdr`, `ForwardBeat` what passes from link 0 to link 1 (cut through),
`TakeHdr`, `TakeBeat` local ingress, `Grant` a link. A link is a slot per class,
one packet at a time, and a queue per class at the far end; the header of a
packet goes ahead of its beats.

**Credit.** `MagLink` shows that a link neither loses room nor overruns it, and
that up to `CRED_BATCH - 1` credits may be kept back. So a packet may be granted
when there is room for it (`CanGrant`), and is certain to be only with that much
room to spare (`MustGrant`): safety is checked with the first, liveness with
the second.

**Run.** `switch_square`: two meshes send to the third, one through the other,
and it answers through the fourth. Four switches form a ring of links: with
packets of two beats and of one and `RX_BEATS` = 3 the queues they share fill.
`NoYTurn` is why the ring is never closed. The demux's sink and the drain of
link 1's forward class are left out: nothing reaches them.

**Proved** (`MagSwitchTheorems`), for every set of flows, all lengths of packets
and every depth of queue that `SwitchAssumption` allows: `PacketsWhole`. A queue alone
says too little: whether it continues rightly depends on who writes it. So the
invariant `SquareInv` has, for each of the three lanes into a mesh, one
condition (`Stream`) on the queue, on what its writer has still to write of its
packet and on the lock of its reader. The writer is the endpoint of the mesh beside
(`Beside`), or what the mesh above or below sends itself or forwards (`Below`),
where what it forwards is in turn the rest of a packet in a queue of its own (`Cursor`).
`EndOK` and `SlotsOK` say what a demux and a slot do meanwhile.

`ImplementsChannel` is the theorem `SquareIsChannel`. A flow goes over one link or
over two (`Via`, `TwoLinks`), and its packets are, from the oldest place to the
newest, being delivered (`Delivering`), queued behind its last link or held before it
(`LastQueued`, `LastHeld`), the same of the first of two (`FirstQueued`,
`FirstHeld`), or being offered (`Offering`): six sequences, of which `InFlight` is the
concatenation. A packet is where its header is, and other flows share the queues, so
a place gives the numbers of the headers of this flow (`Filed`). A header that
moves leaves the head of one sequence for the end of the one before it; an
offer appends to the last (accepted), the last beat of a delivery empties the
first (delivered); every other step leaves the six of every flow alone. There is
one lemma per action. What they need beyond `SquareInv` is
`OnRoute`: a packet is found only in the queues and slots on the way of its own flow, and
an endpoint has a packet only while its merge is locked, which is then a packet
for its mesh. That `got` grows at the right mesh is part of the same
invariant. Only `Delivered` is TLC's.

### 4.6 Views and their folding (`Views`, `ViewPass`, `Tracer`, `GraphIR`)

**What.** A graph is a record of nodes (`GraphIR`, the builders of
`ir/graph.py` with their shape and format rules; a builder is a set, empty when
the code raises), with what a graph means (`Evaluate`, `Run`):
`interp/reference.py` in exact arithmetic modulo the prime `P`. `Tracer` is the arithmetic of `dsl/tracer.py` on top of
the builders. `ViewPass` is the part of `passes/lower.py` that turns a chain of
views into one address descriptor: the short way (`OuterViews`), the full one
(`ThroughViews`, with its replay of the chain), the pads, and the offset, run
and stride an address generator is given. `Views` builds chains one view at a
time, so that TLC reaches each chain once, whatever the order its parts
come in.

**Run.** `views_chain`: every chain of up to four views over inputs of two and
three axes. Four are needed for a slice under two exchanges of axes and a
reshape. `ViewsFold` holds the descriptor to `Run`: what the host's loop
nest gathers (`WindowReads`), what the short way reads inside its limits
(`OuterReads`), and that the engine walks what the host walks (`EngineWalks`).
The premises of the parts are limits the code does not enforce; section 6 lists
what lies beyond them.

### 4.7 The compiler (`Compile`, `Lower`, `Sched`, `Codegen`, `MeshInterp`)

**What.** `Compile` takes a graph through the passes, each an action: splitting
wide reductions (`passes/reduce.py`), absorbing scales (`scalefold.py`), the
order for fusion, `lower()` band by band, the check of the schedule, the memory
map and the layouts, `codegen` for every node, and execution. A refusal
of the code is the phase `refused`. `Sched` has the tile search and the schedule,
`Lower` the rewriting and lowering, `Codegen` the operand planning and the
instructions, `MeshInterp` what an instruction does to L1, registers and
memory. Execution interleaves the nodes in every order within a band; a band
begins when the one before has ended everywhere (`NextBand`), as the rounds of
the host do.

**Abstracted.** Floating point is arithmetic modulo `P` = 32749: a different
order of summation gives the same number and a wrong element another one, with
the generator of the inputs telling all elements apart that matter. Layouts are
functions from index to word. Host bands, aliases, `Program.rounds`, the bit
encoding of instructions, the cost model and the timing interpreter are left
out. L1 is read by the spans a GEMM names, as a cluster reads it (`BySpan`);
section 6 says where the interpreter differs.

**Run.** `compile_kernels`: fourteen kernels (a dense layer, a residual, a chain of
two products, slices, a reduction wider than a pass, a reduction depth that
the tile's blocks do not divide, a tall product whose instances share
a column of weights, a value nobody computes; softmax, attention with one and
with two blocks, layer norm, a feed-forward and a gated layer), on two machines
of two clusters and two vector cores whose L1 holds one or several chunks, under
three sets of options. `ComputesMeaning` compares every returned region with
`Run` of the graph; `FillsClearOfSweep` is about operands in L1; `OthersKept` is an
action property over all steps of all nodes.

### 4.8 The kernels of the library (`Kernels`)

**What.** `library.py`, `nn.py` and `ops.py`, statement by statement, on the
tracer of 4.6: attention in blocks with a running maximum, groups of heads and
a causal cut, convolution by taps over windows of a padded input, the norms, the gated
layers, grouped and dense mixtures, powers.

**Numbers.** Constants that are no integers stand for an integer modulo `P`, one
over `n` is the inverse, `exp2` is a homomorphism from sums to products, `rsqrt`
is a function of which nothing is assumed. A residue above P/2 stands for a
negative number, which is what the running maximum compares. Over these, attention in
blocks equals plain softmax attention exactly when the rescaling is right.

**Property.** `KernelsMean`, in the run `compile_kernels`, sets each kernel beside
its formula as `MCCompile` writes it (a sum over all keys, a sum over a
window): attention with heads that share keys, with a cut, of rank four and
through projections; strides (2, 3) with padding on one axis; an empty group.
These kernels are evaluated by `Run`; the five that
4.7 names are compiled and executed as well.

### 4.9 The kernel planner and its bench (`PlanRun`, `Bench`, `DeviceProgram`)

**What.** The first part of `Bench` is `kernel.plan`: candidate tiles, chunks of
K, whether B stays, which bank each fill takes, tiles lent to the next pass,
flits, rounds, the host program, refusals. The second is the problem, the
packing, the choice of clusters and the decoding of the result, the last what
`sim.py` says of a run. `PlanRun` executes the program on clusters that fill, sweep and drain at
their own pace behind one dispatcher.

**Abstracted.** A product is the list of operand blocks it was made of, so that
an element is right only when each block of K of its row and column came once
and in order. Streaming a program is one step (the dispatcher is 4.2's). A fill is
atomic, a sweep takes its operands at its end, the latest it may. The machine's
sizes are scaled down (`SmallHw`); the ladder's corner covers the whole result.
A cluster may hang and a write may be lost; `python`'s rounding of halves in the
score of a tile is left out, as are profiles and timelines.

**Run.** `plan_run`: nineteen requests, seven of them refused, each for a
reason of its own; one to three clusters; one and several rounds; K in one and
in several chunks; B kept or not; a fill cut by the width of its count; a
hang; a lost write; the untiled program. `SweepUndisturbed` is the hazard the hardware
leaves to the planner. `ReportTrue` says that a pass means a right answer, that
the reported schedule is the executed one and that clusters spread over
memory ports. The run ends, so `CHECK_DEADLOCK FALSE`.

### 4.10 The simulator session (`SimSession`)

**What.** `Session` of `sim.py` at the granularity of its file operations:
creating, signing, examining and removing the lock; writing the option file,
compiling, elaborating; starting xsim; writing the problem; sending a command
and waiting for its sentinel; reading the answer; closing and releasing. The
simulator and its reader thread are actions of their own (`Echo`, `RunAll`,
`Finish`, `Exit`, `Hang`).

**Run.** `sim_shared`: two processes ask for two sizes of machine while the
sources are edited; the simulator hangs, exits, or does not start; a process is
killed while its simulator has nothing to do. `Exclusive` puts together that whoever thinks it owns the
directory does and that one simulator runs; `AnswerOwn` that an answer is to the
problem asked, by a snapshot of the right size and no older sources; `Ends`
that every request ends. `Close` ends the simulator with its launcher, as
`taskkill /T` does; the other branch (`sim.py:349-352`) would leave the simulator
running, but the tools that `start` calls (`xsim.bat`, `xvlog.bat`) are those of
Windows only. A kill while a simulator runs is not in the bounds:
section 6 says why. Fairness: a process that runs goes on, and so does its simulator
unless it hangs, for which the time-out is.

**Proved** (`SimSessionTheorems`), for every number of processes, requests, sizes
and edits: the types, `Exclusive` and `AnswerOwn`, under hypotheses that name the circumstances
in which they hold (section 6 says what goes wrong outside). `KilledAtRest`: a
process is killed between requests or while it reclaims a lock. `OneReclaims`: none is killed, or at most two processes share
the directory, so that one reclaims. `ToolsFail`: a failing tool fails where
the code looks at it; for `AnswerOwn` (`Compiles`) only `xsim` does, since a failed build
leaves an option file that counts as current. The run is within all of them.
`LockInv` says where every holder of the lock stands (`Own`) and
what its pipe and its reader's queue hold at each place (`Talk`); `AnswerInv` adds what is on
disk for the holder's request (`DiskOK`, `Serves`).

### 4.11 The card's runtime (`Session`, `Machine`, `Arena`)

**What.** `Machine` is what the host sees of a card: memory, staging memory, the
dispatcher and its registers, the mailbox, and units that execute what they are
sent. `Session` is the host: a call is the list of its accesses (`StepsOf`, one
operator per method of `fpga.py`, `device.py`, `chain.py`, `vector.py`,
`memplan.py`), executed one by one against a card that runs on its own. What it
keeps from call to call is in `host`: the tag of control reads, buffers, the
heap, the state of a plan. `Arena` has the allocator (`HeapTake`, `HeapGive`)
and the memory planner (`Solve`, `Complaints`, which is the whole of `verify`,
`Wrote`, `MayRead`). A sweep's counters ask four questions per node, the
status among them, and lose the row when any fails; a launch looks at its three
buffers.

**Faults.** A late reply after its time-out, a wait given up while the card works
on, PCIe transfers that are short, fail once or fail for good, a JTAG write path that
delivers each beat some beats late, with and without the compensation that the
preflight measures.

**Abstracted.** A memory word is a number; a flit is staged in one access; a
product is one pass per word, its tiling being 4.9's. Left out: reading of
statuses, prefill, rebased views of a board, markers of an upload, recording
transports. A tag returns after 255 questions (`Hw.tags`); a reply later than that is not
in the bounds.

**Run.** `session_calls`: fifty-seven sessions of one to several calls on a card of two clusters and two
vector cores. In one of them a push names a buffer that the core does not have: the burst is
dropped, never signalled, and the core's next kernel faults (`PushWrong`). `AnswerWhole` says
that memory and every answer are what the calls do one after the other, that the
dispatcher never reads staging memory that has been written since, and that no
call waits for what cannot come. `ReadingsTrue` is about control
reads, inventories and counters. `ArenaWhole` is the allocator's invariant,
`PlacementSound` holds the planner's placement and its own check (which
compares neighbours only) to the definition of an overlap, with every tensor
moved to every address; `ChainTrue` holds a plan whose steps are issued in any
order to the last write of each operand.

**Proved** (`SessionTheorems`): `ArenaWhole` for every card, every board and every list
of sessions, hence for every order of `alloc` and `free` (`WordsOnce`). The
free list is a set of spans. `GiveCorrect` is the lemma about coalescing: giving back a
span to spans that are apart and merged leaves spans that are apart and merged, with
the words of both and no other. `HostInv` adds that every buffer not freed has a span
of its own in the allocator's books, so that no step of a session but
`Allocate`, `Release` and the end of a session touches them.

## 5. Left to TLC, and left out

The provers do not do liveness or ENABLED, nor induction over data: every
leads-to property (`Delivered`, `HostFinishes`, `Ends` and the like) is TLC's. So
are the properties whose definition rests on what a fold or a filter computes for every
input: `ViewsFold`,
`ComputesMeaning`, `KernelsMean`,
`FillsClearOfSweep` (the meaning of a graph), `ResultWhole`, `SweepUndisturbed`, `ReportTrue`
(the planner's loops), `AnswerWhole`, `ReadingsTrue`, `PlacementSound`, `ChainTrue` (the
access lists of a call, the planner of memory). They are checked on the instances above.
Recursion is written as recursive functions and folds; no module declares a
RECURSIVE operator.

Not modelled: the arithmetic datapaths (pipelines of fixed latency, a matter of
bits), the generated ship assemblies (wires), the transports (input and
output), performance counters of the fabric, the AXI read machine and command
window of the orchestrator, the viewer, generators of text, and the parts the plan
still lists.

Hazards that no property covers:

- a class 0 source that always offers starves class 1 (`mag_link.v:245`), and
  any question of endless traffic: an input of a router
  (`noc_outport.v:65`), a source of the outbound port (`mag_ilink.v:395`);
- a full receive FIFO stops the completions behind a reply
  (`noc_orchestrator.v:225`);
- a second ring before the first doorbell has left overwrites it
  (`mag_ilink.v:659`);
- the cycle that closes when the networks of two meshes are full of flits for
  each other (`mag_ilink.v:505`): two networks, two links and two endpoints in
  one model;
- the margins and write slots of a memory port (`mag_mem_port.v:130`, `:407`),
  the FIFO of selections across clocks (`axi_n1.v:191`), commands that meet results
  by order (`mx_cluster_mgr.v:338`), the gating of the vector core
  (`vec_core.v:271`): parts 11 to 14 of the plan.

## 6. Disagreements found

What the code does, where a document, a comment or a docstring says otherwise or
a user would expect otherwise. The models describe the code; the runs stay
inside the limits named here, so that their properties hold.

**Fabric**

- `mag_link.v:237`, `docs/spec/parameters.md:441`: the documented ranges allow
  `MAX_BEATS` up to `RX_BEATS`, at which both ends can wait for ever for the credit
  the other keeps back. `MAX_BEATS + CRED_BATCH <= RX_BEATS + 1` suffices
  (`NoMutualWait`).
- `noc_cu_base.v:105`, `docs/spec/control-registers.md:37-39`: a status request to a wedged
  unit with a full instruction queue is never answered.
- `mag_ilink.v:320`, `docs/spec/memory-protocol.md:484-486`: the encapsulator keeps state
  over a burst; two remote bursts at once wedge it and the ports behind it.
- `mag_ilink.v:523`, lines 16-18: a doorbell may be counted while the last write
  before it still offers its address.
- `mag_ilink.v:503`, line 494: the count of outstanding writes steps over its
  limit of 8 and wraps at 16.

**Compiler**

- `lower.py:236`, line 47: a view that no descriptor covers is folded all the
  same instead of raising; `Mesh.gather` pads a padded reshape around the root's
  shape; `_replay` drops a fill value that is not zero; a slice of an exchanged
  axis gets a wrong offset; `flipped` means nothing on a flattened window; an
  empty slice divides by zero.
- `interp/mesh.py:351`, lines 3-5: the interpreter multiplies with what the last
  fill read and not with the L1 spans the GEMM names; with resident weights and
  several chunks of K it differs from a cluster.
- `Mesh._entry_at` reads a row-major span in drain order for an elementwise value
  that only feeds a matmul's A; a returned transpose of a computed value comes back
  untransposed; a column operand of a reducing band is read as a row; a computed
  value of as many elements as the other operand has columns is broadcast as a row;
  vector operands ignore `flipped`; a reduction over a window ignores its stride;
  an outer slice of stride 1 loses its offset in vector loads; a single-column
  window whose producer spans several tiles is read from its first tile
  (`mesh.py:541-546`); rows per core that are odd meet scalar stores; a band
  overshoots when `vector_tile` does not divide; the second flush of `lower()`
  forgets which windows were seen; some such kernels leave every region.
- `dsl/entry.py`: the key of the trace cache is the same for empty lists, tuples and
  dicts, for `{0: x}` and `[x]`, and for 0.0 and -0.0.

**Planner and simulator**

- `kernel.py:400`, line 419 ("A chunk never straddles a bank"): a fill wraps in
  its bank when a chunk is not a divisor of it (128x288x64 on ship_3x2: chunk of
  144 entries).
- An extent of 256 is encoded as 0 and executed as 1 (M=1024, K=32, N=8); one
  pass of a long K may exceed the staging memory by itself although `check` says
  that program length is handled (M=64, K=8192, N=128); with one bank for A a
  fill would meet a running sweep; the "produced an answer" gate of `_verdict`
  cannot fail; its gates see the first 64x64 corner;
  `matmul.build(concurrent=False)` stages every cluster in the same slots
  (`matmul.py:241-242`; nothing calls it).
- `sim.py:253`, line 234: the option file is written before the tools run, so that a
  failed build leaves a snapshot that counts as current; so do edits during a build.
- `sim.py:271-285`: reclaiming looks at the python process only, whose simulator may
  live on; three processes may race to reclaim; an empty lock is never
  reclaimed; after an unexpected exit every request is refused until `close()`;
  `server.get_session` keeps the lock when `start()` raises; an interrupted
  command leaves its sentinel to the next.

**Card runtime**

- `Device.launch` and `chain.gemm` wait on the shared `SIG_DONE`, which `run`'s
  docstring calls a data-corrupting race: a completion of a peer releases them
  early or makes the equality miss.
- `run_kernel`, `push_l1` and `launch` write staging memory without asking whether
  the dispatcher is idle; after a wait that was given up they overwrite what
  it still reads. Completions left over from such a run fall into the next
  one's baseline, although `_strict` says that reading again resynchronises.
- JTAG: `write64` is not compensated under realignment; the scratch defaults to
  address 0, where every board's memory begins, so that the preflight and every
  shifted write damage words there; a shifted block shorter than the lag fails after
  overwriting as many words.
- `launch` does not check a buffer against the padded shape; `ctrl_read` does not
  check its index; a late reply makes the next units of a sweep look missing;
  `ctrl_read` does not look at `PROG_STAT` before `TX_KICK`
  (`docs/spec/control-registers.md:320-322`), which is ignored while a program
  streams; the difference of `signals` is not masked;
  an allocation whose zeroing fails is leaked; `memplan` does not catch a step that
  reads the act it writes itself, and `Writes` lets a tensor that shares no words
  be read before it is written.
