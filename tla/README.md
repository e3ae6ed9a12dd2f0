# A TLA+ model of the GDB server stub

The repository contains a GDB server for HDL simulations: a stub written in
SystemVerilog (`hdl/`) that lets GDB or LLDB debug a CPU inside a simulator,
and HDLDB (`src/`), a rewrite in C++ that is under way. This directory models
their core logic in TLA+, checks it with TLC on small instances and proves the
safety results about the shadow, run control, the sessions and packet reception
with TLAPS for instances of any size.

Paths below are relative to the repository, as in `src/hdl/...` of
`PROJECT.json` without the leading `src/`.

## 1. The system

| Component | State | Operations | Interacts with |
|---|---|---|---|
| Shadow and trace, `hdl/gdb_shadow_pkg.sv` | copy of registers, PC, memories and I/O; trace queue `trc`, position `cnt`; `sig`, `rsn`; break- and watchpoints | `reg_*`, `mem_*`, `update`, `record`, `replay`, `revert`, `forward`, `backward`, `point_insert/remove`, `*_match` | called by the stub |
| Run control, `hdl/gdb_server_stub_pkg.sv` | position inside the loop of a run | `s S c C bs bc`, `P G M z Z ?`, polls of the socket during a run | shadow, adapter, session |
| Reads, reset and sources, same file | `stub_state.register/.memory`, reset of the CPU | `g p m`, `monitor set`, `monitor reset`, `R`, `D` | shadow, adapter |
| RSP session, same file | `stub_state.acknowledge`, the packet being received or handled | `gdb_fsm`, `rsp_packet`, `rsp_get_packet`, `rsp_send_packet`, the handlers | socket, client |
| NERV adapter, `hdl/nerv/nerv_gdb.sv` | sampled signals | `dut_step`, `dut_reset_*`, `dut_reg_*`, `dut_mem_*` | NERV core (external) |
| DPI sockets, `hdl/socket_dpi_pkg.c` | descriptors | listen, accept, send, recv | operating system |
| HDLDB program and sockets, `src/hdldb.cpp`, `src/rsp/Socket.*` | listening and connected descriptor | options, listen, accept, send, recv; failures throw or exit | operating system |
| HDLDB packets, `src/rsp/Packet.*` | receive buffer `m_buffer` | `Packet::rx`, `Packet::tx` | sockets |
| HDLDB session, `src/rsp/Protocol.hpp` | `m_state` (acknowledge mode, source of reads) | `loop`, `parse`, the handlers | packets, shadow |
| HDLDB shadow, `src/shadow/` | arrays `m_all` of registers and `m_buf` of memory, spans into them, address map | `reg_*`, `mem_*`, GPR access | copied into `Protocol` |

The central idea of the stub is a shadow copy of the CPU that lags one retired
instruction behind it. A forward step at the end of the trace makes the CPU
retire an instruction, appends it to the trace, and applies to the shadow the
instruction *before* it; inside the trace only the shadow moves. The debugger is
shown the shadow, so it sees the state before the instruction at `cnt`, and can
be taken backwards through it.

What is hard about it:

* two copies of the program's state that are an instruction, or a whole
  history, apart, both of them written by the debugger at any position;
* old values that must be in the trace before the first reversal;
* packets and Ctrl-C that arrive in the middle of a run, and are handled by a
  poll inside the loop of the run;
* one byte stream on which packets, acknowledges and Ctrl-C follow each other
  without boundaries, while the two sides switch the acknowledge mode at
  different moments;
* two ways to wait for ever: for a byte that the other side will not send, and
  for a CPU that does not retire;
* clients that leave without a word, and packets that arrive damaged or glued
  together: HDLDB answers them with exceptions that end the process;
* HDLDB's two copies of the shadow, of which the arrays are two and the memory
  behind the spans is one.

`PROJECT.json` lists these hazards at their lines, with the properties that
watch over them.

## 2. Modules

| Module | Models | Composed of |
|---|---|---|
| `Shadow` | class `gdb_shadow`: its functions as operators, its members as variables | |
| `RunControl` | run commands, polls, debugger writes, points; adapter and CPU | extends `Shadow` |
| `RunControl_proofs` | theorems about `RunControl` | extends `RunControl` |
| `DebugView` | reads, their source, reset, detach | extends `RunControl` |
| `DebugView_proofs` | theorems about `DebugView` | extends `DebugView`, `RunControl_proofs`, `LeastNumber` |
| `RspClient` | external: the connection and GDB at its other end, with interrupts, retransmission, damage, hang-up, reconnect | |
| `RequestReply` | abstract: each request is handled once, in order, before it is answered | |
| `RspLink` | session of the stub: framing, acknowledges, Ctrl-C, dispatcher, replies | extends `RspClient`, refines `RequestReply` |
| `HdldbSession` | HDLDB's program, sockets, packets and `Protocol` | extends `RspClient`, refines `RequestReply` |
| `RspClient_proofs` | lemmas about the connection and the client that both sessions use | extends `RspClient` |
| `RspLink_proofs`, `HdldbSession_proofs` | theorems about the sessions | extend the session and `RspClient_proofs` |
| `FlatMemory` | abstract: one byte per address | |
| `HdldbShadow` | HDLDB's registers, memory and address map, and the handlers that access them | refines `FlatMemory` |
| `HdldbShadow_proofs` | theorems about `HdldbShadow` | extends `HdldbShadow`, `LeastNumber` |
| `PacketStream` | abstract: each packet is delivered once, unchanged, in order | |
| `GetPacket` | `rsp_get_packet` byte by byte | instantiates `PacketStream`, does not refine it (section 5) |
| `PacketRx` | `Packet::rx` byte by byte | refines `PacketStream` |
| `PacketRx_proofs` | theorem about `PacketRx` | extends `PacketRx` |
| `LeastNumber` | lemma: a set of naturals that is not empty has a least element | |
| `MC...` | the sets that the configurations use | |

### Correspondence

*Shadow, RunControl.* Operators and actions have the names of the functions they
model. The queue entry `trc[k]` is `trc[k+1]`; the member `ret` is always the
entry at `cnt` and is not a variable. Values are members of small sets (`Word`,
`Byte`), `X` is the 4-state unknown value. The memory blocks are one function
over `Mapped`; all other addresses are I/O to the shadow. For the adapter the border is
another one: its macro `mem` indexes the SoC's memory array (`Ram`,
`nerv_gdb.sv:16`), so that a device register (`leds`, `nerv_soc.sv:51-55`) reads as 0
through it, and a write to it is lost. A store of the CPU does reach the device, and
the shadow keeps a copy of it. A handler is one action. The loops
of `rsp_continue` and `rsp_backward` are cut at the poll of the socket, the
only place where another actor has an influence: `mode` says where the loop is.
`RecordStep` and `ReplayStep` are the two branches of `rsp_forward_step`,
`BeginStep` and `RevertStep` those of `rsp_backward_step`; `LoopCheck` is the
loop condition, with the stop reply behind the loop. A packet found by a poll is
dispatched on the spot, so the debugger's actions are enabled at a poll as well
as in the main loop (`Dispatching`).

The CPU is external: an instruction is a record (next PC, destination register
and value, store address and bytes). `dut_step` is what the adapter samples of
it: old register values are `'x`, old memory bytes are zero because `lsu_rdt` is
never driven, loads leave no record, CSRs are not traced.

`hist` (each retired instruction with the CPU state before it), `loaded` and
`edited` (places the debugger wrote before and after the first step) are history
variables that only properties read.

*DebugView.* A read changes nothing but its reply, so reads are operators over
the state. The actions are the reset of the CPU, the choice of the source, and
the re-initialisation of `stub_state` by a detach. `rst` is not driven before
the first reset, so that it may have either value at first. Both `monitor reset
assert` and `R` are `dut_reset_assert`.

*RspLink.* Tokens are the bytes that are written together: `+`, `-`, Ctrl-C, or
a packet. `rsp_get_packet` takes all tokens that have arrived, as one `recv`
does; `rsp_send_packet` takes one byte as the acknowledge, whatever it is. `pc`
is the place where the stub's one process is waiting. Commands that differ in
nothing but the contents of an immediate reply are one command, `query`; `c` and `bc`,
with loops of their own, are `cont` and `back`. The poll of a loop looks at the first
byte: it takes a `+`, ends the run for a Ctrl-C, and dispatches a packet on the spot
(`RunNested`; `runs` counts the loops that are left behind it). A client that waits for
its stop reply sends no other request, so the packet is the run command itself, sent
again after a `-`. A packet
that is damaged, or arrives together with something else, has a bad checksum: the
stub answers `-` and goes on to handle it (`Received`). `EndOfStream` is a `recv`
that returns 0; `spin` is the loop that follows, out of which there is no way.

*RspClient.* The client is external, modelled by what GDB does in all-stop mode:
one command at a time, acknowledges if the mode has them, Ctrl-C while a run
command is unanswered, retransmission after a `-`. What is not regular traffic
is noted in `faults`: a Ctrl-C, a hang-up, damage, and a packet behind another
one that has not been taken (after `R`, which is not answered). A token is a
record of the command, its number and whether it is damaged, so that
`ReplyPairing` can tell replies apart.

*HdldbSession.* Actions have the names of the functions. `tx` is cut at its
`recv` (`txAck`), `rx` at each `recv`, the program at each place where it can
wait or fail. `return` is what a handler does behind its `tx`. An exception is
the place `abort`, as `main` calls `loop` outside of its `try`; `deaf` is an
`accept` on a socket whose `bind` or `listen` failed, which `listenTcp` only
prints. `feature` is a `qSupported` with a feature that has neither a sign nor a value,
which throws; `outside` is an access that leaves the memory or the registers, which is
answered or ends the process (`Failing`). Members that are written and never read (`extended`,
`enableErrorStrings`, features, threads) are left out.

*RequestReply.* `asked` and `settled` count the requests of the client, `log` is
the sequence of requests that reached a handler. A step may log the request that
is open, once; settle it after it was logged; or close the connection. Under the
refinement mapping `asked` is `req.id` and `settled` follows from the state of
the client; a request that was not intact is logged as 0, which no abstract step
allows.

*HdldbShadow.* There are two objects, main's shadow and the copy in `Protocol`;
`span` is the object whose arrays the spans of an object point into: main's for both,
as the copy is member by member. The spans are members behind the arrays, and no write
looks at a length: one that goes behind the end of `m_buf` or `m_all` loses the span
there (`Lost`). Later reads through it return anything (`Wild`), later writes change
anything (`Anywhere`): the behaviour is undefined. `Longest` bounds the data of a `G`.
A write of the debugger stores what `hex2bin` returns, zeros. The debugger's
operations are those of `Protocol`; the recorder's are the public functions of
`System` and `RegistersRiscV`, which the program will call when the trace is
read. `FlatMemory` is implemented with the byte at address `a` taken from
`buf["main"][offset(a)]`.

*GetPacket, PacketRx.* A byte is named by its packet and position. A `recv`
returns any non-empty part of what has arrived and fits into the buffer.

## 3. Runs

Passing runs:

| Run | Checks | Distinct states |
|---|---|---|
| `RunHistory` | `TypeOK EdgeExact GprNeverWrong PcAtInstruction HistoryAppendOnly`: a program is stepped, run, reversed and replayed in any order | 131,276 |
| `RunEdits` | `EdgeExact GprNeverWrong` with loads before the start and edits anywhere in the history and in the polls | 334,912 |
| `RunPoints` | `NeverRunsPastPoint RunsAdvance ReverseContinueTerminates ReplayCatchesUp` with points inserted and removed during runs, interrupts, signals | 321,484 |
| `View` | `ReadsAgree IoReadsBack`: reads from both sources across resets, loads and reversals; a device register is read from the shadow only | 2,846,080 |
| `LinkAck` | `TypeOK ReplyPairing RequestNotLost StreamDrains Answered InterruptAnswered ImplementsService` in acknowledge mode with runs in both directions, a Ctrl-C per run and a hang-up | 5,106 |
| `LinkModes` | `ReplyPairing AckModesAgree AckComes StreamDrains Answered Reaccepts` in both modes, with reset, detach, reconnect, hang-up and kill | 4,150 |
| `PacketRx` | `ImplementsStream` | 147 |
| `HdldbSession` | `TypeOK ReplyPairing AckComes Survives RequestNotLost Answered Reaccepts ImplementsService`: all 24 kinds of commands in both modes, a Ctrl-C per command, one damaged packet, one hang-up | 130,694 |
| `HdldbShadow` | `NoOverrun MemoryIsFlat`: reads and writes on both objects, before and after the copy is made | 8,344 |

What they show, in short: the shadow is exact at the end of the trace, whatever
came before; a register is never shown with a wrong value, at worst as unknown;
the PC is that of the instruction shown; runs stop where they must and reverse
runs end; with acknowledges, a Ctrl-C never shifts a reply or costs a request, and
each request is handled exactly once before it is answered; the stub never waits for
an acknowledge that does not come. HDLDB never handles a packet that was
damaged or glued to another one, never answers out of turn, and its regular
traffic never ends in an exception; inside of the address block, its debugger and
its recorder share one memory, and the arrays are not left.

Bounds. Traces of three to four instructions (`MaxTrace`) let the position be inside the
history with instructions applied, undone and not yet applied on both sides of it; no
operation looks at more than the entries `cnt-1` to `cnt+1`. Two of them are enough in
`RunEdits`, where the writes of the debugger, at any position, multiply the states. Two
registers are one that can be written and x0; three addresses are a block of two, which
a store can cover wholly or in part, and one outside of it; in `View` there is a fourth,
outside of the SoC's memory too. Sequences of six to eight commands (`MaxCmds`) contain
each ordered pair of commands, with a detach and a reconnect. One Ctrl-C per run
(`MaxInterrupts`) is the number that the protocol can consume; the second one is the
configuration `VTwoInterrupts.cfg`. In `HdldbSession` five commands are enough for a
switch of the mode, a detach, and a second session with a fault in it; each fault
happens once, at any moment. In `HdldbShadow` a block of three bytes and accesses of one
and two bytes overlap in all ways; the base of the block is not 0, so that addresses and
offsets differ. `PacketRx` uses eight packets, some of which fill the buffer and some of
which are shorter than what the buffer still holds.

Deadlock checking is off where the system may stop: a bound is reached, a client
does not send or has gone.

Fairness. `RunControl`: the loops of runs never wait, except for the CPU, so
replay, reversal and the polls are weakly fair, and `ContinueRecord`, which
waits for an instruction to retire, is not. `RspLink`: the stub's process is
weakly fair wherever it is not waiting in `recv`, `accept` or for a CPU in
reset; the CPU retires instructions unless it is in reset, and need never hit a
point (only the iterations of a run without a hit are fair), but a reverse run does
come to the beginning of the history, which is what `RunControl` shows; the client
reads what it is sent. `HdldbSession`: the process runs whenever it can (`Protocol`);
the start of the program and failures are not fair. Nobody has to send a command,
to press Ctrl-C, to hang up or to connect.
`PacketRx`: `recv` returns when bytes have arrived.

## 4. Proofs

All theorems are about the specifications that the runs check, for every value of
the constants that satisfies the assumptions of the modules, and any number of
steps. Safety is what is proved; what is left to TLC is listed at the end.

### Run control

For every set of instructions, memory map, number of registers, debugger input and
trace length that satisfy `SizesAssumption` and `RunAssumption` (values are naturals
that contain zero, `X` is not one of them, a store lies inside or outside of the
memory map as a whole):

| Theorem of `RunControl_proofs` | States |
|---|---|
| `TypeCorrect` | `Spec => []TypeOK` |
| `InductiveInvariant` | `Spec => []IInv` |
| `EdgeExactness` | `Spec => []EdgeExact` |
| `RegistersNeverWrong` | `Spec => []GprNeverWrong` |
| `PcExactness` | `Spec => []PcAtInstruction` |
| `AppendOnly` | `Spec => HistoryAppendOnly` |
| `StopsAtPoints` | `Spec => NeverRunsPastPoint` |
| `RunsEnd` | `Spec => RunsAdvance` |

`EdgeExact` speaks only of the end of the trace, and a reversal leaves it, with
values lost on the way: it is not inductive. `IInv` therefore says of *every*
position what the shadow shows. Its part `Core` is about registers and memory, its
part `PcInv` about the PC. `Traced`: the trace is the adapter's image of
the history. `GprChain`, `MemChain`, `PcChain`: the CPU state before an
instruction leads to the state before the next one, at all places the debugger
has not edited. `GprTracked`, `MemTracked`: a place either shows its value at the
position, or the value is lost, and then either it was never known or *an
instruction between the position and the end of the trace writes it*. That last
clause is why replay repairs what reversal lost: at the end of the trace there
is no such instruction left. A step forwards applies the instruction at `cnt`
(`ForwardTracked`), which removes it from that interval; a step backwards
(`BackwardTracked`) adds the one that it undoes. The steps of all actions are
first reduced to a few forms (`StepForms`).

`NeverRunsPastPoint` needs `HitSignalled`: at a poll, a hit of the entry at `cnt` is
already in `sig`. Points that the poll itself inserts or removes are excluded by the
property, and so is position -1.

`RunsAdvance` is the part of termination that needs no fairness. `ReverseRank` and
`ReplayRank` count the iterations and polls that are left; each step of a reverse run
or a replay ends it or makes its number, a natural, smaller (`StepAdvances`), whatever
the debugger's packets at a poll do (`PollAdvances`). With the fairness of the loop this
is `ReverseContinueTerminates` and `ReplayCatchesUp`, which TLC checks. It rests on the
signal that a reverse step sets at the beginning of the history, where it does not move
(`BeginStep`).

### Reads and resets

| Theorem of `DebugView_proofs` | States |
|---|---|
| `ViewInvariant` | `ViewSpec => []ViewInv` |
| `ResetKeepsShadow` | `ViewSpec => [](EdgeExact /\ GprNeverWrong)` |
| `ReadsRight` | `ViewSpec => []ReadsAgree` |
| `IoRegistersReadBack` | the same for `IoRegs`: from both sources in the SoC's memory, from the shadow in a device |
| `IoReadBack` | `ViewSpec => []IoReadsBack`, if address 0 is mapped and a store to I/O writes one byte |
| `ViewStopsAtPoints`, `ViewAppendOnly`, `ViewRunsEnd` | `ViewSpec => NeverRunsPastPoint`, `HistoryAppendOnly`, `RunsAdvance` |

`ViewInv` is `Core` without `PcInv`: a reset moves the PC of the CPU under the trace,
which is what `VReset.cfg` shows. Registers and memory survive it. `LoadedKnown` adds
that what was loaded before the first step is known. `ReadsAgree` compares what is
read now with the CPU's state at the position, any number of instructions ago; that
a place which nobody writes stays the same along the history would be an induction.
It is proved with the lemma `Least` instead: were it to change, there would be a
least instruction behind which it differs, and the one before it contradicts
`GprChain` or `MemChain` (`GprStays`, `MemStays`, `GprKnown`).

Memory and I/O are one invariant, over `Cells`: the bytes of the memory map, and the I/O
registers that every instruction which reaches them accesses at their own address
(`IoRegs`), as the dictionary of the shadow keeps an access under its first address.
Address 0 is not one of them, because an instruction without an access has address 0 in
the trace, and is replayed and undone as one of no bytes there. For wider stores
`IoReadsBack` is false (`VIoRead.cfg`). With the source `dut`, nothing is claimed of a
device register: the adapter does not reach it.

### The sessions

For every number of commands and interrupts (`ClientAssumption`; the names of
commands are not those of the other tokens).

| Theorem of `RspLink_proofs` | States | Hypotheses |
|---|---|---|
| `TypeCorrect` | `Spec => []TypeOK` | none |
| `Invariance` | `Spec => [](IInv /\ Awaited)` | `NoNesting` |
| `RepliesPaired` | `Spec => []ReplyPairing` | `NoNesting` |
| `ModesAgree` | `Spec => []AckModesAgree` | `NoNesting`, no `errstr` |
| `AcksCome` | `Spec => []AckComes` | `NoNesting` |
| `Implements` | `Spec => ImplementsService` | `Orderly` |
| `NothingLost` | `Spec => []RequestNotLost` | `Orderly`, no `errstr` |

| Theorem of `HdldbSession_proofs` | States | Hypotheses |
|---|---|---|
| `Invariance`, `TypeCorrect` | `Spec => []IInv`, `Spec => []TypeOK` | none |
| `RepliesPaired` | `Spec => []ReplyPairing` | none |
| `AcksCome` | `Spec => []AckComes` | none |
| `RegularSurvives` | `Spec => []Survives` | none |
| `NothingLost` | `Spec => []RequestNotLost` | none |
| `Implements` | `Spec => ImplementsService` | none |

`NoNesting`: no `damage`, or no run commands. `Orderly`: no `damage`, and `reset` only
in sets of commands that never leave the acknowledges (neither `noack` nor `errstr`).

The hypotheses are where the stub really fails: `QEnableErrorStrings` switches the mode
of one side (`VErrorStrings.cfg`), a damaged run command is handled again by the poll of
its own run and answered twice (`VNack.cfg`), any damaged request reaches its handler,
which `RequestReply` does not allow, and a packet behind `R`, which is not answered, is
glued to it without acknowledges (`VNoAckCoalesced.cfg`). HDLDB needs none: it drops
what is not exactly one good packet, at the price of an exception.

`ReplyPairing` says nothing of the requests, so it is not inductive. The invariants
follow a request on its way. In `RspLink`, a packet on its way is the last request, not
yet acknowledged or answered, or an `R` (`Ready`, `Coming`); the exception is a
retransmission of a request that is being handled: it comes first, and its `$` is what
the stub takes for the acknowledge of its reply, which is why the rest of it is never
handled (`Coming`, `Alone`, `Nacking`). For a run command it is the poll that comes
first, and handles it: `Flat` says that no packet is on its way in a run, and that no
loop is nested. It is kept under `NoNesting`, by `Clean` where there are run commands:
without damage nothing is refused, and nothing repeated. `TypeCorrect` needs of all this
only that what the stub has received so far begins with a packet (`Strings`). The wire
to the client holds at most one acknowledge, then one reply (`Shape`). `Switching` and
`ClientFollows` bound the time in which one side has left the acknowledges and the other
has not. For the refinement, `Counted` relates the log to the number of the request: it
is one behind exactly while the packet is on its way (`Single`, `Attended`).

`AckComes` and `RequestNotLost` are the safety side of `Answered`: nobody waits for a
byte that is not sent, and what is waited for still exists. `Awaited` adds to `AckComes`
that a stub which waits for an acknowledge has answered a request that the client waits
for. `Held` says where the last request is, and why the stub has ended if it has;
`Leaving` that the two sides leave the acknowledges together, so that the client, which
throws away a reply in the place of an acknowledge, always gets the acknowledge first.

In `HdldbSession`, each number between the log and the last request is on the wire, or
a part of a broken packet is (`Pending`), and nothing on the wire has been handled
(`Fresh`). `AckDue` is what `AckComes` needs: the byte that the server waits for is on
the wire, or the client has not read the reply. `Regularly` describes the wire without
faults, acknowledges and then at most one packet, so that `Survives` follows: `recv`
then never returns anything else. `Current`, `Paired`, `Settled`, `Detaching` and
`BrokenHeld` connect handlers, replies, the client's state and detach. `RequestNotLost`
is about regular traffic between sides that agree on the mode; `Pending` and `Regularly`
find a request that has not been handled, and `Kept` one that has: `AckFirst` (the
acknowledge is before the reply, so that the reply is not discarded), `Killed` and
`Ended` (why a server has ended to which a client is connected), `Held`. After a detach
with the wrong mode (`VHdldbDetach.cfg`) the reply is discarded, and with a fault the
request may be: the property says nothing of these.

### HDLDB's shadow and packets

| Theorem | States | Hypotheses |
|---|---|---|
| `HdldbShadow_proofs!NeverOverruns` | `Spec => []NoOverrun` | `Fits` |
| `HdldbShadow_proofs!FlatMemoryShared` | `Spec => MemoryIsFlat` | `OneBlock` |
| `PacketRx_proofs!DeliversInOrder` | `Spec => Stream!SafeSpec` | none |

`Fits`: an access begins in a block and ends in it (`Inside`; otherwise see
`VHdldbEnd.cfg` and `VHdldbIo.cfg`), and the data of a `G` are no longer than the
registers. `NoOverrun` is not inductive, as it would allow a span to point into the
copy; `Kept` says that all spans point into main's arrays and nothing was overrun. The
blocks may be any number, and overlap: the array is as long as all of them together,
hence at least as long as each (`RoomForBlock`, an induction along the sum, again by
`Least`). `OneBlock` adds to `Fits` that there is one block, as in `hdldb.hpp`
(`VHdldbBlocks.cfg` shows two), and that the member which selects the source of reads,
never initialised, is false as in zeroed memory: with another value, `m` answers from a
place that is not implemented. Then `offset` is one to one, and both objects reach the
same bytes.

`PacketRx` delivers the packets for any lengths that fit into the buffer
(`SizeAssumption`): `Halves` says that the bytes received and the bytes on their way
are together the packet sent last. What older packets left in `m_buffer` is never part
of it, as the first bytes are always overwritten.

### Only model-checked

* Liveness, which needs fairness: `ReverseContinueTerminates`, `ReplayCatchesUp`,
  `StreamDrains`, `Answered`, `InterruptAnswered`, `Reaccepts`, and the fairness part
  of `ImplementsStream`.

Every invariant and action property that a passing run checks is stated by a theorem.
The hypotheses of the tables cannot be dropped: damaged packets, `QEnableErrorStrings`,
`R` without acknowledges, accesses that leave a block and wide stores to I/O each have a
counterexample, most of them among the configurations of section 5.

## 5. Where code and documents disagree

Three disagreements are runs of the project, which TLC ends with a
counterexample, and entries under `findings` with the lines of both sides:

| Run | What happens |
|---|---|
| `VRevert` | `record` is never reached, as the caller has pushed the entry and `cnt` cannot equal the size of the trace: reversal writes `'x` and zeros instead of the old values |
| `VNoAckInterrupt` | without acknowledges, the Ctrl-C that ended a run stays in the socket, and no later packet is read |
| `VFragment` | a packet that arrives in pieces is garbled: `GetPacket` does not refine `PacketStream` |

Further configurations reproduce disagreements of less weight; TLC ends each with
a counterexample to its one property (`tlc -config VPc.cfg MCRunControl`):

| Configuration | Module | What happens |
|---|---|---|
| `VPc.cfg` | `MCRunControl` | a PC written by the debugger is overwritten in the shadow at the next step, as `update` is never reached (`README.adoc:171-173`) |
| `VReadWatch.cfg` | `MCRunControl` | read and access watchpoints on loads are accepted and never stop a run (`gdb_shadow_pkg.sv:37-41`) |
| `VReason.cfg` | `MCRunControl` | stop replies: a stale or invented reason, none at the edge of the history (`gdb_shadow_pkg.sv:42-43`) |
| `VReset.cfg` | `MCDebugView` | a reset leaves the shadow and its position in the old program (`README.adoc:182`) |
| `VIoRead.cfg` | `MCDebugView` | a wide store to I/O reads back as its first byte (`gdb_shadow_pkg.sv:135`) |
| `VNoAckCoalesced.cfg` | `MCRspLink` | without acknowledges, a Ctrl-C that arrives together with a packet is swallowed; so is a packet behind `R` (`README.adoc:108`) |
| `VTwoInterrupts.cfg` | `MCRspLink` | with acknowledges, the second Ctrl-C of a run stays in the socket |
| `VResetInterrupt.cfg` | `MCRspLink` | a run under reset cannot be interrupted (`README.adoc:93-95`) |
| `VPoint.cfg` | `MCRspLink` | `z` and `Z` are not answered, although `test/firmware/gdb.cmd:15` sets a breakpoint and goes on; the same with `vcont` for `point` (`gdb_server_stub_pkg.sv:659`) |
| `VErrorStrings.cfg` | `MCRspLink` | `QEnableErrorStrings` switches the acknowledge mode of one side (`gdb_server_stub_pkg.sv:72`, `:599`) |
| `VHangup.cfg` | `MCRspLink` | after a client that closes without `D`, the stub spins or ends, and accepts nobody (`gdb_server_stub_pkg.sv:1301`) |
| `VNack.cfg` | `MCRspLink` | a `c` with a bad checksum is refused and executed all the same; its retransmission is handled by the poll of its own run, and there are two stop replies for one request (`gdb_server_stub_pkg.sv:219`, `:1087`) |
| `VHdldbDetach.cfg` | `MCHdldbSession` | the mode without acknowledges outlives a detach (`Protocol.hpp:709-710`, "re-initialize stub state"); with `Uninit = {FALSE, TRUE}`, for an allocator that does not return zeros, the first session may begin in it |
| `VHdldbHangup.cfg` | `MCHdldbSession` | after a client that closes without `D`, the main loop spins (`Protocol.hpp:777`) |
| `VHdldbReadOne.cfg` | `MCHdldbSession` | `p` uses the value of a register as a pointer (`Registers.hpp:150`) |
| `VHdldbRegisters.cfg` | `MCHdldbShadow` | `g` shows the registers as they were when `Protocol` was constructed: `readAll` uses the array and not the span |
| `VHdldbIo.cfg` | `MCHdldbShadow` | an access to I/O reads and overwrites the first bytes of memory (`MemoryMap.hpp:62`) |
| `VHdldbBlocks.cfg` | `MCHdldbShadow` | two blocks of a map overlap (`MemoryMap.hpp:59`) |
| `VHdldbEnd.cfg` | `MCHdldbShadow` | an access across the end of the block goes behind the array and overwrites the span there (`MemoryMap.hpp:85`, `:100`); the same with accesses inside and `Longest = 3`, a `G` that is longer than the registers (`Registers.hpp:135`) |

Met while modelling, without a run: software breakpoints are accepted and no branch of
`breakpoint_match` looks at them; stop replies carry a register nobody asked for
(`gdb_server_stub_pkg.sv:360`); HDLDB does not answer run commands
(`Protocol.hpp:650-655`), and its `M` writes zeros (`Protocol.hpp:166`); the reply to
`p` has the request in front of the value; an instruction without a store has the data
address 0 in the trace, so that a read or access watchpoint at address 0 stops at each
of them; `detach` clears `socket_port` before it is tested; the length of a packet is
limited by the 512 bytes of a buffer; HDLDB's option `--port` is declared as an `int`
and read as a `uint16_t`, which throws (`hdldb.cpp:26`, `:44`), so that only the UNIX
socket can be used; `accept` after a detach does not close the old descriptor.

## 6. Not modelled

* HDLDB's points and retired instructions (`Points.hpp`, `Instruction.hpp`): the
  functions of `System` that would call them are empty, and `Points::insert` and
  `match` do not compile once instantiated.
* `MemoryMap::load`, `store` and `System::snapshotLoad`: templates that nobody
  calls, and that do not compile (a pointer cast to a value, private members).
* F, V and CSR registers of HDLDB, whose length is 0 in `hdldb.hpp`.
* Timeouts of the client: GDB gives up or retransmits after some seconds; a
  client that gives up is a hang-up.
* Requests other than a retransmission in the middle of a run of `RspLink`: a client in
  all-stop mode sends none. What they would do to the shadow is in `RunControl`.
* Feature negotiation, help texts, logging, waveform switches, hexadecimal
  conversion, binary memory packets (disabled in the dispatcher).
* The NERV core, a submodule, and the test bench around it; of the SoC, the memory array
  and the fact that a device register is not in it.

## 7. Plan

Done: the shadow, run control, reads and reset, the session, packet reception;
HDLDB's session and shadow; faults of the connection; the abstract services and
the refinements; the proofs of section 4.

What a continuation would take up:

1. Liveness of the sessions as a measure, as `RunsAdvance` is for run control: the
   number of steps until an open request is answered.
2. `PcAtInstruction` in `DebugView` between resets.
3. HDLDB's trace, points and run commands, once the functions of `System` that are empty
   now have bodies.
