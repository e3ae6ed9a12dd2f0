----------------------------- MODULE RunControl -----------------------------
(***************************************************************************)
(* Run control of the stub (src/hdl/gdb_server_stub_pkg.sv): the handlers  *)
(* that move the debugged program forwards and backwards in its trace,     *)
(* write its registers and memory, and insert and remove points, on top of *)
(* the shadow copy (module Shadow) and of the CPU behind the adapter of    *)
(* src/hdl/nerv/nerv_gdb.sv.                                               *)
(*                                                                         *)
(* The CPU is external.  An instruction it retires is a record of the set  *)
(* Insn; dut_step turns it into the trace entry the adapter samples.       *)
(*                                                                         *)
(* hist, loaded and edited are history variables: no guard and no other    *)
(* variable depends on them.                                               *)
(***************************************************************************)
EXTENDS Shadow

CONSTANTS
    Ram,         \* addresses of the SoC's memory array; the rest is memory mapped I/O
    Insn,        \* instructions the CPU may retire
    ResetAdr,    \* address of the first instruction
    DutGpr0,     \* CPU registers after reset
    DutMem0,     \* CPU memory after reset
    Blobs,       \* debugger's memory writes: address and data
    RegVals,     \* values the debugger writes into registers
    Points,      \* points the debugger uses: type and address
    UserSignals, \* signals the debugger passes with S and C
    MaxTrace     \* bound: number of instructions the CPU retires

\* A store is inside of one block of the memory map or outside of all blocks:
\* accesses are naturally aligned and so are the blocks.
Fits(adr, len) == \A b \in adr .. adr + len - 1 : b \in Mapped <=> adr \in Mapped

\* rd = 0 stands for an instruction with no destination register.
InsnType == [pcn : Word, rdt : Seq(Byte), rd : GprIdx, val : Word,
             op : {"alu", "load", "store"}, adr : Word, dat : Seq(Byte)]

ASSUME RunAssumption ==
    /\ Mapped \subseteq Ram /\ Ram \subseteq Word
    /\ Insn \subseteq InsnType
    /\ \A i \in Insn : i.op = "store" => i.dat # <<>> /\ Fits(i.adr, Len(i.dat))
    /\ ResetAdr \in Word
    /\ DutGpr0 \in [GprIdx -> Word \cup {X}]
    /\ DutMem0 \in [Word -> Byte]
    /\ Blobs \subseteq [adr : Word, dat : Seq(Byte)]
    /\ \A b \in Blobs : \A k \in 1 .. Len(b.dat) : b.adr + k - 1 \in Word
    /\ RegVals \subseteq Word
    /\ Points \subseteq [ptype : Breaks \cup Watches, addr : Word]
    /\ UserSignals \subseteq Signals
    /\ MaxTrace \in Nat

\* Outside of Ram, mem is what the devices hold: a device register, such as the
\* one of the LEDs, keeps what was last stored to it.
DutState == [gpr : [GprIdx -> Word \cup {X}], pc : Word, mem : [Word -> Byte]]

VARIABLES
    mode,    \* "idle": waiting for a command; "cont"/"back": inside the loop of
             \* rsp_continue/rsp_backward; "contpoll"/"backpoll": at its socket poll
    reply,   \* last stop reply: signal, reason, position and register
    dut,     \* CPU registers, memory and device registers
    hist,    \* history: each retired instruction and the CPU state before it
    loaded,  \* history: locations of both copies the debugger wrote before the first step
    edited   \* history: locations the debugger wrote after the first step

vars == <<shd, cnt, trc, sig, rsn, bpt, wpt, mode, reply, dut, hist, loaded, edited>>

Places == [gpr : SUBSET GprIdx, mem : SUBSET Word, pc : BOOLEAN]
NoPlaces == [gpr |-> {}, mem |-> {}, pc |-> FALSE]
Modes == {"idle", "cont", "contpoll", "back", "backpoll"}
StopReply == [sig : Signals, rsn : Reasons, cnt : Int, reg : Int]

TypeOK ==
    /\ ShadowTypeOK
    /\ mode \in Modes
    /\ reply \in StopReply
    /\ dut \in DutState
    /\ hist \in Seq([dut : DutState, insn : Insn])
    /\ loaded \in Places /\ loaded.mem \subseteq Ram
    /\ edited \in Places

NoRegister == -1

Init ==
    /\ ShadowInit
    /\ mode = "idle"
    /\ reply = [sig |-> "SIGTRAP", rsn |-> "swbreak", cnt |-> -1, reg |-> NoRegister]
    /\ dut = [gpr |-> DutGpr0, pc |-> ResetAdr, mem |-> DutMem0]
    /\ hist = <<>>
    /\ loaded = NoPlaces
    /\ edited = NoPlaces

-----------------------------------------------------------------------------
(* The CPU (external) and its adapter *)

\* What the CPU does to its own state when it retires the instruction i.
Exec(d, i) == [gpr |-> IF i.rd = 0 THEN d.gpr ELSE [d.gpr EXCEPT ![i.rd] = i.val],
               pc  |-> i.pcn,
               mem |-> IF i.op = "store" THEN Overlay(d.mem, i.adr, i.dat) ELSE d.mem]

\* Variant (mutant): the destination register is sampled before it is known.
dut_stepUnknown(d, i) ==
    [ifu |-> [adr |-> d.pc, pcn |-> i.pcn, rdt |-> i.rdt, ill |-> FALSE],
     gpr |-> IF i.rd = 0 THEN NoWrites ELSE [r \in {i.rd} |-> [rdt |-> X, wdt |-> X]],
     csr |-> NoWrites,
     lsu |-> [adr |-> 0, rdt |-> <<>>, wdt |-> <<>>]]

\* The entry dut_step samples: the old register value is unknown, the old
\* memory bytes read as zero since lsu_rdt is never driven, loads leave no
\* LSU record, CSRs are not traced and no instruction is reported illegal.
dut_step(d, i) ==
    [ifu |-> [adr |-> d.pc, pcn |-> i.pcn, rdt |-> i.rdt, ill |-> FALSE],
     gpr |-> IF i.rd = 0 THEN NoWrites ELSE [r \in {i.rd} |-> [rdt |-> X, wdt |-> i.val]],
     csr |-> NoWrites,
     lsu |-> IF i.op = "store"
             THEN [adr |-> i.adr, rdt |-> [k \in 1 .. Len(i.dat) |-> 0], wdt |-> i.dat]
             ELSE [adr |-> 0, rdt |-> <<>>, wdt |-> <<>>]]

dut_reg_write(d, idx, val) ==
    IF idx < GPRN THEN [d EXCEPT !.gpr = [@ EXCEPT ![idx] = val]] ELSE [d EXCEPT !.pc = val]

\* The bytes dat, one call for each, which indexes the memory array: a write
\* outside of the array is lost, and none reaches a device register.
dut_mem_write(d, adr, dat) ==
    [d EXCEPT !.mem = [a \in Word |-> IF a \in Ram THEN Overlay(@, adr, dat)[a] ELSE @[a]]]

-----------------------------------------------------------------------------
(* Steps; s0 is the signal set just before *)

\* Variant (mutant): the CPU is stepped inside the trace as well.
RecordAnywhere(s0) ==
    /\ Len(trc) < MaxTrace
    /\ \E i \in Insn :
          /\ dut' = Exec(dut, i)
          /\ hist' = Append(hist, [dut |-> dut, insn |-> i])
          /\ forward(Append(trc, dut_step(dut, i)), s0)
    /\ UNCHANGED <<loaded, edited>>

\* rsp_forward_step at the end of the trace: the CPU retires an instruction,
\* which is pushed before the shadow moves.
RecordStep(s0) ==
    /\ cnt = Len(trc) - 1
    /\ Len(trc) < MaxTrace
    /\ \E i \in Insn :
          /\ dut' = Exec(dut, i)
          /\ hist' = Append(hist, [dut |-> dut, insn |-> i])
          /\ forward(Append(trc, dut_step(dut, i)), s0)
    /\ UNCHANGED <<loaded, edited>>

\* rsp_forward_step inside the trace: the CPU does not move.
ReplayStep(s0) ==
    /\ cnt # Len(trc) - 1
    /\ forward(trc, s0)
    /\ UNCHANGED <<dut, hist, loaded, edited>>

rsp_forward_step(s0) == RecordStep(s0) \/ ReplayStep(s0)

AtBeginning == cnt \in {-1, 0}

\* Variant (mutant): the beginning of the history is not signalled.
BeginStepSilent ==
    /\ AtBeginning
    /\ sig' = "SIGNONE"
    /\ UNCHANGED <<shd, cnt, trc, rsn, bpt, wpt, dut, hist, loaded, edited>>

\* rsp_backward_step at the beginning of the history and inside it.
BeginStep ==
    /\ AtBeginning
    /\ sig' = "SIGTRAP"
    /\ UNCHANGED <<shd, cnt, trc, rsn, bpt, wpt, dut, hist, loaded, edited>>

RevertStep(s0) ==
    /\ ~AtBeginning
    /\ backward(s0)
    /\ UNCHANGED <<dut, hist, loaded, edited>>

rsp_backward_step(s0) == BeginStep \/ RevertStep(s0)

SignalNumber(s) == CASE s = "SIGNONE" -> 0 [] s = "SIGHUP" -> 1 [] s = "SIGINT" -> 2
                     [] s = "SIGILL" -> 4 [] OTHER -> 5

\* The signal and the reason, whatever set them last, and, if idx is given,
\* the register idx with the value 'x.
rsp_stop_reply(idx) == reply' = [sig |-> sig', rsn |-> rsn', cnt |-> cnt', reg |-> idx]

\* The run commands pass the signal for the register index.
RunReply == rsp_stop_reply(SignalNumber(sig'))

-----------------------------------------------------------------------------
(* Run commands: s, S, c, C, bs and bc.  The addresses of s, S, c and C    *)
(* are parsed and not used.                                                *)

\* "s" keeps the signal of the previous stop, "S" sets one.
rsp_step ==
    /\ mode = "idle"
    /\ \E s0 \in {sig} \cup UserSignals : rsp_forward_step(s0)
    /\ RunReply
    /\ UNCHANGED mode

\* "c" clears the signal and "C" sets it before the first iteration.
rsp_continue ==
    /\ mode = "idle"
    /\ sig' \in {"SIGNONE"} \cup UserSignals
    /\ mode' = "cont"
    /\ UNCHANGED <<shd, cnt, trc, rsn, bpt, wpt, reply, dut, hist, loaded, edited>>

\* An iteration of the loop of rsp_continue up to the poll of the socket.
ContinueRecord ==
    /\ mode = "cont" /\ mode' = "contpoll"
    /\ RecordStep(sig)
    /\ UNCHANGED reply

ContinueReplay ==
    /\ mode = "cont" /\ mode' = "contpoll"
    /\ ReplayStep(sig)
    /\ UNCHANGED reply

\* "bs"
rsp_backward_bs ==
    /\ mode = "idle"
    /\ rsp_backward_step(sig)
    /\ RunReply
    /\ UNCHANGED mode

\* "bc": each iteration clears the signal first.
rsp_backward_bc ==
    /\ mode = "idle" /\ mode' = "back"
    /\ UNCHANGED <<shd, cnt, trc, sig, rsn, bpt, wpt, reply, dut, hist, loaded, edited>>

BackwardStep ==
    /\ mode = "back" /\ mode' = "backpoll"
    /\ rsp_backward_step("SIGNONE")
    /\ UNCHANGED reply

-----------------------------------------------------------------------------
(* The poll at the end of an iteration, and the loop condition.  A packet  *)
(* found by the poll is dispatched on the spot (nested rsp_packet); a      *)
(* client does not send a second run command before the stop reply.        *)

\* Where rsp_packet is called from: the main loop or the poll of a run.
Dispatching == mode \in {"idle", "contpoll", "backpoll"}

LoopCheck ==
    /\ mode' = IF sig' # "SIGNONE" THEN "idle"
               ELSE CASE mode = "contpoll" -> "cont"
                      [] mode = "backpoll" -> "back"
                      [] OTHER -> "idle"
    /\ IF mode # "idle" /\ sig' # "SIGNONE" THEN RunReply ELSE UNCHANGED reply

PollEmpty ==
    /\ mode \in {"contpoll", "backpoll"}
    /\ UNCHANGED <<shd, cnt, trc, sig, rsn, bpt, wpt, dut, hist, loaded, edited>>
    /\ LoopCheck

PollInterrupt ==
    /\ mode \in {"contpoll", "backpoll"}
    /\ sig' = "SIGINT"
    /\ UNCHANGED <<shd, cnt, trc, rsn, bpt, wpt, dut, hist, loaded, edited>>
    /\ LoopCheck

-----------------------------------------------------------------------------
(* Accesses of the debugger: P, G, M, z and Z *)

Add(p, q) == [gpr |-> p.gpr \cup q.gpr, mem |-> p.mem \cup q.mem, pc |-> p.pc \/ q.pc]

\* History: the places p were written by the debugger.  What it writes outside of
\* Ram reaches the shadow alone, so it is never loaded.
Touch(p) ==
    /\ loaded' = IF trc = <<>> THEN Add(loaded, [p EXCEPT !.mem = @ \cap Ram]) ELSE loaded
    /\ edited' = IF trc = <<>> THEN edited ELSE Add(edited, p)

\* Variant (mutant): the CPU is not written.
rsp_reg_writeone_shadow ==
    /\ Dispatching
    /\ \E idx \in RegIdx, val \in RegVals :
          /\ shd' = reg_write(shd, idx, val)
          /\ Touch([gpr |-> {idx} \cap GprIdx, mem |-> {}, pc |-> idx >= GPRN])
    /\ UNCHANGED <<cnt, trc, sig, rsn, bpt, wpt, hist, dut>>
    /\ LoopCheck

rsp_reg_writeone ==
    /\ Dispatching
    /\ \E idx \in RegIdx, val \in RegVals :
          /\ dut' = dut_reg_write(dut, idx, val)
          /\ shd' = reg_write(shd, idx, val)
          /\ Touch([gpr |-> {idx} \cap GprIdx, mem |-> {}, pc |-> idx >= GPRN])
    /\ UNCHANGED <<cnt, trc, sig, rsn, bpt, wpt, hist>>
    /\ LoopCheck

\* The loop writes every register in turn; the adapter puts all of those
\* from the PC on into the CPU's PC, so that the last one stays.
rsp_reg_writeall ==
    /\ Dispatching
    /\ \E v \in [RegIdx -> RegVals] :
          /\ dut' = [dut EXCEPT !.gpr = [i \in GprIdx |-> v[i]], !.pc = v[GPRN + CSRN]]
          /\ shd' = [shd EXCEPT !.gpr = [i \in GprIdx |-> v[i]], !.pc = v[GPRN],
                                !.csr = [i \in CsrIdx |-> v[GPRN + 1 + i]]]
    /\ Touch([gpr |-> GprIdx, mem |-> {}, pc |-> TRUE])
    /\ UNCHANGED <<cnt, trc, sig, rsn, bpt, wpt, hist>>
    /\ LoopCheck

\* Variant (mutant): the shadow is not written.
rsp_mem_write_dut ==
    /\ Dispatching
    /\ \E b \in Blobs :
          /\ dut' = dut_mem_write(dut, b.adr, b.dat)
          /\ Touch([gpr |-> {}, pc |-> FALSE,
                    mem |-> {a \in Word : a - b.adr + 1 \in 1 .. Len(b.dat)}])
    /\ UNCHANGED <<shd, cnt, trc, sig, rsn, bpt, wpt, hist>>
    /\ LoopCheck

\* One byte at a time, into the SoC's memory and into the shadow, where a byte
\* outside of the memory map becomes an I/O entry of its own.
rsp_mem_write ==
    /\ Dispatching
    /\ \E b \in Blobs :
          LET written == {a \in Word : a - b.adr + 1 \in 1 .. Len(b.dat)}
          IN  /\ dut' = dut_mem_write(dut, b.adr, b.dat)
              /\ shd' = [shd EXCEPT
                           !.mem = Overlay(@, b.adr, b.dat),
                           !.i_o = [a \in Word \ Mapped |->
                                      IF a \in written THEN <<b.dat[a - b.adr + 1]>> ELSE @[a]]]
              /\ Touch([gpr |-> {}, mem |-> written, pc |-> FALSE])
    /\ UNCHANGED <<cnt, trc, sig, rsn, bpt, wpt, hist>>
    /\ LoopCheck

rsp_point ==
    /\ Dispatching
    /\ \E p \in Points : point_insert(p.ptype, p.addr) \/ point_remove(p.ptype, p.addr)
    /\ UNCHANGED <<shd, cnt, trc, sig, rsn, dut, hist, loaded, edited>>
    /\ LoopCheck

\* "?": the last signal and reason again.
rsp_signal ==
    /\ mode = "idle"
    /\ UNCHANGED <<shd, cnt, trc, sig, rsn, bpt, wpt, mode, dut, hist, loaded, edited>>
    /\ rsp_stop_reply(NoRegister)

-----------------------------------------------------------------------------
DebuggerAccess == rsp_reg_writeone \/ rsp_reg_writeall \/ rsp_mem_write \/ rsp_point

Poll == /\ mode \in {"contpoll", "backpoll"}
        /\ PollEmpty \/ PollInterrupt \/ DebuggerAccess

Next ==
    \/ rsp_step \/ rsp_continue \/ ContinueRecord \/ ContinueReplay
    \/ rsp_backward_bs \/ rsp_backward_bc \/ BackwardStep
    \/ PollEmpty \/ PollInterrupt
    \/ rsp_reg_writeone \/ rsp_reg_writeall \/ rsp_mem_write \/ rsp_point \/ rsp_signal

\* The loops of rsp_continue and rsp_backward never wait, except for the CPU
\* to retire an instruction: that step (ContinueRecord) has no fairness.
Fairness == /\ WF_vars(ContinueReplay)
            /\ WF_vars(BackwardStep)
            /\ WF_vars(Poll)

Spec == Init /\ [][Next]_vars /\ Fairness

-----------------------------------------------------------------------------
(* Properties *)

\* The CPU state the shadow should be showing: the one before the instruction
\* at position cnt, which the CPU has retired already.
Shown == IF cnt = -1 THEN dut ELSE hist[cnt + 1].dut

WritesReg(j, r) == hist[j].insn.rd = r /\ r # 0
Covers(i, a) == i.op = "store" /\ a - i.adr + 1 \in 1 .. Len(i.dat)
StoresTo(j, a) == Covers(hist[j].insn, a)

\* At the end of the trace the shadow holds the CPU's value of every register
\* and memory byte that the loader or an applied instruction has written and
\* the debugger has not edited since the start: however often the program was
\* reversed and replayed in between, forward brings back what revert lost.
EdgeExact ==
    cnt = Len(trc) - 1 =>
      /\ \A r \in GprIdx \ edited.gpr :
            r \in loaded.gpr \/ (\E j \in 1 .. cnt : WritesReg(j, r))
               => shd.gpr[r] = Shown.gpr[r]
      /\ \A a \in Mapped \ edited.mem :
            a \in loaded.mem \/ (\E j \in 1 .. cnt : StoresTo(j, a))
               => shd.mem[a] = Shown.mem[a]

\* Anywhere in the trace, a register the debugger has not edited shows either
\* the value the CPU had there or the unknown value, never a wrong value: the
\* adapter reports the old value of a register as 'x, and revert writes it.
GprNeverWrong ==
    \A r \in GprIdx \ (edited.gpr \cup {0}) : shd.gpr[r] \in {X, Shown.gpr[r]}

\* Once the first instruction has been applied, the PC shown is the address of
\* the instruction at cnt, forwards and backwards, unless the debugger wrote it.
PcAtInstruction ==
    cnt > 0 /\ ~edited.pc => shd.pc = trc[cnt + 1].ifu.adr

\* The instruction at cnt hits a supported point: an EBREAK, a hardware
\* breakpoint, or a write or access watchpoint on the start of a store.
Hit == LET i == hist[cnt + 1].insn
       IN  \/ i.rdt \in Ebreak
           \/ bpt[hist[cnt + 1].dut.pc] = "hwbreak"
           \/ i.op = "store" /\ wpt[i.adr] \in {"watch", "awatch"}

\* A run, forwards or backwards, recorded or replayed, never goes on from an
\* instruction that hit a point when the run arrived there, and no packet or
\* interrupt found by the poll makes it forget the hit.
NeverRunsPastPoint ==
    [][(mode \in {"contpoll", "backpoll"} /\ cnt # -1 /\ UNCHANGED <<bpt, wpt>> /\ Hit)
          => mode' = "idle"]_vars

\* The trace only grows, by one entry and at its end, and only when the shadow
\* is there; reversing, replaying and debugger accesses never rewrite history.
HistoryAppendOnly ==
    [][\/ trc' = trc
       \/ /\ cnt = Len(trc) - 1 /\ cnt' = Len(trc)
          /\ Len(trc') = Len(trc) + 1
          /\ \A k \in 1 .. Len(trc) : trc'[k] = trc[k]]_vars

\* How many steps a reverse run, and the replay of a run, have left at most: an
\* iteration and a poll for each position, and none once a signal is set.
ReverseRank == IF mode = "back" THEN 2 * cnt + 3
               ELSE IF sig = "SIGNONE" THEN 2 * cnt + 4 ELSE 0
ReplayRank  == 2 * (Len(trc) - 1 - cnt) + (IF mode = "contpoll" THEN 1 ELSE 0)

\* Every step of a reverse run, and of a run that has not caught up with the CPU,
\* ends it or brings it nearer to its end: whatever the polls find, it takes no
\* more iterations than there are positions left.
RunsAdvance ==
    [][/\ mode \in {"back", "backpoll"} =>
             mode' = "idle" \/ ReverseRank' \in 0 .. ReverseRank - 1
       /\ mode \in {"cont", "contpoll"} /\ cnt # Len(trc) - 1 =>
             mode' = "idle" \/ ReplayRank' \in 0 .. ReplayRank - 1]_vars

\* Reverse execution always ends, at a point or at the beginning of the
\* history, whatever packets the polls find.
ReverseContinueTerminates == mode \in {"back", "backpoll"} ~> mode = "idle"

\* A continue inside the history stops or catches up with the CPU: replay
\* never loops.
ReplayCatchesUp == mode \in {"cont", "contpoll"} ~> (mode = "idle" \/ cnt = Len(trc) - 1)

-----------------------------------------------------------------------------
(* What documentation and comments say and the code does not do *)

\* README.adoc: reverting traced instructions brings back the exact shadow
\* state of the forward execution.  Registers and bytes whose values were known
\* (written by the loader or by an earlier instruction) are shown again after
\* a later instruction that overwrote them is undone.
RevertRestores ==
    /\ \A r \in GprIdx \ edited.gpr :
          r \in loaded.gpr \/ (\E j \in 1 .. cnt : WritesReg(j, r))
             => shd.gpr[r] = Shown.gpr[r]
    /\ \A a \in Mapped \ edited.mem :
          a \in loaded.mem \/ (\E j \in 1 .. cnt : StoresTo(j, a))
             => shd.mem[a] = Shown.mem[a]

\* A read or access watchpoint stops a run at a load of its address.
ReadWatchStops ==
    [][(/\ mode = "contpoll" /\ UNCHANGED wpt
        /\ hist[cnt + 1].insn.op = "load"
        /\ wpt[hist[cnt + 1].insn.adr] \in {"rwatch", "awatch"})
          => mode' = "idle"]_vars

\* The reason in a stop reply is one that the instruction at cnt gives: that
\* of a breakpoint on its address, or none.
ReasonIsCurrent ==
    [][(reply' # reply /\ reply'.rsn \in Breaks)
          => cnt' >= 0 /\ bpt'[hist'[cnt' + 1].dut.pc] = reply'.rsn]_vars

\* README.adoc: where the CPU's state differs from the shadow's and affects the
\* execution, the difference is taken from the trace.  After every step, the PC
\* shown is the address of the instruction at cnt, also when the debugger has
\* written the PC.
PcFollowsTrace == [][cnt' # cnt => shd'.pc = trc'[cnt' + 1].ifu.adr]_vars
=============================================================================
