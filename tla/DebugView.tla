----------------------------- MODULE DebugView -----------------------------
(***************************************************************************)
(* What the debugger reads: RunControl composed with the session state     *)
(* stub_state, which selects the source of register and memory reads (the  *)
(* shadow or the CPU), and with the reset of the CPU, driven by "monitor   *)
(* reset" and by R while the shadow and the trace stay as they are.        *)
(*                                                                         *)
(* A read changes nothing but its reply, so the reads are operators: what  *)
(* the packets g, p and m would be answered in the present state.          *)
(***************************************************************************)
EXTENDS RunControl

VARIABLES
    rst,         \* reset of the CPU
    stub_state   \* sources of reads: TRUE for the CPU, FALSE for the shadow

viewVars == <<vars, rst, stub_state>>

STUB_STATE_INIT == [register |-> FALSE, memory |-> FALSE]

\* rst is not driven before the first reset: the CPU may or may not run.
ViewInit ==
    /\ Init
    /\ rst \in BOOLEAN
    /\ stub_state = STUB_STATE_INIT

-----------------------------------------------------------------------------
(* Reads *)

reg_read(s, idx) ==
    IF idx < GPRN THEN s.gpr[idx] ELSE IF idx = GPRN THEN s.pc ELSE s.csr[idx - 1 - GPRN]

\* The result type is 2-state: an unknown bit reads as zero.
dut_reg_read(d, idx) ==
    IF idx >= GPRN THEN d.pc ELSE IF d.gpr[idx] = X THEN 0 ELSE d.gpr[idx]

\* Outside of the memory array the index is out of range, and 'x as a 2-state
\* byte is zero: the device registers are not read.
dut_mem_read(d, a) == IF a \in Ram THEN d.mem[a] ELSE 0

rsp_reg_readall ==
    [idx \in RegIdx |-> IF stub_state.register THEN dut_reg_read(dut, idx) ELSE reg_read(shd, idx)]

\* The reply to p is put together behind the request, which is still in the
\* variable: the request is echoed in front of the value.
rsp_reg_readone(idx) ==
    [echo |-> idx,
     val  |-> IF stub_state.register THEN dut_reg_read(dut, idx) ELSE reg_read(shd, idx)]

\* The reply to m, byte by byte: a read of one byte at its own address, of
\* which the first element is taken; an empty array gives zero.
rsp_mem_read(a) ==
    LET bytes == mem_read(shd, a, 1)
    IN  IF stub_state.memory THEN dut_mem_read(dut, a)
        ELSE IF bytes = <<>> THEN 0 ELSE bytes[1]

-----------------------------------------------------------------------------
(* Reset and sources *)

\* Variant (mutant): the shadow is constructed anew, and its trace is not.
dut_reset_assertShadow ==
    /\ rst' = TRUE
    /\ dut' = [dut EXCEPT !.pc = ResetAdr]
    /\ shd' = NewShadowState

dut_reset_assert ==
    /\ rst' = TRUE
    /\ dut' = [dut EXCEPT !.pc = ResetAdr]
    /\ UNCHANGED shd

\* A PC that the debugger wrote under reset may or may not survive the clock
\* edge at which the reset is released.
dut_reset_release ==
    /\ rst' = FALSE
    /\ \E p \in {dut.pc, ResetAdr} : dut' = [dut EXCEPT !.pc = p]
    /\ UNCHANGED shd

\* "monitor reset assert" and R, and "monitor reset release".
monitor_reset ==
    /\ Dispatching
    /\ dut_reset_assert \/ dut_reset_release
    /\ UNCHANGED <<cnt, trc, sig, rsn, bpt, wpt, hist, loaded, edited, stub_state>>
    /\ LoopCheck

\* "monitor set register=..." and "monitor set memory=...".
monitor_set ==
    /\ Dispatching
    /\ \E fromDut \in BOOLEAN :
          \/ stub_state' = [stub_state EXCEPT !.register = fromDut]
          \/ stub_state' = [stub_state EXCEPT !.memory = fromDut]
    /\ UNCHANGED <<shd, cnt, trc, sig, rsn, bpt, wpt, dut, hist, loaded, edited, rst>>
    /\ LoopCheck

\* The session state starts anew; the shadow and the trace are kept for the
\* next client.
rsp_detach ==
    /\ mode = "idle"
    /\ stub_state' = STUB_STATE_INIT
    /\ UNCHANGED <<vars, rst>>

\* A CPU in reset retires nothing.
Run == Next /\ (rst => UNCHANGED hist) /\ UNCHANGED <<rst, stub_state>>

ViewNext == Run \/ monitor_reset \/ monitor_set \/ rsp_detach

ViewSpec == ViewInit /\ [][ViewNext]_viewVars

-----------------------------------------------------------------------------
(* Properties *)

Later == cnt + 1 .. Len(hist)

SettledReg(r) ==
    /\ r \in loaded.gpr \/ (\E j \in 1 .. cnt : WritesReg(j, r))
    /\ r \notin edited.gpr /\ ~(\E j \in Later \ {0} : WritesReg(j, r))

SettledByte(a) ==
    /\ a \in loaded.mem \/ (\E j \in 1 .. cnt : StoresTo(j, a))
    /\ a \notin edited.mem /\ ~(\E j \in Later \ {0} : StoresTo(j, a))

\* A register or memory byte that was loaded or written before the position
\* shown, and is not written from there on, reads as the value the program had
\* there, with g, p and m, from the shadow and from the CPU alike: neither
\* reversing and replaying, nor resets, nor a switch of the source in between
\* matters.
ReadsAgree ==
    /\ \A r \in GprIdx : SettledReg(r) =>
          /\ rsp_reg_readall[r] = Shown.gpr[r]
          /\ rsp_reg_readone(r).val = Shown.gpr[r]
    /\ \A a \in Mapped : SettledByte(a) => rsp_mem_read(a) = Shown.mem[a]

\* The same of the bytes outside of the memory map, which the shadow keeps in a
\* dictionary keyed by the address of the whole access: those of the SoC's memory
\* from both sources, and those of the device registers, which the adapter does
\* not reach, from the shadow.
IoReadsBack ==
    \A a \in Word \ Mapped :
       SettledByte(a) /\ (a \in Ram \/ ~stub_state.memory) => rsp_mem_read(a) = Shown.mem[a]
=============================================================================
