------------------------------- MODULE Shadow -------------------------------
(***************************************************************************)
(* The class gdb_shadow (src/hdl/gdb_shadow_pkg.sv): the debugger's copy   *)
(* of the CPU state, the trace of retired instructions, and the            *)
(* breakpoints and watchpoints.  The copy lags the CPU by one instruction: *)
(* entry cnt of the trace has been retired by the CPU and has not yet been *)
(* applied to the copy, so the debugger sees the state before it.          *)
(*                                                                         *)
(* The class's functions are operators here; the members it updates are    *)
(* the variables.  Entry k of the SystemVerilog queue trc is trc[k+1].     *)
(* The member ret is always the entry trc[cnt] and is written so.          *)
(***************************************************************************)
EXTENDS Integers, Sequences

CONSTANTS
    GPRN,      \* number of general purpose registers
    CSRN,      \* number of control and status registers
    Word,      \* values of a register and of an address
    Byte,      \* values of a memory byte
    X,         \* the 4-state unknown value of a register
    Mapped,    \* addresses covered by the blocks of the memory map MMAP
    Ebreak     \* instruction encodings of EBREAK and C.EBREAK

ASSUME SizesAssumption ==
    /\ GPRN \in Nat \ {0}
    /\ CSRN \in Nat
    /\ 0 \in Word /\ Word \subseteq Nat
    /\ 0 \in Byte /\ Byte \subseteq Nat
    /\ X \notin Word
    /\ Mapped \subseteq Word
    /\ Ebreak \subseteq Seq(Byte)

GprIdx == 0 .. GPRN - 1
CsrIdx == 0 .. CSRN - 1
RegIdx == 0 .. GPRN + CSRN        \* GPRs, then the PC, then the CSRs (REGN of them)

Signals == {"SIGNONE", "SIGHUP", "SIGINT", "SIGILL", "SIGTRAP"}
Breaks  == {"swbreak", "hwbreak"}
Watches == {"watch", "rwatch", "awatch"}
Reasons == Breaks \cup Watches \cup {"replaylog"}

\* The registers and memories of the shadow copy.  An I/O dictionary entry
\* that does not exist reads as the empty array.
ShadowState == [gpr : [GprIdx -> Word \cup {X}],
                csr : [CsrIdx -> Word \cup {X}],
                pc  : Word,
                mem : [Mapped -> Byte],
                i_o : [Word \ Mapped -> Seq(Byte)]]

\* What one retired instruction changes in a register file: the indices it
\* writes, each with the old value rdt and the new value wdt.
RegWrites(Idx) == UNION {[S -> [rdt : Word \cup {X}, wdt : Word]] : S \in SUBSET Idx}
NoWrites == [i \in {} |-> [rdt |-> X, wdt |-> 0]]

Access == [adr : Word, rdt : Seq(Byte), wdt : Seq(Byte)]

Retired == [ifu : [adr : Word, pcn : Word, rdt : Seq(Byte), ill : BOOLEAN],
            gpr : RegWrites(GprIdx),
            csr : RegWrites(CsrIdx),
            lsu : Access]

VARIABLES
    shd,   \* gpr, csr, pc, mem, i_o
    cnt,   \* position in the trace, -1 before the first instruction
    trc,   \* trace queue
    sig,   \* signal the debugger is told
    rsn,   \* reason the debugger is told
    bpt,   \* breakpoints by address
    wpt    \* watchpoints by address

shadowVars == <<shd, cnt, trc, sig, rsn, bpt, wpt>>

ShadowTypeOK ==
    /\ shd \in ShadowState
    /\ trc \in Seq(Retired)
    /\ cnt \in -1 .. Len(trc) - 1
    /\ sig \in Signals
    /\ rsn \in Reasons
    /\ bpt \in [Word -> Breaks \cup {"absent"}]
    /\ wpt \in [Word -> Watches \cup {"absent"}]

-----------------------------------------------------------------------------
(* Constructor.  gpr is a 4-state array of which only x0 is initialised, pc *)
(* and the memories are 2-state and start at zero, and rsn = "" makes the   *)
(* point type zero, which is swbreak.                                       *)

NewShadowState == [gpr |-> [i \in GprIdx |-> IF i = 0 THEN 0 ELSE X],
                   csr |-> [i \in CsrIdx |-> X],
                   pc  |-> 0,
                   mem |-> [a \in Mapped |-> 0],
                   i_o |-> [a \in Word \ Mapped |-> <<>>]]

ShadowInit ==
    /\ shd = NewShadowState
    /\ cnt = -1
    /\ trc = <<>>
    /\ sig = "SIGTRAP"
    /\ rsn = "swbreak"
    /\ bpt = [a \in Word |-> "absent"]
    /\ wpt = [a \in Word |-> "absent"]

-----------------------------------------------------------------------------
(* Register and memory access *)

reg_write(s, idx, val) ==
    IF idx < GPRN THEN [s EXCEPT !.gpr = [@ EXCEPT ![idx] = val]]
    ELSE IF idx = GPRN THEN [s EXCEPT !.pc = val]
    ELSE [s EXCEPT !.csr = [@ EXCEPT ![idx - 1 - GPRN] = val]]

\* The bytes dat laid over the memory m from address adr on.
Overlay(m, adr, dat) ==
    [a \in DOMAIN m |-> IF a - adr + 1 \in 1 .. Len(dat) THEN dat[a - adr + 1] ELSE m[a]]

mem_read(s, adr, siz) ==
    IF adr \in Mapped THEN [k \in 1 .. siz |-> s.mem[adr + k - 1]] ELSE s.i_o[adr]

mem_write(s, adr, dat) ==
    IF adr \in Mapped
    THEN [s EXCEPT !.mem = Overlay(@, adr, dat)]
    ELSE [s EXCEPT !.i_o = [@ EXCEPT ![adr] = dat]]

-----------------------------------------------------------------------------
(* update / record / replay / revert of one retired instruction *)

\* The registers regs with the old, or the new, values of the writes w.
OldRegs(regs, w) == [i \in DOMAIN regs |-> IF i \in DOMAIN w THEN w[i].rdt ELSE regs[i]]
NewRegs(regs, w) == [i \in DOMAIN regs |-> IF i \in DOMAIN w THEN w[i].wdt ELSE regs[i]]

update(s, ret) ==
    LET fetched == [mem_write(s, ret.ifu.adr, ret.ifu.rdt) EXCEPT
                       !.pc = ret.ifu.adr, !.csr = OldRegs(@, ret.csr)]
    IN  mem_write(fetched, ret.lsu.adr, ret.lsu.rdt)

record(s, ret) ==
    [ifu |-> [ret.ifu EXCEPT !.rdt = mem_read(s, ret.ifu.adr, Len(@)), !.adr = s.pc],
     gpr |-> [i \in DOMAIN ret.gpr |-> [ret.gpr[i] EXCEPT !.rdt = s.gpr[i]]],
     csr |-> [i \in DOMAIN ret.csr |-> [ret.csr[i] EXCEPT !.rdt = s.csr[i]]],
     lsu |-> [ret.lsu EXCEPT !.rdt = mem_read(s, ret.lsu.adr, Len(ret.lsu.wdt))]]

\* Variant (mutant): the memory write is forgotten.
replayNoStore(s, ret) ==
    [s EXCEPT !.pc = ret.ifu.pcn,
              !.gpr = NewRegs(@, ret.gpr), !.csr = NewRegs(@, ret.csr)]

replay(s, ret) ==
    mem_write([s EXCEPT !.pc  = ret.ifu.pcn,
                        !.gpr = NewRegs(@, ret.gpr),
                        !.csr = NewRegs(@, ret.csr)],
              ret.lsu.adr, ret.lsu.wdt)

\* Variants (mutants): the new register value is written back; the PC goes to
\* the next instead of the reverted instruction.
revertNewValue(s, ret) ==
    mem_write([s EXCEPT !.pc = ret.ifu.adr, !.gpr = NewRegs(@, ret.gpr)],
              ret.lsu.adr, ret.lsu.rdt)

revertNextPc(s, ret) ==
    mem_write([s EXCEPT !.pc = ret.ifu.pcn, !.gpr = OldRegs(@, ret.gpr)],
              ret.lsu.adr, ret.lsu.rdt)

revert(s, ret) ==
    mem_write([s EXCEPT !.pc  = ret.ifu.adr,
                        !.gpr = OldRegs(@, ret.gpr),
                        !.csr = OldRegs(@, ret.csr)],
              ret.lsu.adr, ret.lsu.rdt)

-----------------------------------------------------------------------------
(* Breakpoint and watchpoint matching: st is the pair of sig and rsn *)

breakpoint_match(st, ret) ==
    IF ret.ifu.ill THEN [st EXCEPT !.sig = "SIGILL"]
    ELSE IF ret.ifu.rdt \in Ebreak THEN [st EXCEPT !.sig = "SIGTRAP"]
    ELSE IF bpt[ret.ifu.adr] = "hwbreak" THEN [sig |-> "SIGTRAP", rsn |-> "hwbreak"]
    ELSE st

watchpoint_match(st, ret) ==
    LET wen == Len(ret.lsu.wdt) > 0
        pt  == wpt[ret.lsu.adr]
    IN  IF \/ pt = "watch" /\ wen
           \/ pt = "rwatch" /\ ~wen
           \/ pt = "awatch"
        THEN [sig |-> "SIGTRAP", rsn |-> pt]
        ELSE st

\* s0 is the signal the caller has just set, or sig when it sets none.
match(s0, ret) ==
    LET st == watchpoint_match(breakpoint_match([sig |-> s0, rsn |-> rsn], ret), ret)
    IN  sig' = st.sig /\ rsn' = st.rsn

-----------------------------------------------------------------------------
(* forward and backward steps.  t is the trace, with the entry that the    *)
(* caller may just have pushed.  Since the caller pushes before the call,  *)
(* the branch c = Len(t) (update and record) is never taken.               *)

\* Variant (mutant): the position is not advanced.
forwardStuck(t, s0) ==
    /\ shd' = IF cnt # -1 THEN replay(shd, t[cnt + 1]) ELSE shd
    /\ trc' = t
    /\ match(s0, t[cnt + 2])
    /\ UNCHANGED <<cnt, bpt, wpt>>

forward(t, s0) ==
    LET replayed == IF cnt # -1 THEN replay(shd, t[cnt + 1]) ELSE shd
        c        == cnt + 1
        updated  == update(replayed, t[c + 1])
    IN  /\ cnt' = c
        /\ shd' = IF c = Len(t) THEN updated ELSE replayed
        /\ trc' = IF c = Len(t)
                  THEN [t EXCEPT ![c + 1] = record(updated, t[c + 1])]
                  ELSE t
        /\ match(s0, t[c + 1])
        /\ UNCHANGED <<bpt, wpt>>

\* Variant (mutant): points are not matched.
backwardUnmatched(s0) ==
    /\ shd' = revert(shd, trc[cnt])
    /\ cnt' = cnt - 1
    /\ sig' = s0
    /\ UNCHANGED <<trc, rsn, bpt, wpt>>

backward(s0) ==
    /\ shd' = IF cnt # 0 THEN revert(shd, trc[cnt]) ELSE shd
    /\ cnt' = cnt - 1
    /\ match(s0, trc[cnt])
    /\ UNCHANGED <<trc, bpt, wpt>>

-----------------------------------------------------------------------------
(* Points.  The dictionaries are keyed by the address alone; a removal     *)
(* deletes whatever is stored there.                                       *)

point_insert(ptype, addr) ==
    /\ bpt' = IF ptype \in Breaks THEN [bpt EXCEPT ![addr] = ptype] ELSE bpt
    /\ wpt' = IF ptype \in Watches THEN [wpt EXCEPT ![addr] = ptype] ELSE wpt

point_remove(ptype, addr) ==
    /\ bpt' = IF ptype \in Breaks THEN [bpt EXCEPT ![addr] = "absent"] ELSE bpt
    /\ wpt' = IF ptype \in Watches THEN [wpt EXCEPT ![addr] = "absent"] ELSE wpt
=============================================================================
