-------------------------- MODULE RunControl_proofs --------------------------
(***************************************************************************)
(* Proofs about RunControl, for every set of instructions, memory map,     *)
(* register count, debugger input and trace length: type correctness, and  *)
(* the inductive invariant behind EdgeExact, GprNeverWrong,                *)
(* PcAtInstruction, NeverRunsPastPoint, and RunsAdvance, the measure that  *)
(* reverse runs and replays use up.                                        *)
(***************************************************************************)
EXTENDS RunControl, TLAPS

-----------------------------------------------------------------------------
(* The inductive invariant *)

\* The CPU state after the j-th instruction.
After(j) == IF j = Len(hist) THEN dut ELSE hist[j + 1].dut

\* The trace is what the adapter sampled, and is empty exactly when no
\* instruction has been retired.
Traced ==
    /\ Len(hist) = Len(trc)
    /\ \A j \in 1 .. Len(trc) : trc[j] = dut_step(hist[j].dut, hist[j].insn)
    /\ cnt = -1 => Len(trc) = 0

\* Where the debugger has not interfered, one CPU state follows from the other.
GprChain ==
    \A r \in GprIdx \ edited.gpr : \A j \in 1 .. Len(hist) :
       After(j).gpr[r] = Exec(hist[j].dut, hist[j].insn).gpr[r]

\* The bytes the shadow can show: those of the memory map, and the I/O registers, which
\* are only ever stored to at their own address.  The dictionary keeps an access under
\* its first address, and an instruction without a memory access is replayed and undone
\* as one of no bytes at address 0.
IoRegs == {a \in Word \ Mapped : a # 0 /\ \A i \in Insn : Covers(i, a) => i.adr = a}
Cells  == Mapped \cup IoRegs

\* What the shadow shows of such a byte.
ByteOf(s, a) ==
    IF a \in Mapped THEN s.mem[a] ELSE IF s.i_o[a] = <<>> THEN 0 ELSE s.i_o[a][1]

MemChain ==
    \A a \in Cells \ edited.mem : \A j \in 1 .. Len(hist) :
       After(j).mem[a] = Exec(hist[j].dut, hist[j].insn).mem[a]

PcChain == ~edited.pc => \A j \in 1 .. Len(hist) : After(j).pc = hist[j].insn.pcn

\* A register or byte whose value the shadow does not have: it was never
\* written, or an instruction that wrote it has been undone.
GprLost(r) ==
    \/ (r \notin loaded.gpr /\ \A j \in 1 .. cnt : ~WritesReg(j, r))
    \/ \E j \in cnt + 1 .. Len(trc) - 1 : WritesReg(j, r)

MemLost(a) ==
    \/ (a \notin loaded.mem /\ \A j \in 1 .. cnt : ~StoresTo(j, a))
    \/ \E j \in cnt + 1 .. Len(trc) - 1 : StoresTo(j, a)

GprTracked ==
    \A r \in GprIdx \ edited.gpr :
       shd.gpr[r] = Shown.gpr[r] \/ ((shd.gpr[r] = X \/ r = 0) /\ GprLost(r))

MemTracked ==
    \A a \in Cells \ edited.mem : ByteOf(shd, a) = Shown.mem[a] \/ MemLost(a)

PcTracked == cnt > 0 /\ ~edited.pc => shd.pc = hist[cnt + 1].dut.pc

\* The part about registers and memory does not depend on the one about the PC.
Core  == TypeOK /\ Traced /\ GprChain /\ MemChain /\ GprTracked /\ MemTracked
PcInv == PcChain /\ PcTracked

IInv == Core /\ PcInv

-----------------------------------------------------------------------------
(* Memory and registers of the shadow *)

\* An element of a sequence over S is in S.
LEMMA Element ==
    ASSUME NEW S, NEW q \in Seq(S), NEW k \in 1 .. Len(q)
    PROVE  q[k] \in S
  OBVIOUS

\* Laying bytes over a memory gives a memory.
LEMMA OverlayType ==
    ASSUME NEW D \in SUBSET Nat, NEW m \in [D -> Byte],
           NEW adr \in Nat, NEW dat \in Seq(Byte)
    PROVE  Overlay(m, adr, dat) \in [D -> Byte]
<1>1. ASSUME NEW a \in D, a - adr + 1 \in 1 .. Len(dat)
      PROVE  dat[a - adr + 1] \in Byte
  BY <1>1
<1> QED
  BY <1>1 DEF Overlay

\* mem_write changes the bytes of the block that the address is in, and an I/O
\* entry otherwise.
LEMMA MemWriteEffect ==
    ASSUME NEW s \in ShadowState, NEW adr \in Word, NEW dat \in Seq(Byte)
    PROVE  /\ mem_write(s, adr, dat) \in ShadowState
           /\ mem_write(s, adr, dat).gpr = s.gpr
           /\ mem_write(s, adr, dat).pc = s.pc
           /\ mem_write(s, adr, dat).mem = IF adr \in Mapped THEN Overlay(s.mem, adr, dat) ELSE s.mem
           /\ mem_write(s, adr, dat).i_o = IF adr \in Mapped THEN s.i_o ELSE [s.i_o EXCEPT ![adr] = dat]
<1>1. /\ s.gpr \in [GprIdx -> Word \cup {X}] /\ s.csr \in [CsrIdx -> Word \cup {X}]
      /\ s.pc \in Word /\ s.mem \in [Mapped -> Byte] /\ s.i_o \in [Word \ Mapped -> Seq(Byte)]
  BY DEF ShadowState
<1>2. CASE adr \in Mapped
  <2>1. Overlay(s.mem, adr, dat) \in [Mapped -> Byte]
    BY <1>1, OverlayType, SizesAssumption
  <2> QED
    BY <1>2, <2>1 DEF mem_write, ShadowState
<1>3. CASE adr \notin Mapped
  <2>1. [s.i_o EXCEPT ![adr] = dat] \in [Word \ Mapped -> Seq(Byte)]
    BY <1>1, <1>3
  <2> QED
    BY <1>1, <1>3, <2>1 DEF mem_write, ShadowState
<1> QED
  BY <1>2, <1>3

\* What the register writes of a trace entry look like.
LEMMA RegWritesType ==
    ASSUME NEW Idx, NEW w \in RegWrites(Idx)
    PROVE  /\ DOMAIN w \subseteq Idx
           /\ \A i \in DOMAIN w : w[i].rdt \in Word \cup {X} /\ w[i].wdt \in Word
<1>1. PICK S \in SUBSET Idx : w \in [S -> [rdt : Word \cup {X}, wdt : Word]]
  BY DEF RegWrites
<1> QED
  BY <1>1

\* The registers with the old, or the new, values of an entry are registers.
LEMMA RegsType ==
    ASSUME NEW Idx, NEW regs \in [Idx -> Word \cup {X}], NEW w \in RegWrites(Idx)
    PROVE  /\ OldRegs(regs, w) \in [Idx -> Word \cup {X}]
           /\ NewRegs(regs, w) \in [Idx -> Word \cup {X}]
  BY RegWritesType DEF OldRegs, NewRegs

\* replay and revert keep the shadow well formed, and what they do to its
\* registers, its PC and its memory.
LEMMA ReplayEffect ==
    ASSUME NEW s \in ShadowState, NEW ret \in Retired
    PROVE  /\ replay(s, ret) \in ShadowState
           /\ replay(s, ret).gpr = NewRegs(s.gpr, ret.gpr)
           /\ replay(s, ret).pc = ret.ifu.pcn
           /\ replay(s, ret).mem = IF ret.lsu.adr \in Mapped
                                   THEN Overlay(s.mem, ret.lsu.adr, ret.lsu.wdt) ELSE s.mem
           /\ replay(s, ret).i_o = IF ret.lsu.adr \in Mapped
                                   THEN s.i_o ELSE [s.i_o EXCEPT ![ret.lsu.adr] = ret.lsu.wdt]
<1> DEFINE z == [s EXCEPT !.pc = ret.ifu.pcn, !.gpr = NewRegs(@, ret.gpr),
                          !.csr = NewRegs(@, ret.csr)]
<1>1. /\ NewRegs(s.gpr, ret.gpr) \in [GprIdx -> Word \cup {X}]
      /\ NewRegs(s.csr, ret.csr) \in [CsrIdx -> Word \cup {X}]
  BY RegsType DEF ShadowState, Retired
<1>2. /\ z \in ShadowState /\ z.gpr = NewRegs(s.gpr, ret.gpr)
      /\ z.pc = ret.ifu.pcn /\ z.mem = s.mem /\ z.i_o = s.i_o
  BY <1>1 DEF ShadowState, Retired
<1>3. ret.lsu.adr \in Word /\ ret.lsu.wdt \in Seq(Byte)
  BY DEF Retired, Access
<1>4. replay(s, ret) = mem_write(z, ret.lsu.adr, ret.lsu.wdt)
  BY DEF replay
<1> HIDE DEF z
<1> QED
  BY <1>2, <1>3, <1>4, MemWriteEffect

\* The same of revert, with the old values.
LEMMA RevertEffect ==
    ASSUME NEW s \in ShadowState, NEW ret \in Retired
    PROVE  /\ revert(s, ret) \in ShadowState
           /\ revert(s, ret).gpr = OldRegs(s.gpr, ret.gpr)
           /\ revert(s, ret).pc = ret.ifu.adr
           /\ revert(s, ret).mem = IF ret.lsu.adr \in Mapped
                                   THEN Overlay(s.mem, ret.lsu.adr, ret.lsu.rdt) ELSE s.mem
           /\ revert(s, ret).i_o = IF ret.lsu.adr \in Mapped
                                   THEN s.i_o ELSE [s.i_o EXCEPT ![ret.lsu.adr] = ret.lsu.rdt]
<1> DEFINE z == [s EXCEPT !.pc = ret.ifu.adr, !.gpr = OldRegs(@, ret.gpr),
                          !.csr = OldRegs(@, ret.csr)]
<1>1. /\ OldRegs(s.gpr, ret.gpr) \in [GprIdx -> Word \cup {X}]
      /\ OldRegs(s.csr, ret.csr) \in [CsrIdx -> Word \cup {X}]
  BY RegsType DEF ShadowState, Retired
<1>2. /\ z \in ShadowState /\ z.gpr = OldRegs(s.gpr, ret.gpr)
      /\ z.pc = ret.ifu.adr /\ z.mem = s.mem /\ z.i_o = s.i_o
  BY <1>1 DEF ShadowState, Retired
<1>3. ret.lsu.adr \in Word /\ ret.lsu.rdt \in Seq(Byte)
  BY DEF Retired, Access
<1>4. revert(s, ret) = mem_write(z, ret.lsu.adr, ret.lsu.rdt)
  BY DEF revert
<1> HIDE DEF z
<1> QED
  BY <1>2, <1>3, <1>4, MemWriteEffect

-----------------------------------------------------------------------------
(* The CPU and its trace entries *)

\* The fields of an instruction.
LEMMA InsnFields ==
    ASSUME NEW i \in Insn
    PROVE  /\ i.pcn \in Word /\ i.rdt \in Seq(Byte) /\ i.rd \in GprIdx /\ i.val \in Word
           /\ i.op \in {"alu", "load", "store"} /\ i.adr \in Word /\ i.dat \in Seq(Byte)
  BY RunAssumption DEF InsnType

\* Retiring an instruction leads from one CPU state to another.
LEMMA ExecType ==
    ASSUME NEW d \in DutState, NEW i \in Insn
    PROVE  Exec(d, i) \in DutState
<1>1. /\ d.gpr \in [GprIdx -> Word \cup {X}] /\ d.pc \in Word /\ d.mem \in [Word -> Byte]
  BY DEF DutState
<1>2. Overlay(d.mem, i.adr, i.dat) \in [Word -> Byte]
  BY <1>1, InsnFields, OverlayType, SizesAssumption
<1> QED
  BY <1>1, <1>2, InsnFields DEF Exec, DutState

\* What dut_step samples is a trace entry.
LEMMA DutStepType ==
    ASSUME NEW d \in DutState, NEW i \in Insn
    PROVE  dut_step(d, i) \in Retired
<1>1. /\ d.pc \in Word
  BY DEF DutState
<1>2. ASSUME NEW Idx PROVE NoWrites \in RegWrites(Idx)
  <2>1. NoWrites \in [{} -> [rdt : Word \cup {X}, wdt : Word]]
    BY DEF NoWrites
  <2> QED
    BY <2>1 DEF RegWrites
<1>3. [r \in {i.rd} |-> [rdt |-> X, wdt |-> i.val]] \in RegWrites(GprIdx)
  <2>1. [r \in {i.rd} |-> [rdt |-> X, wdt |-> i.val]] \in [{i.rd} -> [rdt : Word \cup {X}, wdt : Word]]
    BY InsnFields
  <2>2. {i.rd} \in SUBSET GprIdx
    BY InsnFields
  <2> QED
    BY <2>1, <2>2 DEF RegWrites
<1>4. [k \in 1 .. Len(i.dat) |-> 0] \in Seq(Byte)
  BY InsnFields, SizesAssumption
<1>5. 0 \in Word /\ <<>> \in Seq(Byte)
  BY SizesAssumption
<1> QED
  BY <1>1, <1>2, <1>3, <1>4, <1>5, InsnFields DEF dut_step, Retired, Access

-----------------------------------------------------------------------------
(* Steps *)

ControlTypeOK ==
    /\ sig \in Signals /\ rsn \in Reasons
    /\ bpt \in [Word -> Breaks \cup {"absent"}]
    /\ wpt \in [Word -> Watches \cup {"absent"}]

\* Matching sets a signal and a reason.
LEMMA MatchType ==
    ASSUME NEW s0 \in Signals, NEW ret \in Retired, ControlTypeOK, match(s0, ret)
    PROVE  sig' \in Signals /\ rsn' \in Reasons
<1> DEFINE st0 == [sig |-> s0, rsn |-> rsn]
           st1 == breakpoint_match(st0, ret)
           st2 == watchpoint_match(st1, ret)
           Pair == [sig : Signals, rsn : Reasons]
<1>1. st0 \in Pair
  BY DEF ControlTypeOK
<1>2. st1 \in Pair
  BY <1>1 DEF breakpoint_match, Signals, Reasons, Breaks, Watches
<1>3. wpt[ret.lsu.adr] \in Watches \cup {"absent"}
  BY DEF ControlTypeOK, Retired, Access
<1> HIDE DEF st0, st1
<1>4. st2 \in Pair
  BY <1>2, <1>3 DEF watchpoint_match, Signals, Reasons, Breaks, Watches
<1>5. sig' = st2.sig /\ rsn' = st2.rsn
  BY DEF match, st0, st1
<1> HIDE DEF st2
<1> QED
  BY <1>4, <1>5

\* forward on a trace t that already holds the entry it moves to: the branch
\* that updates and records is not taken.
LEMMA ForwardEffect ==
    ASSUME TypeOK, NEW t \in Seq(Retired), NEW s0 \in Signals,
           cnt + 1 \in 0 .. Len(t) - 1, forward(t, s0)
    PROVE  /\ cnt' = cnt + 1 /\ trc' = t
           /\ shd' = IF cnt # -1 THEN replay(shd, t[cnt + 1]) ELSE shd
           /\ shd' \in ShadowState
           /\ sig' \in Signals /\ rsn' \in Reasons
           /\ bpt' = bpt /\ wpt' = wpt
<1>1. cnt \in Int /\ cnt >= -1 /\ shd \in ShadowState /\ ControlTypeOK
  BY DEF TypeOK, ShadowTypeOK, ControlTypeOK
<1>2. cnt + 1 # Len(t)
  BY <1>1
<1>3. /\ cnt' = cnt + 1 /\ trc' = t
      /\ shd' = IF cnt # -1 THEN replay(shd, t[cnt + 1]) ELSE shd
      /\ match(s0, t[cnt + 1 + 1]) /\ bpt' = bpt /\ wpt' = wpt
  BY <1>2 DEF forward
<1>4. t[cnt + 1 + 1] \in Retired
  BY <1>1
<1>5. sig' \in Signals /\ rsn' \in Reasons
  BY <1>1, <1>3, <1>4, MatchType
<1>6. shd' \in ShadowState
  <2>1. CASE cnt = -1
    BY <2>1, <1>1, <1>3
  <2>2. CASE cnt # -1
    <3>1. t[cnt + 1] \in Retired
      BY <2>2, <1>1
    <3> QED
      BY <2>2, <3>1, <1>1, <1>3, ReplayEffect
  <2> QED
    BY <2>1, <2>2
<1> QED
  BY <1>3, <1>5, <1>6

\* What rsp_forward_step does at the end of the trace: a new instruction in
\* the history and in the trace, and the one before it applied to the shadow.
LEMMA RecordEffect ==
    ASSUME TypeOK, NEW s0 \in Signals, RecordStep(s0)
    PROVE  \E i \in Insn :
              /\ cnt = Len(trc) - 1 /\ cnt' = cnt + 1
              /\ trc' = Append(trc, dut_step(dut, i))
              /\ hist' = Append(hist, [dut |-> dut, insn |-> i])
              /\ dut' = Exec(dut, i)
              /\ shd' = IF cnt # -1 THEN replay(shd, trc[cnt + 1]) ELSE shd
              /\ shd' \in ShadowState /\ sig' \in Signals /\ rsn' \in Reasons
              /\ UNCHANGED <<bpt, wpt, loaded, edited>>
<1>1. PICK i \in Insn : /\ dut' = Exec(dut, i)
                        /\ hist' = Append(hist, [dut |-> dut, insn |-> i])
                        /\ forward(Append(trc, dut_step(dut, i)), s0)
  BY DEF RecordStep
<1> DEFINE t == Append(trc, dut_step(dut, i))
<1>2. /\ trc \in Seq(Retired) /\ dut \in DutState /\ cnt = Len(trc) - 1 /\ Len(trc) \in Nat
  BY DEF TypeOK, ShadowTypeOK, RecordStep
<1>3. dut_step(dut, i) \in Retired
  BY <1>2, DutStepType
<1>4. t \in Seq(Retired) /\ Len(t) = Len(trc) + 1 /\ \A k \in 1 .. Len(trc) : t[k] = trc[k]
  BY <1>2, <1>3
<1>5. cnt + 1 \in 0 .. Len(t) - 1 /\ (cnt # -1 => t[cnt + 1] = trc[cnt + 1])
  BY <1>2, <1>4
<1>6. forward(t, s0)
  BY <1>1
<1> HIDE DEF t
<1>7. /\ cnt' = cnt + 1 /\ trc' = t
      /\ shd' = IF cnt # -1 THEN replay(shd, t[cnt + 1]) ELSE shd
      /\ shd' \in ShadowState
      /\ sig' \in Signals /\ rsn' \in Reasons
      /\ bpt' = bpt /\ wpt' = wpt
  BY <1>4, <1>5, <1>6, ForwardEffect
<1>8. shd' = IF cnt # -1 THEN replay(shd, trc[cnt + 1]) ELSE shd
  BY <1>5, <1>7
<1>9. UNCHANGED <<loaded, edited>>
  BY DEF RecordStep
<1> QED
  BY <1>1, <1>2, <1>7, <1>8, <1>9 DEF t

\* What rsp_forward_step does inside the trace.
LEMMA ReplayStepEffect ==
    ASSUME TypeOK, NEW s0 \in Signals, ReplayStep(s0)
    PROVE  /\ cnt < Len(trc) - 1 /\ cnt' = cnt + 1
           /\ shd' = IF cnt # -1 THEN replay(shd, trc[cnt + 1]) ELSE shd
           /\ shd' \in ShadowState /\ sig' \in Signals /\ rsn' \in Reasons
           /\ UNCHANGED <<trc, bpt, wpt, dut, hist, loaded, edited>>
<1>1. trc \in Seq(Retired) /\ cnt \in -1 .. Len(trc) - 1 /\ Len(trc) \in Nat
  BY DEF TypeOK, ShadowTypeOK
<1>2. cnt # Len(trc) - 1 /\ forward(trc, s0) /\ UNCHANGED <<dut, hist, loaded, edited>>
  BY DEF ReplayStep
<1>3. cnt < Len(trc) - 1 /\ cnt + 1 \in 0 .. Len(trc) - 1
  BY <1>1, <1>2
<1> QED
  BY <1>1, <1>2, <1>3, ForwardEffect

\* What rsp_backward_step does inside the trace.
LEMMA RevertStepEffect ==
    ASSUME TypeOK, NEW s0 \in Signals, RevertStep(s0)
    PROVE  /\ cnt > 0 /\ cnt' = cnt - 1
           /\ shd' = revert(shd, trc[cnt])
           /\ shd' \in ShadowState /\ sig' \in Signals /\ rsn' \in Reasons
           /\ UNCHANGED <<trc, bpt, wpt, dut, hist, loaded, edited>>
<1>1. /\ trc \in Seq(Retired) /\ cnt \in -1 .. Len(trc) - 1 /\ Len(trc) \in Nat
      /\ shd \in ShadowState /\ ControlTypeOK
  BY DEF TypeOK, ShadowTypeOK, ControlTypeOK
<1>2. /\ cnt \notin {-1, 0} /\ backward(s0) /\ UNCHANGED <<dut, hist, loaded, edited>>
  BY DEF RevertStep, AtBeginning
<1>3. cnt > 0 /\ trc[cnt] \in Retired
  BY <1>1, <1>2
<1>4. /\ shd' = revert(shd, trc[cnt]) /\ cnt' = cnt - 1 /\ match(s0, trc[cnt])
      /\ UNCHANGED <<trc, bpt, wpt>>
  BY <1>2, <1>3 DEF backward
<1>5. sig' \in Signals /\ rsn' \in Reasons
  BY <1>1, <1>3, <1>4, MatchType
<1>6. shd' \in ShadowState
  BY <1>1, <1>3, <1>4, RevertEffect
<1> QED
  BY <1>2, <1>3, <1>4, <1>5, <1>6

-----------------------------------------------------------------------------
(* Debugger accesses *)

\* Touch keeps the two sets of places well formed.
LEMMA PlacesType ==
    ASSUME TypeOK, NEW p \in Places, Touch(p)
    PROVE  /\ loaded' \in Places /\ edited' \in Places /\ loaded'.mem \subseteq Ram
           /\ (trc = <<>> => /\ loaded'.gpr = loaded.gpr \cup p.gpr
                             /\ loaded'.mem = loaded.mem \cup (p.mem \cap Ram)
                             /\ edited' = edited)
           /\ (trc # <<>> => edited' = Add(edited, p) /\ loaded' = loaded)
<1> DEFINE q == [p EXCEPT !.mem = @ \cap Ram]
<1>1. /\ loaded \in Places /\ edited \in Places /\ loaded.mem \subseteq Ram
  BY DEF TypeOK
<1>2. q \in Places /\ q.gpr = p.gpr /\ q.mem = p.mem \cap Ram
  BY DEF Places
<1>3. Touch(p) <=> /\ loaded' = IF trc = <<>> THEN Add(loaded, q) ELSE loaded
                   /\ edited' = IF trc = <<>> THEN edited ELSE Add(edited, p)
  BY DEF Touch
<1> HIDE DEF q
<1>4. Add(loaded, q) \in Places /\ Add(edited, p) \in Places
  BY <1>1, <1>2 DEF Add, Places
<1>5. /\ Add(loaded, q).gpr = loaded.gpr \cup p.gpr
      /\ Add(loaded, q).mem = loaded.mem \cup (p.mem \cap Ram)
  BY <1>2 DEF Add
<1> QED
  BY <1>1, <1>3, <1>4, <1>5

\* Writes of the debugger: the CPU and the shadow get the same values.
LEMMA RegWriteEffect ==
    ASSUME TypeOK, rsp_reg_writeone \/ rsp_reg_writeall
    PROVE  \E G \in SUBSET GprIdx, b \in BOOLEAN :
              /\ Touch([gpr |-> G, mem |-> {}, pc |-> b])
              /\ shd' \in ShadowState /\ dut' \in DutState
              /\ \A r \in GprIdx : IF r \in G THEN shd'.gpr[r] = dut'.gpr[r]
                                   ELSE shd'.gpr[r] = shd.gpr[r] /\ dut'.gpr[r] = dut.gpr[r]
              /\ \A r \in G : dut'.gpr[r] \in Word
              /\ shd'.mem = shd.mem /\ shd'.i_o = shd.i_o /\ dut'.mem = dut.mem
              /\ ~b => shd'.pc = shd.pc /\ dut'.pc = dut.pc
              /\ UNCHANGED <<cnt, trc, sig, rsn, bpt, wpt, hist>>
<1>1. /\ shd \in ShadowState /\ dut \in DutState
      /\ GPRN \in Nat \ {0} /\ CSRN \in Nat /\ RegVals \subseteq Word
  BY SizesAssumption, RunAssumption DEF TypeOK, ShadowTypeOK
<1>2. CASE rsp_reg_writeone
  <2>1. PICK idx \in RegIdx, val \in RegVals :
           /\ dut' = dut_reg_write(dut, idx, val)
           /\ shd' = reg_write(shd, idx, val)
           /\ Touch([gpr |-> {idx} \cap GprIdx, mem |-> {}, pc |-> idx >= GPRN])
    BY <1>2 DEF rsp_reg_writeone
  <2>2. UNCHANGED <<cnt, trc, sig, rsn, bpt, wpt, hist>>
    BY <1>2 DEF rsp_reg_writeone
  <2>3. idx \in Nat /\ val \in Word /\ (idx >= GPRN) \in BOOLEAN
    BY <1>1 DEF RegIdx
  <2> DEFINE G == {idx} \cap GprIdx
             b == idx >= GPRN
  <2>4. CASE idx < GPRN
    <3>1. idx \in GprIdx /\ ~b /\ G = {idx}
      BY <1>1, <2>3, <2>4 DEF GprIdx
    <3>2. /\ shd' = [shd EXCEPT !.gpr = [@ EXCEPT ![idx] = val]]
          /\ dut' = [dut EXCEPT !.gpr = [@ EXCEPT ![idx] = val]]
      BY <2>1, <2>4 DEF reg_write, dut_reg_write
    <3>3. /\ shd' \in ShadowState /\ shd'.mem = shd.mem /\ shd'.i_o = shd.i_o /\ shd'.pc = shd.pc
          /\ shd'.gpr = [shd.gpr EXCEPT ![idx] = val]
      BY <1>1, <2>3, <3>1, <3>2 DEF ShadowState
    <3>4. /\ dut' \in DutState /\ dut'.mem = dut.mem /\ dut'.pc = dut.pc
          /\ dut'.gpr = [dut.gpr EXCEPT ![idx] = val]
      BY <1>1, <2>3, <3>1, <3>2 DEF DutState
    <3>5. shd.gpr \in [GprIdx -> Word \cup {X}] /\ dut.gpr \in [GprIdx -> Word \cup {X}]
      BY <1>1 DEF ShadowState, DutState
    <3>6. \A r \in GprIdx : IF r \in G THEN shd'.gpr[r] = dut'.gpr[r]
                            ELSE shd'.gpr[r] = shd.gpr[r] /\ dut'.gpr[r] = dut.gpr[r]
      BY <3>1, <3>3, <3>4, <3>5
    <3>7. \A r \in G : dut'.gpr[r] \in Word
      BY <2>3, <3>1, <3>4, <3>5
    <3> QED
      BY <2>1, <2>2, <2>3, <3>1, <3>3, <3>4, <3>6, <3>7
  <2>5. CASE ~(idx < GPRN)
    <3>1. b /\ G = {}
      BY <1>1, <2>3, <2>5 DEF GprIdx
    <3>2. dut' = [dut EXCEPT !.pc = val]
      BY <2>1, <2>5 DEF dut_reg_write
    <3>3. dut' \in DutState /\ dut'.mem = dut.mem /\ dut'.gpr = dut.gpr
      BY <1>1, <2>3, <3>2 DEF DutState
    <3>4. shd' \in ShadowState /\ shd'.mem = shd.mem /\ shd'.i_o = shd.i_o /\ shd'.gpr = shd.gpr
      <4>1. CASE idx = GPRN
        BY <1>1, <2>1, <2>3, <2>5, <4>1 DEF reg_write, ShadowState
      <4>2. CASE idx # GPRN
        <5>1. idx - 1 - GPRN \in CsrIdx
          BY <1>1, <2>5, <4>2 DEF RegIdx, CsrIdx
        <5>2. shd' = [shd EXCEPT !.csr = [@ EXCEPT ![idx - 1 - GPRN] = val]]
          BY <2>1, <2>5, <4>2 DEF reg_write
        <5> QED
          BY <1>1, <2>3, <5>1, <5>2 DEF ShadowState
      <4> QED
        BY <4>1, <4>2
    <3> QED
      BY <2>1, <2>2, <2>3, <3>1, <3>3, <3>4
  <2> QED
    BY <2>4, <2>5
<1>3. CASE rsp_reg_writeall
  <2>1. PICK v \in [RegIdx -> RegVals] :
           /\ dut' = [dut EXCEPT !.gpr = [i \in GprIdx |-> v[i]], !.pc = v[GPRN + CSRN]]
           /\ shd' = [shd EXCEPT !.gpr = [i \in GprIdx |-> v[i]], !.pc = v[GPRN],
                                 !.csr = [i \in CsrIdx |-> v[GPRN + 1 + i]]]
    BY <1>3 DEF rsp_reg_writeall
  <2>2. /\ UNCHANGED <<cnt, trc, sig, rsn, bpt, wpt, hist>>
        /\ Touch([gpr |-> GprIdx, mem |-> {}, pc |-> TRUE])
    BY <1>3 DEF rsp_reg_writeall
  <2>3. /\ [i \in GprIdx |-> v[i]] \in [GprIdx -> Word \cup {X}]
        /\ [i \in CsrIdx |-> v[GPRN + 1 + i]] \in [CsrIdx -> Word \cup {X}]
        /\ v[GPRN] \in Word /\ v[GPRN + CSRN] \in Word
    BY <1>1 DEF RegIdx, GprIdx, CsrIdx
  <2>4. /\ shd' \in ShadowState /\ shd'.mem = shd.mem /\ shd'.i_o = shd.i_o /\ shd'.gpr = [i \in GprIdx |-> v[i]]
    BY <1>1, <2>1, <2>3 DEF ShadowState
  <2>5. /\ dut' \in DutState /\ dut'.mem = dut.mem /\ dut'.gpr = [i \in GprIdx |-> v[i]]
    BY <1>1, <2>1, <2>3 DEF DutState
  <2>6. \A r \in GprIdx : v[r] \in Word
    BY <1>1 DEF RegIdx, GprIdx
  <2> QED
    BY <2>2, <2>4, <2>5, <2>6
<1> QED
  BY <1>2, <1>3

\* The shadow and the SoC's memory get the same bytes at the addresses M, and the rest
\* and the device registers stay as they are.
MemAccess(M, a) ==
    /\ a \in M /\ a \in Ram => ByteOf(shd', a) = dut'.mem[a]
    /\ a \notin M => ByteOf(shd', a) = ByteOf(shd, a)
    /\ a \notin M \/ a \notin Ram => dut'.mem[a] = dut.mem[a]

\* What M does.
LEMMA MemWritePacketEffect ==
    ASSUME TypeOK, rsp_mem_write
    PROVE  \E M \in SUBSET Word :
              /\ Touch([gpr |-> {}, mem |-> M, pc |-> FALSE])
              /\ shd' \in ShadowState /\ dut' \in DutState
              /\ \A a \in Cells : MemAccess(M, a)
              /\ shd'.gpr = shd.gpr /\ dut'.gpr = dut.gpr
              /\ shd'.pc = shd.pc /\ dut'.pc = dut.pc
              /\ UNCHANGED <<cnt, trc, sig, rsn, bpt, wpt, hist>>
<1> DEFINE written(b) == {a \in Word : a - b.adr + 1 \in 1 .. Len(b.dat)}
<1>1. PICK b \in Blobs :
        /\ dut' = dut_mem_write(dut, b.adr, b.dat)
        /\ shd' = [shd EXCEPT
                     !.mem = Overlay(@, b.adr, b.dat),
                     !.i_o = [a \in Word \ Mapped |->
                                IF a \in written(b) THEN <<b.dat[a - b.adr + 1]>> ELSE @[a]]]
        /\ Touch([gpr |-> {}, mem |-> written(b), pc |-> FALSE])
  BY DEF rsp_mem_write
<1>2. UNCHANGED <<cnt, trc, sig, rsn, bpt, wpt, hist>>
  BY DEF rsp_mem_write
<1>3. b.adr \in Word /\ b.dat \in Seq(Byte) /\ b.adr \in Nat
  BY RunAssumption, SizesAssumption
<1>4. /\ shd \in ShadowState /\ dut \in DutState
      /\ shd.mem \in [Mapped -> Byte] /\ dut.mem \in [Word -> Byte]
      /\ shd.i_o \in [Word \ Mapped -> Seq(Byte)]
  BY DEF TypeOK, ShadowTypeOK, ShadowState, DutState
<1>5. /\ Overlay(shd.mem, b.adr, b.dat) \in [Mapped -> Byte]
      /\ Overlay(dut.mem, b.adr, b.dat) \in [Word -> Byte]
  BY <1>3, <1>4, OverlayType, SizesAssumption
<1>6. [a \in Word \ Mapped |->
         IF a \in written(b) THEN <<b.dat[a - b.adr + 1]>> ELSE shd.i_o[a]]
           \in [Word \ Mapped -> Seq(Byte)]
  <2>1. ASSUME NEW a \in Word \ Mapped, a \in written(b)
        PROVE  <<b.dat[a - b.adr + 1]>> \in Seq(Byte)
    <3>1. b.dat[a - b.adr + 1] \in Byte
      BY <1>3, <2>1
    <3> QED
      BY <3>1
  <2> QED
    BY <1>4, <2>1
<1>7. /\ shd' \in ShadowState /\ shd'.gpr = shd.gpr /\ shd'.pc = shd.pc
      /\ shd'.mem = Overlay(shd.mem, b.adr, b.dat)
      /\ shd'.i_o = [a \in Word \ Mapped |->
                       IF a \in written(b) THEN <<b.dat[a - b.adr + 1]>> ELSE shd.i_o[a]]
  BY <1>1, <1>4, <1>5, <1>6 DEF ShadowState
<1>8. /\ dut' \in DutState /\ dut'.gpr = dut.gpr /\ dut'.pc = dut.pc
      /\ dut'.mem = [a \in Word |-> IF a \in Ram THEN Overlay(dut.mem, b.adr, b.dat)[a]
                                    ELSE dut.mem[a]]
  BY <1>1, <1>4, <1>5 DEF DutState, dut_mem_write
<1>9. ASSUME NEW a \in Cells
      PROVE  MemAccess(written(b), a)
  <2>1. a \in Word /\ a \in Nat
    BY SizesAssumption DEF Cells, IoRegs
  <2>2. dut'.mem[a] = IF a \in written(b) /\ a \in Ram THEN b.dat[a - b.adr + 1] ELSE dut.mem[a]
    BY <1>4, <1>8, <2>1 DEF Overlay
  <2>3. CASE a \in Mapped
    <3>1. shd'.mem[a] = IF a \in written(b) THEN b.dat[a - b.adr + 1] ELSE shd.mem[a]
      BY <1>4, <1>7, <2>1, <2>3 DEF Overlay
    <3> QED
      BY <2>2, <2>3, <3>1 DEF ByteOf, MemAccess
  <2>4. CASE a \notin Mapped
    <3>1. shd'.i_o[a] = IF a \in written(b) THEN <<b.dat[a - b.adr + 1]>> ELSE shd.i_o[a]
      BY <1>7, <2>1, <2>4
    <3>2. \A x : <<x>> # <<>> /\ <<x>>[1] = x
      OBVIOUS
    <3> HIDE DEF written
    <3> QED
      BY <2>2, <2>4, <3>1, <3>2 DEF ByteOf, MemAccess
  <2> QED
    BY <2>3, <2>4
<1>10. written(b) \in SUBSET Word
  OBVIOUS
<1> HIDE DEF written
<1> QED
  BY <1>1, <1>2, <1>7, <1>8, <1>9, <1>10

-----------------------------------------------------------------------------
(* Every step is one of these *)

Forms ==
    \/ \E s0 \in Signals : RecordStep(s0)
    \/ \E s0 \in Signals : ReplayStep(s0)
    \/ \E s0 \in Signals : RevertStep(s0)
    \/ rsp_reg_writeone \/ rsp_reg_writeall
    \/ rsp_mem_write
    \/ UNCHANGED <<shd, cnt, trc, dut, hist, loaded, edited>>

\* Every step has one of the forms above.
LEMMA StepForms ==
    ASSUME TypeOK, [Next]_vars
    PROVE  Forms
<1>1. /\ sig \in Signals /\ UserSignals \subseteq Signals /\ "SIGNONE" \in Signals
  BY RunAssumption DEF TypeOK, ShadowTypeOK, Signals
<1>2. CASE rsp_step
  <2>1. PICK s0 \in {sig} \cup UserSignals : rsp_forward_step(s0)
    BY <1>2 DEF rsp_step
  <2> QED
    BY <1>1, <2>1 DEF rsp_forward_step, Forms
<1>3. CASE rsp_backward_bs
  BY <1>1, <1>3 DEF rsp_backward_bs, rsp_backward_step, BeginStep, Forms
<1>4. CASE BackwardStep
  BY <1>1, <1>4 DEF BackwardStep, rsp_backward_step, BeginStep, Forms
<1>5. CASE ContinueRecord
  BY <1>1, <1>5 DEF ContinueRecord, Forms
<1>6. CASE ContinueReplay
  BY <1>1, <1>6 DEF ContinueReplay, Forms
<1>7. CASE rsp_continue \/ rsp_backward_bc \/ rsp_signal
  BY <1>7 DEF rsp_continue, rsp_backward_bc, rsp_signal, Forms
<1>8. CASE PollEmpty \/ PollInterrupt \/ rsp_point
  BY <1>8 DEF PollEmpty, PollInterrupt, rsp_point, Forms
<1>9. CASE rsp_reg_writeone \/ rsp_reg_writeall \/ rsp_mem_write
  BY <1>9 DEF Forms
<1>10. CASE UNCHANGED vars
  BY <1>10 DEF vars, Forms
<1> QED
  BY <1>2, <1>3, <1>4, <1>5, <1>6, <1>7, <1>8, <1>9, <1>10 DEF Next

-----------------------------------------------------------------------------
(* Type correctness *)

CoreTypeOK ==
    /\ shd \in ShadowState /\ trc \in Seq(Retired) /\ cnt \in -1 .. Len(trc) - 1
    /\ dut \in DutState /\ hist \in Seq([dut : DutState, insn : Insn])
    /\ loaded \in Places /\ edited \in Places /\ loaded.mem \subseteq Ram

\* Every step keeps the types of the shadow, the CPU and the history.
LEMMA CoreTyping ==
    ASSUME TypeOK, [Next]_vars
    PROVE  CoreTypeOK'
<1> USE DEF CoreTypeOK
<1>0. CoreTypeOK /\ Len(trc) \in Nat
  BY DEF TypeOK, ShadowTypeOK
<1>1. ASSUME NEW s0 \in Signals, RecordStep(s0) PROVE CoreTypeOK'
  <2>1. PICK i \in Insn :
           /\ cnt = Len(trc) - 1 /\ cnt' = cnt + 1
           /\ trc' = Append(trc, dut_step(dut, i))
           /\ hist' = Append(hist, [dut |-> dut, insn |-> i])
           /\ dut' = Exec(dut, i)
           /\ shd' \in ShadowState /\ UNCHANGED <<loaded, edited>>
    BY <1>1, RecordEffect
  <2>2. dut_step(dut, i) \in Retired /\ Exec(dut, i) \in DutState
    BY <1>0, DutStepType, ExecType
  <2>3. trc' \in Seq(Retired) /\ Len(trc') = Len(trc) + 1
    BY <1>0, <2>1, <2>2
  <2>4. hist' \in Seq([dut : DutState, insn : Insn])
    BY <1>0, <2>1
  <2> QED
    BY <1>0, <2>1, <2>2, <2>3, <2>4
<1>2. ASSUME NEW s0 \in Signals, ReplayStep(s0) PROVE CoreTypeOK'
  BY <1>0, <1>2, ReplayStepEffect
<1>3. ASSUME NEW s0 \in Signals, RevertStep(s0) PROVE CoreTypeOK'
  BY <1>0, <1>3, RevertStepEffect
<1>4. CASE rsp_reg_writeone \/ rsp_reg_writeall
  <2>1. PICK G \in SUBSET GprIdx, b \in BOOLEAN :
           /\ Touch([gpr |-> G, mem |-> {}, pc |-> b])
           /\ shd' \in ShadowState /\ dut' \in DutState
           /\ UNCHANGED <<cnt, trc, hist>>
    BY <1>4, RegWriteEffect
  <2>2. [gpr |-> G, mem |-> {}, pc |-> b] \in Places
    BY DEF Places
  <2>3. loaded' \in Places /\ edited' \in Places /\ loaded'.mem \subseteq Ram
    BY <2>1, <2>2, PlacesType
  <2> QED
    BY <1>0, <2>1, <2>3
<1>5. CASE rsp_mem_write
  <2>1. PICK M \in SUBSET Word :
           /\ Touch([gpr |-> {}, mem |-> M, pc |-> FALSE])
           /\ shd' \in ShadowState /\ dut' \in DutState
           /\ UNCHANGED <<cnt, trc, hist>>
    BY <1>5, MemWritePacketEffect
  <2>2. [gpr |-> {}, mem |-> M, pc |-> FALSE] \in Places
    BY DEF Places
  <2>3. loaded' \in Places /\ edited' \in Places /\ loaded'.mem \subseteq Ram
    BY <2>1, <2>2, PlacesType
  <2> QED
    BY <1>0, <2>1, <2>3
<1>6. CASE UNCHANGED <<shd, cnt, trc, dut, hist, loaded, edited>>
  BY <1>0, <1>6
<1> QED
  BY <1>1, <1>2, <1>3, <1>4, <1>5, <1>6, StepForms DEF Forms

\* A stop reply is one.
LEMMA StopReplyTyping ==
    ASSUME ControlTypeOK', cnt' \in Int
    PROVE  /\ \A idx \in Int : rsp_stop_reply(idx) => reply' \in StopReply
           /\ RunReply => reply' \in StopReply
<1>1. ASSUME NEW idx \in Int, rsp_stop_reply(idx) PROVE reply' \in StopReply
  BY <1>1 DEF rsp_stop_reply, ControlTypeOK, StopReply
<1>2. SignalNumber(sig') \in Int
  BY DEF SignalNumber
<1> QED
  BY <1>1, <1>2 DEF RunReply

\* The loop condition keeps the types of mode and reply.
LEMMA LoopCheckTyping ==
    ASSUME mode \in Modes, reply \in StopReply, ControlTypeOK', cnt' \in Int, LoopCheck
    PROVE  mode' \in Modes /\ reply' \in StopReply
BY StopReplyTyping DEF LoopCheck, Modes

\* Every step keeps the types of signal, reason, points, mode and reply.
LEMMA ControlTyping ==
    ASSUME TypeOK, [Next]_vars, CoreTypeOK'
    PROVE  ControlTypeOK' /\ mode' \in Modes /\ reply' \in StopReply
<1> DEFINE Goal == ControlTypeOK' /\ mode' \in Modes /\ reply' \in StopReply
<1>0. /\ ControlTypeOK /\ mode \in Modes /\ reply \in StopReply /\ cnt' \in Int
      /\ UserSignals \subseteq Signals /\ {"SIGNONE", "SIGINT", "SIGTRAP"} \subseteq Signals
      /\ sig \in Signals
  BY RunAssumption DEF TypeOK, ShadowTypeOK, ControlTypeOK, CoreTypeOK, Signals
<1>r. ASSUME ControlTypeOK', NEW idx \in Int, rsp_stop_reply(idx) PROVE reply' \in StopReply
  BY <1>0, <1>r, StopReplyTyping
<1>2. ASSUME ControlTypeOK', RunReply PROVE reply' \in StopReply
  BY <1>0, <1>2, StopReplyTyping
<1>1. ASSUME ControlTypeOK', LoopCheck PROVE Goal
  BY <1>0, <1>1, LoopCheckTyping
<1>3. ASSUME NEW s0 \in Signals, rsp_forward_step(s0) PROVE ControlTypeOK'
  <2>1. CASE RecordStep(s0)
    BY <1>0, <2>1, RecordEffect DEF ControlTypeOK
  <2>2. CASE ReplayStep(s0)
    BY <1>0, <2>2, ReplayStepEffect DEF ControlTypeOK
  <2> QED
    BY <1>3, <2>1, <2>2 DEF rsp_forward_step
<1>4. ASSUME NEW s0 \in Signals, rsp_backward_step(s0) PROVE ControlTypeOK'
  <2>1. CASE BeginStep
    BY <1>0, <2>1 DEF BeginStep, ControlTypeOK
  <2>2. CASE RevertStep(s0)
    BY <1>0, <2>2, RevertStepEffect DEF ControlTypeOK
  <2> QED
    BY <1>4, <2>1, <2>2 DEF rsp_backward_step
<1>5. CASE rsp_step
  <2>1. PICK s0 \in {sig} \cup UserSignals : rsp_forward_step(s0)
    BY <1>5 DEF rsp_step
  <2>2. ControlTypeOK'
    BY <1>0, <1>3, <2>1
  <2> QED
    BY <1>0, <1>2, <1>5, <2>2 DEF rsp_step
<1>6. CASE rsp_continue
  BY <1>0, <1>6 DEF rsp_continue, ControlTypeOK, Modes
<1>7. CASE ContinueRecord \/ ContinueReplay
  <2>1. rsp_forward_step(sig) /\ mode' = "contpoll" /\ reply' = reply
    BY <1>7 DEF ContinueRecord, ContinueReplay, rsp_forward_step
  <2> QED
    BY <1>0, <1>3, <2>1 DEF Modes
<1>8. CASE rsp_backward_bs
  BY <1>0, <1>2, <1>4, <1>8 DEF rsp_backward_bs
<1>9. CASE rsp_backward_bc
  BY <1>0, <1>9 DEF rsp_backward_bc, ControlTypeOK, Modes
<1>10. CASE BackwardStep
  BY <1>0, <1>4, <1>10 DEF BackwardStep, Modes
<1>11. CASE PollEmpty \/ PollInterrupt
  BY <1>0, <1>1, <1>11 DEF PollEmpty, PollInterrupt, ControlTypeOK
<1>12. CASE rsp_reg_writeone \/ rsp_reg_writeall \/ rsp_mem_write
  <2>1. UNCHANGED <<sig, rsn, bpt, wpt>> /\ LoopCheck
    BY <1>12 DEF rsp_reg_writeone, rsp_reg_writeall, rsp_mem_write
  <2> QED
    BY <1>0, <1>1, <2>1 DEF ControlTypeOK
<1>13. CASE rsp_point
  <2>1. PICK p \in Points : point_insert(p.ptype, p.addr) \/ point_remove(p.ptype, p.addr)
    BY <1>13 DEF rsp_point
  <2>2. p.ptype \in Breaks \cup Watches /\ p.addr \in Word
    BY RunAssumption
  <2>3. /\ bpt' \in [Word -> Breaks \cup {"absent"}]
        /\ wpt' \in [Word -> Watches \cup {"absent"}]
    BY <1>0, <2>1, <2>2 DEF point_insert, point_remove, ControlTypeOK
  <2>4. UNCHANGED <<sig, rsn>> /\ LoopCheck
    BY <1>13 DEF rsp_point
  <2> QED
    BY <1>0, <1>1, <2>3, <2>4 DEF ControlTypeOK
<1>14. CASE rsp_signal
  <2>1. ControlTypeOK'
    BY <1>0, <1>14 DEF rsp_signal, ControlTypeOK
  <2> QED
    BY <1>0, <1>r, <1>14, <2>1 DEF rsp_signal, NoRegister
<1>15. CASE UNCHANGED vars
  BY <1>0, <1>15 DEF vars, ControlTypeOK
<1> QED
  BY <1>5, <1>6, <1>7, <1>8, <1>9, <1>10, <1>11, <1>12, <1>13, <1>14, <1>15 DEF Next

\* The initial states are well typed.
LEMMA InitTyping ==
    ASSUME Init
    PROVE  TypeOK
<1>1. NewShadowState \in ShadowState
  BY SizesAssumption DEF NewShadowState, ShadowState
<1>2. [gpr |-> DutGpr0, pc |-> ResetAdr, mem |-> DutMem0] \in DutState
  BY RunAssumption DEF DutState
<1>3. NoPlaces \in Places /\ NoPlaces.mem \subseteq Ram
  BY DEF NoPlaces, Places
<1>4. ShadowTypeOK
  BY <1>1 DEF Init, ShadowInit, ShadowTypeOK, Signals, Reasons, Breaks, Watches
<1> QED
  BY <1>2, <1>3, <1>4 DEF Init, TypeOK, Modes, StopReply, NoRegister, Signals, Reasons, Breaks, Watches

\* Every step keeps the types.
LEMMA NextTyping ==
    ASSUME TypeOK, [Next]_vars
    PROVE  TypeOK'
<1>1. CoreTypeOK' /\ ControlTypeOK' /\ mode' \in Modes /\ reply' \in StopReply
  BY CoreTyping, ControlTyping
<1> QED
  BY <1>1 DEF TypeOK, ShadowTypeOK, CoreTypeOK, ControlTypeOK

\* Every variable keeps its type; in particular cnt never leaves the trace, in
\* whatever order steps, runs, reversals, interrupts and debugger writes come.
THEOREM TypeCorrect == Spec => []TypeOK
<1>1. Init => TypeOK
  BY InitTyping
<1>2. TypeOK /\ [Next]_vars => TypeOK'
  BY NextTyping
<1> QED
  BY <1>1, <1>2, PTL DEF Spec

-----------------------------------------------------------------------------
(* What a traced instruction does to one register and to one byte *)

Dest(i, r) == i.rd = r /\ r # 0

\* What replaying, reverting and executing an instruction do to one register.
LEMMA OneRegister ==
    ASSUME NEW d \in DutState, NEW i \in Insn, NEW r \in GprIdx,
           NEW g \in [GprIdx -> Word \cup {X}]
    PROVE  /\ NewRegs(g, dut_step(d, i).gpr)[r] = IF Dest(i, r) THEN i.val ELSE g[r]
           /\ OldRegs(g, dut_step(d, i).gpr)[r] = IF Dest(i, r) THEN X ELSE g[r]
           /\ Exec(d, i).gpr[r] = IF Dest(i, r) THEN i.val ELSE d.gpr[r]
<1>1. d.gpr \in [GprIdx -> Word \cup {X}] /\ i.rd \in GprIdx
  BY InsnFields DEF DutState
<1>2. CASE i.rd = 0
  <2>1. dut_step(d, i).gpr = NoWrites /\ DOMAIN NoWrites = {} /\ ~Dest(i, r)
    BY <1>2 DEF dut_step, NoWrites, Dest
  <2> QED
    BY <1>1, <1>2, <2>1 DEF NewRegs, OldRegs, Exec
<1>3. CASE i.rd # 0
  <2>1. dut_step(d, i).gpr = [k \in {i.rd} |-> [rdt |-> X, wdt |-> i.val]]
    BY <1>3 DEF dut_step
  <2>2. Dest(i, r) <=> r \in {i.rd}
    BY <1>3 DEF Dest
  <2>3. Exec(d, i).gpr = [d.gpr EXCEPT ![i.rd] = i.val]
    BY <1>3 DEF Exec
  <2> QED
    BY <1>1, <2>1, <2>2, <2>3 DEF NewRegs, OldRegs
<1> QED
  BY <1>2, <1>3

\* What replaying, reverting and executing an instruction do to one byte of the memory
\* map: an instruction that covers it writes it, and no other changes it.
LEMMA MappedByte ==
    ASSUME NEW s \in ShadowState, NEW d \in DutState, NEW i \in Insn, NEW a \in Mapped
    PROVE  /\ replay(s, dut_step(d, i)).mem[a]
                 = IF Covers(i, a) THEN i.dat[a - i.adr + 1] ELSE s.mem[a]
           /\ ~Covers(i, a) => revert(s, dut_step(d, i)).mem[a] = s.mem[a]
           /\ Exec(d, i).mem[a]
                 = IF Covers(i, a) THEN i.dat[a - i.adr + 1] ELSE d.mem[a]
<1> DEFINE ret == dut_step(d, i)
<1>1. /\ ret \in Retired /\ s.mem \in [Mapped -> Byte] /\ d.mem \in [Word -> Byte]
      /\ a \in Word /\ a \in Nat
  BY DutStepType, SizesAssumption DEF ShadowState, DutState
<1>2. i.adr \in Nat /\ i.dat \in Seq(Byte) /\ Len(i.dat) \in Nat
  <2>1. i.adr \in Word /\ i.dat \in Seq(Byte)
    BY InsnFields
  <2>2. i.adr \in Nat
    BY <2>1, SizesAssumption
  <2>3. Len(i.dat) \in Nat
    BY <2>1
  <2> QED
    BY <2>1, <2>2, <2>3
<1>3. CASE i.op = "store"
  <2>1. ret.lsu = [adr |-> i.adr, rdt |-> [k \in 1 .. Len(i.dat) |-> 0], wdt |-> i.dat]
    BY <1>3 DEF dut_step
  <2>2. Covers(i, a) <=> a - i.adr + 1 \in 1 .. Len(i.dat)
    BY <1>3 DEF Covers
  <2>3. Covers(i, a) => i.adr \in Mapped
    <3>1. Fits(i.adr, Len(i.dat))
      BY <1>3, RunAssumption
    <3>2. Covers(i, a) => a \in i.adr .. i.adr + Len(i.dat) - 1
      BY <1>1, <1>2, <2>2
    <3> QED
      BY <3>1, <3>2 DEF Fits
  <2>4. Len([k \in 1 .. Len(i.dat) |-> 0]) = Len(i.dat)
    BY <1>2
  <2>5. /\ replay(s, ret).mem = IF i.adr \in Mapped THEN Overlay(s.mem, i.adr, i.dat) ELSE s.mem
        /\ revert(s, ret).mem = IF i.adr \in Mapped
                                THEN Overlay(s.mem, i.adr, [k \in 1 .. Len(i.dat) |-> 0]) ELSE s.mem
    <3>1. /\ ret.lsu.adr = i.adr /\ ret.lsu.wdt = i.dat
          /\ ret.lsu.rdt = [k \in 1 .. Len(i.dat) |-> 0]
      BY <2>1
    <3>2. replay(s, ret).mem = IF ret.lsu.adr \in Mapped
                               THEN Overlay(s.mem, ret.lsu.adr, ret.lsu.wdt) ELSE s.mem
      BY <1>1, ReplayEffect
    <3>3. revert(s, ret).mem = IF ret.lsu.adr \in Mapped
                               THEN Overlay(s.mem, ret.lsu.adr, ret.lsu.rdt) ELSE s.mem
      BY <1>1, RevertEffect
    <3> HIDE DEF ret
    <3> QED
      BY <3>1, <3>2, <3>3
  <2>6. Exec(d, i).mem = Overlay(d.mem, i.adr, i.dat)
    BY <1>3 DEF Exec
  <2> QED
    BY <1>1, <2>2, <2>3, <2>4, <2>5, <2>6 DEF Overlay
<1>4. CASE i.op # "store"
  <2>1. ret.lsu = [adr |-> 0, rdt |-> <<>>, wdt |-> <<>>]
    BY <1>4 DEF dut_step
  <2>2. ~Covers(i, a) /\ Exec(d, i).mem = d.mem
    BY <1>4 DEF Covers, Exec
  <2>3. Overlay(s.mem, 0, <<>>)[a] = s.mem[a]
    BY <1>1 DEF Overlay
  <2>4. /\ replay(s, ret).mem = IF 0 \in Mapped THEN Overlay(s.mem, 0, <<>>) ELSE s.mem
        /\ revert(s, ret).mem = IF 0 \in Mapped THEN Overlay(s.mem, 0, <<>>) ELSE s.mem
    <3>1. ret.lsu.adr = 0 /\ ret.lsu.wdt = <<>> /\ ret.lsu.rdt = <<>>
      BY <2>1
    <3>2. replay(s, ret).mem = IF ret.lsu.adr \in Mapped
                               THEN Overlay(s.mem, ret.lsu.adr, ret.lsu.wdt) ELSE s.mem
      BY <1>1, ReplayEffect
    <3>3. revert(s, ret).mem = IF ret.lsu.adr \in Mapped
                               THEN Overlay(s.mem, ret.lsu.adr, ret.lsu.rdt) ELSE s.mem
      BY <1>1, RevertEffect
    <3> HIDE DEF ret
    <3> QED
      BY <3>1, <3>2, <3>3
  <2> QED
    BY <2>2, <2>3, <2>4
<1> QED
  BY <1>3, <1>4

\* The same of the first byte that the dictionary keeps for an I/O register.
LEMMA IoByte ==
    ASSUME NEW s \in ShadowState, NEW d \in DutState, NEW i \in Insn, NEW a \in IoRegs
    PROVE  /\ ByteOf(replay(s, dut_step(d, i)), a)
                 = IF Covers(i, a) THEN i.dat[a - i.adr + 1] ELSE ByteOf(s, a)
           /\ ~Covers(i, a) => ByteOf(revert(s, dut_step(d, i)), a) = ByteOf(s, a)
           /\ Exec(d, i).mem[a]
                 = IF Covers(i, a) THEN i.dat[a - i.adr + 1] ELSE d.mem[a]
<1> DEFINE ret == dut_step(d, i)
<1>1. /\ ret \in Retired /\ s.i_o \in [Word \ Mapped -> Seq(Byte)] /\ d.mem \in [Word -> Byte]
      /\ a \in Word \ Mapped /\ a \in Nat /\ a # 0 /\ (Covers(i, a) => i.adr = a)
  BY DutStepType, SizesAssumption DEF ShadowState, DutState, IoRegs
<1>2. i.adr \in Word /\ i.adr \in Nat /\ i.dat \in Seq(Byte)
  BY InsnFields, SizesAssumption
<1>3. Exec(d, i).mem[a] = IF Covers(i, a) THEN i.dat[a - i.adr + 1] ELSE d.mem[a]
  BY <1>1 DEF Exec, Covers, Overlay
<1>4. /\ replay(s, ret).i_o = IF ret.lsu.adr \in Mapped
                              THEN s.i_o ELSE [s.i_o EXCEPT ![ret.lsu.adr] = ret.lsu.wdt]
      /\ revert(s, ret).i_o = IF ret.lsu.adr \in Mapped
                              THEN s.i_o ELSE [s.i_o EXCEPT ![ret.lsu.adr] = ret.lsu.rdt]
  BY <1>1, ReplayEffect, RevertEffect
<1>5. CASE i.op = "store" /\ i.adr = a
  <2>1. Len(i.dat) \in Nat /\ i.dat # <<>> /\ a - i.adr + 1 = 1 /\ 1 \in 1 .. Len(i.dat)
    <3>1. i.dat # <<>>
      BY <1>5, RunAssumption
    <3> QED
      BY <1>1, <1>2, <1>5, <3>1
  <2>2. Covers(i, a)
    BY <1>5, <2>1 DEF Covers
  <2>3. ret.lsu.adr = a /\ ret.lsu.wdt = i.dat
    BY <1>5 DEF dut_step
  <2> HIDE DEF ret
  <2>4. replay(s, ret).i_o[a] = i.dat
    BY <1>1, <1>4, <2>3
  <2> QED
    BY <1>1, <1>3, <2>1, <2>2, <2>4 DEF ByteOf, ret
<1>6. CASE ~(i.op = "store" /\ i.adr = a)
  <2>1. ~Covers(i, a) /\ ret.lsu.adr # a
    BY <1>1, <1>6 DEF Covers, dut_step
  <2> HIDE DEF ret
  <2>2. replay(s, ret).i_o[a] = s.i_o[a] /\ revert(s, ret).i_o[a] = s.i_o[a]
    BY <1>1, <1>4, <2>1
  <2> QED
    BY <1>1, <1>3, <2>1, <2>2 DEF ByteOf, ret
<1> QED
  BY <1>5, <1>6

\* And so of every byte the shadow can show.
LEMMA OneByte ==
    ASSUME NEW s \in ShadowState, NEW d \in DutState, NEW i \in Insn, NEW a \in Cells
    PROVE  /\ ByteOf(replay(s, dut_step(d, i)), a)
                 = IF Covers(i, a) THEN i.dat[a - i.adr + 1] ELSE ByteOf(s, a)
           /\ ~Covers(i, a) => ByteOf(revert(s, dut_step(d, i)), a) = ByteOf(s, a)
           /\ Exec(d, i).mem[a]
                 = IF Covers(i, a) THEN i.dat[a - i.adr + 1] ELSE d.mem[a]
<1>1. CASE a \in Mapped
  <2>1. \A z : ByteOf(z, a) = z.mem[a]
    BY <1>1 DEF ByteOf
  <2> QED
    BY <1>1, <2>1, MappedByte
<1>2. CASE a \in IoRegs
  BY <1>2, IoByte
<1> QED
  BY <1>1, <1>2 DEF Cells

-----------------------------------------------------------------------------
(* The inductive invariant: initial states *)

\* The initial states satisfy the inductive invariant.
LEMMA InitInv ==
    ASSUME Init
    PROVE  IInv
<1>1. TypeOK
  BY InitTyping
<1>2. /\ shd = NewShadowState /\ cnt = -1 /\ trc = <<>> /\ hist = <<>>
      /\ loaded = NoPlaces /\ edited = NoPlaces
      /\ Len(trc) = 0 /\ Len(hist) = 0
  BY DEF Init, ShadowInit
<1>3. Traced /\ GprChain /\ MemChain /\ PcChain
  BY <1>2 DEF Traced, GprChain, MemChain, PcChain
<1>4. GprTracked
  <2>1. ASSUME NEW r \in GprIdx
        PROVE  (shd.gpr[r] = X \/ r = 0) /\ GprLost(r)
    BY <1>2 DEF NewShadowState, GprLost, NoPlaces
  <2> QED
    BY <2>1 DEF GprTracked
<1>5. MemTracked
  BY <1>2 DEF MemTracked, MemLost, NoPlaces
<1>6. PcTracked
  BY <1>2 DEF PcTracked
<1> QED
  BY <1>1, <1>3, <1>4, <1>5, <1>6 DEF IInv, Core, PcInv

-----------------------------------------------------------------------------
(* The inductive invariant: a step forward, recorded or replayed.  The     *)
(* shown state moves to the one after the instruction at cnt.              *)

\* What a recorded and a replayed step have in common.
MovesForward ==
    /\ cnt' = cnt + 1 /\ Len(trc) <= Len(trc')
    /\ cnt + 1 <= Len(trc') - 1 /\ Len(trc') \in Nat
    /\ shd' = IF cnt # -1 THEN replay(shd, trc[cnt + 1]) ELSE shd
    /\ \A j \in 1 .. Len(trc) : hist'[j] = hist[j]
    /\ Shown' = IF cnt = -1 THEN dut ELSE After(cnt + 1)
    /\ UNCHANGED <<loaded, edited>>

\* A step forwards shows the next state: it applies the instruction at cnt,
\* which thereby leaves the interval that can have lost a value.
LEMMA ForwardTracked ==
    ASSUME Core, MovesForward
    PROVE  GprTracked' /\ MemTracked' /\ (PcInv => PcTracked')
<1>0. /\ shd \in ShadowState /\ trc \in Seq(Retired) /\ cnt \in -1 .. Len(trc) - 1
      /\ dut \in DutState /\ hist \in Seq([dut : DutState, insn : Insn])
      /\ Len(trc) \in Nat /\ Len(hist) = Len(trc) /\ cnt \in Int
      /\ shd.gpr \in [GprIdx -> Word \cup {X}]
  BY DEF Core, TypeOK, ShadowTypeOK, Traced, ShadowState
<1>a. cnt' = cnt + 1 /\ loaded' = loaded /\ edited' = edited
  BY DEF MovesForward
<1>1. CASE cnt = -1
  <2>1. /\ shd' = shd /\ Shown' = Shown /\ cnt' = 0 /\ Len(trc) = 0 /\ Len(trc') \in Nat
    BY <1>1, <1>0 DEF MovesForward, Shown, Core, Traced
  <2>2. ASSUME NEW r \in GprIdx PROVE GprLost(r) => GprLost(r)'
    BY <1>1, <1>0, <1>a, <2>1, <2>2 DEF GprLost
  <2>3. ASSUME NEW a \in Cells PROVE MemLost(a) => MemLost(a)'
    BY <1>1, <1>0, <1>a, <2>1, <2>3 DEF MemLost
  <2>4. GprTracked /\ MemTracked
    BY DEF Core
  <2>5. GprTracked'
    BY <1>a, <2>1, <2>2, <2>4 DEF GprTracked
  <2>6. MemTracked'
    BY <1>a, <2>1, <2>3, <2>4 DEF MemTracked
  <2> QED
    BY <2>1, <2>5, <2>6 DEF PcTracked
<1>2. CASE cnt # -1
  <2> DEFINE d == hist[cnt + 1].dut
             i == hist[cnt + 1].insn
  <2>1. cnt + 1 \in 1 .. Len(hist) /\ cnt + 1 \in 1 .. Len(trc) /\ cnt >= 0
    BY <1>0, <1>2
  <2>2. hist[cnt + 1] \in [dut : DutState, insn : Insn]
    BY <1>0, <2>1, Element
  <2>3. d \in DutState /\ i \in Insn
    BY <2>2
  <2>4. trc[cnt + 1] = dut_step(d, i) /\ trc[cnt + 1] \in Retired
    BY <2>1, <1>0 DEF Core, Traced
  <2>5. /\ shd' = replay(shd, dut_step(d, i)) /\ Shown = d /\ Shown' = After(cnt + 1)
    BY <1>2, <2>4 DEF MovesForward, Shown
  <2>6. /\ shd'.gpr = NewRegs(shd.gpr, dut_step(d, i).gpr) /\ shd'.pc = dut_step(d, i).ifu.pcn
    <3>1. dut_step(d, i) \in Retired
      BY <2>4
    <3> HIDE DEF d, i
    <3> QED
      BY <1>0, <2>5, <3>1, ReplayEffect
  <2>7. dut_step(d, i).ifu.pcn = i.pcn
    BY DEF dut_step
  <2>8. /\ hist'[cnt + 1] = hist[cnt + 1]
        /\ \A j \in 1 .. Len(trc) : hist'[j] = hist[j]
        /\ Len(trc) <= Len(trc') /\ Len(trc') \in Nat
    BY <2>1 DEF MovesForward
  <2>9. hist[cnt + 1].insn = i
    OBVIOUS
  <2> HIDE DEF d, i
  <2>10. ASSUME NEW r \in GprIdx \ edited.gpr
         PROVE  shd'.gpr[r] = Shown'.gpr[r] \/ ((shd'.gpr[r] = X \/ r = 0) /\ GprLost(r)')
    <3>1. Shown'.gpr[r] = IF Dest(i, r) THEN i.val ELSE d.gpr[r]
      <4>1. After(cnt + 1).gpr[r] = Exec(d, i).gpr[r]
        BY <2>1 DEF Core, GprChain, d, i
      <4> QED
        BY <1>0, <2>3, <2>5, <4>1, OneRegister
    <3>2. shd'.gpr[r] = IF Dest(i, r) THEN i.val ELSE shd.gpr[r]
      BY <1>0, <2>3, <2>6, OneRegister
    <3>3. CASE Dest(i, r)
      BY <3>1, <3>2, <3>3
    <3>4. CASE ~Dest(i, r)
      <4>1. shd.gpr[r] = d.gpr[r] \/ ((shd.gpr[r] = X \/ r = 0) /\ GprLost(r))
        BY <2>5 DEF Core, GprTracked
      <4>2. ~WritesReg(cnt + 1, r)
        BY <2>9, <3>4 DEF WritesReg, Dest
      <4>3. GprLost(r) => GprLost(r)'
        <5>1. CASE r \notin loaded.gpr /\ \A j \in 1 .. cnt : ~WritesReg(j, r)
          <6>1. \A j \in 1 .. cnt + 1 : ~WritesReg(j, r)
            BY <1>0, <4>2, <5>1
          <6>2. \A j \in 1 .. cnt + 1 : ~WritesReg(j, r)'
            BY <1>0, <2>1, <2>8, <6>1 DEF WritesReg
          <6> QED
            BY <1>a, <5>1, <6>2 DEF GprLost
        <5>2. ASSUME NEW j \in cnt + 1 .. Len(trc) - 1, WritesReg(j, r) PROVE GprLost(r)'
          <6>1. j # cnt + 1
            BY <4>2, <5>2
          <6>2. j \in (cnt + 1) + 1 .. Len(trc') - 1 /\ j \in 1 .. Len(trc)
            BY <1>0, <2>1, <2>8, <6>1
          <6>3. WritesReg(j, r)'
            BY <2>8, <5>2, <6>2 DEF WritesReg
          <6> QED
            BY <1>a, <6>2, <6>3 DEF GprLost
        <5> QED
          BY <5>1, <5>2 DEF GprLost
      <4> QED
        BY <3>1, <3>2, <3>4, <4>1, <4>3
    <3> QED
      BY <3>3, <3>4
  <2>11. ASSUME NEW a \in Cells \ edited.mem
         PROVE  ByteOf(shd', a) = Shown'.mem[a] \/ MemLost(a)'
    <3>1. Shown'.mem[a] = IF Covers(i, a) THEN i.dat[a - i.adr + 1] ELSE d.mem[a]
      <4>1. After(cnt + 1).mem[a] = Exec(d, i).mem[a]
        BY <2>1 DEF Core, MemChain, d, i
      <4> QED
        BY <1>0, <2>3, <2>5, <4>1, OneByte
    <3>2. ByteOf(shd', a) = IF Covers(i, a) THEN i.dat[a - i.adr + 1] ELSE ByteOf(shd, a)
      BY <1>0, <2>3, <2>5, OneByte
    <3>3. CASE Covers(i, a)
      BY <3>1, <3>2, <3>3
    <3>4. CASE ~Covers(i, a)
      <4>1. ByteOf(shd, a) = d.mem[a] \/ MemLost(a)
        BY <2>5 DEF Core, MemTracked
      <4>2. ~StoresTo(cnt + 1, a)
        BY <2>9, <3>4 DEF StoresTo
      <4>3. MemLost(a) => MemLost(a)'
        <5>1. CASE a \notin loaded.mem /\ \A j \in 1 .. cnt : ~StoresTo(j, a)
          <6>1. \A j \in 1 .. cnt + 1 : ~StoresTo(j, a)
            BY <1>0, <4>2, <5>1
          <6>2. \A j \in 1 .. cnt + 1 : ~StoresTo(j, a)'
            BY <1>0, <2>1, <2>8, <6>1 DEF StoresTo, Covers
          <6> QED
            BY <1>a, <5>1, <6>2 DEF MemLost
        <5>2. ASSUME NEW j \in cnt + 1 .. Len(trc) - 1, StoresTo(j, a) PROVE MemLost(a)'
          <6>1. j # cnt + 1
            BY <4>2, <5>2
          <6>2. j \in (cnt + 1) + 1 .. Len(trc') - 1 /\ j \in 1 .. Len(trc)
            BY <1>0, <2>1, <2>8, <6>1
          <6>3. StoresTo(j, a)'
            BY <2>8, <5>2, <6>2 DEF StoresTo, Covers
          <6> QED
            BY <1>a, <6>2, <6>3 DEF MemLost
        <5> QED
          BY <5>1, <5>2 DEF MemLost
      <4> QED
        BY <3>1, <3>2, <3>4, <4>1, <4>3
    <3> QED
      BY <3>3, <3>4
  <2>12. PcInv => PcTracked'
    <3>1. PcInv /\ ~edited.pc => After(cnt + 1).pc = i.pcn
      BY <2>1 DEF PcInv, PcChain, i
    <3>2. Shown' = hist'[cnt' + 1].dut
      BY <1>a, <2>1 DEF Shown
    <3> QED
      BY <1>a, <2>5, <2>6, <2>7, <3>1, <3>2 DEF PcTracked
  <2> QED
    BY <1>a, <2>10, <2>11, <2>12 DEF GprTracked, MemTracked
<1> QED
  BY <1>1, <1>2

-----------------------------------------------------------------------------
(* The inductive invariant: a step backward *)

\* A step backwards shows the state before: what the undone instruction wrote
\* is lost, and that instruction joins the interval that can have lost a value.
LEMMA BackwardTracked ==
    ASSUME Core, cnt > 0, cnt' = cnt - 1, shd' = revert(shd, trc[cnt]),
           UNCHANGED <<trc, dut, hist, loaded, edited>>
    PROVE  GprTracked' /\ MemTracked' /\ PcTracked'
<1>0. /\ shd \in ShadowState /\ trc \in Seq(Retired) /\ cnt \in -1 .. Len(trc) - 1
      /\ hist \in Seq([dut : DutState, insn : Insn])
      /\ Len(trc) \in Nat /\ Len(hist) = Len(trc) /\ cnt \in Int
      /\ shd.gpr \in [GprIdx -> Word \cup {X}]
  BY DEF Core, TypeOK, ShadowTypeOK, Traced, ShadowState
<1> DEFINE d == hist[cnt].dut
           i == hist[cnt].insn
<1>1. cnt \in 1 .. Len(hist) /\ cnt \in 1 .. Len(trc) /\ cnt # Len(hist) /\ cnt \in cnt .. Len(trc) - 1
  BY <1>0
<1>2. hist[cnt] \in [dut : DutState, insn : Insn]
  BY <1>0, <1>1, Element
<1>3. d \in DutState /\ i \in Insn
  BY <1>2
<1>4. trc[cnt] = dut_step(d, i) /\ trc[cnt] \in Retired
  BY <1>0, <1>1, Element DEF Core, Traced
<1>5. Shown' = d /\ Shown = After(cnt)
  <2>1. cnt' # -1 /\ cnt' + 1 = cnt /\ cnt # -1
    BY <1>0
  <2> QED
    BY <1>1, <2>1 DEF Shown, After
<1>6. /\ shd'.gpr = OldRegs(shd.gpr, dut_step(d, i).gpr) /\ shd'.pc = dut_step(d, i).ifu.adr
      /\ shd' = revert(shd, dut_step(d, i))
  BY <1>0, <1>4, RevertEffect
<1>7. dut_step(d, i).ifu.adr = d.pc
  BY DEF dut_step
<1>8. hist[cnt].insn = i /\ hist[cnt].dut = d
  OBVIOUS
<1> HIDE DEF d, i
<1>9. ASSUME NEW r \in GprIdx \ edited.gpr
      PROVE  shd'.gpr[r] = Shown'.gpr[r] \/ ((shd'.gpr[r] = X \/ r = 0) /\ GprLost(r)')
  <2>1. Shown.gpr[r] = IF Dest(i, r) THEN i.val ELSE d.gpr[r]
    <3>1. After(cnt).gpr[r] = Exec(d, i).gpr[r]
      BY <1>1 DEF Core, GprChain, d, i
    <3> QED
      BY <1>0, <1>3, <1>5, <3>1, OneRegister
  <2>2. shd'.gpr[r] = IF Dest(i, r) THEN X ELSE shd.gpr[r]
    BY <1>0, <1>3, <1>6, OneRegister
  <2>3. CASE Dest(i, r)
    <3>1. WritesReg(cnt, r)
      BY <1>8, <2>3 DEF WritesReg, Dest
    <3>2. GprLost(r)'
      BY <1>0, <1>1, <3>1 DEF GprLost, WritesReg
    <3> QED
      BY <2>2, <2>3, <3>2
  <2>4. CASE ~Dest(i, r)
    <3>1. shd.gpr[r] = d.gpr[r] \/ ((shd.gpr[r] = X \/ r = 0) /\ GprLost(r))
      BY <2>1, <2>4 DEF Core, GprTracked
    <3>2. GprLost(r) => GprLost(r)'
      BY <1>0 DEF GprLost, WritesReg
    <3> QED
      BY <1>5, <2>2, <2>4, <3>1, <3>2
  <2> QED
    BY <2>3, <2>4
<1>10. ASSUME NEW a \in Cells \ edited.mem
       PROVE  ByteOf(shd', a) = Shown'.mem[a] \/ MemLost(a)'
  <2>1. CASE Covers(i, a)
    <3>1. StoresTo(cnt, a)
      BY <1>8, <2>1 DEF StoresTo
    <3> QED
      BY <1>0, <1>1, <3>1 DEF MemLost, StoresTo
  <2>2. CASE ~Covers(i, a)
    <3>1. Shown.mem[a] = d.mem[a]
      <4>1. After(cnt).mem[a] = Exec(d, i).mem[a]
        BY <1>1 DEF Core, MemChain, d, i
      <4> QED
        BY <1>0, <1>3, <1>5, <2>2, <4>1, OneByte
    <3>2. ByteOf(shd', a) = ByteOf(shd, a)
      BY <1>0, <1>3, <1>6, <2>2, OneByte
    <3>3. ByteOf(shd, a) = d.mem[a] \/ MemLost(a)
      BY <3>1 DEF Core, MemTracked
    <3>4. MemLost(a) => MemLost(a)'
      BY <1>0 DEF MemLost, StoresTo, Covers
    <3> QED
      BY <1>5, <3>2, <3>3, <3>4
  <2> QED
    BY <2>1, <2>2
<1>11. PcTracked'
  <2>1. Shown' = hist'[cnt' + 1].dut
    BY <1>0 DEF Shown
  <2> QED
    BY <1>5, <1>6, <1>7, <2>1 DEF PcTracked
<1> QED
  BY <1>9, <1>10, <1>11 DEF GprTracked, MemTracked

-----------------------------------------------------------------------------
(* The inductive invariant: writes of the debugger *)

\* A write before the first instruction goes to the state that is shown; a
\* later one is set apart in edited.
LEMMA AccessInv ==
    ASSUME Core, TypeOK',
           NEW G \in SUBSET GprIdx, NEW M \in SUBSET Word, NEW b \in BOOLEAN,
           Touch([gpr |-> G, mem |-> M, pc |-> b]),
           \A r \in GprIdx : IF r \in G THEN shd'.gpr[r] = dut'.gpr[r]
                             ELSE shd'.gpr[r] = shd.gpr[r] /\ dut'.gpr[r] = dut.gpr[r],
           \A a \in Cells : MemAccess(M, a),
           ~b => shd'.pc = shd.pc /\ dut'.pc = dut.pc,
           UNCHANGED <<cnt, trc, hist>>
    PROVE  Core' /\ (PcInv => PcInv')
<1> DEFINE p == [gpr |-> G, mem |-> M, pc |-> b]
<1>0. /\ TypeOK /\ trc \in Seq(Retired) /\ cnt \in -1 .. Len(trc) - 1
      /\ Len(trc) \in Nat /\ Len(hist) = Len(trc) /\ cnt \in Int
      /\ loaded \in Places /\ edited \in Places
  BY DEF Core, TypeOK, ShadowTypeOK, Traced
<1>1. p \in Places /\ Touch(p)
  BY DEF Places
<1>2. Traced'
  BY DEF Core, Traced
<1>3. CASE trc = <<>>
  <2>1. cnt = -1 /\ Len(hist) = 0 /\ Len(trc) = 0
    BY <1>0, <1>3
  <2>2. edited' = edited
    BY <1>0, <1>1, <1>3, PlacesType
  <2>3. /\ loaded'.gpr = loaded.gpr \cup G /\ loaded'.mem = loaded.mem \cup (M \cap Ram)
        /\ loaded.mem \subseteq Ram
    BY <1>0, <1>1, <1>3, PlacesType DEF TypeOK
  <2>4. GprChain' /\ MemChain' /\ PcChain' /\ PcTracked'
    BY <2>1 DEF GprChain, MemChain, PcChain, PcTracked
  <2>5. Shown = dut /\ Shown' = dut'
    BY <2>1 DEF Shown
  <2>6. GprTracked'
    <3>1. ASSUME NEW r \in GprIdx \ edited.gpr, r \notin G, GprLost(r) PROVE GprLost(r)'
      BY <2>1, <2>3, <3>1 DEF GprLost
    <3> QED
      BY <2>2, <2>5, <3>1 DEF GprTracked, Core
  <2>7. MemTracked'
    <3>1. ASSUME NEW a \in Cells \ edited.mem, a \notin M, MemLost(a) PROVE MemLost(a)'
      BY <2>1, <2>3, <3>1 DEF MemLost
    <3>2. ASSUME NEW a \in Cells \ edited.mem, a \notin Ram PROVE MemLost(a)'
      BY <2>1, <2>3, <3>2 DEF MemLost
    <3> QED
      BY <2>2, <2>5, <3>1, <3>2 DEF MemTracked, Core, MemAccess
  <2> QED
    BY <1>2, <2>4, <2>6, <2>7 DEF Core, PcInv
<1>4. CASE trc # <<>>
  <2>1. cnt # -1 /\ Len(trc) # 0
    BY <1>0, <1>4 DEF Core, Traced
  <2>2. edited' = Add(edited, p) /\ loaded' = loaded
    BY <1>0, <1>1, <1>4, PlacesType
  <2>3. /\ edited'.gpr = edited.gpr \cup G /\ edited'.mem = edited.mem \cup M
        /\ edited'.pc = (edited.pc \/ b)
    BY <2>2 DEF Add
  <2>4. Shown' = Shown
    BY <2>1 DEF Shown
  <2>5. /\ \A r \in GprIdx : GprLost(r)' <=> GprLost(r)
        /\ \A a \in Cells : MemLost(a)' <=> MemLost(a)
    BY <2>2 DEF GprLost, MemLost, WritesReg, StoresTo, Covers
  <2>6. GprTracked' /\ MemTracked'
    BY <2>3, <2>4, <2>5 DEF GprTracked, MemTracked, Core, MemAccess
  <2>7. PcInv => PcTracked'
    BY <2>3 DEF PcTracked, PcInv
  <2>8. GprChain'
    <3>1. ASSUME NEW r \in GprIdx \ edited'.gpr, NEW j \in 1 .. Len(hist)
          PROVE  After(j)'.gpr[r] = Exec(hist[j].dut, hist[j].insn).gpr[r]
      <4>1. After(j).gpr[r] = Exec(hist[j].dut, hist[j].insn).gpr[r]
        BY <2>3 DEF Core, GprChain
      <4>2. After(j)'.gpr[r] = After(j).gpr[r]
        BY <2>3 DEF After
      <4> QED
        BY <4>1, <4>2
    <3> QED
      BY <3>1 DEF GprChain, Exec
  <2>9. MemChain'
    <3>1. ASSUME NEW a \in Cells \ edited'.mem, NEW j \in 1 .. Len(hist)
          PROVE  After(j)'.mem[a] = Exec(hist[j].dut, hist[j].insn).mem[a]
      <4>1. After(j).mem[a] = Exec(hist[j].dut, hist[j].insn).mem[a]
        BY <2>3 DEF Core, MemChain
      <4>2. After(j)'.mem[a] = After(j).mem[a]
        BY <2>3 DEF After, MemAccess
      <4> QED
        BY <4>1, <4>2
    <3> QED
      BY <3>1 DEF MemChain, Exec
  <2>10. PcInv => PcChain'
    BY <2>3 DEF PcChain, After, PcInv
  <2> QED
    BY <1>2, <2>6, <2>7, <2>8, <2>9, <2>10 DEF Core, PcInv
<1> QED
  BY <1>3, <1>4

-----------------------------------------------------------------------------
(* The inductive invariant: every step *)

\* The invariant is kept by the recording of an instruction,
LEMMA RecordInv ==
    ASSUME Core, TypeOK', NEW s0 \in Signals, RecordStep(s0)
    PROVE  Core' /\ (PcInv => PcInv')
<1>0. /\ TypeOK /\ trc \in Seq(Retired) /\ dut \in DutState
      /\ hist \in Seq([dut : DutState, insn : Insn])
      /\ Len(trc) \in Nat /\ Len(hist) = Len(trc)
  BY DEF Core, TypeOK, ShadowTypeOK, Traced
<1>1. PICK i \in Insn :
         /\ cnt = Len(trc) - 1 /\ cnt' = cnt + 1
         /\ trc' = Append(trc, dut_step(dut, i))
         /\ hist' = Append(hist, [dut |-> dut, insn |-> i])
         /\ dut' = Exec(dut, i)
         /\ shd' = IF cnt # -1 THEN replay(shd, trc[cnt + 1]) ELSE shd
         /\ UNCHANGED <<loaded, edited>>
  BY <1>0, RecordEffect
<1>n. PICK n \in Nat : n = Len(trc)
  BY <1>0
<1>2. /\ Len(trc') = n + 1 /\ trc'[n + 1] = dut_step(dut, i)
      /\ \A j \in 1 .. n : trc'[j] = trc[j]
  BY <1>0, <1>n, <1>1, DutStepType
<1>3. /\ Len(hist') = n + 1 /\ hist'[n + 1] = [dut |-> dut, insn |-> i]
      /\ \A j \in 1 .. n : hist'[j] = hist[j]
  BY <1>0, <1>n, <1>1
<1>4. \A j \in 1 .. n : After(j)' = After(j)
  <2>1. ASSUME NEW j \in 1 .. n PROVE After(j)' = After(j)
    <3>1. After(j)' = hist'[j + 1].dut
      BY <1>0, <1>n, <1>3 DEF After
    <3>2. CASE j = n
      BY <1>0, <1>n, <1>3, <3>1, <3>2 DEF After
    <3>3. CASE j # n
      BY <1>0, <1>n, <1>3, <3>1, <3>3 DEF After
    <3> QED
      BY <3>2, <3>3
  <2> QED
    BY <2>1
<1>5. After(n + 1)' = dut'
  BY <1>0, <1>n, <1>3 DEF After
<1>6. Traced'
  <2>1. ASSUME NEW j \in 1 .. n + 1
        PROVE  trc'[j] = dut_step(hist'[j].dut, hist'[j].insn)
    <3>1. CASE j = n + 1
      BY <1>2, <1>3, <3>1
    <3>2. CASE j # n + 1
      <4>1. j \in 1 .. n
        BY <1>0, <1>n, <3>2
      <4>2. trc[j] = dut_step(hist[j].dut, hist[j].insn)
        BY <1>n, <4>1 DEF Core, Traced
      <4> QED
        BY <1>2, <1>3, <4>1, <4>2
    <3> QED
      BY <3>1, <3>2
  <2>2. cnt' # -1
    BY <1>0, <1>n, <1>1
  <2> QED
    BY <1>2, <1>3, <2>1, <2>2 DEF Traced, dut_step
<1>7. ASSUME NEW j \in 1 .. n + 1
      PROVE  \/ j \in 1 .. n /\ After(j)' = After(j) /\ hist'[j] = hist[j]
             \/ j = n + 1 /\ After(j)' = Exec(dut, i)
                /\ hist'[j].dut = dut /\ hist'[j].insn = i
  BY <1>0, <1>n, <1>1, <1>3, <1>4, <1>5
<1>8. GprChain'
  <2>1. ASSUME NEW r \in GprIdx \ edited.gpr, NEW j \in 1 .. n + 1
        PROVE  After(j)'.gpr[r] = Exec(hist'[j].dut, hist'[j].insn).gpr[r]
    BY <1>0, <1>n, <1>7 DEF Core, GprChain
  <2> QED
    BY <1>1, <1>3, <2>1 DEF GprChain, Exec
<1>9. MemChain'
  <2>1. ASSUME NEW a \in Cells \ edited.mem, NEW j \in 1 .. n + 1
        PROVE  After(j)'.mem[a] = Exec(hist'[j].dut, hist'[j].insn).mem[a]
    BY <1>0, <1>n, <1>7 DEF Core, MemChain
  <2> QED
    BY <1>1, <1>3, <2>1 DEF MemChain, Exec
<1>10. PcInv => PcChain'
  <2>1. ASSUME PcInv, ~edited.pc, NEW j \in 1 .. n + 1
        PROVE  After(j)'.pc = hist'[j].insn.pcn
    <3>1. Exec(dut, i).pc = i.pcn
      BY DEF Exec
    <3> QED
      BY <1>0, <1>n, <1>7, <2>1, <3>1 DEF PcInv, PcChain
  <2> QED
    BY <1>1, <1>3, <2>1 DEF PcChain
<1>11. MovesForward
  <2>1. Shown' = dut
    BY <1>0, <1>n, <1>1, <1>3 DEF Shown
  <2>2. cnt # -1 => After(cnt + 1) = dut
    BY <1>0, <1>n, <1>1 DEF After
  <2> QED
    BY <1>0, <1>n, <1>1, <1>2, <1>3, <2>1, <2>2 DEF MovesForward
<1>12. GprTracked' /\ MemTracked' /\ (PcInv => PcTracked')
  BY <1>11, ForwardTracked
<1> QED
  BY <1>6, <1>8, <1>9, <1>10, <1>12 DEF Core, PcInv

\* The chains depend on the recorded history and the CPU only.
LEMMA SameHistory ==
    ASSUME Core, UNCHANGED <<trc, dut, hist, edited>>, cnt' # -1 \/ cnt' = cnt
    PROVE  Traced' /\ GprChain' /\ MemChain' /\ (PcChain => PcChain')
<1>1. Traced'
  <2>1. Traced /\ trc' = trc /\ hist' = hist
    BY DEF Core
  <2>2. \A j \in 1 .. Len(trc') : trc'[j] = dut_step(hist'[j].dut, hist'[j].insn)
    BY <2>1 DEF Traced
  <2>3. Len(hist') = Len(trc') /\ (cnt' = -1 => Len(trc') = 0)
    BY <2>1 DEF Traced
  <2> QED
    BY <2>2, <2>3 DEF Traced, dut_step
<1>2. GprChain' /\ MemChain' /\ (PcChain => PcChain')
  BY DEF Core, GprChain, MemChain, PcChain, After, Exec
<1> QED
  BY <1>1, <1>2

\* by a replayed instruction,
LEMMA ReplayInv ==
    ASSUME Core, TypeOK', NEW s0 \in Signals, ReplayStep(s0)
    PROVE  Core' /\ (PcInv => PcInv')
<1>0. /\ TypeOK /\ cnt \in -1 .. Len(trc) - 1 /\ Len(trc) \in Nat /\ Len(hist) = Len(trc)
      /\ trc \in Seq(Retired)
  BY DEF Core, TypeOK, ShadowTypeOK, Traced
<1>1. /\ cnt < Len(trc) - 1 /\ cnt' = cnt + 1
      /\ shd' = IF cnt # -1 THEN replay(shd, trc[cnt + 1]) ELSE shd
      /\ UNCHANGED <<trc, dut, hist, loaded, edited>>
  BY <1>0, ReplayStepEffect
<1>2. cnt # -1
  BY <1>0, <1>1 DEF Core, Traced
<1>3. MovesForward
  <2>1. Shown' = hist[cnt + 1 + 1].dut /\ After(cnt + 1) = hist[cnt + 1 + 1].dut
    BY <1>0, <1>1, <1>2 DEF Shown, After
  <2> QED
    BY <1>0, <1>1, <1>2, <2>1 DEF MovesForward
<1>4. Traced' /\ GprChain' /\ MemChain' /\ (PcChain => PcChain')
  BY <1>0, <1>1, SameHistory
<1> QED
  BY <1>3, <1>4, ForwardTracked DEF Core, PcInv

\* by an undone instruction,
LEMMA RevertInv ==
    ASSUME Core, TypeOK', NEW s0 \in Signals, RevertStep(s0)
    PROVE  Core' /\ (PcInv => PcInv')
<1>0. TypeOK /\ cnt \in Int
  BY DEF Core, TypeOK, ShadowTypeOK
<1>1. /\ cnt > 0 /\ cnt' = cnt - 1 /\ shd' = revert(shd, trc[cnt])
      /\ UNCHANGED <<trc, dut, hist, loaded, edited>>
  BY <1>0, RevertStepEffect
<1>2. GprTracked' /\ MemTracked' /\ PcTracked'
  BY <1>1, BackwardTracked
<1>3. Traced' /\ GprChain' /\ MemChain' /\ (PcChain => PcChain')
  BY <1>0, <1>1, SameHistory
<1> QED
  BY <1>2, <1>3 DEF Core, PcInv

\* and by every step.
LEMMA NextInv ==
    ASSUME Core, [Next]_vars
    PROVE  Core' /\ (PcInv => PcInv')
<1> DEFINE Kept == Core' /\ (PcInv => PcInv')
<1>0. TypeOK /\ TypeOK'
  BY NextTyping DEF Core
<1>1. ASSUME NEW s0 \in Signals, RecordStep(s0) PROVE Kept
  BY <1>0, <1>1, RecordInv
<1>2. ASSUME NEW s0 \in Signals, ReplayStep(s0) PROVE Kept
  BY <1>0, <1>2, ReplayInv
<1>3. ASSUME NEW s0 \in Signals, RevertStep(s0) PROVE Kept
  BY <1>0, <1>3, RevertInv
<1>4. CASE rsp_reg_writeone \/ rsp_reg_writeall
  <2>1. PICK G \in SUBSET GprIdx, b \in BOOLEAN :
           /\ Touch([gpr |-> G, mem |-> {}, pc |-> b])
           /\ \A r \in GprIdx : IF r \in G THEN shd'.gpr[r] = dut'.gpr[r]
                                ELSE shd'.gpr[r] = shd.gpr[r] /\ dut'.gpr[r] = dut.gpr[r]
           /\ shd'.mem = shd.mem /\ shd'.i_o = shd.i_o /\ dut'.mem = dut.mem
           /\ ~b => shd'.pc = shd.pc /\ dut'.pc = dut.pc
           /\ UNCHANGED <<cnt, trc, hist>>
    BY <1>0, <1>4, RegWriteEffect
  <2>2. \A a \in Cells : MemAccess({}, a)
    BY <2>1 DEF ByteOf, MemAccess
  <2>3. {} \in SUBSET Word
    OBVIOUS
  <2> QED
    BY <1>0, <2>1, <2>2, <2>3, AccessInv
<1>5. CASE rsp_mem_write
  <2>1. PICK M \in SUBSET Word :
           /\ Touch([gpr |-> {}, mem |-> M, pc |-> FALSE])
           /\ \A a \in Cells : MemAccess(M, a)
           /\ shd'.gpr = shd.gpr /\ dut'.gpr = dut.gpr
           /\ shd'.pc = shd.pc /\ dut'.pc = dut.pc
           /\ UNCHANGED <<cnt, trc, hist>>
    BY <1>0, <1>5, MemWritePacketEffect
  <2>2. \A r \in GprIdx : IF r \in {} THEN shd'.gpr[r] = dut'.gpr[r]
                          ELSE shd'.gpr[r] = shd.gpr[r] /\ dut'.gpr[r] = dut.gpr[r]
    BY <2>1
  <2>3. {} \in SUBSET GprIdx /\ FALSE \in BOOLEAN
    OBVIOUS
  <2> QED
    BY <1>0, <2>1, <2>2, <2>3, AccessInv
<1>6. CASE UNCHANGED <<shd, cnt, trc, dut, hist, loaded, edited>>
  <2>1. Traced' /\ GprChain' /\ MemChain' /\ (PcChain => PcChain')
    BY <1>6, SameHistory
  <2>2. GprTracked' /\ MemTracked' /\ (PcTracked => PcTracked')
    BY <1>6 DEF Core, GprTracked, MemTracked, PcTracked, GprLost, MemLost,
                Shown, WritesReg, StoresTo, Covers
  <2> QED
    BY <1>0, <2>1, <2>2 DEF Core, PcInv
<1> QED
  BY <1>0, <1>1, <1>2, <1>3, <1>4, <1>5, <1>6, StepForms DEF Forms

-----------------------------------------------------------------------------
(* Theorems *)

\* The inductive invariant holds in every behaviour.
THEOREM InductiveInvariant == Spec => []IInv
<1>1. Init => IInv
  BY InitInv
<1>2. IInv /\ [Next]_vars => IInv'
  BY NextInv DEF IInv
<1> QED
  BY <1>1, <1>2, PTL DEF Spec

\* What the part about registers and memory says of the shadow.
LEMMA CoreExact == Core => EdgeExact /\ GprNeverWrong
<1>1. Core => EdgeExact
  <2> SUFFICES ASSUME Core, cnt = Len(trc) - 1 PROVE EdgeExact
    BY DEF EdgeExact
  <2>1. cnt + 1 .. Len(trc) - 1 = {}
    BY DEF Core, TypeOK, ShadowTypeOK
  <2>2. ASSUME NEW r \in GprIdx \ edited.gpr,
               r \in loaded.gpr \/ \E j \in 1 .. cnt : WritesReg(j, r)
        PROVE  shd.gpr[r] = Shown.gpr[r]
    BY <2>1, <2>2 DEF Core, GprTracked, GprLost
  <2>3. ASSUME NEW a \in Mapped \ edited.mem,
               a \in loaded.mem \/ \E j \in 1 .. cnt : StoresTo(j, a)
        PROVE  shd.mem[a] = Shown.mem[a]
    <3>1. a \in Cells \ edited.mem /\ ByteOf(shd, a) = shd.mem[a]
      BY DEF Cells, ByteOf
    <3> QED
      BY <2>1, <2>3, <3>1 DEF Core, MemTracked, MemLost
  <2> QED
    BY <2>2, <2>3 DEF EdgeExact
<1>2. Core => GprNeverWrong
  BY DEF Core, GprTracked, GprNeverWrong
<1> QED
  BY <1>1, <1>2

\* The shadow is exact at the end of the trace: replaying forwards after any
\* reversal restores every value that revert lost.
THEOREM EdgeExactness == Spec => []EdgeExact
<1>1. IInv => EdgeExact
  BY CoreExact DEF IInv
<1> QED
  BY <1>1, InductiveInvariant, PTL

\* A register is shown with the CPU's value or as unknown, never wrong.
THEOREM RegistersNeverWrong == Spec => []GprNeverWrong
<1>1. IInv => GprNeverWrong
  BY CoreExact DEF IInv
<1> QED
  BY <1>1, InductiveInvariant, PTL

\* The PC shown is the address of the instruction at cnt.
THEOREM PcExactness == Spec => []PcAtInstruction
<1>1. IInv => PcAtInstruction
  <2> SUFFICES ASSUME IInv, cnt > 0, ~edited.pc
               PROVE  shd.pc = trc[cnt + 1].ifu.adr
    BY DEF PcAtInstruction
  <2>1. cnt + 1 \in 1 .. Len(trc)
    BY DEF IInv, Core, TypeOK, ShadowTypeOK
  <2>2. trc[cnt + 1] = dut_step(hist[cnt + 1].dut, hist[cnt + 1].insn)
    BY <2>1 DEF IInv, Core, Traced
  <2> QED
    BY <2>2 DEF IInv, PcInv, PcTracked, dut_step
<1> QED
  BY <1>1, InductiveInvariant, PTL

\* The trace stays, or grows by one entry at its end, with the shadow there.
Grows == \/ trc' = trc
         \/ /\ cnt = Len(trc) - 1 /\ cnt' = Len(trc)
            /\ Len(trc') = Len(trc) + 1
            /\ \A k \in 1 .. Len(trc) : trc'[k] = trc[k]

\* Every step of the run control leaves the recorded entries as they are.
LEMMA StepGrows ==
    ASSUME TypeOK, [Next]_vars
    PROVE  Grows
<1> USE DEF Grows
<1>0. trc \in Seq(Retired) /\ dut \in DutState /\ Len(trc) \in Nat
  BY DEF TypeOK, ShadowTypeOK
<1>1. ASSUME NEW s0 \in Signals, RecordStep(s0) PROVE Grows
  <2>1. PICK i \in Insn : /\ cnt = Len(trc) - 1 /\ cnt' = cnt + 1
                          /\ trc' = Append(trc, dut_step(dut, i))
    BY <1>1, RecordEffect
  <2>2. dut_step(dut, i) \in Retired
    BY <1>0, DutStepType
  <2> QED
    BY <1>0, <2>1, <2>2
<1>2. ASSUME NEW s0 \in Signals, ReplayStep(s0) PROVE Grows
  BY <1>2, ReplayStepEffect
<1>3. ASSUME NEW s0 \in Signals, RevertStep(s0) PROVE Grows
  BY <1>3, RevertStepEffect
<1>4. CASE rsp_reg_writeone \/ rsp_reg_writeall \/ rsp_mem_write
  BY <1>4 DEF rsp_reg_writeone, rsp_reg_writeall, rsp_mem_write
<1> QED
  BY <1>1, <1>2, <1>3, <1>4, StepForms DEF Forms

\* History is never rewritten: the update and record branch of forward, which
\* would change an entry, is unreachable.
THEOREM AppendOnly == Spec => HistoryAppendOnly
<1>1. TypeOK /\ [Next]_vars => [Grows]_vars
  BY StepGrows
<1> QED
  BY <1>1, TypeCorrect, PTL DEF Spec, HistoryAppendOnly, Grows

-----------------------------------------------------------------------------
(* Runs stop at points *)

Polling == mode \in {"contpoll", "backpoll"}

\* The signal of a point is still there when the loop condition is evaluated.
HitSignalled == Polling /\ cnt # -1 /\ Hit => sig # "SIGNONE"

\* Matching the traced instruction at the new position finds its point: the trace holds
\* what the points look at, the address, the encoding and the store of the instruction.
LEMMA MatchFindsHit ==
    ASSUME Core', cnt' # -1, Hit', NEW s0, match(s0, trc'[cnt' + 1]), UNCHANGED <<bpt, wpt>>
    PROVE  sig' # "SIGNONE"
<1> DEFINE d == hist'[cnt' + 1].dut
           i == hist'[cnt' + 1].insn
           ret == dut_step(d, i)
           st0 == [sig |-> s0, rsn |-> rsn]
           st1 == breakpoint_match(st0, ret)
           st2 == watchpoint_match(st1, ret)
<1>1. /\ cnt' \in -1 .. Len(trc') - 1 /\ trc' \in Seq(Retired)
      /\ hist' \in Seq([dut : DutState, insn : Insn]) /\ Len(hist') = Len(trc')
  BY DEF Core, TypeOK, ShadowTypeOK, Traced
<1>a. \A j \in 1 .. Len(trc') : trc'[j] = dut_step(hist'[j].dut, hist'[j].insn)
  <2>1. Traced'
    BY DEF Core
  <2> QED
    BY <2>1 DEF Traced, dut_step
<1>2. cnt' + 1 \in 1 .. Len(trc')
  <2>1. ASSUME NEW n \in Nat, NEW c \in -1 .. n - 1, c # -1 PROVE c + 1 \in 1 .. n
    BY <2>1
  <2>2. Len(trc') \in Nat
    BY <1>1
  <2> QED
    BY <1>1, <2>1, <2>2, Zenon
<1>3. trc'[cnt' + 1] = ret /\ i \in Insn
  <2>1. hist'[cnt' + 1] \in [dut : DutState, insn : Insn]
    BY <1>1, <1>2, Element
  <2> QED
    BY <1>a, <1>2, <2>1
<1>4. sig' = st2.sig
  <2>1. match(s0, ret)
    BY <1>3
  <2> QED
    BY <2>1 DEF match
<1>5. \/ i.rdt \in Ebreak \/ bpt[d.pc] = "hwbreak"
      \/ i.op = "store" /\ wpt[i.adr] \in {"watch", "awatch"}
  BY DEF Hit
<1>6. ret.ifu.adr = d.pc /\ ret.ifu.rdt = i.rdt /\ ret.ifu.ill = FALSE
  BY DEF dut_step
<1>7. st2.sig \in {st1.sig, "SIGTRAP"}
  BY DEF watchpoint_match
<1>8. CASE i.rdt \in Ebreak \/ bpt[d.pc] = "hwbreak"
  <2>1. st1.sig = "SIGTRAP"
    BY <1>6, <1>8 DEF breakpoint_match
  <2> QED
    BY <1>4, <1>7, <2>1
<1>9. CASE i.op = "store" /\ wpt[i.adr] \in {"watch", "awatch"}
  <2>1. ret.lsu.adr = i.adr /\ ret.lsu.wdt = i.dat
    BY <1>9 DEF dut_step
  <2>2. Len(ret.lsu.wdt) > 0
    <3>1. i.dat # <<>> /\ i.dat \in Seq(Byte)
      BY <1>3, <1>9, RunAssumption, InsnFields
    <3>2. Len(i.dat) > 0
      BY <3>1
    <3> QED
      BY <2>1, <3>2
  <2> HIDE DEF ret, st1
  <2>3. st2.sig = "SIGTRAP"
    BY <1>9, <2>1, <2>2 DEF watchpoint_match
  <2> QED
    BY <1>4, <2>3
<1> QED
  BY <1>5, <1>8, <1>9

\* A step of a run arrives at its poll with the points matched.
LEMMA ArrivalMatched ==
    ASSUME Core, [Next]_vars, Polling', ~(Polling /\ UNCHANGED vars)
    PROVE  UNCHANGED <<bpt, wpt>> /\ (sig' = "SIGTRAP" \/ \E s0 : match(s0, trc'[cnt' + 1]))
<1>0. /\ TypeOK /\ trc \in Seq(Retired) /\ cnt \in -1 .. Len(trc) - 1 /\ Len(trc) \in Nat
      /\ dut \in DutState /\ sig \in Signals /\ "SIGNONE" \in Signals
  BY DEF Core, TypeOK, ShadowTypeOK, Signals
<1>1. ASSUME NEW t, NEW s0, forward(t, s0), cnt + 1 # Len(t)
      PROVE  UNCHANGED <<bpt, wpt>> /\ match(s0, trc'[cnt' + 1])
  BY <1>1 DEF forward
<1>2. CASE ContinueRecord
  <2>1. PICK i \in Insn : forward(Append(trc, dut_step(dut, i)), sig)
    BY <1>2 DEF ContinueRecord, RecordStep
  <2>2. cnt = Len(trc) - 1 /\ dut_step(dut, i) \in Retired
    BY <1>0, <1>2, DutStepType DEF ContinueRecord, RecordStep
  <2>3. Len(Append(trc, dut_step(dut, i))) = Len(trc) + 1
    BY <1>0, <2>2
  <2>4. cnt + 1 # Len(Append(trc, dut_step(dut, i)))
    BY <1>0, <2>2, <2>3
  <2> QED
    BY <1>1, <2>1, <2>4
<1>3. CASE ContinueReplay
  <2>1. forward(trc, sig) /\ cnt # Len(trc) - 1
    BY <1>3 DEF ContinueReplay, ReplayStep
  <2>2. cnt + 1 # Len(trc)
    BY <1>0, <2>1
  <2> QED
    BY <1>1, <2>1, <2>2
<1>4. CASE BackwardStep
  <2>1. CASE BeginStep
    BY <2>1 DEF BeginStep
  <2>2. CASE RevertStep("SIGNONE")
    <3>1. backward("SIGNONE")
      BY <2>2 DEF RevertStep
    <3>2. cnt' = cnt - 1 /\ trc' = trc /\ match("SIGNONE", trc[cnt]) /\ UNCHANGED <<bpt, wpt>>
      BY <3>1 DEF backward
    <3>3. cnt' + 1 = cnt
      BY <1>0, <3>2
    <3> QED
      BY <3>2, <3>3
  <2> QED
    BY <1>4, <2>1, <2>2 DEF BackwardStep, rsp_backward_step
<1>5. ASSUME LoopCheck PROVE ~Polling'
  BY <1>5 DEF LoopCheck, Polling
<1>6. CASE rsp_step \/ rsp_backward_bs \/ rsp_continue \/ rsp_backward_bc \/ rsp_signal
  BY <1>6 DEF rsp_step, rsp_backward_bs, rsp_continue, rsp_backward_bc, rsp_signal, Polling
<1>7. CASE PollEmpty \/ PollInterrupt \/ rsp_point \/ rsp_reg_writeone \/ rsp_reg_writeall \/ rsp_mem_write
  BY <1>5, <1>7 DEF PollEmpty, PollInterrupt, rsp_point, rsp_reg_writeone, rsp_reg_writeall, rsp_mem_write
<1>8. ~UNCHANGED vars
  BY DEF vars, Polling
<1> QED
  BY <1>2, <1>3, <1>4, <1>6, <1>7, <1>8 DEF Next

\* A hit is signalled whenever the poll is reached, and stays so until the loop condition.
LEMMA HitKept ==
    ASSUME Core, Core', HitSignalled, [Next]_vars
    PROVE  HitSignalled'
<1> SUFFICES ASSUME Polling', cnt' # -1, Hit' PROVE sig' # "SIGNONE"
  BY DEF HitSignalled
<1>1. CASE Polling /\ UNCHANGED vars
  BY <1>1 DEF HitSignalled, Polling, vars, Hit
<1>2. CASE ~(Polling /\ UNCHANGED vars)
  BY <1>2, ArrivalMatched, MatchFindsHit
<1> QED
  BY <1>1, <1>2

\* The poll, whatever it finds, does not take a signal back.
LEMMA PollKeepsSignal ==
    ASSUME Polling, sig # "SIGNONE", Next
    PROVE  mode' = "idle"
<1>1. sig' # "SIGNONE" /\ LoopCheck
  <2>1. PollEmpty \/ PollInterrupt \/ rsp_reg_writeone \/ rsp_reg_writeall \/ rsp_mem_write \/ rsp_point
    BY DEF Next, Polling, rsp_step, rsp_continue, ContinueRecord, ContinueReplay, rsp_backward_bs,
           rsp_backward_bc, BackwardStep, rsp_signal
  <2> QED
    BY <2>1 DEF PollEmpty, PollInterrupt, rsp_reg_writeone, rsp_reg_writeall, rsp_mem_write, rsp_point
<1> QED
  BY <1>1 DEF LoopCheck

\* A run, forwards or backwards, recorded or replayed, never goes on from an instruction
\* that hit a point, whatever the poll of the socket finds.
THEOREM StopsAtPoints == Spec => NeverRunsPastPoint
<1> DEFINE Stops == (mode \in {"contpoll", "backpoll"} /\ cnt # -1 /\ UNCHANGED <<bpt, wpt>> /\ Hit)
                       => mode' = "idle"
<1>1. Init => HitSignalled
  BY DEF Init, HitSignalled, Polling
<1>2. IInv /\ IInv' /\ HitSignalled /\ [Next]_vars => HitSignalled'
  BY HitKept DEF IInv
<1>3. HitSignalled /\ [Next]_vars => [Stops]_vars
  BY PollKeepsSignal DEF HitSignalled, Polling
<1> QED
  BY <1>1, <1>2, <1>3, InductiveInvariant, PTL DEF Spec, NeverRunsPastPoint

-----------------------------------------------------------------------------
(* Runs end *)

\* What RunsAdvance says of a step.
Advances ==
    /\ mode \in {"back", "backpoll"} =>
          mode' = "idle" \/ ReverseRank' \in 0 .. ReverseRank - 1
    /\ mode \in {"cont", "contpoll"} /\ cnt # Len(trc) - 1 =>
          mode' = "idle" \/ ReplayRank' \in 0 .. ReplayRank - 1

\* The loop condition, after a poll that does not move the shadow.
LEMMA PollAdvances ==
    ASSUME TypeOK, Polling, LoopCheck, UNCHANGED <<cnt, trc>>,
           sig' = "SIGNONE" => sig = "SIGNONE"
    PROVE  Advances
<1>0. cnt \in Int /\ Len(trc) \in Nat /\ -1 <= cnt /\ cnt <= Len(trc) - 1
  BY DEF TypeOK, ShadowTypeOK
<1>1. \/ mode' = "idle"
      \/ mode = "backpoll" /\ mode' = "back" /\ sig = "SIGNONE"
      \/ mode = "contpoll" /\ mode' = "cont"
  BY DEF LoopCheck, Polling
<1>2. CASE mode' = "idle"
  BY <1>2 DEF Advances
<1>3. CASE mode = "backpoll" /\ mode' = "back" /\ sig = "SIGNONE"
  <2>1. ReverseRank = 2 * cnt + 4 /\ ReverseRank' = 2 * cnt + 3
    BY <1>3 DEF ReverseRank
  <2> QED
    BY <1>0, <1>3, <2>1 DEF Advances
<1>4. CASE mode = "contpoll" /\ mode' = "cont"
  <2>1. /\ ReplayRank = 2 * (Len(trc) - 1 - cnt) + 1
        /\ ReplayRank' = 2 * (Len(trc) - 1 - cnt) + 0
    BY <1>4 DEF ReplayRank
  <2> QED
    BY <1>0, <1>4, <2>1 DEF Advances
<1> QED
  BY <1>1, <1>2, <1>3, <1>4

\* An iteration moves the shadow by one position, or sets a signal.
LEMMA StepAdvances ==
    ASSUME TypeOK, Next
    PROVE  Advances
<1>0. /\ cnt \in Int /\ Len(trc) \in Nat /\ -1 <= cnt /\ cnt <= Len(trc) - 1
      /\ sig \in Signals /\ "SIGNONE" \in Signals
  BY DEF TypeOK, ShadowTypeOK, Signals
<1>1. CASE BackwardStep
  <2>1. mode = "back" /\ mode' = "backpoll" /\ (BeginStep \/ RevertStep("SIGNONE"))
    BY <1>1 DEF BackwardStep, rsp_backward_step
  <2>2. ReverseRank = 2 * cnt + 3
    BY <2>1 DEF ReverseRank
  <2>3. CASE BeginStep
    <3>1. ReverseRank' = 0
      BY <2>1, <2>3 DEF BeginStep, ReverseRank
    <3> QED
      BY <1>0, <2>1, <2>2, <3>1 DEF Advances
  <2>4. CASE RevertStep("SIGNONE")
    <3>1. cnt > 0 /\ cnt' = cnt - 1
      BY <1>0, <2>4, RevertStepEffect
    <3>2. ReverseRank' = 0 \/ ReverseRank' = 2 * cnt' + 4
      BY <2>1 DEF ReverseRank
    <3> QED
      BY <1>0, <2>1, <2>2, <3>1, <3>2 DEF Advances
  <2> QED
    BY <2>1, <2>3, <2>4
<1>2. CASE ContinueReplay
  <2>1. mode = "cont" /\ mode' = "contpoll" /\ cnt < Len(trc) - 1 /\ cnt' = cnt + 1 /\ trc' = trc
    BY <1>0, <1>2, ReplayStepEffect DEF ContinueReplay
  <2>2. /\ ReplayRank = 2 * (Len(trc) - 1 - cnt) + 0
        /\ ReplayRank' = 2 * (Len(trc) - 1 - (cnt + 1)) + 1
    BY <2>1 DEF ReplayRank
  <2> QED
    BY <1>0, <2>1, <2>2 DEF Advances
<1>3. CASE ContinueRecord
  BY <1>3 DEF ContinueRecord, RecordStep, Advances
<1>4. CASE Polling
  <2>1. PollEmpty \/ PollInterrupt \/ rsp_reg_writeone \/ rsp_reg_writeall \/ rsp_mem_write \/ rsp_point
    BY <1>4 DEF Next, Polling, rsp_step, rsp_continue, ContinueRecord, ContinueReplay, rsp_backward_bs,
           rsp_backward_bc, BackwardStep, rsp_signal
  <2>2. UNCHANGED <<cnt, trc>> /\ LoopCheck /\ (sig' = "SIGNONE" => sig = "SIGNONE")
    BY <2>1 DEF PollEmpty, PollInterrupt, rsp_reg_writeone, rsp_reg_writeall, rsp_mem_write, rsp_point
  <2> QED
    BY <1>4, <2>2, PollAdvances
<1>5. CASE mode = "idle"
  BY <1>5 DEF Advances
<1>6. mode = "back" => BackwardStep
  BY DEF Next, rsp_step, rsp_continue, ContinueRecord, ContinueReplay, rsp_backward_bs,
     rsp_backward_bc, PollEmpty, PollInterrupt, rsp_reg_writeone, rsp_reg_writeall, rsp_mem_write,
     rsp_point, rsp_signal, Dispatching
<1>7. mode = "cont" => ContinueReplay \/ ContinueRecord
  BY DEF Next, rsp_step, rsp_continue, BackwardStep, rsp_backward_bs,
     rsp_backward_bc, PollEmpty, PollInterrupt, rsp_reg_writeone, rsp_reg_writeall, rsp_mem_write,
     rsp_point, rsp_signal, Dispatching
<1> QED
  BY <1>1, <1>2, <1>3, <1>4, <1>5, <1>6, <1>7 DEF TypeOK, Modes, Polling

\* RunsAdvance: a reverse run, and the replay of a run, take no more iterations than there
\* are positions left, whatever the polls of rsp_continue and rsp_backward find.
THEOREM RunsEnd == Spec => RunsAdvance
<1>1. TypeOK /\ [Next]_vars => [Advances]_vars
  BY StepAdvances
<1> QED
  BY <1>1, TypeCorrect, PTL DEF Spec, RunsAdvance, Advances
=============================================================================
