-------------------------- MODULE DebugView_proofs --------------------------
(***************************************************************************)
(* Proofs about DebugView: with resets and switches of the source of reads *)
(* at any moment, what the debugger reads of a settled register or byte is *)
(* what the program had there, from the shadow and from the CPU.           *)
(***************************************************************************)
EXTENDS DebugView, RunControl_proofs, LeastNumber

-----------------------------------------------------------------------------
(* The CPU's states along the history *)

\* The CPU state before the k-th instruction; the present one behind the last.
At(k) == IF k = Len(hist) + 1 THEN dut ELSE hist[k].dut

\* What the debugger loaded into a register before the first step is a known value.
LoadedKnown == \A r \in loaded.gpr : At(1).gpr[r] # X

\* The part of the invariant about the PC is missing: a reset moves the CPU's PC.
ViewInv == Core /\ LoadedKnown

\* The types and the state after the k-th instruction.
LEMMA HistoryFacts ==
    ASSUME Core
    PROVE  /\ Len(hist) \in Nat /\ Len(trc) = Len(hist) /\ cnt \in -1 .. Len(hist) - 1
           /\ cnt = -1 => Len(hist) = 0
           /\ shd \in ShadowState /\ dut \in DutState
           /\ \A k \in 1 .. Len(hist) : hist[k].dut \in DutState /\ hist[k].insn \in Insn
           /\ \A k \in 1 .. Len(hist) : At(k) = hist[k].dut /\ At(k + 1) = After(k)
           /\ At(Len(hist) + 1) = dut /\ Shown = At(cnt + 1 + IF cnt = -1 THEN 1 ELSE 0)
<1>1. /\ hist \in Seq([dut : DutState, insn : Insn]) /\ Len(hist) \in Nat
      /\ Len(trc) = Len(hist) /\ cnt \in -1 .. Len(hist) - 1 /\ (cnt = -1 => Len(hist) = 0)
      /\ shd \in ShadowState /\ dut \in DutState
  BY DEF Core, TypeOK, ShadowTypeOK, Traced
<1>2. ASSUME NEW k \in 1 .. Len(hist)
      PROVE  /\ hist[k].dut \in DutState /\ hist[k].insn \in Insn
             /\ At(k) = hist[k].dut /\ At(k + 1) = After(k)
  <2>1. hist[k] \in [dut : DutState, insn : Insn]
    BY <1>1, Element
  <2> QED
    BY <1>1, <2>1 DEF At, After
<1>3. Shown = At(cnt + 1 + IF cnt = -1 THEN 1 ELSE 0)
  BY <1>1 DEF At, Shown
<1> QED
  BY <1>1, <1>2, <1>3 DEF At

\* One instruction later, a register that it does not write is the same, and one that
\* it writes is known.
LEMMA GprNext ==
    ASSUME Core, NEW r \in GprIdx \ edited.gpr, NEW k \in 1 .. Len(hist)
    PROVE  IF WritesReg(k, r) THEN At(k + 1).gpr[r] # X
           ELSE At(k + 1).gpr[r] = At(k).gpr[r]
<1> DEFINE d == hist[k].dut
           i == hist[k].insn
<1>1. d \in DutState /\ i \in Insn /\ At(k) = d /\ At(k + 1) = After(k)
  BY HistoryFacts
<1>2. After(k).gpr[r] = Exec(d, i).gpr[r]
  BY DEF Core, GprChain
<1>3. WritesReg(k, r) <=> Dest(i, r)
  BY DEF WritesReg, Dest
<1>4. d.gpr \in [GprIdx -> Word \cup {X}] /\ i.val \in Word /\ X \notin Word
  BY <1>1, InsnFields, SizesAssumption DEF DutState
<1>5. Exec(d, i).gpr[r] = IF Dest(i, r) THEN i.val ELSE d.gpr[r]
  BY <1>1, <1>4, OneRegister
<1> HIDE DEF d, i
<1> QED
  BY <1>1, <1>2, <1>3, <1>4, <1>5

\* The same of a byte of memory.
LEMMA MemNext ==
    ASSUME Core, NEW a \in Cells \ edited.mem, NEW k \in 1 .. Len(hist), ~StoresTo(k, a)
    PROVE  At(k + 1).mem[a] = At(k).mem[a]
<1> DEFINE d == hist[k].dut
           i == hist[k].insn
<1>1. d \in DutState /\ i \in Insn /\ At(k) = d /\ At(k + 1) = After(k) /\ shd \in ShadowState
  BY HistoryFacts
<1>2. After(k).mem[a] = Exec(d, i).mem[a]
  BY DEF Core, MemChain
<1>3. ~Covers(i, a)
  BY DEF StoresTo
<1>4. Exec(d, i).mem[a] = IF Covers(i, a) THEN i.dat[a - i.adr + 1] ELSE d.mem[a]
  BY <1>1, OneByte
<1> HIDE DEF d, i
<1> QED
  BY <1>1, <1>2, <1>3, <1>4

\* A register that no instruction writes from the k-th on still has its value of then.
LEMMA GprStays ==
    ASSUME Core, NEW r \in GprIdx \ edited.gpr, NEW k \in 1 .. Len(hist) + 1,
           \A j \in k .. Len(hist) : ~WritesReg(j, r)
    PROVE  dut.gpr[r] = At(k).gpr[r]
<1>0. Len(hist) \in Nat /\ At(Len(hist) + 1) = dut
  BY HistoryFacts
<1> DEFINE Wrong == {m \in k .. Len(hist) + 1 : At(m).gpr[r] # At(k).gpr[r]}
<1>1. Wrong = {}
  <2> SUFFICES ASSUME Wrong # {} PROVE FALSE
    OBVIOUS
  <2>1. Wrong \subseteq Nat
    BY <1>0
  <2>2. PICK m \in Wrong : \A j \in Wrong : m <= j
    <3> HIDE DEF Wrong
    <3> QED
      BY <2>1, Least
  <2>3. m \in k .. Len(hist) + 1 /\ At(m).gpr[r] # At(k).gpr[r] /\ m # k
    OBVIOUS
  <2>4. PICK n \in k .. Len(hist) : m = n + 1
    <3>1. m - 1 \in k .. Len(hist) /\ m = (m - 1) + 1
      BY <1>0, <2>3
    <3> QED
      BY <3>1
  <2>5. n \notin Wrong
    <3>1. n \in Int /\ ~(m <= n)
      BY <1>0, <2>4
    <3> HIDE DEF Wrong
    <3> QED
      BY <2>2, <3>1
  <2>6. At(n).gpr[r] = At(k).gpr[r]
    BY <1>0, <2>4, <2>5
  <2>7. n \in 1 .. Len(hist)
    BY <1>0, <2>4
  <2>8. At(n + 1).gpr[r] = At(n).gpr[r]
    BY <2>4, <2>7, GprNext
  <2> QED
    BY <2>3, <2>4, <2>6, <2>8
<1>2. Len(hist) + 1 \in k .. Len(hist) + 1 /\ Len(hist) + 1 \notin Wrong
  BY <1>0, <1>1
<1> QED
  BY <1>0, <1>2

\* A byte that no instruction stores to from the k-th on still has its value of then.
LEMMA MemStays ==
    ASSUME Core, NEW a \in Cells \ edited.mem, NEW k \in 1 .. Len(hist) + 1,
           \A j \in k .. Len(hist) : ~StoresTo(j, a)
    PROVE  dut.mem[a] = At(k).mem[a]
<1>0. Len(hist) \in Nat /\ At(Len(hist) + 1) = dut
  BY HistoryFacts
<1> DEFINE Wrong == {m \in k .. Len(hist) + 1 : At(m).mem[a] # At(k).mem[a]}
<1>1. Wrong = {}
  <2> SUFFICES ASSUME Wrong # {} PROVE FALSE
    OBVIOUS
  <2>1. Wrong \subseteq Nat
    BY <1>0
  <2>2. PICK m \in Wrong : \A j \in Wrong : m <= j
    <3> HIDE DEF Wrong
    <3> QED
      BY <2>1, Least
  <2>3. m \in k .. Len(hist) + 1 /\ At(m).mem[a] # At(k).mem[a] /\ m # k
    OBVIOUS
  <2>4. PICK n \in k .. Len(hist) : m = n + 1
    <3>1. m - 1 \in k .. Len(hist) /\ m = (m - 1) + 1
      BY <1>0, <2>3
    <3> QED
      BY <3>1
  <2>5. n \notin Wrong
    <3>1. n \in Int /\ ~(m <= n)
      BY <1>0, <2>4
    <3> HIDE DEF Wrong
    <3> QED
      BY <2>2, <3>1
  <2>6. At(n).mem[a] = At(k).mem[a]
    BY <1>0, <2>4, <2>5
  <2>7. n \in 1 .. Len(hist)
    BY <1>0, <2>4
  <2>8. At(n + 1).mem[a] = At(n).mem[a]
    BY <2>4, <2>7, MemNext
  <2> QED
    BY <2>3, <2>4, <2>6, <2>8
<1>2. Len(hist) + 1 \in k .. Len(hist) + 1 /\ Len(hist) + 1 \notin Wrong
  BY <1>0, <1>1
<1> QED
  BY <1>0, <1>2

\* A register that was loaded, or written before the k-th instruction, is known there.
LEMMA GprKnown ==
    ASSUME ViewInv, NEW r \in GprIdx \ edited.gpr, NEW k \in 1 .. Len(hist) + 1,
           r \in loaded.gpr \/ \E j \in 1 .. k - 1 : WritesReg(j, r)
    PROVE  At(k).gpr[r] # X
<1>0. Core /\ Len(hist) \in Nat
  BY HistoryFacts DEF ViewInv
<1> DEFINE Written(m) == r \in loaded.gpr \/ \E j \in 1 .. m - 1 : WritesReg(j, r)
           Wrong == {m \in 1 .. Len(hist) + 1 : Written(m) /\ At(m).gpr[r] = X}
<1>1. Wrong = {}
  <2> SUFFICES ASSUME Wrong # {} PROVE FALSE
    OBVIOUS
  <2>1. Wrong \subseteq Nat
    BY <1>0
  <2>2. PICK m \in Wrong : \A j \in Wrong : m <= j
    <3> HIDE DEF Wrong
    <3> QED
      BY <2>1, Least
  <2>3. m \in 1 .. Len(hist) + 1 /\ Written(m) /\ At(m).gpr[r] = X
    OBVIOUS
  <2>4. m # 1
    <3> SUFFICES ASSUME m = 1 PROVE FALSE
      OBVIOUS
    <3>1. r \in loaded.gpr
      BY <2>3
    <3> QED
      BY <2>3, <3>1 DEF ViewInv, LoadedKnown
  <2>5. PICK n \in 1 .. Len(hist) : m = n + 1
    <3>1. m - 1 \in 1 .. Len(hist) /\ m = (m - 1) + 1
      BY <1>0, <2>3, <2>4
    <3> QED
      BY <3>1
  <2>6. n \notin Wrong
    <3>1. n \in Int /\ ~(m <= n)
      BY <1>0, <2>5
    <3> HIDE DEF Wrong
    <3> QED
      BY <2>2, <3>1
  <2>7. ~WritesReg(n, r) /\ At(n).gpr[r] = X
    BY <1>0, <2>3, <2>5, GprNext
  <2>8. Written(n)
    <3>1. CASE r \in loaded.gpr
      BY <3>1
    <3>2. ASSUME NEW j \in 1 .. m - 1, WritesReg(j, r) PROVE Written(n)
      <4>1. j # n /\ j \in 1 .. n
        BY <1>0, <2>5, <2>7, <3>2
      <4>2. j \in 1 .. n - 1
        BY <1>0, <4>1
      <4> QED
        BY <3>2, <4>2
    <3> QED
      BY <2>3, <3>1, <3>2
  <2>9. n \in 1 .. Len(hist) + 1
    BY <1>0
  <2> QED
    BY <2>6, <2>7, <2>8, <2>9
<1> QED
  BY <1>1

-----------------------------------------------------------------------------
(* The invariant *)

\* The initial states satisfy the invariant,
LEMMA ViewInitInv ==
    ASSUME ViewInit
    PROVE  ViewInv
<1>1. Init
  BY DEF ViewInit
<1>2. Core
  BY <1>1, InitInv DEF IInv
<1>3. loaded.gpr = {}
  BY <1>1 DEF Init, NoPlaces
<1> QED
  BY <1>2, <1>3 DEF ViewInv, LoadedKnown

\* The first state of the history and what was loaded into it stay as they are, except
\* for what the debugger loads.
LEMMA RunLoaded ==
    ASSUME ViewInv, [Next]_vars
    PROVE  LoadedKnown'
<1>0. /\ TypeOK /\ Len(hist) \in Nat /\ Len(trc) = Len(hist) /\ LoadedKnown
      /\ trc \in Seq(Retired) /\ hist \in Seq([dut : DutState, insn : Insn])
  BY HistoryFacts DEF ViewInv, Core, TypeOK, ShadowTypeOK
<1>1. ASSUME loaded'.gpr = loaded.gpr, At(1)'.gpr = At(1).gpr PROVE LoadedKnown'
  BY <1>0, <1>1 DEF LoadedKnown
<1>2. ASSUME NEW s0 \in Signals, RecordStep(s0) PROVE LoadedKnown'
  <2>1. PICK i \in Insn : /\ hist' = Append(hist, [dut |-> dut, insn |-> i])
                          /\ UNCHANGED loaded
    BY <1>0, <1>2, RecordEffect
  <2>2. /\ Len(hist') = Len(hist) + 1 /\ hist'[Len(hist) + 1].dut = dut
        /\ \A j \in 1 .. Len(hist) : hist'[j] = hist[j]
    BY <1>0, <2>1
  <2>3. At(1)' = At(1)
    BY <1>0, <2>2 DEF At
  <2> QED
    BY <1>1, <2>1, <2>3
<1>3. ASSUME NEW s0 \in Signals, ReplayStep(s0) \/ RevertStep(s0) PROVE LoadedKnown'
  <2>1. UNCHANGED <<dut, hist, loaded>>
    BY <1>0, <1>3, ReplayStepEffect, RevertStepEffect
  <2> QED
    BY <1>1, <2>1 DEF At
<1>4. CASE rsp_reg_writeone \/ rsp_reg_writeall
  <2>1. PICK G \in SUBSET GprIdx, b \in BOOLEAN :
           /\ Touch([gpr |-> G, mem |-> {}, pc |-> b])
           /\ \A r \in GprIdx \ G : dut'.gpr[r] = dut.gpr[r]
           /\ \A r \in G : dut'.gpr[r] \in Word
           /\ UNCHANGED <<trc, hist>>
    <3>1. PICK G \in SUBSET GprIdx, b \in BOOLEAN :
             /\ Touch([gpr |-> G, mem |-> {}, pc |-> b])
             /\ \A r \in GprIdx : IF r \in G THEN shd'.gpr[r] = dut'.gpr[r]
                                  ELSE shd'.gpr[r] = shd.gpr[r] /\ dut'.gpr[r] = dut.gpr[r]
             /\ \A r \in G : dut'.gpr[r] \in Word
             /\ UNCHANGED <<trc, hist>>
      BY <1>0, <1>4, RegWriteEffect
    <3>2. \A r \in GprIdx \ G : dut'.gpr[r] = dut.gpr[r]
      BY <3>1
    <3> QED
      BY <3>1, <3>2
  <2> DEFINE p == [gpr |-> G, mem |-> {}, pc |-> b]
  <2>2. p \in Places
    BY DEF Places
  <2>3. CASE trc = <<>>
    <3>1. loaded'.gpr = loaded.gpr \cup p.gpr /\ loaded \in Places
      BY <1>0, <2>1, <2>2, <2>3, PlacesType DEF TypeOK
    <3>2. loaded'.gpr = loaded.gpr \cup G /\ loaded.gpr \subseteq GprIdx
      BY <3>1 DEF Places
    <3>3. At(1) = dut /\ At(1)' = dut'
      BY <1>0, <2>1, <2>3 DEF At
    <3>4. ASSUME NEW r \in loaded'.gpr PROVE dut'.gpr[r] # X
      <4>1. CASE r \in G
        BY <2>1, <4>1, SizesAssumption
      <4>2. CASE r \notin G
        BY <1>0, <2>1, <3>2, <3>3, <4>2 DEF LoadedKnown
      <4> QED
        BY <4>1, <4>2
    <3> QED
      BY <3>3, <3>4 DEF LoadedKnown
  <2>4. CASE trc # <<>>
    <3>1. loaded' = loaded
      BY <1>0, <2>1, <2>2, <2>4, PlacesType
    <3>2. Len(hist) # 0
      BY <1>0, <2>4
    <3>3. At(1)' = At(1)
      BY <1>0, <2>1, <3>2 DEF At
    <3> QED
      BY <1>1, <3>1, <3>3
  <2> QED
    BY <2>3, <2>4
<1>5. CASE rsp_mem_write
  <2>1. PICK M \in SUBSET Word : /\ Touch([gpr |-> {}, mem |-> M, pc |-> FALSE])
                                 /\ dut'.gpr = dut.gpr /\ UNCHANGED <<trc, hist>>
    BY <1>0, <1>5, MemWritePacketEffect
  <2> DEFINE p == [gpr |-> {}, mem |-> M, pc |-> FALSE]
  <2>2. p \in Places
    BY DEF Places
  <2>3. loaded'.gpr = loaded.gpr
    <3>1. loaded' = loaded \/ loaded'.gpr = loaded.gpr \cup p.gpr
      BY <1>0, <2>1, <2>2, PlacesType
    <3> QED
      BY <3>1
  <2>4. At(1)'.gpr = At(1).gpr
    BY <2>1 DEF At
  <2> QED
    BY <1>1, <2>3, <2>4
<1>6. CASE UNCHANGED <<shd, cnt, trc, dut, hist, loaded, edited>>
  BY <1>1, <1>6 DEF At
<1> QED
  BY <1>0, <1>2, <1>3, <1>4, <1>5, <1>6, StepForms DEF Forms

\* A reset moves the CPU's PC and nothing else that the shadow or the history knows of;
\* the same goes for a switch of the source of reads.
LEMMA ResetInv ==
    ASSUME ViewInv, monitor_reset \/ monitor_set
    PROVE  ViewInv'
<1>0. TypeOK /\ Traced /\ GprChain /\ MemChain /\ GprTracked /\ MemTracked /\ LoadedKnown
  BY DEF ViewInv, Core
<1>1. /\ UNCHANGED <<shd, cnt, trc, sig, rsn, bpt, wpt, hist, loaded, edited>> /\ LoopCheck
      /\ dut' \in DutState /\ dut'.gpr = dut.gpr /\ dut'.mem = dut.mem
  <2>1. CASE monitor_reset
    <3>1. PICK p \in Word : dut' = [dut EXCEPT !.pc = p]
      BY <1>0, <2>1, RunAssumption
         DEF monitor_reset, dut_reset_assert, dut_reset_release, TypeOK, DutState
    <3>2. dut' \in DutState /\ dut'.gpr = dut.gpr /\ dut'.mem = dut.mem
      BY <1>0, <3>1 DEF TypeOK, DutState
    <3> QED
      BY <2>1, <3>2 DEF monitor_reset, dut_reset_assert, dut_reset_release
  <2>2. CASE monitor_set
    BY <1>0, <2>2 DEF monitor_set, TypeOK
  <2> QED
    BY <2>1, <2>2
<1>2. TypeOK'
  <2>1. ControlTypeOK' /\ mode \in Modes /\ reply \in StopReply /\ cnt' \in Int
    BY <1>0, <1>1 DEF TypeOK, ShadowTypeOK, ControlTypeOK
  <2>2. mode' \in Modes /\ reply' \in StopReply
    BY <1>1, <2>1, LoopCheckTyping
  <2> QED
    BY <1>0, <1>1, <2>2 DEF TypeOK, ShadowTypeOK
<1>3. Traced'
  <2>1. \A j \in 1 .. Len(trc') : trc'[j] = dut_step(hist'[j].dut, hist'[j].insn)
    BY <1>0, <1>1 DEF Traced
  <2>2. Len(hist') = Len(trc') /\ (cnt' = -1 => Len(trc') = 0)
    BY <1>0, <1>1 DEF Traced
  <2> QED
    BY <2>1, <2>2 DEF Traced, dut_step
<1>4. \A j : After(j)'.gpr = After(j).gpr /\ After(j)'.mem = After(j).mem
  BY <1>1 DEF After
<1>5. GprChain'
  <2>1. ASSUME NEW r \in GprIdx \ edited'.gpr, NEW j \in 1 .. Len(hist')
        PROVE  After(j)'.gpr[r] = Exec(hist'[j].dut, hist'[j].insn).gpr[r]
    BY <1>0, <1>1, <1>4 DEF GprChain
  <2> QED
    BY <2>1 DEF GprChain, Exec
<1>6. MemChain'
  <2>1. ASSUME NEW a \in Cells \ edited'.mem, NEW j \in 1 .. Len(hist')
        PROVE  After(j)'.mem[a] = Exec(hist'[j].dut, hist'[j].insn).mem[a]
    BY <1>0, <1>1, <1>4 DEF MemChain
  <2> QED
    BY <2>1 DEF MemChain, Exec
<1>7. Shown'.gpr = Shown.gpr /\ Shown'.mem = Shown.mem
  BY <1>1 DEF Shown
<1>8. GprTracked' /\ MemTracked'
  <2>1. /\ \A r \in GprIdx : GprLost(r)' <=> GprLost(r)
        /\ \A a \in Cells : MemLost(a)' <=> MemLost(a)
    BY <1>1 DEF GprLost, MemLost, WritesReg, StoresTo, Covers
  <2> QED
    BY <1>0, <1>1, <1>7, <2>1 DEF GprTracked, MemTracked
<1>9. LoadedKnown'
  BY <1>0, <1>1 DEF LoadedKnown, At
<1> QED
  BY <1>2, <1>3, <1>5, <1>6, <1>8, <1>9 DEF ViewInv, Core

\* and every step keeps it.
LEMMA ViewNextInv ==
    ASSUME ViewInv, [ViewNext]_viewVars
    PROVE  ViewInv'
<1>1. CASE Run \/ rsp_detach \/ UNCHANGED viewVars
  <2>1. [Next]_vars
    BY <1>1 DEF Run, rsp_detach, viewVars
  <2>2. Core'
    BY <2>1, NextInv DEF ViewInv
  <2> QED
    BY <2>1, <2>2, RunLoaded DEF ViewInv
<1>2. CASE monitor_reset \/ monitor_set
  BY <1>2, ResetInv
<1> QED
  BY <1>1, <1>2 DEF ViewNext

-----------------------------------------------------------------------------
(* Theorems *)

\* The invariant of the registers and of the memory holds with resets, too.
THEOREM ViewInvariant == ViewSpec => []ViewInv
<1>1. ViewInit => ViewInv
  BY ViewInitInv
<1>2. ViewInv /\ [ViewNext]_viewVars => ViewInv'
  BY ViewNextInv
<1> QED
  BY <1>1, <1>2, PTL DEF ViewSpec

\* Resets and the sources of reads leave the shadow exact at the end of the trace, and
\* its registers right or unknown elsewhere.
THEOREM ResetKeepsShadow == ViewSpec => [](EdgeExact /\ GprNeverWrong)
<1>1. ViewInv => EdgeExact /\ GprNeverWrong
  BY CoreExact DEF ViewInv
<1> QED
  BY <1>1, ViewInvariant, PTL

\* The state shown is the one at the position, for the places that settled there.
LEMMA Settled ==
    ASSUME ViewInv
    PROVE  /\ \A r \in GprIdx : SettledReg(r) =>
                 /\ shd.gpr[r] = Shown.gpr[r] /\ dut.gpr[r] = Shown.gpr[r]
                 /\ Shown.gpr[r] # X
           /\ \A a \in Cells : SettledByte(a) =>
                 ByteOf(shd, a) = Shown.mem[a] /\ dut.mem[a] = Shown.mem[a]
<1>0. /\ Core /\ Len(hist) \in Nat /\ Len(trc) = Len(hist) /\ cnt \in -1 .. Len(hist) - 1
      /\ cnt = -1 => Len(hist) = 0
      /\ Shown = At(cnt + 1 + IF cnt = -1 THEN 1 ELSE 0)
  BY HistoryFacts DEF ViewInv
<1>1. PICK k \in 1 .. Len(hist) + 1 :
         /\ Shown = At(k) /\ k .. Len(hist) \subseteq Later \ {0}
         /\ 1 .. cnt \subseteq 1 .. k - 1
         /\ cnt + 1 .. Len(trc) - 1 \subseteq Later \ {0}
  <2>1. CASE cnt = -1
    <3>1. /\ 1 \in 1 .. Len(hist) + 1 /\ Shown = At(1) /\ 1 .. Len(hist) = {}
          /\ 1 .. cnt = {} /\ cnt + 1 .. Len(trc) - 1 = {}
      BY <1>0, <2>1
    <3> QED
      BY <3>1
  <2>2. CASE cnt # -1
    <3>1. /\ cnt + 1 \in 1 .. Len(hist) + 1 /\ Shown = At(cnt + 1)
          /\ cnt + 1 .. Len(hist) \subseteq Later \ {0}
          /\ 1 .. cnt \subseteq 1 .. (cnt + 1) - 1
          /\ cnt + 1 .. Len(trc) - 1 \subseteq Later \ {0}
      BY <1>0, <2>2 DEF Later
    <3> QED
      BY <3>1
  <2> QED
    BY <2>1, <2>2
<1>2. ASSUME NEW r \in GprIdx, SettledReg(r)
      PROVE  /\ shd.gpr[r] = Shown.gpr[r] /\ dut.gpr[r] = Shown.gpr[r]
             /\ Shown.gpr[r] # X
  <2>1. /\ r \in GprIdx \ edited.gpr /\ \A j \in Later \ {0} : ~WritesReg(j, r)
        /\ r \in loaded.gpr \/ \E j \in 1 .. cnt : WritesReg(j, r)
    BY <1>2 DEF SettledReg
  <2>2. ~GprLost(r)
    BY <1>1, <2>1 DEF GprLost
  <2>3. shd.gpr[r] = Shown.gpr[r]
    BY <1>0, <2>1, <2>2 DEF Core, GprTracked
  <2>4. dut.gpr[r] = At(k).gpr[r]
    BY <1>0, <1>1, <2>1, GprStays
  <2>5. At(k).gpr[r] # X
    BY <1>1, <2>1, GprKnown
  <2> QED
    BY <1>1, <2>3, <2>4, <2>5
<1>3. ASSUME NEW a \in Cells, SettledByte(a)
      PROVE  ByteOf(shd, a) = Shown.mem[a] /\ dut.mem[a] = Shown.mem[a]
  <2>1. /\ a \in Cells \ edited.mem /\ \A j \in Later \ {0} : ~StoresTo(j, a)
        /\ a \in loaded.mem \/ \E j \in 1 .. cnt : StoresTo(j, a)
    BY <1>3 DEF SettledByte
  <2>2. ~MemLost(a)
    BY <1>1, <2>1 DEF MemLost
  <2>3. ByteOf(shd, a) = Shown.mem[a]
    BY <1>0, <2>1, <2>2 DEF Core, MemTracked
  <2>4. dut.mem[a] = At(k).mem[a]
    BY <1>0, <1>1, <2>1, MemStays
  <2> QED
    BY <1>1, <2>3, <2>4
<1> QED
  BY <1>2, <1>3

\* So m answers with the value at the position, from the memory map and the dictionary of
\* the shadow, and from the SoC's memory.
LEMMA CellsRead ==
    ASSUME ViewInv, NEW a \in Cells, SettledByte(a), a \in Ram \/ ~stub_state.memory
    PROVE  rsp_mem_read(a) = Shown.mem[a]
<1> DEFINE bytes == mem_read(shd, a, 1)
<1>1. ByteOf(shd, a) = Shown.mem[a] /\ dut.mem[a] = Shown.mem[a]
  BY Settled
<1>2. (IF bytes = <<>> THEN 0 ELSE bytes[1]) = ByteOf(shd, a)
  <2>1. CASE a \in Mapped
    <3>1. a \in Nat /\ a + 1 - 1 = a
      BY <2>1, SizesAssumption
    <3>2. bytes = [k \in 1 .. 1 |-> shd.mem[a + k - 1]]
      BY <2>1 DEF mem_read
    <3>3. DOMAIN bytes = 1 .. 1 /\ 1 \in 1 .. 1
      BY <3>2
    <3>4. bytes # <<>> /\ bytes[1] = shd.mem[a]
      BY <3>1, <3>2, <3>3
    <3> QED
      BY <2>1, <3>4 DEF ByteOf
  <2>2. CASE a \notin Mapped
    BY <2>2 DEF mem_read, ByteOf
  <2> QED
    BY <2>1, <2>2
<1> HIDE DEF bytes
<1>3. rsp_mem_read(a) = IF stub_state.memory THEN dut_mem_read(dut, a)
                        ELSE IF bytes = <<>> THEN 0 ELSE bytes[1]
  BY DEF rsp_mem_read, bytes
<1> QED
  BY <1>1, <1>2, <1>3 DEF dut_mem_read

\* What g, p and m answer of a settled register or byte is what the program had at the
\* position shown, from both sources, for every program and every order of steps,
\* reversals, writes, resets and switches of the source.
THEOREM ReadsRight == ViewSpec => []ReadsAgree
<1>1. ViewInv => ReadsAgree
  <2> SUFFICES ASSUME ViewInv PROVE ReadsAgree
    OBVIOUS
  <2>1. ASSUME NEW r \in GprIdx, SettledReg(r)
        PROVE  rsp_reg_readall[r] = Shown.gpr[r] /\ rsp_reg_readone(r).val = Shown.gpr[r]
    <3>1. r \in Nat /\ r < GPRN /\ r \in RegIdx
      BY SizesAssumption DEF GprIdx, RegIdx
    <3>2. reg_read(shd, r) = Shown.gpr[r]
      BY <2>1, <3>1, Settled DEF reg_read
    <3>3. dut_reg_read(dut, r) = Shown.gpr[r]
      <4>1. ~(r >= GPRN)
        BY <3>1, SizesAssumption
      <4> QED
        BY <2>1, <4>1, Settled DEF dut_reg_read
    <3> QED
      BY <3>1, <3>2, <3>3 DEF rsp_reg_readall, rsp_reg_readone
  <2>2. ASSUME NEW a \in Mapped, SettledByte(a) PROVE rsp_mem_read(a) = Shown.mem[a]
    BY <2>2, CellsRead, RunAssumption DEF Cells
  <2> QED
    BY <2>1, <2>2 DEF ReadsAgree
<1> QED
  BY <1>1, ViewInvariant, PTL

\* A byte outside of the memory map that instructions store to only at its own address reads
\* back what the program had there: a device register from the dictionary of the shadow, a
\* byte of the SoC's memory from the CPU as well.
THEOREM IoRegistersReadBack ==
    ViewSpec => [](\A a \in IoRegs : SettledByte(a) /\ (a \in Ram \/ ~stub_state.memory)
                                        => rsp_mem_read(a) = Shown.mem[a])
<1>1. ViewInv => \A a \in IoRegs : SettledByte(a) /\ (a \in Ram \/ ~stub_state.memory)
                                       => rsp_mem_read(a) = Shown.mem[a]
  BY CellsRead DEF Cells
<1> QED
  BY <1>1, ViewInvariant, PTL

\* IoReadsBack: if address 0 is in the memory map, as in the default of MMAP, and a store
\* outside of the map writes one byte, every byte outside of the map reads back what the
\* program had there: from both sources in the SoC's memory, from the shadow in a device
\* register.  A byte in the middle of a wider store does not (see VIoRead.cfg).
THEOREM IoReadBack ==
    ASSUME 0 \in Mapped,
           \A i \in Insn, a \in Word \ Mapped : Covers(i, a) => i.adr = a
    PROVE  ViewSpec => []IoReadsBack
<1>1. Word \ Mapped \subseteq IoRegs
  BY DEF IoRegs
<1>2. ViewInv => IoReadsBack
  BY <1>1, CellsRead DEF Cells, IoReadsBack
<1> QED
  BY <1>2, ViewInvariant, PTL

-----------------------------------------------------------------------------
(* Runs and the trace under resets *)

\* A command to the monitor moves nothing that a point looks at, and leaves the loop
\* condition to be evaluated.
LEMMA MonitorStep ==
    ASSUME TypeOK, monitor_reset \/ monitor_set
    PROVE  /\ UNCHANGED <<cnt, trc, sig, bpt, wpt, hist>> /\ LoopCheck /\ ~Polling'
<1>1. UNCHANGED <<cnt, trc, sig, bpt, wpt, hist>> /\ LoopCheck
  BY DEF monitor_reset, monitor_set
<1>2. ~Polling'
  BY <1>1 DEF LoopCheck, Polling
<1> QED
  BY <1>1, <1>2

\* A step of the session is one of the run control, or a command to the monitor.
LEMMA ViewForms ==
    ASSUME [ViewNext]_viewVars
    PROVE  [Next]_vars \/ monitor_reset \/ monitor_set
  BY DEF ViewNext, Run, rsp_detach, viewVars

\* No run goes on from an instruction that hit a point, also when the poll finds a reset
\* of the CPU or a switch of the source of reads.
THEOREM ViewStopsAtPoints == ViewSpec => NeverRunsPastPoint
<1> DEFINE Stops == (mode \in {"contpoll", "backpoll"} /\ cnt # -1 /\ UNCHANGED <<bpt, wpt>> /\ Hit)
                       => mode' = "idle"
<1>1. ViewInit => HitSignalled
  BY DEF ViewInit, Init, HitSignalled, Polling
<1>2. ViewInv /\ ViewInv' /\ HitSignalled /\ [ViewNext]_viewVars => HitSignalled'
  <2> SUFFICES ASSUME ViewInv, ViewInv', HitSignalled, [ViewNext]_viewVars PROVE HitSignalled'
    OBVIOUS
  <2>1. CASE [Next]_vars
    BY <2>1, HitKept DEF ViewInv
  <2>2. CASE monitor_reset \/ monitor_set
    BY <2>2, MonitorStep DEF ViewInv, Core, HitSignalled
  <2> QED
    BY <2>1, <2>2, ViewForms
<1>3. ViewInv /\ HitSignalled /\ [ViewNext]_viewVars => [Stops]_vars
  <2> SUFFICES ASSUME ViewInv, HitSignalled, [ViewNext]_viewVars, vars' # vars PROVE Stops
    OBVIOUS
  <2>1. CASE [Next]_vars
    BY <2>1, PollKeepsSignal DEF HitSignalled, Polling
  <2>2. CASE monitor_reset \/ monitor_set
    BY <2>2, MonitorStep DEF ViewInv, Core, HitSignalled, Polling, LoopCheck
  <2> QED
    BY <2>1, <2>2, ViewForms
<1> QED
  BY <1>1, <1>2, <1>3, ViewInvariant, PTL DEF ViewSpec, NeverRunsPastPoint

\* A reset of the CPU does not rewrite the trace either: what was recorded before it stays,
\* and what is recorded after it is appended.
THEOREM ViewAppendOnly == ViewSpec => HistoryAppendOnly
<1>1. ViewInv /\ [ViewNext]_viewVars => [Grows]_vars
  <2> SUFFICES ASSUME ViewInv, [ViewNext]_viewVars PROVE Grows
    OBVIOUS
  <2>1. TypeOK
    BY DEF ViewInv, Core
  <2>2. CASE [Next]_vars
    BY <2>1, <2>2, StepGrows
  <2>3. CASE monitor_reset \/ monitor_set
    BY <2>1, <2>3, MonitorStep DEF Grows
  <2> QED
    BY <2>2, <2>3, ViewForms
<1> QED
  BY <1>1, ViewInvariant, PTL DEF ViewSpec, HistoryAppendOnly, Grows

\* A reset of the CPU in the poll does not prolong a reverse run or a replay.
THEOREM ViewRunsEnd == ViewSpec => RunsAdvance
<1>1. ViewInv /\ [ViewNext]_viewVars => [Advances]_vars
  <2> SUFFICES ASSUME ViewInv, [ViewNext]_viewVars, vars' # vars PROVE Advances
    OBVIOUS
  <2>1. TypeOK
    BY DEF ViewInv, Core
  <2>2. CASE [Next]_vars
    BY <2>1, <2>2, StepAdvances
  <2>3. CASE monitor_reset \/ monitor_set
    <3>1. UNCHANGED <<cnt, trc, sig>> /\ LoopCheck /\ mode \in {"idle", "contpoll", "backpoll"}
      BY <2>1, <2>3, MonitorStep DEF monitor_reset, monitor_set, Dispatching
    <3>2. CASE mode = "idle"
      BY <3>2 DEF Advances
    <3>3. CASE Polling
      BY <2>1, <3>1, <3>3, PollAdvances
    <3> QED
      BY <3>1, <3>2, <3>3 DEF Polling
  <2> QED
    BY <2>2, <2>3, ViewForms
<1> QED
  BY <1>1, ViewInvariant, PTL DEF ViewSpec, RunsAdvance, Advances
=============================================================================
