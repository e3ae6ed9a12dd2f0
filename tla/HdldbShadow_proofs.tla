------------------------ MODULE HdldbShadow_proofs ------------------------
(***************************************************************************)
(* Proofs about HdldbShadow: that nothing leaves the arrays and overwrites *)
(* the spans behind them, for every map, if each access lies in a block    *)
(* and a G is no longer than m_all; and, for a map of one block, as that   *)
(* of hdldb.hpp, that the recorder and the debugger share one flat memory. *)
(*                                                                         *)
(* What a loop over the blocks computes is proved by the smallest number   *)
(* of blocks for which it would be wrong (lemma Least of LeastNumber).     *)
(***************************************************************************)
EXTENDS HdldbShadow, LeastNumber, SequenceTheorems

-----------------------------------------------------------------------------
(* The address map *)

\* The blocks are numbered from 1, and have a base and a size.
LEMMA BlockType ==
    /\ Len(Blocks) \in Nat /\ DOMAIN Blocks = 1 .. Len(Blocks)
    /\ \A b \in 1 .. Len(Blocks) : Blocks[b].base \in Nat /\ Blocks[b].size \in Nat \ {0}
<1>1. Blocks \in Seq([base : Nat, size : Nat \ {0}])
  BY ShadowAssumption
<1>2. Len(Blocks) \in Nat /\ DOMAIN Blocks = 1 .. Len(Blocks)
  BY <1>1
<1>3. ASSUME NEW b \in 1 .. Len(Blocks)
      PROVE  Blocks[b] \in [base : Nat, size : Nat \ {0}]
  <2> DEFINE S == [base : Nat, size : Nat \ {0}]
  <2>1. Blocks \in Seq(S)
    BY <1>1
  <2> HIDE DEF S
  <2>2. Blocks[b] \in S
    BY <2>1
  <2> QED
    BY <2>2 DEF S
<1> QED
  BY <1>2, <1>3

\* The offset of an address is a number, for every map; if a block has the address it
\* is the offset in such a block.
LEMMA OffsetIn ==
    ASSUME NEW addr \in Nat
    PROVE  /\ offset(addr) \in Nat
           /\ \A b \in DOMAIN Blocks : Holds(b, addr) =>
                 \E c \in DOMAIN Blocks : Holds(c, addr) /\ offset(addr) = addr - Blocks[c].base
<1> DEFINE hits == {b \in DOMAIN Blocks : Holds(b, addr)}
<1>1. CASE hits = {}
  BY <1>1 DEF offset
<1>2. CASE hits # {}
  <2> DEFINE first == CHOOSE b \in hits : \A c \in hits : b <= c
  <2>1. hits \subseteq Nat
    BY BlockType
  <2>2. \E b \in hits : \A c \in hits : b <= c
    <3> HIDE DEF hits
    <3> QED
      BY <1>2, <2>1, Least
  <2>3. first \in hits
    BY <2>2
  <2>4. offset(addr) = addr - Blocks[first].base
    BY <1>2 DEF offset
  <2> HIDE DEF first
  <2> QED
    BY <2>3, <2>4, BlockType DEF Holds
<1> QED
  BY <1>1, <1>2

\* What the loop of addressBlockSize adds up in its first n rounds.
Adds(size, n) ==
    size = [k \in 0 .. n |-> IF k = 0 THEN 0 ELSE size[k - 1] + Blocks[k].size]

\* The loop computes something, for every number of blocks.
LEMMA SumExists ==
    ASSUME NEW n \in 0 .. Len(Blocks)
    PROVE  \E size \in [0 .. n -> Nat] : Adds(size, n)
<1> DEFINE Wrong == {m \in 0 .. Len(Blocks) : ~ \E size \in [0 .. m -> Nat] : Adds(size, m)}
<1> SUFFICES ASSUME Wrong # {} PROVE FALSE
  OBVIOUS
<1>1. Wrong \subseteq Nat
  BY BlockType
<1>2. PICK m \in Wrong : \A k \in Wrong : m <= k
  <2> HIDE DEF Wrong
  <2> QED
    BY <1>1, Least
<1>3. m \in 0 .. Len(Blocks) /\ ~ \E size \in [0 .. m -> Nat] : Adds(size, m)
  OBVIOUS
<1>4. m # 0
  <2> SUFFICES ASSUME m = 0 PROVE FALSE
    OBVIOUS
  <2> DEFINE none == [k \in 0 .. 0 |-> 0]
  <2>1. none \in [0 .. 0 -> Nat] /\ Adds(none, 0)
    BY DEF Adds
  <2> QED
    BY <1>3, <2>1
<1>5. m - 1 \in 0 .. Len(Blocks) /\ m - 1 \notin Wrong
  <2>1. m \in Nat /\ m - 1 \in 0 .. Len(Blocks)
    BY <1>3, <1>4, BlockType
  <2> HIDE DEF Wrong
  <2> QED
    BY <1>2, <2>1
<1>6. PICK old \in [0 .. m - 1 -> Nat] : Adds(old, m - 1)
  BY <1>5
<1> DEFINE new == [k \in 0 .. m |-> IF k = m THEN old[m - 1] + Blocks[m].size ELSE old[k]]
<1>7. m \in Nat \ {0} /\ Blocks[m].size \in Nat /\ old[m - 1] \in Nat
  BY <1>3, <1>4, <1>6, BlockType
<1>8. new \in [0 .. m -> Nat]
  BY <1>6, <1>7
<1>9. ASSUME NEW k \in 0 .. m
      PROVE  new[k] = IF k = 0 THEN 0 ELSE new[k - 1] + Blocks[k].size
  <2>1. CASE k = m
    BY <1>7, <2>1
  <2>2. CASE k # m
    <3>1. k \in 0 .. m - 1 /\ new[k] = old[k]
      BY <1>7, <2>2
    <3>2. old[k] = IF k = 0 THEN 0 ELSE old[k - 1] + Blocks[k].size
      BY <1>6, <3>1 DEF Adds
    <3>3. k # 0 => k - 1 \in 0 .. m /\ new[k - 1] = old[k - 1]
      BY <1>7, <3>1
    <3> QED
      BY <3>1, <3>2, <3>3
  <2> QED
    BY <2>1, <2>2
<1>10. Adds(new, m)
  <2> HIDE DEF new
  <2>1. new = [k \in 0 .. m |-> IF k = 0 THEN 0 ELSE new[k - 1] + Blocks[k].size]
    BY <1>8, <1>9
  <2> QED
    BY <2>1 DEF Adds
<1> QED
  BY <1>3, <1>8, <1>10

\* The array has room for each block, whatever the map.
LEMMA RoomForBlock ==
    /\ addressBlockSize \in Nat
    /\ \A b \in DOMAIN Blocks : Blocks[b].size <= addressBlockSize
<1> DEFINE n    == Len(Blocks)
           size == CHOOSE f : Adds(f, n)
<1>1. n \in 0 .. Len(Blocks) /\ n \in Nat
  BY BlockType
<1>2. addressBlockSize = size[n]
  BY DEF addressBlockSize, Adds
<1>3. Adds(size, n)
  BY <1>1, SumExists
<1> HIDE DEF size
<1> DEFINE Wrong == {m \in 0 .. n : ~(/\ size[m] \in Nat
                                      /\ \A b \in 1 .. m : Blocks[b].size <= size[m])}
<1>4. Wrong = {}
  <2> SUFFICES ASSUME Wrong # {} PROVE FALSE
    OBVIOUS
  <2>1. Wrong \subseteq Nat
    BY <1>1
  <2>2. PICK m \in Wrong : \A k \in Wrong : m <= k
    <3> HIDE DEF Wrong
    <3> QED
      BY <2>1, Least
  <2>3. m \in 0 .. n /\ size[m] = IF m = 0 THEN 0 ELSE size[m - 1] + Blocks[m].size
    BY <1>3 DEF Adds
  <2>4. m # 0
    BY <2>2, <2>3
  <2>5. m - 1 \in 0 .. n /\ m - 1 \notin Wrong
    BY <1>1, <2>1, <2>2, <2>3, <2>4
  <2>6. /\ size[m - 1] \in Nat
        /\ \A b \in 1 .. m - 1 : Blocks[b].size <= size[m - 1]
    BY <2>5
  <2>7. m \in 1 .. n /\ \A b \in 1 .. m : Blocks[b].size \in Nat
    BY <1>1, <2>3, <2>4, BlockType
  <2>8. size[m] \in Nat /\ \A b \in 1 .. m : Blocks[b].size <= size[m]
    BY <1>1, <2>3, <2>6, <2>7
  <2> QED
    BY <2>2, <2>8
<1> QED
  BY <1>1, <1>2, <1>4, BlockType

-----------------------------------------------------------------------------
(* Nothing leaves the arrays *)

\* What the accesses are: an address and a size that is not 0.
LEMMA AccessType ==
    ASSUME NEW access \in Accesses
    PROVE  access.addr \in Nat /\ access.size \in Nat \ {0} /\ offset(access.addr) \in Nat
<1>1. access \in [addr : Nat, size : Nat \ {0}]
  BY ShadowAssumption
<1> QED
  BY <1>1, OffsetIn

\* Bytes with numbers 1 .. n are a sequence.
LEMMA BytesAreSeq ==
    ASSUME NEW S, NEW n \in Nat, NEW f \in [1 .. n -> S]
    PROVE  f \in Seq(S) /\ Len(f) = n
<1>1. f \in Seq(S)
  BY SeqDef
<1> QED
  BY <1>1

\* A packet's data become zeros, one for each byte.
LEMMA Zeroed ==
    ASSUME NEW n \in Nat, NEW data \in Data(n)
    PROVE  hex2bin(data) \in Data(n)
BY ShadowAssumption DEF Data, hex2bin

\* Each access begins in a block and ends in every block that it begins in.
Inside ==
    \A access \in Accesses :
        /\ \E b \in DOMAIN Blocks : Holds(b, access.addr)
        /\ \A b \in DOMAIN Blocks : Holds(b, access.addr) =>
              access.addr + access.size <= Blocks[b].base + Blocks[b].size

\* What the clients do: they know the memory and the registers.
Fits == Inside /\ Longest <= GPRN + 1

\* The places of such an access lie in m_buf, in which each block has room.
LEMMA PlacesInside ==
    ASSUME Inside, NEW access \in Accesses
    PROVE  Places(access) \subseteq Buf
<1>1. access.addr \in Nat /\ access.size \in Nat \ {0} /\ offset(access.addr) \in Nat
  BY AccessType
<1>2. PICK b \in DOMAIN Blocks :
          Holds(b, access.addr) /\ offset(access.addr) = access.addr - Blocks[b].base
  BY <1>1, OffsetIn DEF Inside
<1>3. Blocks[b].base \in Nat /\ Blocks[b].size \in Nat
  BY BlockType
<1>4. access.addr + access.size <= Blocks[b].base + Blocks[b].size
  BY <1>2 DEF Inside
<1>5. Blocks[b].size <= addressBlockSize /\ addressBlockSize \in Nat
  BY RoomForBlock
<1>6. offset(access.addr) + access.size <= addressBlockSize
  BY <1>1, <1>2, <1>3, <1>4, <1>5
<1> QED
  BY <1>1, <1>5, <1>6 DEF Places, Buf

\* The inductive invariant: the spans of both objects point into main's arrays, through
\* which each write goes.
Kept == ~overrun /\ span = [o \in Object |-> "main"]

\* A write into the array changes m_buf of main alone.
LEMMA WriteKept ==
    ASSUME Fits, Kept, NEW o \in Object, NEW access \in Accesses, NEW data,
           write(o, access, data)
    PROVE  /\ span' = span
           /\ buf' = [buf EXCEPT !["main"] = [p \in Buf |->
                        IF p \in Places(access) THEN data[p - offset(access.addr) + 1] ELSE @[p]]]
<1>1. span[o] = "main" /\ span[o] # Lost
  BY DEF Kept, Lost
<1>2. Places(access) \subseteq Buf
  BY PlacesInside DEF Fits
<1> QED
  BY <1>1, <1>2 DEF write

\* No access is noted.
LEMMA NoteKept ==
    ASSUME Fits, Kept, NEW access \in Accesses, Note(access)
    PROVE  ~overrun'
BY PlacesInside DEF Note, Kept, Fits

\* No step, of the recorder or of the debugger, leaves the arrays.
LEMMA NextKept ==
    ASSUME Fits, Kept, [Next]_vars
    PROVE  Kept'
<1>a. "main" \in Object /\ "copy" \in Object
  BY DEF Object
<1>1. CASE Protocol
  <2>1. [span EXCEPT !["copy"] = span["main"]] = span
    BY <1>a DEF Kept
  <2> QED
    BY <1>1, <2>1 DEF Protocol, Kept
<1>2. ASSUME NEW access \in Accesses, sysRead(access) \/ mem_read(access) PROVE Kept'
  BY <1>2, NoteKept DEF sysRead, mem_read, Kept
<1>3. ASSUME NEW access \in Accesses, NEW data \in Data(access.size),
             sysWrite(access, data) \/ mem_write(access, data)
      PROVE  Kept'
  <2>1. Note(access) /\ span' = span
    BY <1>3, <1>a, WriteKept DEF sysWrite, mem_write
  <2> QED
    BY <2>1, NoteKept DEF Kept
<1>4. ASSUME NEW o \in Object, NEW r \in Regs \ {GPRN},
             readGpr(o, r) \/ \E value \in Value : writeGpr(o, r, value)
      PROVE  Kept'
  BY <1>4 DEF readGpr, writeGpr, Kept
<1>5. ASSUME NEW size \in 0 .. Longest, NEW data \in Data(size), reg_writeall(data)
      PROVE  Kept'
  <2>1. size \in Nat /\ size <= GPRN + 1
    BY ShadowAssumption DEF Fits
  <2>2. Len(hex2bin(data)) = size
    BY <2>1, Zeroed, BytesAreSeq DEF Data
  <2>3. span' = span /\ ~overrun'
    <3>1. Len(hex2bin(data)) <= GPRN + 1 /\ ~(Len(hex2bin(data)) > GPRN + 1)
      BY <2>1, <2>2, ShadowAssumption
    <3>2. span' = span
      BY <1>5, <3>1 DEF reg_writeall, writeAll
    <3>3. overrun' = (overrun \/ Len(hex2bin(data)) > GPRN + 1)
      BY <1>5 DEF reg_writeall, writeAll
    <3> QED
      BY <3>1, <3>2, <3>3, Zenon DEF Kept
  <2> QED
    BY <2>3 DEF Kept
<1>6. CASE reg_readall \/ reg_readone \/ reg_writeone \/ UNCHANGED vars
  BY <1>6 DEF reg_readall, reg_readone, reg_writeone, vars, Kept
<1> QED
  BY <1>1, <1>2, <1>3, <1>4, <1>5, <1>6 DEF Next, Recorder, Debugger

\* For every map, however many blocks it has and however they overlap: accesses inside
\* of a block never leave m_buf, and a G of the registers that there are never leaves
\* m_all, although nothing compares with the sizes of the arrays; the spans behind them
\* are never overwritten.  m_buf is as long as all blocks together, so that the offset in
\* a block is one in the array.
THEOREM NeverOverruns ==
    ASSUME Fits
    PROVE  Spec => []NoOverrun
<1>1. Init => Kept
  BY DEF Init, Kept
<1>2. Kept /\ [Next]_vars => Kept'
  BY NextKept
<1>3. Kept => NoOverrun
  BY DEF Kept, NoOverrun, Lost
<1> QED
  BY <1>1, <1>2, <1>3, PTL DEF Spec

-----------------------------------------------------------------------------
(* One flat memory *)

\* The address map of hdldb.hpp has one block; dut_memory is FALSE as the allocator
\* returns zeros.
OneBlock == Len(Blocks) = 1 /\ Uninit \subseteq {FALSE} /\ Fits

base == Blocks[1].base

\* With one block, the mapped addresses and the places of m_buf are the same, moved
\* by the base.
LEMMA Layout ==
    ASSUME OneBlock
    PROVE  /\ base \in Nat /\ addressBlockSize \in Nat
           /\ addressBlockSize = Blocks[1].size
           /\ Mapped = base .. base + addressBlockSize - 1
           /\ \A a \in Mapped : a \in Nat /\ offset(a) = a - base /\ offset(a) \in Buf
<1>1. DOMAIN Blocks = {1} /\ base \in Nat /\ Blocks[1].size \in Nat
  BY BlockType DEF OneBlock, base
<1>2. addressBlockSize = Blocks[1].size
  <2> DEFINE size == CHOOSE f : Adds(f, 1)
  <2>1. addressBlockSize = size[1]
    BY DEF addressBlockSize, Adds, OneBlock
  <2>2. Adds(size, 1)
    BY BlockType, SumExists DEF OneBlock
  <2> HIDE DEF size
  <2>3. size[0] = 0 /\ size[1] = size[0] + Blocks[1].size
    BY <2>2 DEF Adds
  <2> QED
    BY <1>1, <2>1, <2>3
<1>3. Mapped = base .. base + addressBlockSize - 1
  BY <1>1, <1>2 DEF Mapped, base
<1>4. ASSUME NEW a \in Mapped PROVE a \in Nat /\ offset(a) = a - base /\ offset(a) \in Buf
  <2>1. a \in Nat /\ Holds(1, a)
    BY <1>1, <1>2, <1>3, <1>4 DEF Holds, base
  <2>2. offset(a) = a - base
    BY <1>1, <2>1, OffsetIn DEF base
  <2> QED
    BY <1>1, <1>2, <1>3, <2>1, <2>2 DEF Buf
<1> QED
  BY <1>1, <1>2, <1>3, <1>4

\* The refinement mapping: the memory that the bytes of main's shadow stand for.
Mem == [a \in Mapped |-> buf["main"][offset(a)]]

\* Every byte of an access is mapped, and the place of its k-th byte is that of its address.
LEMMA AccessPlaces ==
    ASSUME OneBlock, NEW access \in Accesses
    PROVE  /\ access.addr \in Mapped /\ access.size \in Nat \ {0}
           /\ \A k \in 1 .. access.size :
                 /\ access.addr + k - 1 \in Mapped
                 /\ offset(access.addr + k - 1) = offset(access.addr) + k - 1
           /\ \A a \in Mapped :
                 /\ offset(a) \in Places(access) <=> a - access.addr \in 0 .. access.size - 1
                 /\ offset(a) - offset(access.addr) = a - access.addr
<1>1. access.addr \in Nat /\ access.size \in Nat \ {0}
  BY AccessType
<1>2. DOMAIN Blocks = {1}
  BY BlockType DEF OneBlock
<1>3. /\ access.addr >= base /\ access.addr < base + addressBlockSize
      /\ access.addr + access.size <= base + addressBlockSize
  BY <1>2, Layout DEF OneBlock, Fits, Inside, Holds, base
<1>4. access.addr \in Mapped
  BY <1>1, <1>3, Layout
<1>5. offset(access.addr) = access.addr - base
  BY <1>4, Layout
<1>6. ASSUME NEW k \in 1 .. access.size
      PROVE  /\ access.addr + k - 1 \in Mapped
             /\ offset(access.addr + k - 1) = offset(access.addr) + k - 1
  <2>1. access.addr + k - 1 \in Mapped
    BY <1>1, <1>3, Layout
  <2>2. \A a \in Mapped : offset(a) = a - base
    BY Layout
  <2>3. offset(access.addr + k - 1) = (access.addr + k - 1) - base
    BY <2>1, <2>2
  <2>4. base \in Nat
    BY Layout
  <2> QED
    BY <1>1, <1>5, <2>1, <2>3, <2>4
<1>7. ASSUME NEW a \in Mapped
      PROVE  /\ offset(a) \in Places(access) <=> a - access.addr \in 0 .. access.size - 1
             /\ offset(a) - offset(access.addr) = a - access.addr
  <2>1. offset(a) = a - base /\ a \in Nat /\ base \in Nat
    BY Layout
  <2>2. offset(a) - offset(access.addr) = a - access.addr
    BY <1>1, <1>5, <2>1
  <2>3. \A p : p \in Places(access) <=>
                 p \in Int /\ access.addr - base <= p /\ p <= access.addr - base + access.size - 1
    BY <1>1, <1>5, <2>1 DEF Places
  <2> QED
    BY <1>1, <2>1, <2>2, <2>3
<1> QED
  BY <1>1, <1>4, <1>6, <1>7

\* Main's array has a byte at each of its places, and is read for ~dut_memory.
Array == /\ DOMAIN buf = Object /\ DOMAIN buf["main"] = Buf
         /\ ~dut_memory

\* A read of either object returns the bytes of the flat memory.
LEMMA ReadFlat ==
    ASSUME OneBlock, Kept, NEW o \in Object, NEW access \in Accesses,
           out' = readBytes(o, access), UNCHANGED buf
    PROVE  Flat!Read(access)
<1>0. span[o] = "main" /\ span[o] # Lost
  BY DEF Kept, Lost
<1>1. Len(out') = access.size
  <2>1. access.size \in Nat
    BY AccessType
  <2>2. \E S : readBytes(o, access) \in [1 .. access.size -> S]
    <3> DEFINE S == {readBytes(o, access)[k] : k \in 1 .. access.size}
    <3>1. readBytes(o, access) \in [1 .. access.size -> S]
      BY DEF readBytes
    <3> QED
      BY <3>1
  <2> QED
    BY <2>1, <2>2, BytesAreSeq
<1>2. ASSUME NEW k \in 1 .. access.size
      PROVE  out'[k] = Mem[access.addr + k - 1]
  <2>1. /\ access.addr + k - 1 \in Mapped
        /\ offset(access.addr + k - 1) = offset(access.addr) + k - 1
    BY AccessPlaces
  <2>2. offset(access.addr) + k - 1 \in Buf
    BY <2>1, Layout
  <2>3. out'[k] = buf["main"][offset(access.addr) + k - 1]
    BY <1>0, <2>2 DEF readBytes
  <2> QED
    BY <2>1, <2>3 DEF Mem
<1>3. Mem' = Mem
  BY DEF Mem
<1> QED
  BY <1>1, <1>2, <1>3 DEF Flat!Read, Mem

\* A write through either object changes the bytes of the flat memory that it names.
LEMMA WriteFlat ==
    ASSUME OneBlock, Kept, Array, NEW o \in Object, NEW access \in Accesses,
           NEW data \in Data(access.size), write(o, access, data), UNCHANGED out
    PROVE  Flat!Write(access, data)
<1>0. buf' = [buf EXCEPT !["main"] = [p \in Buf |->
                 IF p \in Places(access) THEN data[p - offset(access.addr) + 1] ELSE @[p]]]
  BY WriteKept DEF OneBlock
<1>1. ASSUME NEW a \in Mapped
      PROVE  buf'["main"][offset(a)] =
                IF a - access.addr \in 0 .. access.size - 1
                THEN data[a - access.addr + 1] ELSE Mem[a]
  <2>1. offset(a) \in Buf
    BY Layout
  <2>2. "main" \in DOMAIN buf
    BY DEF Array, Object
  <2>3. buf'["main"][offset(a)] = IF offset(a) \in Places(access)
                                  THEN data[offset(a) - offset(access.addr) + 1]
                                  ELSE buf["main"][offset(a)]
    BY <1>0, <2>1, <2>2
  <2>4. /\ offset(a) \in Places(access) <=> a - access.addr \in 0 .. access.size - 1
        /\ offset(a) - offset(access.addr) = a - access.addr
    BY AccessPlaces
  <2> QED
    BY <2>3, <2>4 DEF Mem
<1>2. Mem' = [a \in Mapped |-> IF a - access.addr \in 0 .. access.size - 1
                               THEN data[a - access.addr + 1] ELSE Mem[a]]
  BY <1>1 DEF Mem
<1> QED
  BY <1>2 DEF Flat!Write, Mem

\* A step keeps main's array, and dut_memory, which no command sets, stays FALSE.
LEMMA NextArray ==
    ASSUME OneBlock, Kept, Array, [Next]_vars
    PROVE  Array'
<1>a. "main" \in Object /\ "copy" \in Object
  BY DEF Object
<1>1. ~dut_memory'
  BY DEF Array, Next, Recorder, Debugger, Protocol, sysRead, sysWrite, readGpr, writeGpr,
         mem_read, mem_write, reg_readall, reg_writeall, reg_readone, reg_writeone, vars
<1>2. CASE UNCHANGED buf
  BY <1>1, <1>2 DEF Array
<1>3. CASE Protocol
  BY <1>1, <1>3, <1>a DEF Protocol, Array
<1>4. ASSUME NEW access \in Accesses, NEW data \in Data(access.size),
             sysWrite(access, data) \/ mem_write(access, data)
      PROVE  Array'
  <2>0. PICK bytes : write("main", access, bytes) \/ write("copy", access, bytes)
    BY <1>4 DEF sysWrite, mem_write
  <2>1. PICK o \in Object : write(o, access, bytes)
    BY <2>0, <1>a
  <2>2. buf' = [buf EXCEPT !["main"] = [p \in Buf |->
                  IF p \in Places(access) THEN bytes[p - offset(access.addr) + 1] ELSE @[p]]]
    BY <2>1, WriteKept DEF OneBlock
  <2> QED
    BY <1>1, <1>a, <2>2 DEF Array
<1>5. ASSUME NEW o \in Object, NEW r \in Regs \ {GPRN}, NEW value \in Value,
             writeGpr(o, r, value)
      PROVE  UNCHANGED buf
  <2>1. span[o] # Lost
    BY DEF Kept, Lost
  <2> QED
    BY <1>5, <2>1 DEF writeGpr
<1>6. ASSUME \/ reg_readall \/ reg_readone \/ reg_writeone \/ UNCHANGED vars
             \/ \E size \in 0 .. Longest : \E data \in Data(size) : reg_writeall(data)
             \/ \E o \in Object, r \in Regs \ {GPRN} : readGpr(o, r)
             \/ \E access \in Accesses : sysRead(access) \/ mem_read(access)
      PROVE  UNCHANGED buf
  BY <1>6 DEF reg_readall, reg_readone, reg_writeone, reg_writeall, readGpr, sysRead, mem_read, vars
<1> QED
  BY <1>2, <1>3, <1>4, <1>5, <1>6 DEF Next, Recorder, Debugger

\* Every step is a read or a write of the flat memory, or leaves it alone.
LEMMA StepFlat ==
    ASSUME OneBlock, Kept, Array, [Next]_vars
    PROVE  [Flat!Next]_(Flat!vars)
<1>a. "main" \in Object /\ "copy" \in Object
  BY DEF Object
<1>1. CASE Protocol
  <2>1. buf'["main"] = buf["main"] /\ out' = out
    BY <1>1, <1>a DEF Protocol, Array
  <2>2. Mem' = Mem
    BY <2>1 DEF Mem
  <2> QED
    BY <2>1, <2>2 DEF Flat!vars, Mem
<1>2. ASSUME NEW access \in Accesses, sysRead(access) PROVE Flat!Next
  BY <1>2, <1>a, ReadFlat DEF sysRead, Flat!Next
<1>3. ASSUME NEW access \in Accesses, NEW data \in Data(access.size), sysWrite(access, data)
      PROVE  Flat!Next
  <2>1. Flat!Write(access, data)
    BY <1>3, <1>a, WriteFlat DEF sysWrite
  <2> QED
    BY <2>1 DEF Flat!Next, Data
<1>4. ASSUME NEW access \in Accesses, mem_read(access) PROVE Flat!Next
  BY <1>4, <1>a, ReadFlat DEF mem_read, Array, Flat!Next
<1>5. ASSUME NEW access \in Accesses, NEW data \in Data(access.size), mem_write(access, data)
      PROVE  Flat!Next
  <2>1. hex2bin(data) \in Data(access.size)
    BY AccessType, Zeroed
  <2>2. Flat!Write(access, hex2bin(data))
    BY <1>5, <1>a, <2>1, WriteFlat DEF mem_write
  <2> QED
    BY <2>1, <2>2 DEF Flat!Next, Data
<1>6. CASE UNCHANGED <<buf, out>>
  <2>1. Mem' = Mem
    BY <1>6 DEF Mem
  <2> QED
    BY <1>6, <2>1 DEF Flat!vars, Mem
<1>7. ASSUME NEW o \in Object, NEW r \in Regs \ {GPRN},
             readGpr(o, r) \/ \E value \in Value : writeGpr(o, r, value)
      PROVE  UNCHANGED <<buf, out>>
  <2>1. span[o] # Lost
    BY DEF Kept, Lost
  <2> QED
    BY <1>7, <2>1 DEF readGpr, writeGpr
<1>8. ASSUME \/ reg_readall \/ reg_readone \/ reg_writeone \/ UNCHANGED vars
             \/ \E size \in 0 .. Longest : \E data \in Data(size) : reg_writeall(data)
      PROVE  UNCHANGED <<buf, out>>
  BY <1>8 DEF reg_readall, reg_readone, reg_writeone, reg_writeall, vars
<1> QED
  BY <1>1, <1>2, <1>3, <1>4, <1>5, <1>6, <1>7, <1>8 DEF Next, Recorder, Debugger

\* With one block and accesses inside of it, of every size: the recorder on main's shadow
\* and the debugger on the copy access one flat memory, since the span of the copy
\* points into main's array and offset is one to one.
THEOREM FlatMemoryShared ==
    ASSUME OneBlock
    PROVE  Spec => MemoryIsFlat
<1>1. Init => Kept /\ Array /\ Flat!Init
  <2> SUFFICES ASSUME Init PROVE Kept /\ Array /\ Flat!Init
    OBVIOUS
  <2>1. Kept /\ Array
    BY DEF Init, Kept, Array, OneBlock, Zeros, Object
  <2>2. out = <<>>
    BY DEF Init
  <2>3. ASSUME NEW a \in Mapped PROVE buf["main"][offset(a)] = 0
    <3>1. offset(a) \in Buf
      BY Layout
    <3> QED
      BY <3>1 DEF Init, Zeros, Object
  <2> QED
    BY <2>1, <2>2, <2>3 DEF Flat!Init
<1>2. Kept /\ Array /\ [Next]_vars => Kept' /\ Array' /\ [Flat!Next]_(Flat!vars)
  BY NextKept, NextArray, StepFlat DEF OneBlock
<1> QED
  BY <1>1, <1>2, PTL DEF Spec, MemoryIsFlat, Flat!Spec

=============================================================================
