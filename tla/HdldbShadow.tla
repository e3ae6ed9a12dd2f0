----------------------------- MODULE HdldbShadow -----------------------------
(***************************************************************************)
(* The registers and memory of HDLDB: System and Core (src/src/shadow),    *)
(* RegistersRiscV, MemoryMap and AddressMap, with the handlers of          *)
(* src/src/rsp/Protocol.hpp that read and write them.                      *)
(*                                                                         *)
(* The program has two of these objects: main's shadow, and the copy that   *)
(* the constructor of Protocol makes of it, which the debugger accesses.   *)
(* Arrays are copied; the spans m_gpr and m_mem, which are copied as       *)
(* pointers, go on pointing into the arrays of main's shadow.  They lie     *)
(* behind the arrays: a write that is too long overwrites them.             *)
(*                                                                         *)
(* All calls of the public interface are actions: the handlers on the      *)
(* copy, and the calls with which a recorder will keep main's shadow up to *)
(* date, which the program does not make yet.  F, V and CSR registers have *)
(* length 0 in hdldb.hpp.                                                  *)
(***************************************************************************)
EXTENDS Integers, Sequences

CONSTANTS
    Blocks,    \* AMAP.mem: a sequence of blocks with base and size
    Accesses,  \* the accesses to memory: address and size
    GPRN,      \* lenGpr
    Longest,   \* the longest data of a G, in registers
    Value,     \* the values of a byte, and of a register
    Uninit     \* the values that m_state.dut_memory, which nothing
               \* initialises, may have: FALSE if the allocator returns zeros

ASSUME ShadowAssumption ==
    /\ Blocks \in Seq([base : Nat, size : Nat \ {0}])
    /\ Accesses \subseteq [addr : Nat, size : Nat \ {0}]
    /\ GPRN \in Nat \ {0} /\ Longest \in Nat /\ 0 \in Value /\ Value \subseteq Nat /\ Uninit \subseteq BOOLEAN

\* The size of m_buf: that of all blocks.
addressBlockSize ==
    LET size[n \in 0 .. Len(Blocks)] == IF n = 0 THEN 0 ELSE size[n - 1] + Blocks[n].size
    IN  size[Len(Blocks)]

Object == {"main", "copy"}
Regs == 0 .. GPRN             \* m_all: the GPRs, and a place for the PC
Buf  == 0 .. addressBlockSize - 1
Wild == -1                    \* a value that nobody has written there
Lost == "lost"                \* a span that was overwritten

VARIABLES
    all,         \* m_all of each object
    buf,         \* m_buf of each object
    span,        \* the object whose arrays m_gpr and m_mem of each object point
                 \* into, or Lost
    session,     \* Protocol, and with it the copy, has been constructed
    dut_memory,  \* m_state.dut_memory
    out,         \* the bytes of the last read of memory
    regs,        \* the values of the last read of registers
    overrun      \* history: memory behind the end of an array was read or written

vars == <<all, buf, span, session, dut_memory, out, regs, overrun>>

Zeros(set) == [k \in set |-> 0]

Init ==
    /\ all = [o \in Object |-> Zeros(Regs)]
    /\ buf = [o \in Object |-> Zeros(Buf)]
    /\ span = [o \in Object |-> "main"]
    /\ session = FALSE /\ dut_memory \in Uninit
    /\ out = <<>> /\ regs = <<>> /\ overrun = FALSE

Exists(o) == o = "main" \/ session

\* Undefined behaviour: what is written through a lost span may be anywhere.
Anywhere ==
    /\ all' \in [Object -> [Regs -> Value]]
    /\ buf' \in [Object -> [Buf -> Value]]

-----------------------------------------------------------------------------
(* MemoryMap *)

Holds(b, addr) == addr >= Blocks[b].base /\ addr < Blocks[b].base + Blocks[b].size

\* Variant (mutant): the base of the block is not subtracted.
offsetAbsolute(addr) == addr

\* The offset in the first block that has the address; 0 if there is none.
offset(addr) ==
    LET hits == {b \in DOMAIN Blocks : Holds(b, addr)}
    IN  IF hits = {} THEN 0
        ELSE addr - Blocks[CHOOSE b \in hits : \A c \in hits : b <= c].base

\* The places of m_mem that an access touches, which nothing limits.
Places(access) == offset(access.addr) .. offset(access.addr) + access.size - 1

Note(access) == overrun' = (overrun \/ ~(Places(access) \subseteq Buf))

readBytes(o, access) ==
    [k \in 1 .. access.size |->
        LET place == offset(access.addr) + k - 1
        IN  IF span[o] # Lost /\ place \in Buf THEN buf[span[o]][place] ELSE Wild]

\* What is written behind the end of m_buf overwrites m_mem, which follows it.
write(o, access, data) ==
    IF span[o] = Lost THEN Anywhere /\ UNCHANGED span
    ELSE /\ buf' = [buf EXCEPT ![span[o]] = [p \in Buf |->
                      IF p \in Places(access) THEN data[p - offset(access.addr) + 1] ELSE @[p]]]
         /\ span' = IF Places(access) \subseteq Buf THEN span
                    ELSE [span EXCEPT ![span[o]] = Lost]
         /\ UNCHANGED all

-----------------------------------------------------------------------------
(* RegistersRiscV *)

readAll(o) == [k \in 1 .. GPRN + 1 |-> all[o][k - 1]]

\* What is longer than m_all overwrites m_gpr and what follows it.
writeAll(o, data) ==
    /\ all' = [all EXCEPT ![o] = [r \in Regs |-> IF r < Len(data) THEN data[r + 1] ELSE @[r]]]
    /\ span' = IF Len(data) <= GPRN + 1 THEN span ELSE [span EXCEPT ![o] = Lost]
    /\ overrun' = (overrun \/ Len(data) > GPRN + 1)

gpr(o, r) == IF span[o] = Lost THEN Wild ELSE all[span[o]][r]

\* Writing returns the old value.
writeGpr(o, r, value) ==
    /\ Exists(o)
    /\ IF span[o] = Lost THEN Anywhere
       ELSE all' = [all EXCEPT ![span[o]][r] = value] /\ UNCHANGED buf
    /\ regs' = <<gpr(o, r)>>
    /\ UNCHANGED <<span, session, dut_memory, out, overrun>>

readGpr(o, r) ==
    /\ Exists(o)
    /\ regs' = <<gpr(o, r)>>
    /\ UNCHANGED <<all, buf, span, session, dut_memory, out, overrun>>

-----------------------------------------------------------------------------
(* System: calls of the program on main's shadow *)

sysRead(access) ==
    /\ out' = readBytes("main", access) /\ Note(access)
    /\ UNCHANGED <<all, buf, span, session, dut_memory, regs>>

sysWrite(access, data) ==
    /\ write("main", access, data) /\ Note(access)
    /\ UNCHANGED <<session, dut_memory, out, regs>>

\* Variant (mutant): the spans of the copy point into its own arrays.
ProtocolDeep ==
    /\ ~session /\ session' = TRUE
    /\ all' = [all EXCEPT !["copy"] = all["main"]]
    /\ buf' = [buf EXCEPT !["copy"] = buf["main"]]
    /\ span' = [span EXCEPT !["copy"] = "copy"]
    /\ UNCHANGED <<dut_memory, out, regs, overrun>>

\* The constructor of Protocol copies the arrays, and the pointers.
Protocol ==
    /\ ~session /\ session' = TRUE
    /\ all' = [all EXCEPT !["copy"] = all["main"]]
    /\ buf' = [buf EXCEPT !["copy"] = buf["main"]]
    /\ span' = [span EXCEPT !["copy"] = span["main"]]
    /\ UNCHANGED <<dut_memory, out, regs, overrun>>

-----------------------------------------------------------------------------
(* Protocol: handlers on the copy *)

\* The data of a packet: a byte of 0 for each pair of digits.
hex2bin(data) == [k \in DOMAIN data |-> 0]

\* The DUT's memory is a placeholder that returns nothing.
mem_read(access) ==
    /\ session
    /\ IF dut_memory THEN out' = <<>> /\ UNCHANGED overrun
                     ELSE out' = readBytes("copy", access) /\ Note(access)
    /\ UNCHANGED <<all, buf, span, session, dut_memory, regs>>

mem_write(access, data) ==
    /\ session
    /\ write("copy", access, hex2bin(data)) /\ Note(access)
    /\ UNCHANGED <<session, dut_memory, out, regs>>

reg_readall ==
    /\ session
    /\ regs' = readAll("copy")
    /\ UNCHANGED <<all, buf, span, session, dut_memory, out, overrun>>

reg_writeall(data) ==
    /\ session
    /\ writeAll("copy", hex2bin(data))
    /\ UNCHANGED <<buf, session, dut_memory, out, regs>>

\* Behind the PC there are no registers; the others end the program (HdldbSession).
reg_readone ==
    /\ session
    /\ regs' = <<>>
    /\ UNCHANGED <<all, buf, span, session, dut_memory, out, overrun>>

\* writeOne is empty, and so are pointInsert and pointRemove, which z and Z call.
\* The text of a monitor command is lost in hex2str: dut_memory is never set.
reg_writeone == session /\ UNCHANGED vars

-----------------------------------------------------------------------------
Data(size) == [1 .. size -> Value]

Recorder ==
    \/ Protocol
    \/ \E access \in Accesses :
          sysRead(access) \/ \E data \in Data(access.size) : sysWrite(access, data)
    \/ \E o \in Object, r \in Regs \ {GPRN} :
          readGpr(o, r) \/ \E value \in Value : writeGpr(o, r, value)

Debugger ==
    \/ \E access \in Accesses :
          mem_read(access) \/ \E data \in Data(access.size) : mem_write(access, data)
    \/ reg_readall \/ \E size \in 0 .. Longest : \E data \in Data(size) : reg_writeall(data)
    \/ reg_readone \/ reg_writeone

Next == Recorder \/ Debugger

Spec == Init /\ [][Next]_vars

-----------------------------------------------------------------------------
(* Properties *)

\* Accesses inside of a block stay inside of m_buf, and a G of the registers that there
\* are inside of m_all, although neither subspan nor copy looks at a size: the spans
\* behind the arrays stay as they are.
NoOverrun == ~overrun /\ \A o \in Object : span[o] # Lost

Mapped == UNION {Blocks[b].base .. Blocks[b].base + Blocks[b].size - 1 : b \in DOMAIN Blocks}

\* The recorder, on main's shadow, and the debugger, on its copy, access one flat
\* memory: offset is one to one, the spans of the copy point into main's array,
\* and what one of them writes is what the other one reads.
Flat == INSTANCE FlatMemory WITH
    mem <- [a \in Mapped |-> buf["main"][offset(a)]]

MemoryIsFlat == Flat!Spec

\* The GPRs that g shows are those that the recorder has written.
RegistersShown == session => \A r \in Regs \ {GPRN} : all["copy"][r] = all["main"][r]
=============================================================================
