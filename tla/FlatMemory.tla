----------------------------- MODULE FlatMemory -----------------------------
(***************************************************************************)
(* What a memory promises: one byte per address; a read returns the bytes  *)
(* that were written last, a write changes those it names.                 *)
(***************************************************************************)
EXTENDS Naturals, Sequences

CONSTANTS Mapped, Value, Accesses

VARIABLES
    mem,   \* the bytes at the mapped addresses
    out    \* the bytes of the last read

vars == <<mem, out>>

Init == mem = [a \in Mapped |-> 0] /\ out = <<>>

Read(access) ==
    /\ Len(out') = access.size
    /\ \A k \in 1 .. access.size :
          access.addr + k - 1 \in Mapped => out'[k] = mem[access.addr + k - 1]
    /\ UNCHANGED mem

\* What lies outside of the memory is I/O, and no part of it.
Write(access, data) ==
    /\ mem' = [a \in Mapped |-> IF a - access.addr \in 0 .. access.size - 1
                                THEN data[a - access.addr + 1] ELSE mem[a]]
    /\ UNCHANGED out

Next ==
    \E access \in Accesses :
        Read(access) \/ \E data \in [1 .. access.size -> Value] : Write(access, data)

Spec == Init /\ [][Next]_vars
=============================================================================
