--------------------------- MODULE MCHdldbShadow ---------------------------
(* Instances of HdldbShadow for TLC: address maps and accesses.             *)
EXTENDS HdldbShadow

\* As in hdldb.hpp: one block for the memory of the core, I/O behind it.
OneBlock  == <<[base |-> 4, size |-> 3]>>
TwoBlocks == <<[base |-> 4, size |-> 2], [base |-> 8, size |-> 2]>>

Inside == {[addr |-> a, size |-> n] : a \in 4 .. 6, n \in 1 .. 2} \ {[addr |-> 6, size |-> 2]}
WithIo == {[addr |-> 5, size |-> 1], [addr |-> 8, size |-> 1]}
InBoth == {[addr |-> 4, size |-> 1], [addr |-> 8, size |-> 1]}
AtEnd  == {[addr |-> 6, size |-> 2]}
=============================================================================
