---------------------------- MODULE MCDebugView ----------------------------
(* Instances of DebugView for TLC.                                          *)
EXTENDS DebugView

Plain(pcn) == [pcn |-> pcn, rdt |-> <<1>>, rd |-> 0, val |-> 0, op |-> "alu", adr |-> 0, dat |-> <<>>]
Alu(pcn, rd, val) == [Plain(pcn) EXCEPT !.rd = rd, !.val = val]
Store(pcn, adr, dat) == [Plain(pcn) EXCEPT !.op = "store", !.adr = adr, !.dat = dat]

\* Accesses of one byte, to memory in the map (addresses 0 and 1), to memory outside
\* of it (address 2) and to a device register (address 3).
ByteInsn == {Alu(1, 1, 1), Store(2, 0, <<2>>), Store(1, 2, <<1>>), Store(1, 3, <<2>>)}
\* A store of two bytes to device registers.
WideInsn == {Plain(1), Store(1, 2, <<1, 2>>)}

LoadBlobs == {[adr |-> 1, dat |-> <<2, 1, 1>>]}
NoEbreak == {}
ZeroGpr == [r \in GprIdx |-> 0]
ImageMem == [a \in Word |-> 1]
=============================================================================
