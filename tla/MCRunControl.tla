---------------------------- MODULE MCRunControl ----------------------------
(* Instances of RunControl for TLC: the sets a configuration file cannot    *)
(* write down.                                                              *)
EXTENDS RunControl

\* Encodings: an ordinary instruction and EBREAK.
Nop == <<1>>
Brk == <<0>>
EbreakSet == {Brk}

Plain(pcn) == [pcn |-> pcn, rdt |-> Nop, rd |-> 0, val |-> 0, op |-> "alu", adr |-> 0, dat |-> <<>>]
Alu(pcn, rd, val) == [Plain(pcn) EXCEPT !.rd = rd, !.val = val]
Load(pcn, rd, val, adr) == [Alu(pcn, rd, val) EXCEPT !.op = "load", !.adr = adr]
Store(pcn, adr, dat) == [Plain(pcn) EXCEPT !.op = "store", !.adr = adr, !.dat = dat]
Break(pcn) == [Plain(pcn) EXCEPT !.rdt = Brk]

\* Data flow: register writes, and stores of one and two bytes that overlap,
\* inside the map (addresses 0 and 1) and outside of it (address 2).
DataInsn == {Alu(1, 1, 1), Alu(2, 1, 2), Store(2, 0, <<1, 2>>), Store(1, 1, <<1>>), Store(1, 2, <<1>>)}
DataBlobs == {[adr |-> 1, dat |-> <<2, 1>>]}
FewInsn == {Alu(1, 1, 1), Store(2, 0, <<1, 2>>)}

\* Control flow: points on code and data addresses.
PointInsn == {Plain(1), Plain(2), Break(1), Store(1, 1, <<1>>), Load(2, 0, 0, 1)}
RunPoints == {[ptype |-> "hwbreak", addr |-> 1], [ptype |-> "watch", addr |-> 1],
              [ptype |-> "awatch", addr |-> 1]}
SoftPoints == {[ptype |-> "swbreak", addr |-> 1]}

\* A register whose index is the number of SIGTRAP, then a breakpoint.
TrapInsn == {Alu(1, 5, 1), Break(1)}

ZeroGpr == [r \in GprIdx |-> 0]
ImageMem == [a \in Word |-> 1]
=============================================================================
