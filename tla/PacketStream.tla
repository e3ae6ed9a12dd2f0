---------------------------- MODULE PacketStream ----------------------------
(***************************************************************************)
(* What receiving a packet promises: the data of every packet the client   *)
(* sends is delivered to the dispatcher once, unchanged and in order.  The *)
(* client sends a packet when the one before has been delivered.           *)
(*                                                                         *)
(* A byte is named by its packet and its position in it.  A packet is "$", *)
(* the data, "#" and two digits of checksum.                               *)
(***************************************************************************)
EXTENDS Naturals, Sequences

CONSTANT Length   \* the lengths of the data of the packets, in order

Bytes(p) == [k \in 1 .. Length[p] + 4 |-> [pkt |-> p, pos |-> k]]
Data(p) == SubSeq(Bytes(p), 2, Length[p] + 1)
IsHash(b) == b.pos = Length[b.pkt] + 2

VARIABLES
    sent,  \* number of packets sent
    got    \* data delivered

Init == sent = 0 /\ got = <<>>

Send ==
    /\ sent = Len(got) /\ sent < Len(Length)
    /\ sent' = sent + 1
    /\ UNCHANGED got

Deliver ==
    /\ Len(got) < sent
    /\ got' = Append(got, Data(Len(got) + 1))
    /\ UNCHANGED sent

Next == Send \/ Deliver

SafeSpec == Init /\ [][Next]_<<sent, got>>
Spec == SafeSpec /\ WF_<<sent, got>>(Deliver)
=============================================================================
