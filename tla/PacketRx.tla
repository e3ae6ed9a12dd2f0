------------------------------ MODULE PacketRx ------------------------------
(***************************************************************************)
(* Packet::rx of src/src/rsp/Packet.cpp, byte by byte, over a connection   *)
(* that may split what is sent at any place.  Each recv goes behind the    *)
(* bytes received so far.  m_buffer is a member and keeps the bytes of     *)
(* earlier packets.                                                        *)
(***************************************************************************)
EXTENDS Naturals, Sequences

CONSTANTS
    Length,   \* the lengths of the data of the packets, in order
    Size      \* size of m_buffer

ASSUME SizeAssumption ==
    /\ Length \in Seq(Nat \ {0}) /\ Size \in Nat
    /\ \A p \in 1 .. Len(Length) : Length[p] + 4 <= Size

VARIABLES
    sent, got,  \* as in PacketStream
    net,        \* bytes on their way
    m_buffer,   \* the receive buffer
    size        \* number of bytes the call has received

vars == <<sent, got, net, m_buffer, size>>

Stream == INSTANCE PacketStream

Zero == [pkt |-> 0, pos |-> 0]

Init == Stream!Init /\ net = <<>> /\ m_buffer = [k \in 1 .. Size |-> Zero] /\ size = 0

Send ==
    /\ Stream!Send
    /\ net' = Stream!Bytes(sent')
    /\ UNCHANGED <<m_buffer, size>>

Least(a, b) == IF a < b THEN a ELSE b

\* Variant (mutant): the buffer is filled from its start at every recv.
FilledFromStart(n) == [k \in 1 .. Size |-> IF k <= n THEN net[k] ELSE m_buffer[k]]

\* recv of n bytes behind the size bytes received before.
Filled(n) == [k \in 1 .. Size |-> IF k - size \in 1 .. n THEN net[k - size] ELSE m_buffer[k]]

\* m_buffer[size-3] is "#".  With fewer than three bytes the index falls on
\* the members ACK and NACK in front of m_buffer, which hold "+" and "-".
Complete(b, len) == len >= 3 /\ b[len - 2] # Zero /\ Stream!IsHash(b[len - 2])

rx ==
    /\ \E n \in 1 .. Least(Len(net), Size - size) :
          LET b == Filled(n)
          IN  /\ net' = SubSeq(net, n + 1, Len(net))
              /\ m_buffer' = b
              /\ IF Complete(b, size + n)
                 THEN /\ got' = Append(got, SubSeq(b, 2, size + n - 3))
                      /\ size' = 0
                 ELSE /\ size' = size + n
                      /\ UNCHANGED got
    /\ UNCHANGED sent

Next == Send \/ rx

Spec == Init /\ [][Next]_vars /\ WF_vars(rx)

\* However the bytes of a packet are split, and whatever earlier packets left
\* in m_buffer, each packet is delivered, once, unchanged and in order.
ImplementsStream == Stream!Spec
=============================================================================
