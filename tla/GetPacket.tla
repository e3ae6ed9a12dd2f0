----------------------------- MODULE GetPacket -----------------------------
(***************************************************************************)
(* rsp_get_packet of src/hdl/gdb_server_stub_pkg.sv, byte by byte, over a  *)
(* connection that may split what is sent at any place.                    *)
(*                                                                         *)
(* Each recv fills the start of the same buffer, and the whole buffer is   *)
(* appended to the string: after a second recv, with what the first one    *)
(* left behind.  The conversion to a string drops the zero bytes.          *)
(***************************************************************************)
EXTENDS Naturals, Sequences

CONSTANTS
    Length,   \* the lengths of the data of the packets, in order
    Size      \* size of the buffer

VARIABLES
    sent, got,  \* as in PacketStream
    net,        \* bytes on their way
    buffer,     \* the receive buffer of the call
    str         \* what the call has collected

vars == <<sent, got, net, buffer, str>>

Stream == INSTANCE PacketStream

Zero == [pkt |-> 0, pos |-> 0]
NewBuffer == [k \in 1 .. Size |-> Zero]

Init == Stream!Init /\ net = <<>> /\ buffer = NewBuffer /\ str = <<>>

Send ==
    /\ Stream!Send
    /\ net' = Stream!Bytes(sent')
    /\ UNCHANGED <<buffer, str>>

\* recv of n bytes, at least one, into the first n places of b.
Filled(b, n) == [k \in 1 .. Size |-> IF k <= n THEN net[k] ELSE b[k]]
AsString(b) == SelectSeq(b, LAMBDA x : x # Zero)

Complete(s) == Len(s) >= 3 /\ Stream!IsHash(s[Len(s) - 2])

rsp_get_packet ==
    /\ \E n \in 1 .. Size :
          /\ n <= Len(net)
          /\ net' = SubSeq(net, n + 1, Len(net))
          /\ LET b == Filled(buffer, n)
                 s == str \o AsString(b)
             IN  IF Complete(s)
                 THEN /\ got' = Append(got, SubSeq(s, 2, Len(s) - 3))
                      /\ buffer' = NewBuffer /\ str' = <<>>
                 ELSE /\ buffer' = b /\ str' = s
                      /\ UNCHANGED got
    /\ UNCHANGED sent

Next == Send \/ rsp_get_packet

Spec == Init /\ [][Next]_vars /\ WF_vars(rsp_get_packet)

\* README.adoc: TCP sockets are supported.  However the bytes of a packet are
\* split, what is delivered is the data of the packets sent, in order.
DeliversOnlyData == Stream!SafeSpec
=============================================================================
