--------------------------- MODULE PacketRx_proofs ---------------------------
(***************************************************************************)
(* Packet::rx delivers every packet once, unchanged and in order, for any  *)
(* number and lengths of packets that fit into the buffer, wherever the    *)
(* connection splits them and whatever earlier packets left in m_buffer.   *)
(***************************************************************************)
EXTENDS PacketRx, SequenceTheorems, TLAPS

Byte == [pkt : 0 .. Len(Length), pos : Nat]

TypeOK ==
    /\ sent \in 0 .. Len(Length) /\ got \in Seq(Seq(Byte))
    /\ net \in Seq(Byte) /\ m_buffer \in [1 .. Size -> Byte] /\ size \in Nat

\* The bytes received and the bytes on their way are together the packet sent last,
\* until it is delivered.
Halves ==
    \/ sent = Len(got) /\ net = <<>> /\ size = 0
    \/ /\ sent = Len(got) + 1
       /\ size + Len(net) = Length[sent] + 4 /\ Len(net) > 0
       /\ \A k \in 1 .. size : m_buffer[k] = [pkt |-> sent, pos |-> k]
       /\ \A k \in 1 .. Len(net) : net[k] = [pkt |-> sent, pos |-> size + k]

IInv == TypeOK /\ Halves

-----------------------------------------------------------------------------
\* A function over 1 .. n is a sequence.
LEMMA FunctionIsSeq ==
    ASSUME NEW S, NEW n \in Nat, NEW f \in [1 .. n -> S]
    PROVE  f \in Seq(S) /\ Len(f) = n /\ DOMAIN f = 1 .. n
  BY SeqDef, LenProperties

\* The bytes of a packet.
LEMMA PacketBytes ==
    ASSUME NEW p \in 1 .. Len(Length)
    PROVE  /\ Length[p] \in Nat \ {0} /\ Length[p] + 4 <= Size /\ Size \in Nat
           /\ Stream!Bytes(p) \in Seq(Byte) /\ Len(Stream!Bytes(p)) = Length[p] + 4
           /\ \A k \in 1 .. Length[p] + 4 : Stream!Bytes(p)[k] = [pkt |-> p, pos |-> k]
<1>1. Length[p] \in Nat \ {0} /\ Length[p] + 4 <= Size /\ Size \in Nat /\ Len(Length) \in Nat
  BY SizeAssumption, LenProperties
<1>2. Stream!Bytes(p) \in [1 .. Length[p] + 4 -> Byte]
  BY <1>1 DEF Stream!Bytes, Byte
<1>3. Length[p] + 4 \in Nat
  BY <1>1
<1>4. Stream!Bytes(p) \in Seq(Byte) /\ Len(Stream!Bytes(p)) = Length[p] + 4
  <2> HIDE DEF Byte
  <2> QED
    BY <1>2, <1>3, FunctionIsSeq
<1> QED
  BY <1>1, <1>4 DEF Stream!Bytes

\* A step of rx: what it has when it has taken n more bytes.
LEMMA Receipt ==
    ASSUME IInv, NEW n \in 1 .. Least(Len(net), Size - size)
    PROVE  /\ sent = Len(got) + 1 /\ sent \in 1 .. Len(Length) /\ Len(got) \in Nat
           /\ n \in 1 .. Len(net) /\ Len(net) \in Nat
           /\ size + Len(net) = Length[sent] + 4 /\ size + n <= Length[sent] + 4
           /\ Filled(n) \in [1 .. Size -> Byte]
           /\ \A k \in 1 .. size + n : Filled(n)[k] = [pkt |-> sent, pos |-> k]
           /\ SubSeq(net, n + 1, Len(net)) \in Seq(Byte)
           /\ Len(SubSeq(net, n + 1, Len(net))) = Len(net) - n
           /\ \A k \in 1 .. Len(net) - n :
                 SubSeq(net, n + 1, Len(net))[k] = [pkt |-> sent, pos |-> size + n + k]
           /\ Complete(Filled(n), size + n) <=> size + n = Length[sent] + 4
<1> USE DEF IInv
<1>1. Len(net) \in Nat /\ Len(got) \in Nat /\ size \in Nat /\ Size \in Nat /\ Len(Length) \in Nat
  BY SizeAssumption, LenProperties DEF TypeOK
<1>2. n \in Nat /\ 1 <= n /\ n <= Len(net) /\ n <= Size - size
  BY <1>1 DEF Least
<1>3. /\ sent = Len(got) + 1 /\ size + Len(net) = Length[sent] + 4
      /\ \A k \in 1 .. size : m_buffer[k] = [pkt |-> sent, pos |-> k]
      /\ \A k \in 1 .. Len(net) : net[k] = [pkt |-> sent, pos |-> size + k]
  <2>1. Len(net) # 0
    BY <1>1, <1>2
  <2> QED
    BY <2>1 DEF Halves
<1>4. sent \in 1 .. Len(Length)
  BY <1>1, <1>3 DEF TypeOK
<1>5. Length[sent] \in Nat \ {0} /\ Length[sent] + 4 <= Size
  BY <1>4, PacketBytes
<1>6. DOMAIN Filled(n) = 1 .. Size
  BY DEF Filled
<1>7. ASSUME NEW k \in 1 .. Size PROVE Filled(n)[k] \in Byte
  <2>1. Filled(n)[k] = IF k - size \in 1 .. n THEN net[k - size] ELSE m_buffer[k]
    BY DEF Filled
  <2>2. k - size \in 1 .. n => k - size \in 1 .. Len(net)
    BY <1>1, <1>2
  <2>3. \A j \in 1 .. Len(net) : net[j] \in Byte
    BY ElementOfSeq DEF TypeOK
  <2>4. m_buffer[k] \in Byte
    BY DEF TypeOK
  <2> QED
    BY <2>1, <2>2, <2>3, <2>4
<1>8. Filled(n) \in [1 .. Size -> Byte]
  BY <1>6, <1>7 DEF Filled
<1>9. ASSUME NEW k \in 1 .. size + n PROVE Filled(n)[k] = [pkt |-> sent, pos |-> k]
  <2>1. k \in 1 .. Size /\ k \in Nat
    BY <1>1, <1>2
  <2>2. Filled(n)[k] = IF k - size \in 1 .. n THEN net[k - size] ELSE m_buffer[k]
    BY <2>1 DEF Filled
  <2>3. CASE k <= size
    BY <1>1, <1>3, <2>1, <2>2, <2>3
  <2>4. CASE k > size
    <3>1. k - size \in 1 .. n /\ k - size \in 1 .. Len(net) /\ size + (k - size) = k
      BY <1>1, <1>2, <2>1, <2>4
    <3> QED
      BY <1>3, <2>2, <3>1
  <2> QED
    BY <1>1, <2>1, <2>3, <2>4
<1>10. /\ SubSeq(net, n + 1, Len(net)) \in Seq(Byte)
       /\ Len(SubSeq(net, n + 1, Len(net))) = Len(net) - n
       /\ \A k \in 1 .. Len(net) - n :
             SubSeq(net, n + 1, Len(net))[k] = [pkt |-> sent, pos |-> size + n + k]
  <2>1. net \in Seq(Byte) /\ n + 1 \in 1 .. Len(net) + 1 /\ Len(net) \in n .. Len(net)
    BY <1>1, <1>2 DEF TypeOK
  <2> DEFINE rest == SubSeq(net, n + 1, Len(net))
  <2>2. /\ rest \in Seq(Byte)
        /\ Len(rest) = IF n + 1 <= Len(net) THEN Len(net) - (n + 1) + 1 ELSE 0
        /\ \A k \in 1 .. Len(net) - (n + 1) + 1 : rest[k] = net[(n + 1) + k - 1]
    BY <2>1, <1>1, <1>2, SubSeqProperties
  <2>3. Len(rest) = Len(net) - n
    BY <1>1, <1>2, <2>2
  <2>4. ASSUME NEW k \in 1 .. Len(net) - n PROVE rest[k] = [pkt |-> sent, pos |-> size + n + k]
    <3>1. k \in 1 .. Len(net) - (n + 1) + 1 /\ (n + 1) + k - 1 = n + k /\ n + k \in 1 .. Len(net)
          /\ size + (n + k) = size + n + k
      BY <1>1, <1>2
    <3> QED
      BY <1>3, <2>2, <3>1
  <2> QED
    BY <2>2, <2>3, <2>4
<1>11. Complete(Filled(n), size + n) <=> size + n = Length[sent] + 4
  <2>1. CASE size + n < 3
    BY <1>1, <1>2, <1>5, <2>1 DEF Complete
  <2>2. CASE size + n >= 3
    <3>1. size + n - 2 \in 1 .. size + n
      BY <1>1, <1>2, <2>2
    <3>2. Filled(n)[size + n - 2] = [pkt |-> sent, pos |-> size + n - 2]
      BY <1>9, <3>1
    <3>3. Filled(n)[size + n - 2] # Zero
      BY <1>1, <1>2, <2>2, <3>2 DEF Zero
    <3>4. Stream!IsHash(Filled(n)[size + n - 2]) <=> size + n - 2 = Length[sent] + 2
      BY <3>2 DEF Stream!IsHash
    <3> QED
      BY <1>1, <1>2, <1>5, <2>2, <3>3, <3>4 DEF Complete
  <2> QED
    BY <1>1, <1>2, <2>1, <2>2
<1> QED
  BY <1>1, <1>2, <1>3, <1>4, <1>8, <1>9, <1>10, <1>11

\* When the last byte has arrived, the data between "$" and "#" is what was sent.
LEMMA DataReceived ==
    ASSUME NEW p \in 1 .. Len(Length), NEW b \in [1 .. Size -> Byte],
           \A k \in 1 .. Length[p] + 4 : b[k] = [pkt |-> p, pos |-> k]
    PROVE  SubSeq(b, 2, Length[p] + 1) = Stream!Data(p) /\ SubSeq(b, 2, Length[p] + 1) \in Seq(Byte)
<1> DEFINE d == SubSeq(b, 2, Length[p] + 1)
           e == Stream!Data(p)
           L == Length[p]
<1>1. L \in Nat \ {0} /\ L + 4 <= Size /\ Size \in Nat
  BY PacketBytes
<1>2. b \in Seq(Byte) /\ Len(b) = Size
  BY <1>1, FunctionIsSeq
<1>3. d \in Seq(Byte) /\ Len(d) = L /\ \A i \in 1 .. L : d[i] = b[i + 1]
  <2>1. 2 \in 1 .. Len(b) + 1 /\ L + 1 \in (2 - 1) .. Len(b)
    BY <1>1, <1>2
  <2>2. /\ d \in Seq(Byte) /\ Len(d) = IF 2 <= L + 1 THEN (L + 1) - 2 + 1 ELSE 0
        /\ \A i \in 1 .. (L + 1) - 2 + 1 : d[i] = b[2 + i - 1]
    BY <1>2, <2>1, SubSeqProperties
  <2>3. (L + 1) - 2 + 1 = L /\ 2 <= L + 1 /\ \A i \in 1 .. L : 2 + i - 1 = i + 1
    BY <1>1
  <2> HIDE DEF d, L
  <2> QED
    BY <2>2, <2>3
<1>4. e \in Seq(Byte) /\ Len(e) = L /\ \A i \in 1 .. L : e[i] = Stream!Bytes(p)[i + 1]
  <2> DEFINE w == Stream!Bytes(p)
  <2>0. w \in Seq(Byte) /\ Len(w) = L + 4 /\ e = SubSeq(w, 2, L + 1)
    BY PacketBytes DEF Stream!Data
  <2> HIDE DEF w, e
  <2>1. 2 \in 1 .. Len(w) + 1 /\ L + 1 \in (2 - 1) .. Len(w)
    BY <1>1, <2>0
  <2>2. /\ e \in Seq(Byte) /\ Len(e) = IF 2 <= L + 1 THEN (L + 1) - 2 + 1 ELSE 0
        /\ \A i \in 1 .. (L + 1) - 2 + 1 : e[i] = w[2 + i - 1]
    BY <2>0, <2>1, SubSeqProperties
  <2>3. (L + 1) - 2 + 1 = L /\ 2 <= L + 1 /\ \A i \in 1 .. L : 2 + i - 1 = i + 1
    BY <1>1
  <2> HIDE DEF L
  <2> QED
    BY <2>2, <2>3 DEF w
<1>5. \A i \in 1 .. L : i + 1 \in 1 .. L + 4
  BY <1>1
<1>6. \A k \in 1 .. L + 4 : b[k] = Stream!Bytes(p)[k]
  BY PacketBytes
<1> HIDE DEF d, e, L
<1>7. \A i \in 1 .. L : d[i] = e[i]
  BY <1>3, <1>4, <1>5, <1>6
<1>8. d = e
  BY <1>3, <1>4, <1>7, SeqEqual
<1> QED
  BY <1>3, <1>8 DEF d, e, L

-----------------------------------------------------------------------------
\* Every step keeps the invariant and is one of PacketStream's, or not seen by it.
LEMMA Step ==
    ASSUME IInv, [Next]_vars
    PROVE  IInv' /\ [Stream!Next]_<<sent, got>>
<1> USE DEF IInv
<1>0. Len(got) \in Nat /\ Len(net) \in Nat /\ Len(Length) \in Nat /\ size \in Nat
  BY SizeAssumption, LenProperties DEF TypeOK
<1>1. CASE Send
  <2>1. /\ sent = Len(got) /\ sent < Len(Length) /\ sent' = sent + 1
        /\ net' = Stream!Bytes(sent') /\ UNCHANGED <<got, m_buffer, size>>
    BY <1>1 DEF Send, Stream!Send
  <2>2. sent' \in 1 .. Len(Length)
    BY <1>0, <2>1
  <2>3. /\ Length[sent'] \in Nat \ {0} /\ net' \in Seq(Byte) /\ Len(net') = Length[sent'] + 4
        /\ \A k \in 1 .. Length[sent'] + 4 : net'[k] = [pkt |-> sent', pos |-> k]
    BY <2>1, <2>2, PacketBytes
  <2>4. size = 0
    BY <1>0, <2>1 DEF Halves
  <2>5. TypeOK'
    BY <1>0, <2>1, <2>2, <2>3 DEF TypeOK
  <2>6. Halves'
    <3>1. sent' = Len(got') + 1 /\ size' + Len(net') = Length[sent'] + 4 /\ Len(net') > 0
      BY <2>1, <2>3, <2>4
    <3>2. \A k \in 1 .. Len(net') : net'[k] = [pkt |-> sent', pos |-> size' + k]
      BY <2>1, <2>3, <2>4
    <3>3. \A k \in 1 .. size' : m_buffer'[k] = [pkt |-> sent', pos |-> k]
      BY <2>1, <2>4
    <3> QED
      BY <3>1, <3>2, <3>3 DEF Halves
  <2> QED
    BY <1>1, <2>5, <2>6 DEF Send, Stream!Next
<1>2. CASE rx
  <2>1. PICK n \in 1 .. Least(Len(net), Size - size) :
           /\ net' = SubSeq(net, n + 1, Len(net)) /\ m_buffer' = Filled(n)
           /\ IF Complete(Filled(n), size + n)
              THEN got' = Append(got, SubSeq(Filled(n), 2, size + n - 3)) /\ size' = 0
              ELSE size' = size + n /\ UNCHANGED got
    BY <1>2 DEF rx
  <2>2. UNCHANGED sent
    BY <1>2 DEF rx
  <2>3. /\ sent = Len(got) + 1 /\ sent \in 1 .. Len(Length) /\ n \in 1 .. Len(net)
        /\ size + Len(net) = Length[sent] + 4 /\ size + n <= Length[sent] + 4
        /\ m_buffer' \in [1 .. Size -> Byte] /\ net' \in Seq(Byte) /\ Len(net') = Len(net) - n
        /\ \A k \in 1 .. size + n : m_buffer'[k] = [pkt |-> sent, pos |-> k]
        /\ \A k \in 1 .. Len(net) - n : net'[k] = [pkt |-> sent, pos |-> size + n + k]
        /\ Complete(m_buffer', size + n) <=> size + n = Length[sent] + 4
        /\ Length[sent] \in Nat
    BY <2>1, Receipt, PacketBytes
  <2>4. CASE size + n = Length[sent] + 4
    <3>1. got' = Append(got, SubSeq(m_buffer', 2, Length[sent] + 1)) /\ size' = 0
      <4>1. size + n - 3 = Length[sent] + 1
        BY <1>0, <2>3, <2>4
      <4> QED
        BY <2>1, <2>3, <2>4, <4>1
    <3>2. /\ SubSeq(m_buffer', 2, Length[sent] + 1) = Stream!Data(sent)
          /\ SubSeq(m_buffer', 2, Length[sent] + 1) \in Seq(Byte)
      BY <2>3, <2>4, DataReceived
    <3>3. got' \in Seq(Seq(Byte)) /\ Len(got') = Len(got) + 1
      BY <3>1, <3>2, AppendProperties DEF TypeOK
    <3>4. net' = <<>>
      BY <1>0, <2>3, <2>4, EmptySeq
    <3>5. IInv'
      BY <2>2, <2>3, <3>1, <3>3, <3>4 DEF TypeOK, Halves
    <3>6. Stream!Deliver
      <4>1. Len(got) < sent
        BY <1>0, <2>3
      <4>2. got' = Append(got, Stream!Data(sent))
        BY <3>1, <3>2, Zenon
      <4>3. got' = Append(got, Stream!Data(Len(got) + 1))
        BY <2>3, <4>2, Zenon
      <4> QED
        BY <2>2, <4>1, <4>3 DEF Stream!Deliver
    <3> QED
      BY <3>5, <3>6 DEF Stream!Next
  <2>5. CASE size + n # Length[sent] + 4
    <3>1. size' = size + n /\ UNCHANGED got
      BY <2>1, <2>3, <2>5
    <3>2. size' \in Nat /\ size' + Len(net') = Length[sent] + 4 /\ Len(net') > 0
      BY <1>0, <2>3, <2>5, <3>1
    <3>3. IInv'
      BY <2>2, <2>3, <3>1, <3>2 DEF TypeOK, Halves
    <3> QED
      BY <2>2, <3>1, <3>3
  <2> QED
    BY <2>4, <2>5
<1>3. CASE UNCHANGED vars
  BY <1>3 DEF vars, TypeOK, Halves
<1> QED
  BY <1>1, <1>2, <1>3 DEF Next

\* Safety of ImplementsStream: Packet::rx delivers the data of each packet once,
\* unchanged and in order, although m_buffer keeps the bytes of earlier packets and each
\* recv may return any part of what was sent.
THEOREM DeliversInOrder == Spec => Stream!SafeSpec
<1>1. Init => IInv /\ Stream!Init
  <2> SUFFICES ASSUME Init PROVE IInv
    BY DEF Init
  <2>1. sent = 0 /\ got = <<>> /\ net = <<>> /\ size = 0 /\ Len(got) = 0 /\ Len(Length) \in Nat
    BY SizeAssumption, LenProperties DEF Init, Stream!Init
  <2>2. m_buffer \in [1 .. Size -> Byte]
    BY <2>1 DEF Init, Zero, Byte
  <2>3. got \in Seq(Seq(Byte)) /\ net \in Seq(Byte)
    BY <2>1, EmptySeq
  <2> QED
    BY <2>1, <2>2, <2>3 DEF IInv, TypeOK, Halves
<1>2. IInv /\ [Next]_vars => IInv' /\ [Stream!Next]_<<sent, got>>
  BY Step
<1> QED
  BY <1>1, <1>2, PTL DEF Spec, Stream!SafeSpec
=============================================================================
