-------------------------- MODULE RspClient_proofs --------------------------
(***************************************************************************)
(* What the proofs about the two servers share: facts about sequences and  *)
(* tokens, and the types of the client's variables.                        *)
(***************************************************************************)
EXTENDS RspClient, SequenceTheorems, TLAPS

-----------------------------------------------------------------------------
(* Sequences *)

\* The elements of a sequence that grows at its end.
LEMMA RangeAppend ==
    ASSUME NEW S, NEW s \in Seq(S), NEW e \in S
    PROVE  Range(Append(s, e)) = Range(s) \cup {e}
<1>1. /\ DOMAIN Append(s, e) = 1 .. Len(s) + 1 /\ DOMAIN s = 1 .. Len(s) /\ Len(s) \in Nat
      /\ \A i \in 1 .. Len(s) : Append(s, e)[i] = s[i]
      /\ Append(s, e)[Len(s) + 1] = e
  BY AppendProperties, LenProperties
<1> HIDE DEF Range
<1>2. \A i : i \in 1 .. Len(s) + 1 <=> i \in 1 .. Len(s) \/ i = Len(s) + 1
  BY <1>1
<1> QED
  BY <1>1, <1>2, Zenon DEF Range

\* A sequence that grows at its end.
LEMMA Appended ==
    ASSUME NEW S, NEW s \in Seq(S), NEW e \in S
    PROVE  /\ Range(Append(s, e)) = Range(s) \cup {e} /\ Append(s, e) # <<>>
           /\ Len(s) \in Nat /\ Len(Append(s, e)) = Len(s) + 1
           /\ DOMAIN s = 1 .. Len(s) /\ DOMAIN Append(s, e) = 1 .. Len(s) + 1
           /\ \A k \in DOMAIN s : Append(s, e)[k] = s[k]
           /\ Append(s, e)[Len(s) + 1] = e
           /\ \A k \in DOMAIN Append(s, e) : k \in DOMAIN s \/ k = Len(s) + 1
           /\ Head(Append(s, e)) = IF s = <<>> THEN e ELSE Head(s)
<1> DEFINE r == Append(s, e)
<1>1. Range(r) = Range(s) \cup {e}
  BY RangeAppend
<1>2. /\ r # <<>> /\ Len(r) = Len(s) + 1 /\ r \in Seq(S)
      /\ \A k \in 1 .. Len(s) : r[k] = s[k]
      /\ r[Len(s) + 1] = e
  BY AppendProperties
<1>3. Len(s) \in Nat /\ DOMAIN s = 1 .. Len(s) /\ DOMAIN r = 1 .. Len(s) + 1
  BY <1>2, LenProperties
<1>4. Head(r) = IF s = <<>> THEN e ELSE Head(s)
  BY HeadTailAppend
<1>5. \A k \in DOMAIN r : k \in DOMAIN s \/ k = Len(s) + 1
  BY <1>3
<1>6. \A k \in DOMAIN s : r[k] = s[k]
  BY <1>2, <1>3
<1> HIDE DEF r
<1>7. /\ Range(r) = Range(s) \cup {e} /\ r # <<>>
      /\ Len(s) \in Nat /\ Len(r) = Len(s) + 1
      /\ DOMAIN s = 1 .. Len(s) /\ DOMAIN r = 1 .. Len(s) + 1
      /\ \A k \in DOMAIN s : r[k] = s[k]
      /\ r[Len(s) + 1] = e
      /\ \A k \in DOMAIN r : k \in DOMAIN s \/ k = Len(s) + 1
      /\ Head(r) = IF s = <<>> THEN e ELSE Head(s)
  BY <1>1, <1>2, <1>3, <1>4, <1>5, <1>6, Zenon
<1> QED
  BY <1>7, Zenon DEF r

\* The elements of a sequence whose first one is taken.
LEMMA RangeTail ==
    ASSUME NEW S, NEW s \in Seq(S), s # <<>>
    PROVE  /\ Range(s) = {Head(s)} \cup Range(Tail(s))
           /\ Head(s) \in S /\ Tail(s) \in Seq(S) /\ Len(Tail(s)) = Len(s) - 1
           /\ DOMAIN Tail(s) = 1 .. Len(s) - 1
           /\ \A i \in 1 .. Len(s) - 1 : Tail(s)[i] = s[i + 1]
           /\ Head(s) = s[1] /\ 1 \in DOMAIN s /\ Len(s) \in Nat \ {0}
<1>1. /\ DOMAIN Tail(s) = 1 .. Len(s) - 1 /\ DOMAIN s = 1 .. Len(s) /\ Len(s) \in Nat \ {0}
      /\ \A i \in 1 .. Len(s) - 1 : Tail(s)[i] = s[i + 1]
      /\ Head(s) \in S /\ Tail(s) \in Seq(S) /\ Len(Tail(s)) = Len(s) - 1
  BY HeadTailProperties, LenProperties, EmptySeq
<1>2. Head(s) = s[1]
  OBVIOUS
<1>3. ASSUME NEW i \in 1 .. Len(s) PROVE i = 1 \/ (i - 1 \in 1 .. Len(s) - 1 /\ s[i] = Tail(s)[i - 1])
  BY <1>1
<1>4. 1 \in 1 .. Len(s) /\ \A i \in 1 .. Len(s) - 1 : i + 1 \in 1 .. Len(s)
  BY <1>1
<1>5. Range(s) \subseteq {Head(s)} \cup Range(Tail(s))
  <2> SUFFICES ASSUME NEW i \in DOMAIN s PROVE s[i] \in {Head(s)} \cup Range(Tail(s))
    BY DEF Range
  <2>1. i = 1 \/ (i - 1 \in DOMAIN Tail(s) /\ s[i] = Tail(s)[i - 1])
    BY <1>1, <1>3
  <2> QED
    BY <2>1, <1>2 DEF Range
<1>6. {Head(s)} \cup Range(Tail(s)) \subseteq Range(s)
  BY <1>1, <1>2, <1>4 DEF Range
<1> QED
  BY <1>1, <1>2, <1>4, <1>5, <1>6

\* The places in a sequence whose first element is taken.
LEMMA Shifted ==
    ASSUME NEW S, NEW s \in Seq(S), s # <<>>
    PROVE  \A k \in DOMAIN Tail(s) :
              /\ k + 1 \in DOMAIN s /\ Tail(s)[k] = s[k + 1]
              /\ k \in Nat /\ k + 1 # 1
<1>1. /\ DOMAIN Tail(s) = 1 .. Len(s) - 1 /\ DOMAIN s = 1 .. Len(s) /\ Len(s) \in Nat
      /\ \A i \in 1 .. Len(s) - 1 : Tail(s)[i] = s[i + 1]
  BY RangeTail, LenProperties
<1> QED
  BY <1>1

\* The elements of a sequence with a new first one.
LEMMA RangePrepend ==
    ASSUME NEW S, NEW s \in Seq(S), NEW e \in S
    PROVE  Range(<<e>> \o s) = {e} \cup Range(s)
<1> DEFINE one == <<e>>
<1>1. one \in Seq(S)
  OBVIOUS
<1>2. Range(one) = {e}
  BY DEF Range
<1> HIDE DEF one
<1>3. Range(one \o s) = Range(one) \cup Range(s)
  BY <1>1, RangeConcatenation
<1>4. Range(one \o s) = {e} \cup Range(s)
  BY <1>2, <1>3
<1> QED
  BY <1>4 DEF one

\* The elements of the empty sequence.
LEMMA RangeEmpty == Range(<<>>) = {}
  BY DEF Range

\* A receipt of one token is all that was on its way.
LEMMA OneReceived ==
    ASSUME NEW S, NEW b \in Seq(S), NEW c \in Seq(S), c # <<>>, Len(b \o c) = 1
    PROVE  /\ b = <<>> /\ Range(b) \cup Range(c) = {Head(b \o c)}
           /\ Head(b \o c) = (b \o c)[1] /\ Head(b \o c) \in S
<1>1. Len(b) + Len(c) = 1 /\ Len(b) \in Nat /\ Len(c) \in Nat /\ Len(c) > 0
  BY ConcatProperties, EmptySeq, LenProperties
<1>2. Len(b) = 0 /\ b = <<>> /\ Len(c) = 1
  <2>1. Len(b) = 0 /\ Len(c) = 1
    <3>1. \A m, n \in Nat : m + n = 1 /\ n > 0 => m = 0 /\ n = 1
      OBVIOUS
    <3> QED
      BY <1>1, <3>1, Zenon
  <2>2. b = <<>>
    BY <2>1, EmptySeq
  <2> QED
    BY <2>1, <2>2
<1>3. b \o c = c
  BY <1>2, ConcatEmptySeq
<1>4. Range(c) = {Head(c)} \cup Range(Tail(c)) /\ Head(c) = c[1] /\ Len(Tail(c)) = 0
      /\ Tail(c) \in Seq(S) /\ Head(c) \in S
  BY <1>2, RangeTail
<1>5. Tail(c) = <<>>
  BY <1>4, EmptySeq
<1> QED
  BY <1>2, <1>3, <1>4, <1>5, RangeEmpty

-----------------------------------------------------------------------------
(* Tokens *)

\* The single bytes are tokens, none of them a packet, and all are different.
LEMMA Bytes ==
    /\ Plus \in Token /\ Minus \in Token /\ CtrlC \in Token /\ Broken \in Token
    /\ ~Packet(Plus) /\ ~Packet(Minus) /\ ~Packet(CtrlC) /\ ~Packet(Broken)
    /\ Plus # Minus /\ Plus # Broken /\ Minus # Broken /\ CtrlC # Minus
    /\ CtrlC # Plus /\ CtrlC # Broken
<1>1. Plus # Minus /\ Plus # Broken /\ Minus # Broken /\ CtrlC # Minus /\ CtrlC # Plus /\ CtrlC # Broken
  BY DEF Plus, Minus, CtrlC, Broken, Byte
<1> QED
  BY <1>1, Zenon DEF Token, Packet, Ends

\* The packets are the tokens that carry a request.
LEMMA Packets ==
    /\ Request \subseteq Token
    /\ \A t \in Token : Packet(t) <=> t \in Request
<1>1. \A t \in Request : t # Plus /\ t # Minus /\ t # CtrlC /\ t # Broken
  BY ClientAssumption DEF Request, Plus, Minus, CtrlC, Broken, Byte
<1> QED
  BY <1>1, Zenon DEF Token, Packet, Ends

\* The parts of a request.
LEMMA RequestFields ==
    ASSUME NEW r \in Request
    PROVE  /\ r.cmd \in Commands \cup {"none"} /\ r.id \in Nat /\ r.id <= MaxCmds
           /\ r.bad \in BOOLEAN
           /\ [r EXCEPT !.bad = FALSE] \in Request /\ [r EXCEPT !.bad = TRUE] \in Request
           /\ [r EXCEPT !.bad = TRUE].id = r.id /\ [r EXCEPT !.bad = TRUE].cmd = r.cmd
           /\ ~r.bad => [r EXCEPT !.bad = FALSE] = r
<1>1. /\ r.cmd \in Commands \cup {"none"} /\ r.id \in 0 .. MaxCmds /\ r.bad \in BOOLEAN
      /\ r = [cmd |-> r.cmd, id |-> r.id, bad |-> r.bad]
  BY DEF Request
<1>2. \A b \in BOOLEAN : [r EXCEPT !.bad = b] = [cmd |-> r.cmd, id |-> r.id, bad |-> b]
  BY <1>1
<1>3. \A b \in BOOLEAN : [cmd |-> r.cmd, id |-> r.id, bad |-> b] \in Request
  BY <1>1 DEF Request
<1>4. ~r.bad => r.bad = FALSE
  BY <1>1
<1>5. r.id \in Nat /\ r.id <= MaxCmds
  BY <1>1, ClientAssumption
<1>6. [r EXCEPT !.bad = TRUE].id = r.id /\ [r EXCEPT !.bad = TRUE].cmd = r.cmd
  BY <1>2
<1>7. [r EXCEPT !.bad = FALSE] \in Request /\ [r EXCEPT !.bad = TRUE] \in Request
  BY <1>2, <1>3
<1>8. ~r.bad => [r EXCEPT !.bad = FALSE] = r
  BY <1>1, <1>2, <1>4
<1> QED
  BY <1>1, <1>5, <1>6, <1>7, <1>8

-----------------------------------------------------------------------------
(* The client *)

\* The steps of the client keep the types, whatever the server does.
LEMMA ClientTypes ==
    ASSUME ClientTypeOK, Client \/ ClientConnect
    PROVE  ClientTypeOK'
<1> USE DEF ClientTypeOK
<1>0. /\ Plus \in Token /\ Minus \in Token /\ CtrlC \in Token /\ req \in Token
      /\ req.id \in Nat
  BY Bytes, Packets, RequestFields
<1>1. CASE ClientSend
  <2>1. PICK c \in Commands : /\ req' = [cmd |-> c, id |-> req.id + 1, bad |-> FALSE]
                              /\ client' = IF cack THEN "waitack" ELSE Sent(c)
    BY <1>1 DEF ClientSend
  <2>2. req' \in Request /\ req' \in Token /\ [req' EXCEPT !.bad = TRUE] \in Token
    <3>1. req.id + 1 \in 0 .. MaxCmds
      BY <1>0, <1>1, ClientAssumption DEF ClientSend
    <3>2. req' \in Request
      BY <2>1, <3>1 DEF Request
    <3> QED
      BY <3>2, Packets, RequestFields
  <2>3. c2s' \in Seq(Token)
    <3>1. c2s' = Append(c2s, req') \/ c2s' = Append(c2s, [req' EXCEPT !.bad = TRUE])
      BY <1>1, Zenon DEF ClientSend
    <3>2. \A t \in Token : Append(c2s, t) \in Seq(Token)
      BY AppendProperties
    <3> QED
      BY <2>2, <3>1, <3>2, Zenon
  <2>4. client' \in {"idle", "waitack", "waitreply", "closed"}
    BY <2>1 DEF Sent
  <2>5. ints' \in 0 .. MaxInterrupts
    BY <1>1, ClientAssumption DEF ClientSend
  <2>6. faults' \subseteq {"damage", "hangup", "interrupt", "pipelined"}
    BY <1>1 DEF ClientSend
  <2> QED
    BY <1>1, <2>2, <2>3, <2>4, <2>5, <2>6 DEF ClientSend
<1>2. CASE ClientAcked
  BY <1>2, HeadTailProperties DEF ClientAcked, Sent
<1>3. CASE ClientNacked
  BY <1>0, <1>3, HeadTailProperties, AppendProperties DEF ClientNacked, clientVars
<1>4. CASE ClientReply
  BY <1>0, <1>4, HeadTailProperties, AppendProperties DEF ClientReply
<1>5. CASE ClientReject
  BY <1>0, <1>5, HeadTailProperties, AppendProperties DEF ClientReject
<1>6. CASE ClientDiscard
  BY <1>6, HeadTailProperties DEF ClientDiscard, clientVars
<1>7. CASE ClientInterrupt
  <2>1. ints' \in 0 .. MaxInterrupts
    BY <1>7, ClientAssumption DEF ClientInterrupt
  <2> QED
    BY <1>0, <1>7, <2>1, AppendProperties DEF ClientInterrupt
<1>8. CASE ClientHangup
  BY <1>8, EmptySeq DEF ClientHangup
<1>9. CASE ClientConnect
  <2>1. <<Plus>> \in Seq(Token) /\ <<>> \in Seq(Token)
    BY <1>0
  <2> QED
    BY <1>9, <2>1 DEF ClientConnect
<1> QED
  BY <1>1, <1>2, <1>3, <1>4, <1>5, <1>6, <1>7, <1>8, <1>9 DEF Client
=============================================================================
