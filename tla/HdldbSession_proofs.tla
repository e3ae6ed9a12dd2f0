------------------------ MODULE HdldbSession_proofs ------------------------
(***************************************************************************)
(* Proofs about HdldbSession, for every set of commands, number of requests *)
(* and interrupts, set of faults and start value of the acknowledge mode:  *)
(* type correctness, ReplyPairing, AckComes, Survives, RequestNotLost, and *)
(* that a session implements RequestReply.                                 *)
(***************************************************************************)
EXTENDS HdldbSession, RspClient_proofs

-----------------------------------------------------------------------------
(* The inductive invariant *)

\* The tokens on their way to a handler.
Wire == Range(buffer) \cup Range(c2s)

Dead == pc \in {"abort", "exit", "spin"}
Early == pc \in {"main", "listen", "deaf"}

\* A reply is on its way to the client.
Replying == \E k \in DOMAIN s2c : Packet(s2c[k])

\* The handler of a command that is answered is at work.
Answering == pc = "parse" /\ packet.cmd \notin OneWay

Progress ==
    /\ ~req.bad
    /\ Len(log) <= req.id
    /\ buffer # <<>> => pc = "rx" \/ Dead
    /\ Early => Gone /\ req = NoRequest /\ c2s = <<>>
    /\ Minus \in Range(s2c) => pc = "abort"

\* What is on its way has not been handled; only the last request of the client is
\* still complete once its successors are counted.
Fresh ==
    ~Dead => \A t \in Wire : Packet(t) =>
       /\ Len(log) < t.id /\ t.id <= req.id
       /\ t.id = req.id => t.cmd = req.cmd

\* A request that has not been handled is on its way, or a part of it is.
Pending ==
    ~Dead => \A i \in Len(log) + 1 .. req.id :
       \E t \in Wire : t = Broken \/ (Packet(t) /\ t.id = i)

BrokenHeld == Broken \in Wire => pc \in {"loop", "rx"} \/ Dead

Settled == client = "idle" => Len(log) = req.id \/ req.cmd \in OneWay

\* A reply on its way is the only one; it is for the last request, handled.
Paired ==
    \A k \in DOMAIN s2c : Packet(s2c[k]) =>
       /\ s2c[k] = req /\ Waiting /\ Len(log) = req.id /\ req.cmd \notin OneWay
       /\ \A j \in DOMAIN s2c : Packet(s2c[j]) => j = k

\* The client waits for the answer that a handler is about to send.
Current ==
    Answering => Gone \/ (packet = req /\ Waiting /\ ~Replying /\ Len(log) = req.id)

Detaching ==
    pc = "accept" \/ (pc \in {"parse", "ack"} /\ packet.cmd = "detach")
       => Len(log) = req.id /\ client # "idle" /\ (Gone \/ req.cmd = "detach")

AckDue ==
    pc = "ack" => /\ ~noack /\ packet.cmd \notin OneWay
                  /\ Gone \/ c2s # <<>> \/ (packet = req /\ Waiting)

\* The server leaves the acknowledges when it has read the last one.
Switching ==
    /\ ~noack /\ ~cack =>
          Gone \/ Dead \/ (pc = "ack" /\ packet.cmd = "noack" /\ c2s # <<>>)
    /\ Replying /\ req.cmd = "noack" /\ ~noack =>
          Dead \/ (pc = "ack" /\ packet = req)

\* Without a fault there are acknowledges and at most one packet behind them.
Regularly ==
    faults = {} /\ ~Dead =>
       /\ pc # "rx"
       /\ \A k \in DOMAIN c2s : \/ c2s[k] = Plus
                                \/ k = Len(c2s) /\ Packet(c2s[k]) /\ ~c2s[k].bad
       /\ (pc = "ack" \/ Answering) /\ c2s # <<>> => Head(c2s) = Plus

IInv == /\ TypeOK /\ Progress /\ Fresh /\ Pending /\ BrokenHeld /\ Settled /\ Paired /\ Current
        /\ Detaching /\ AckDue /\ Switching /\ Regularly /\ Survives

-----------------------------------------------------------------------------
(* Type correctness *)

\* The reply of a handler, and the end of the handler.
LEMMA TxTypes ==
    ASSUME TypeOK, tx
    PROVE  TypeOK'
<1> USE DEF TypeOK, ClientTypeOK
<1>1. [packet EXCEPT !.bad = FALSE] \in Token
  BY RequestFields, Packets
<1>2. s2c' \in Seq(Token)
  BY <1>1, AppendProperties DEF tx, Put
<1>3. /\ noack' \in BOOLEAN
      /\ pc' \in {"main", "listen", "accept", "deaf", "loop", "rx", "parse", "ack",
                  "spin", "exit", "abort"}
  BY DEF tx, return
<1> QED
  BY <1>2, <1>3 DEF tx, clientVars

\* The values of the variables (TypeOK) hold after every step of the session.
LEMMA TypeStep ==
    ASSUME TypeOK, [Next]_vars
    PROVE  TypeOK'
<1> DEFINE Places == {"main", "listen", "accept", "deaf", "loop", "rx", "parse", "ack",
                      "spin", "exit", "abort"}
<1>1. ASSUME NEW place \in Places, GoTo(place) PROVE TypeOK'
  BY <1>1 DEF GoTo, TypeOK, ClientTypeOK, linkVars
<1>2. CASE main \/ listenUnix \/ listenTcp \/ acceptFails \/ SocketFails \/ EndOfStream
  BY <1>1, <1>2 DEF main, listenUnix, listenTcp, acceptFails, SocketFails, EndOfStream
<1>3. CASE parse
  BY <1>1, <1>3, TxTypes DEF parse, signal, thread, query_monitor, query_supported, query, verbose,
     access, crash, run_step, run_continue, run_backward, point, extended, reset, detach, kill,
     unsupported
<1>4. CASE loop
  BY <1>4, HeadTailProperties DEF loop, serverVars, clientVars, TypeOK, ClientTypeOK
<1>5. CASE txAck
  <2>1. c2s' \in Seq(Token)
    <3>1. CASE c2s = <<>>
      BY <1>5, <3>1, EmptySeq DEF txAck
    <3>2. CASE c2s # <<>>
      <4>1. Tail(c2s) \in Seq(Token) /\ <<Broken>> \in Seq(Token)
        BY <3>2, HeadTailProperties, Bytes DEF TypeOK, ClientTypeOK
      <4>2. <<Broken>> \o Tail(c2s) \in Seq(Token)
        BY <4>1, ConcatProperties
      <4> QED
        BY <1>5, <3>2, <4>1, <4>2 DEF txAck
    <3> QED
      BY <3>1, <3>2
  <2>2. noack' \in BOOLEAN /\ pc' \in Places
    BY <1>5 DEF txAck, return, TypeOK
  <2> QED
    BY <1>5, <2>1, <2>2 DEF txAck, clientVars, TypeOK, ClientTypeOK
<1>6. CASE rx
  <2>0. /\ buffer \o c2s \in Seq(Token) /\ <<>> \in Seq(Token)
    BY ConcatProperties, EmptySeq DEF TypeOK, ClientTypeOK
  <2>1. CASE Ends(c2s[Len(c2s)])
    <3>1. checksum(buffer \o c2s) /\ buffer' = <<>>
      BY <1>6, <2>1 DEF rx
    <3>2. s2c' \in Seq(Token)
      <4>1. \A t \in Token : Append(s2c, t) \in Seq(Token)
        BY AppendProperties DEF TypeOK, ClientTypeOK
      <4> QED
        BY <3>1, <4>1, Bytes DEF checksum, Put, TypeOK, ClientTypeOK
    <3>3. packet' \in Request /\ log' \in Seq(0 .. MaxCmds) /\ pc' \in Places
      <4>1. CASE Intact(buffer \o c2s)
        <5>1. Head(buffer \o c2s) \in Request
          BY <1>6, <4>1, OneReceived, Packets DEF Intact, rx, TypeOK, ClientTypeOK
        <5>2. Head(buffer \o c2s).id \in 0 .. MaxCmds
          BY <5>1 DEF Request
        <5>3. Append(log, Head(buffer \o c2s).id) \in Seq(0 .. MaxCmds)
          BY <5>2, AppendProperties DEF TypeOK
        <5>4. pc' = "parse" /\ packet' = Head(buffer \o c2s) /\ log' = Append(log, packet'.id)
          BY <3>1, <4>1 DEF checksum
        <5> QED
          BY <5>1, <5>3, <5>4
      <4>2. CASE ~Intact(buffer \o c2s)
        BY <3>1, <4>2 DEF checksum, TypeOK
      <4> QED
        BY <4>1, <4>2
    <3> QED
      BY <1>6, <2>0, <3>1, <3>2, <3>3 DEF rx, clientVars, TypeOK, ClientTypeOK
  <2>2. CASE ~Ends(c2s[Len(c2s)])
    BY <1>6, <2>0, <2>2 DEF rx, clientVars, TypeOK, ClientTypeOK
  <2> QED
    BY <2>1, <2>2
<1>7. CASE accept
  BY <1>7, ClientTypes DEF accept, TypeOK
<1>8. CASE Client /\ UNCHANGED serverVars
  BY <1>8, ClientTypes DEF serverVars, TypeOK
<1>9. CASE UNCHANGED vars
  BY <1>9 DEF vars, TypeOK, ClientTypeOK
<1> QED
  BY <1>2, <1>3, <1>4, <1>5, <1>6, <1>7, <1>8, <1>9 DEF Next, Server, Protocol

-----------------------------------------------------------------------------
(* Steps of the server *)

\* The parts of the invariant besides the types.
Rest == /\ Progress /\ Fresh /\ Pending /\ BrokenHeld /\ Settled /\ Paired /\ Current
        /\ Detaching /\ AckDue /\ Switching /\ Regularly /\ Survives

\* What the types say of single variables.
LEMMA Facts ==
    ASSUME TypeOK
    PROVE  /\ c2s \in Seq(Token) /\ s2c \in Seq(Token) /\ buffer \in Seq(Token)
           /\ req \in Request /\ packet \in Request /\ req.id \in Nat /\ packet.id \in Nat
           /\ Len(log) \in Nat /\ noack \in BOOLEAN /\ cack \in BOOLEAN
           /\ DOMAIN c2s = 1 .. Len(c2s) /\ DOMAIN s2c = 1 .. Len(s2c) /\ Len(s2c) \in Nat
           /\ Len(c2s) \in Nat /\ \A k \in DOMAIN s2c : s2c[k] \in Token
           /\ \A k \in DOMAIN c2s : c2s[k] \in Token
<1>1. /\ c2s \in Seq(Token) /\ s2c \in Seq(Token) /\ buffer \in Seq(Token)
      /\ req \in Request /\ packet \in Request /\ noack \in BOOLEAN /\ cack \in BOOLEAN
      /\ log \in Seq(0 .. MaxCmds)
  BY DEF TypeOK, ClientTypeOK
<1>2. req.id \in Nat /\ packet.id \in Nat
  BY <1>1, RequestFields
<1>3. Len(log) \in Nat /\ Len(c2s) \in Nat /\ Len(s2c) \in Nat
  BY <1>1, LenProperties
<1>4. DOMAIN c2s = 1 .. Len(c2s) /\ DOMAIN s2c = 1 .. Len(s2c)
  BY <1>1, LenProperties
<1>5. (\A k \in DOMAIN s2c : s2c[k] \in Token) /\ (\A k \in DOMAIN c2s : c2s[k] \in Token)
  BY <1>1, <1>4, ElementOfSeq
<1> QED
  BY <1>1, <1>2, <1>3, <1>4, <1>5

\* What is on its way are tokens; nothing is once all requests have been handled.
LEMMA WireFacts ==
    ASSUME IInv
    PROVE  /\ \A t \in Wire : t \in Token /\ (Packet(t) => t.id \in Nat)
           /\ ~Dead /\ Len(log) = req.id => \A t \in Wire : ~Packet(t)
<1>1. Wire \subseteq Token
  BY Facts, RangeOfSeq DEF Wire, IInv
<1>2. \A t \in Wire : Packet(t) => t.id \in Nat
  BY <1>1, Packets, RequestFields
<1>3. Len(log) \in Nat /\ req.id \in Nat
  BY Facts DEF IInv
<1> QED
  BY <1>1, <1>2, <1>3 DEF Fresh, IInv

\* The sets of tokens are the same when the sequences are.
LEMMA SameWire ==
    ASSUME UNCHANGED <<buffer, c2s>>
    PROVE  Wire' = Wire
  BY DEF Wire

\* The server ends, by an exception only for a reason, or loops for ever.
LEMMA DeadStep ==
    ASSUME IInv, ~Dead, NEW place \in {"abort", "exit", "spin"}, GoTo(place),
           place = "abort" => faults # {} \/ packet.cmd \in Failing
    PROVE  Rest'
<1> USE DEF IInv, GoTo, linkVars, Dead
<1>1. Progress'
  BY DEF Progress, Early, Gone
<1>2. Fresh' /\ Pending' /\ BrokenHeld' /\ Regularly' /\ Current' /\ Detaching' /\ AckDue'
  BY DEF Fresh, Pending, BrokenHeld, Regularly, Current, Detaching, AckDue, Answering
<1>3. Settled' /\ Paired'
  BY DEF Settled, Paired, Waiting
<1>4. Switching' /\ Survives'
  BY DEF Switching, Survives
<1> QED
  BY <1>1, <1>2, <1>3, <1>4 DEF Rest

\* Before the first connection nothing has been sent.
LEMMA StartStep ==
    ASSUME IInv, pc \in {"main", "listen"}, NEW place \in {"listen", "accept", "deaf"}, GoTo(place)
    PROVE  Rest'
<1> USE DEF IInv, GoTo, linkVars
<1>1. /\ Wire' = Wire /\ c2s = <<>> /\ Gone /\ buffer = <<>>
      /\ req.id = 0 /\ Len(log) = 0
  BY Facts, SameWire DEF Progress, Early, Dead, NoRequest
<1>2. Wire = {}
  BY <1>1, RangeEmpty DEF Wire
<1>3. Progress' /\ Paired' /\ Settled' /\ Survives'
  BY <1>1 DEF Progress, Early, Gone, Paired, Settled, Survives, Waiting, Dead
<1>4. Fresh' /\ Pending' /\ BrokenHeld'
  BY <1>1, <1>2 DEF Fresh, Pending, BrokenHeld, Dead
<1>5. Current' /\ Detaching' /\ AckDue' /\ Switching' /\ Regularly'
  BY <1>1 DEF Current, Answering, Detaching, AckDue, Switching, Regularly, Gone, Replying, Dead
<1> QED
  BY <1>3, <1>4, <1>5 DEF Rest

\* A handler returns without a reply.
LEMMA SilentStep ==
    ASSUME IInv, pc = "parse", packet.cmd # "detach", GoTo("loop")
    PROVE  Rest'
<1> USE DEF IInv, GoTo, linkVars
<1>1. Wire' = Wire
  BY SameWire
<1>2. Progress' /\ Settled' /\ Survives'
  BY DEF Progress, Early, Gone, Settled, Survives, Dead
<1>3. Fresh' /\ Pending' /\ BrokenHeld' /\ Paired'
  BY <1>1 DEF Fresh, Pending, BrokenHeld, Paired, Waiting, Dead
<1>4. Current' /\ Detaching' /\ AckDue'
  BY DEF Current, Answering, Detaching, AckDue
<1>5. Switching'
  BY DEF Switching, Replying, Gone, Dead
<1>6. Regularly'
  BY DEF Regularly, Answering, Dead
<1> QED
  BY <1>2, <1>3, <1>4, <1>5, <1>6 DEF Rest

\* A handler replies.  Its request is the last one of the client, which waits.
LEMMA TxStep ==
    ASSUME IInv, pc = "parse", packet.cmd \notin OneWay, tx
    PROVE  Rest'
<1> USE DEF IInv
<1>0. /\ UNCHANGED <<c2s, buffer, packet, log, client, req, cack, ints, faults>>
      /\ pc' \in {"accept", "loop", "ack"}
      /\ pc' = "accept" => packet.cmd = "detach"
      /\ pc' = "ack" => ~noack /\ noack' = noack
      /\ pc' # "ack" => noack /\ noack'
  BY Facts DEF tx, return, clientVars
<1>1. Wire' = Wire /\ Answering
  BY <1>0, SameWire DEF Answering
<1>2. CASE Gone
  <2>1. s2c' = s2c
    BY <1>2 DEF tx, Put
  <2>2. Progress' /\ Settled' /\ Survives'
    BY <1>0, <2>1 DEF Progress, Early, Gone, Settled, Survives, Dead
  <2>3. Fresh' /\ Pending' /\ BrokenHeld' /\ Paired'
    BY <1>0, <1>1, <2>1 DEF Fresh, Pending, BrokenHeld, Paired, Waiting, Dead
  <2>4. Current' /\ Detaching' /\ AckDue'
    BY <1>0, <1>2 DEF Current, Answering, Detaching, AckDue, Gone
  <2>5. Switching'
    BY <1>0, <1>2, <2>1 DEF Switching, Replying, Gone, Dead, Paired, Waiting
  <2>6. Regularly'
    BY <1>0, <1>1 DEF Regularly, Answering, Dead
  <2> QED
    BY <2>2, <2>3, <2>4, <2>5, <2>6 DEF Rest
<1>3. CASE ~Gone
  <2>1. packet = req /\ Waiting /\ ~Replying /\ Len(log) = req.id
    BY <1>1, <1>3 DEF Current
  <2>2. s2c' = Append(s2c, req) /\ Packet(req) /\ req \in Token /\ req # Minus
    BY <1>3, <2>1, Facts, RequestFields, Packets, Bytes DEF tx, Put, Progress
  <2>3. /\ DOMAIN s2c' = 1 .. Len(s2c) + 1 /\ s2c'[Len(s2c) + 1] = req
        /\ \A k \in 1 .. Len(s2c) : s2c'[k] = s2c[k] /\ ~Packet(s2c'[k])
        /\ Range(s2c') = Range(s2c) \cup {req}
    <3>1. /\ DOMAIN s2c' = 1 .. Len(s2c) + 1 /\ s2c'[Len(s2c) + 1] = req
          /\ \A k \in DOMAIN s2c : s2c'[k] = s2c[k]
          /\ Range(s2c') = Range(s2c) \cup {req}
      BY <2>2, Facts, Appended
    <3>2. \A k \in DOMAIN s2c : ~Packet(s2c'[k])
      BY <2>1, <3>1 DEF Replying
    <3> QED
      BY <3>1, <3>2, Facts
  <2>4. Progress' /\ Settled' /\ Survives'
    BY <1>0, <2>2, <2>3 DEF Progress, Early, Gone, Settled, Survives, Dead
  <2>5. Fresh' /\ Pending' /\ BrokenHeld'
    BY <1>0, <1>1 DEF Fresh, Pending, BrokenHeld, Dead
  <2>7. Paired'
    BY <1>0, <2>1, <2>3, Facts DEF Paired, Waiting
  <2>8. Current' /\ Detaching' /\ AckDue'
    BY <1>0, <2>1 DEF Current, Answering, Detaching, AckDue, Gone, Waiting
  <2>9. Switching'
    BY <1>0, <1>3, <2>1 DEF Switching, Gone, Dead, Waiting
  <2>10. Regularly'
    BY <1>0, <1>1 DEF Regularly, Answering, Dead
  <2> QED
    BY <2>4, <2>5, <2>7, <2>8, <2>9, <2>10 DEF Rest
<1> QED
  BY <1>2, <1>3

\* The main loop throws an acknowledge away.
LEMMA LoopStep ==
    ASSUME IInv, loop
    PROVE  Rest'
<1> USE DEF IInv
<1>0. /\ UNCHANGED <<s2c, pc, buffer, packet, noack, log, client, req, cack, ints, faults>>
      /\ pc = "loop" /\ c2s # <<>> /\ Head(c2s) = Plus /\ c2s' = Tail(c2s)
  BY DEF loop, serverVars, clientVars
<1>1. /\ Wire = {Plus} \cup Wire'
      /\ c2s' \in Seq(Token) /\ Len(c2s') = Len(c2s) - 1 /\ DOMAIN c2s' = 1 .. Len(c2s) - 1
      /\ \A k \in 1 .. Len(c2s) - 1 : c2s'[k] = c2s[k + 1]
  BY <1>0, Facts, RangeTail DEF Wire
<1>2. Progress' /\ Settled' /\ Survives'
  BY <1>0 DEF Progress, Early, Gone, Settled, Survives, Dead
<1>3. Fresh' /\ BrokenHeld' /\ Paired'
  BY <1>0, <1>1 DEF Fresh, BrokenHeld, Paired, Waiting, Dead
<1>4. Pending'
  BY <1>0, <1>1, Bytes DEF Pending, Dead
<1>5. Current' /\ Detaching' /\ AckDue' /\ Switching'
  BY <1>0 DEF Current, Answering, Detaching, AckDue, Switching, Replying, Gone, Dead
<1>6. Regularly'
  BY <1>0, <1>1, Facts DEF Regularly, Answering, Dead
<1> QED
  BY <1>2, <1>3, <1>4, <1>5, <1>6 DEF Rest

\* A receipt that is one undamaged packet is the last request of the client, the
\* only one that has not been handled.
LEMMA Received ==
    ASSUME IInv, pc \in {"rx", "loop"}, c2s # <<>>, Intact(buffer \o c2s)
    PROVE  Head(buffer \o c2s) = req /\ Len(log) + 1 = req.id
<1> USE DEF IInv
<1> DEFINE t == Head(buffer \o c2s)
<1>1. Wire = {t} /\ Packet(t) /\ ~t.bad /\ t \in Request /\ t # Broken
  BY Facts, OneReceived, Packets, Bytes DEF Wire, Intact
<1> HIDE DEF t
<1>2. t.id = req.id /\ Len(log) + 1 = req.id /\ t.cmd = req.cmd
  <2>1. Len(log) < t.id /\ t.id <= req.id /\ (t.id = req.id => t.cmd = req.cmd)
    BY <1>1 DEF Fresh, Dead
  <2>2. \A i \in Len(log) + 1 .. req.id : t.id = i
    BY <1>1 DEF Pending, Dead
  <2>3. Len(log) \in Nat /\ req.id \in Nat /\ t.id \in Nat
    BY <1>1, Facts, RequestFields
  <2>4. req.id \in Len(log) + 1 .. req.id /\ Len(log) + 1 \in Len(log) + 1 .. req.id
    BY <2>1, <2>3
  <2> QED
    BY <2>1, <2>2, <2>4
<1>3. t = req
  BY <1>1, <1>2, Facts DEF Request, Progress
<1> QED
  BY <1>2, <1>3 DEF t

\* rx: more is awaited, or the receipt is no packet, or it is one packet; it then
\* is the last request of the client, and the first that has not been handled.
LEMMA RxStep ==
    ASSUME IInv, rx
    PROVE  Rest'
<1> USE DEF IInv
<1> DEFINE tokens == buffer \o c2s
<1>0. /\ UNCHANGED <<noack, client, req, cack, ints, faults>>
      /\ c2s # <<>> /\ pc \in {"rx", "loop"} /\ c2s' = <<>>
      /\ pc = "loop" => Head(c2s) # Plus
  BY DEF rx, clientVars
<1>1. Range(tokens) = Wire
  BY Facts, RangeConcatenation DEF Wire
<1>2. ASSUME faults = {}
      PROVE  Intact(tokens) /\ Ends(c2s[Len(c2s)])
  <2>1. pc = "loop" /\ buffer = <<>>
    BY <1>0, <1>2 DEF Regularly, Progress, Dead
  <2>2. Head(c2s) = c2s[1] /\ 1 \in DOMAIN c2s /\ tokens = c2s
    BY <1>0, <2>1, Facts, RangeTail, ConcatEmptySeq
  <2>3. Len(c2s) = 1 /\ Packet(c2s[1]) /\ ~c2s[1].bad
    BY <1>0, <1>2, <2>1, <2>2 DEF Regularly, Dead
  <2> QED
    BY <2>2, <2>3 DEF Intact, Packet
<1>3. CASE ~Ends(c2s[Len(c2s)])
  <2>1. /\ pc' = "rx" /\ buffer' = tokens /\ UNCHANGED <<s2c, packet, log>>
    BY <1>3 DEF rx
  <2>2. Wire' = Wire
    BY <1>0, <1>1, <2>1, RangeEmpty DEF Wire
  <2>3. Progress' /\ Settled' /\ Survives'
    BY <1>0, <2>1 DEF Progress, Early, Gone, Settled, Survives, Dead
  <2>4. Fresh' /\ BrokenHeld' /\ Paired' /\ Pending'
    BY <1>0, <2>1, <2>2 DEF Fresh, BrokenHeld, Paired, Pending, Waiting, Dead
  <2>5. Current' /\ Detaching' /\ AckDue' /\ Switching'
    BY <1>0, <2>1 DEF Current, Answering, Detaching, AckDue, Switching, Replying, Gone, Dead
  <2>6. Regularly'
    BY <1>0, <1>2, <1>3 DEF Regularly
  <2> QED
    BY <2>3, <2>4, <2>5, <2>6 DEF Rest
<1>4. CASE Ends(c2s[Len(c2s)]) /\ ~Intact(tokens)
  <2>1. /\ pc' = "abort" /\ buffer' = <<>> /\ UNCHANGED <<packet, log>>
        /\ s2c' = s2c \/ s2c' = Append(s2c, Minus)
    BY <1>4 DEF rx, checksum, Put
  <2>2. /\ DOMAIN s2c \subseteq DOMAIN s2c'
        /\ \A k \in DOMAIN s2c' : Packet(s2c'[k]) => k \in DOMAIN s2c /\ s2c'[k] = s2c[k]
    <3>1. CASE s2c' = s2c
      BY <3>1
    <3>2. CASE s2c' = Append(s2c, Minus)
      BY <3>2, Facts, Bytes, Appended
    <3> QED
      BY <2>1, <3>1, <3>2
  <2>3. Progress' /\ Settled'
    BY <1>0, <2>1 DEF Progress, Early, Settled, Dead
  <2>4. Paired'
    BY <1>0, <2>1, <2>2 DEF Paired, Waiting
  <2>5. /\ Fresh' /\ Pending' /\ BrokenHeld' /\ Regularly' /\ Current' /\ Detaching' /\ AckDue'
        /\ Switching'
    BY <2>1 DEF Fresh, Pending, BrokenHeld, Regularly, Current, Detaching, AckDue, Answering,
       Switching, Dead
  <2>6. Survives'
    BY <1>0, <1>2, <1>4 DEF Survives
  <2> QED
    BY <2>3, <2>4, <2>5, <2>6 DEF Rest
<1>5. CASE Ends(c2s[Len(c2s)]) /\ Intact(tokens)
  <2> DEFINE t == Head(tokens)
  <2>1. /\ pc' = "parse" /\ buffer' = <<>> /\ packet' = t /\ log' = Append(log, t.id)
        /\ s2c' = s2c \/ s2c' = Append(s2c, Plus)
    BY <1>5 DEF rx, checksum, Put
  <2>3. Wire' = {}
    BY <1>0, <2>1, RangeEmpty DEF Wire
  <2>4. t = req /\ Len(log) + 1 = req.id
    BY <1>0, <1>5, Received
  <2> HIDE DEF t
  <2>6. Len(log') = req.id
    BY <2>1, <2>4, Facts, AppendProperties DEF Request, TypeOK
  <2>7. ~Replying
    BY <2>4, Facts DEF Replying, Paired
  <2>8. /\ \A k \in DOMAIN s2c' : ~Packet(s2c'[k])
        /\ Minus \in Range(s2c') => Minus \in Range(s2c)
    <3>1. CASE s2c' = s2c
      BY <2>7, <3>1 DEF Replying
    <3>2. CASE s2c' = Append(s2c, Plus)
      BY <2>7, <3>2, Facts, Bytes, Appended DEF Replying
    <3> QED
      BY <2>1, <3>1, <3>2
  <2>9. Progress' /\ Settled' /\ Survives'
    BY <1>0, <2>1, <2>6, <2>8, Facts DEF Progress, Early, Settled, Survives, Dead
  <2>10. Paired' /\ ~Replying'
    BY <2>8 DEF Paired, Replying
  <2>11. Fresh' /\ Pending' /\ BrokenHeld'
    BY <1>0, <2>3, <2>6, Facts DEF Fresh, Pending, BrokenHeld
  <2>12. Current' /\ Detaching'
    <3>1. req.cmd \notin OneWay => Gone \/ Waiting
      BY <2>4, Facts DEF Settled, Gone, Waiting, TypeOK, ClientTypeOK
    <3> QED
      BY <1>0, <2>1, <2>4, <2>6, <2>10, <3>1 DEF Current, Answering, Detaching, Gone, Waiting, OneWay
  <2>13. AckDue' /\ Switching'
    BY <1>0, <2>1, <2>10 DEF AckDue, Switching, Gone, Dead
  <2>14. Regularly'
    BY <1>0, <2>1 DEF Regularly
  <2> QED
    BY <2>9, <2>10, <2>11, <2>12, <2>13, <2>14 DEF Rest
<1> QED
  BY <1>3, <1>4, <1>5

\* The rest of tx.  The byte it reads is an acknowledge, a Ctrl-C, or the first one
\* of a packet, which is no packet from then on.
LEMMA TxAckStep ==
    ASSUME IInv, txAck
    PROVE  Rest'
<1> USE DEF IInv
<1>0. /\ UNCHANGED <<s2c, buffer, packet, log, client, req, cack, ints, faults>>
      /\ pc = "ack" /\ (c2s # <<>> \/ Gone) /\ buffer = <<>>
      /\ ~noack /\ packet.cmd \notin OneWay
  BY DEF txAck, clientVars, AckDue, Progress, Dead
<1>1. Broken \notin Wire
  BY <1>0 DEF BrokenHeld, Dead
<1>2. /\ \A t \in Wire' : t \in Wire \/ t = Broken
      /\ Wire \subseteq Wire' \cup {Head(c2s)}
      /\ c2s # <<>> /\ Packet(Head(c2s)) => Broken \in Wire'
      /\ c2s # <<>> /\ ~Packet(Head(c2s)) => Broken \notin Wire'
      /\ c2s # <<>> => Head(c2s) \in Wire
      /\ c2s = <<>> => Wire' = Wire
  <2>1. CASE c2s = <<>>
    BY <1>0, <2>1 DEF txAck, Wire
  <2>2. CASE c2s # <<>> /\ ~Packet(Head(c2s))
    <3>1. c2s' = Tail(c2s)
      BY <2>2 DEF txAck
    <3>2. Range(c2s) = {Head(c2s)} \cup Range(c2s')
      BY <2>2, <3>1, Facts, RangeTail
    <3> QED
      BY <1>0, <1>1, <2>2, <3>2 DEF Wire
  <2>3. CASE c2s # <<>> /\ Packet(Head(c2s))
    <3>1. c2s' = <<Broken>> \o Tail(c2s)
      BY <2>3 DEF txAck
    <3>2. Range(c2s) = {Head(c2s)} \cup Range(Tail(c2s)) /\ Tail(c2s) \in Seq(Token)
      BY <2>3, Facts, RangeTail
    <3>3. Range(c2s') = {Broken} \cup Range(Tail(c2s))
      BY <3>1, <3>2, Bytes, RangePrepend
    <3> QED
      BY <1>0, <2>3, <3>2, <3>3 DEF Wire
  <2> QED
    BY <2>1, <2>2, <2>3
<1>3. /\ pc' \in {"abort", "accept", "loop"}
      /\ pc' = "abort" => c2s # <<>> /\ Head(c2s) = Minus /\ noack' = noack
      /\ pc' # "abort" => (noack' <=> packet.cmd = "noack") /\ (pc' = "accept" <=> packet.cmd = "detach")
  BY <1>0 DEF txAck, return
<1>4. faults = {} => pc' # "abort"
  BY <1>0, <1>3, Bytes DEF Regularly, Dead
<1>5. Progress' /\ Settled' /\ Survives'
  BY <1>0, <1>3, <1>4 DEF Progress, Early, Settled, Survives, Dead
<1>6. Paired'
  BY <1>0 DEF Paired, Waiting
<1>7. Fresh'
  BY <1>0, <1>2, Bytes DEF Fresh, Dead
<1>8. Pending'
  <2> SUFFICES ASSUME NEW i \in Len(log) + 1 .. req.id
               PROVE  \E t \in Wire' : t = Broken \/ (Packet(t) /\ t.id = i)
    BY <1>0 DEF Pending
  <2>1. PICK t \in Wire : Packet(t) /\ t.id = i
    BY <1>0, <1>1 DEF Pending, Dead
  <2>2. CASE t \in Wire'
    BY <2>1, <2>2
  <2>3. CASE t \notin Wire'
    BY <1>2, <2>1, <2>3
  <2> QED
    BY <2>2, <2>3
<1>9. BrokenHeld' /\ Detaching'
  <2>1. packet.cmd = "detach" => \A t \in Wire : ~Packet(t)
    BY <1>0, WireFacts DEF Detaching, Dead
  <2>2. packet.cmd = "detach" => Broken \notin Wire'
    BY <1>1, <1>2, <2>1
  <2> QED
    BY <1>0, <1>3, <2>2 DEF BrokenHeld, Detaching, Dead, Gone
<1>10. Current' /\ AckDue'
  BY <1>3 DEF Current, Answering, AckDue
<1>11. Switching'
  BY <1>0, <1>3 DEF Switching, Replying, Gone, Dead
<1>12. Regularly'
  <2> SUFFICES ASSUME faults = {}, pc' \in {"accept", "loop"}
               PROVE  \A k \in DOMAIN c2s' : \/ c2s'[k] = Plus
                                             \/ k = Len(c2s') /\ Packet(c2s'[k]) /\ ~c2s'[k].bad
    BY <1>0, <1>3 DEF Regularly, Answering, Dead
  <2>1. CASE c2s = <<>>
    BY <2>1 DEF txAck
  <2>2. CASE c2s # <<>>
    <3>1. Head(c2s) = Plus /\ c2s' = Tail(c2s)
      BY <1>0, <2>2, Bytes DEF Regularly, Dead, txAck
    <3>2. Len(c2s') = Len(c2s) - 1 /\ DOMAIN c2s' = 1 .. Len(c2s) - 1
          /\ \A k \in 1 .. Len(c2s) - 1 : c2s'[k] = c2s[k + 1]
      BY <2>2, <3>1, Facts, RangeTail
    <3>3. Len(c2s) \in Nat /\ DOMAIN c2s = 1 .. Len(c2s)
      BY Facts
    <3>4. \A k \in DOMAIN c2s' : k + 1 \in DOMAIN c2s /\ (k + 1 = Len(c2s) => k = Len(c2s'))
      BY <3>2, <3>3
    <3> QED
      BY <1>0, <3>2, <3>4 DEF Regularly, Dead
  <2> QED
    BY <2>1, <2>2
<1> QED
  BY <1>5, <1>6, <1>7, <1>8, <1>9, <1>10, <1>11, <1>12 DEF Rest

\* A new client finds nothing of its predecessor: all it asked has been handled.
LEMMA AcceptStep ==
    ASSUME IInv, accept
    PROVE  Rest'
<1> USE DEF IInv
<1>0. /\ UNCHANGED <<req, ints, faults, buffer, packet, noack, log>>
      /\ pc = "accept" /\ pc' = "loop" /\ Gone /\ c2s' = <<Plus>> /\ s2c' = <<>>
      /\ client' = "idle" /\ cack' = TRUE
  BY DEF accept, ClientConnect
<1>1. Len(log) = req.id /\ buffer = <<>>
  BY <1>0 DEF Detaching, Progress, Dead
<1>2. Wire' = {Plus} /\ Range(s2c') = {} /\ DOMAIN s2c' = {}
  BY <1>0, <1>1, RangeEmpty DEF Wire, Range
<1>3. Progress' /\ Settled' /\ Survives' /\ Paired'
  BY <1>0, <1>1, <1>2 DEF Progress, Early, Settled, Survives, Paired, Dead
<1>4. Fresh' /\ Pending' /\ BrokenHeld'
  BY <1>0, <1>1, <1>2, Facts, Bytes DEF Fresh, Pending, BrokenHeld
<1>5. Current' /\ Detaching' /\ AckDue' /\ Switching'
  BY <1>0, <1>2 DEF Current, Answering, Detaching, AckDue, Switching, Replying
<1>6. Regularly'
  BY <1>0 DEF Regularly, Answering
<1> QED
  BY <1>3, <1>4, <1>5, <1>6 DEF Rest

-----------------------------------------------------------------------------
(* Steps of the client *)

\* The client sends a request; it has done with the last one.
LEMMA SendStep ==
    ASSUME IInv, ClientSend, UNCHANGED serverVars
    PROVE  Rest'
<1> USE DEF IInv
<1>0. /\ UNCHANGED <<s2c, cack, pc, buffer, packet, noack, log>>
      /\ client = "idle" /\ req'.id = req.id + 1 /\ ~req'.bad
      /\ client' \in {"waitack", "waitreply", "idle", "closed"}
      /\ client' = "idle" => req'.cmd \in OneWay
  BY DEF ClientSend, serverVars, Sent, OneWay
<1>1. PICK t \in Token : /\ c2s' = Append(c2s, t) /\ Packet(t) /\ t.id = req'.id /\ t.cmd = req'.cmd
                         /\ faults' = {} => ~t.bad /\ \A k \in DOMAIN c2s : ~Packet(c2s[k])
  <2>1. req' \in Request
    BY TypeStep DEF Next, Client, TypeOK, ClientTypeOK
  <2>2. /\ req' \in Token /\ Packet(req')
        /\ [req' EXCEPT !.bad = TRUE] \in Token /\ Packet([req' EXCEPT !.bad = TRUE])
        /\ [req' EXCEPT !.bad = TRUE].id = req'.id /\ [req' EXCEPT !.bad = TRUE].cmd = req'.cmd
    BY <2>1, Packets, RequestFields
  <2>3. CASE c2s' = Append(c2s, req')
    <3>1. faults' = {} => \A k \in DOMAIN c2s : ~Packet(c2s[k])
      BY DEF ClientSend
    <3> QED
      BY <1>0, <2>2, <2>3, <3>1
  <2>4. CASE c2s' = Append(c2s, [req' EXCEPT !.bad = TRUE]) /\ faults' # {}
    BY <2>2, <2>4
  <2> QED
    BY <2>3, <2>4 DEF ClientSend
<1>2. /\ Wire' = Wire \cup {t} /\ t # Broken
      /\ c2s' # <<>> /\ Len(c2s') = Len(c2s) + 1 /\ DOMAIN c2s' = 1 .. Len(c2s) + 1
      /\ \A k \in 1 .. Len(c2s) : c2s'[k] = c2s[k]
      /\ c2s'[Len(c2s) + 1] = t
      /\ c2s # <<>> => Head(c2s') = Head(c2s)
  BY <1>0, <1>1, Facts, Appended, Bytes DEF Wire
<1>3. Len(log) \in Nat /\ req.id \in Nat /\ Len(log) <= req.id /\ Len(c2s) \in Nat
      /\ DOMAIN c2s = 1 .. Len(c2s)
  BY Facts DEF Progress
<1>4. ~Replying /\ ~Answering /\ pc # "accept" /\ (pc \in {"parse", "ack"} => packet.cmd # "detach")
  BY <1>0 DEF Replying, Paired, Current, Detaching, Waiting, Gone
<1>5. Progress' /\ Survives'
  <2>1. Progress'
    BY <1>0, <1>3 DEF Progress, Early, Gone, Dead
  <2>2. faults' = {} => faults = {}
    BY DEF ClientSend
  <2> QED
    BY <1>0, <2>1, <2>2 DEF Survives
<1>6. Fresh'
  <2> SUFFICES ASSUME ~Dead, NEW u \in Wire', Packet(u)
               PROVE  /\ Len(log) < u.id /\ u.id <= req.id + 1
                      /\ u.id = req.id + 1 => u.cmd = req'.cmd
    BY <1>0 DEF Fresh, Dead
  <2>1. CASE u = t
    BY <1>0, <1>1, <1>3, <2>1
  <2>2. CASE u \in Wire
    BY <1>3, <2>2, WireFacts DEF Fresh
  <2> QED
    BY <1>2, <2>1, <2>2
<1>7. Pending'
  <2> SUFFICES ASSUME ~Dead, NEW i \in Len(log) + 1 .. req.id + 1
               PROVE  \E u \in Wire' : u = Broken \/ (Packet(u) /\ u.id = i)
    BY <1>0 DEF Pending, Dead
  <2>1. i \in Len(log) + 1 .. req.id \/ i = req.id + 1
    BY <1>3
  <2> QED
    BY <1>0, <1>1, <1>2, <2>1 DEF Pending
<1>8. BrokenHeld' /\ Settled' /\ Paired'
  BY <1>0, <1>2, <1>4 DEF BrokenHeld, Settled, Paired, Replying, Dead
<1>9. Current' /\ Detaching' /\ AckDue' /\ Switching'
  BY <1>0, <1>2, <1>4 DEF Current, Answering, Detaching, AckDue, Switching, Replying, Gone, Dead
<1>10. Regularly'
  <2> SUFFICES ASSUME faults' = {}, ~Dead
               PROVE  /\ pc # "rx"
                      /\ \A k \in DOMAIN c2s' : \/ c2s'[k] = Plus
                                                \/ k = Len(c2s') /\ Packet(c2s'[k]) /\ ~c2s'[k].bad
                      /\ pc = "ack" => Head(c2s') = Plus
    BY <1>0, <1>4 DEF Regularly, Dead, Answering
  <2>1. faults = {} /\ \A k \in DOMAIN c2s : c2s[k] = Plus
    BY <1>1 DEF Regularly, ClientSend
  <2>2. pc = "ack" => c2s # <<>> /\ Head(c2s) = Plus
    BY <1>0, <2>1 DEF Regularly, AckDue, Gone, Waiting
  <2>3. pc # "rx"
    BY <2>1 DEF Regularly
  <2> QED
    BY <1>1, <1>2, <1>3, <2>1, <2>2, <2>3
<1> QED
  BY <1>5, <1>6, <1>7, <1>8, <1>9, <1>10 DEF Rest

\* What is left for the client when it has read a token.
LEMMA Taken ==
    ASSUME IInv, s2c # <<>>, s2c' = Tail(s2c)
    PROVE  /\ Range(s2c') \subseteq Range(s2c)
           /\ Replying' => Replying
           /\ \A k \in DOMAIN s2c' : k + 1 \in DOMAIN s2c /\ s2c'[k] = s2c[k + 1] /\ k \in Nat
           /\ 1 \in DOMAIN s2c /\ Head(s2c) = s2c[1] /\ Head(s2c) \in Range(s2c)
           /\ Packet(Head(s2c)) => Replying /\ ~Replying'
<1>1. /\ Range(s2c) = {Head(s2c)} \cup Range(s2c') /\ Len(s2c) \in Nat
      /\ DOMAIN s2c' = 1 .. Len(s2c) - 1 /\ DOMAIN s2c = 1 .. Len(s2c)
      /\ \A i \in 1 .. Len(s2c) - 1 : s2c'[i] = s2c[i + 1]
      /\ Head(s2c) = s2c[1] /\ 1 \in DOMAIN s2c
  BY Facts, RangeTail DEF IInv
<1>2. \A k \in DOMAIN s2c' : k + 1 \in DOMAIN s2c /\ s2c'[k] = s2c[k + 1] /\ k \in Nat /\ k + 1 # 1
  BY <1>1
<1>3. Packet(Head(s2c)) => Replying /\ ~Replying'
  BY <1>1, <1>2 DEF Replying, Paired, IInv
<1> QED
  BY <1>1, <1>2, <1>3 DEF Replying

\* A reply stays paired when a token before it is read.
LEMMA PairedStays ==
    ASSUME IInv, s2c # <<>>, s2c' = Tail(s2c), UNCHANGED <<req, log>>,
           req.cmd \notin OneWay /\ Waiting => Waiting'
    PROVE  Paired'
<1> USE DEF IInv
<1> SUFFICES ASSUME NEW k \in DOMAIN s2c', Packet(s2c'[k])
             PROVE  /\ s2c'[k] = req /\ Waiting' /\ Len(log) = req.id /\ req.cmd \notin OneWay
                    /\ \A j \in DOMAIN s2c' : Packet(s2c'[j]) => j = k
  BY DEF Paired
<1>1. k + 1 \in DOMAIN s2c /\ Packet(s2c[k + 1]) /\ s2c'[k] = s2c[k + 1] /\ k \in Nat
  BY Taken
<1>2. \A j \in DOMAIN s2c' : Packet(s2c'[j]) => j \in Nat /\ j + 1 = k + 1
  BY <1>1, Taken DEF Paired
<1>3. \A j \in Nat : j + 1 = k + 1 => j = k
  BY <1>1
<1> QED
  BY <1>1, <1>2, <1>3 DEF Paired

\* The client reads an acknowledge.
LEMMA AckedStep ==
    ASSUME IInv, ClientAcked, UNCHANGED serverVars
    PROVE  Rest'
<1> USE DEF IInv
<1>0. /\ UNCHANGED <<c2s, req, cack, ints, faults, pc, buffer, packet, noack, log>>
      /\ s2c # <<>> /\ s2c' = Tail(s2c)
      /\ client' = IF client = "waitack" THEN Sent(req.cmd) ELSE client
  BY DEF ClientAcked, serverVars
<1>1. /\ req.cmd \notin OneWay /\ Waiting => Waiting'
      /\ Gone => Gone'
      /\ client' = "idle" => client = "idle" \/ req.cmd = "reset"
      /\ client # "idle" /\ req.cmd \notin OneWay => client' # "idle"
  BY <1>0 DEF Waiting, Gone, Sent, OneWay
<1>2. Wire' = Wire
  BY <1>0, SameWire
<1>3. Progress' /\ Survives' /\ Settled'
  BY <1>0, <1>1, Taken DEF Progress, Survives, Settled, Early, Dead, OneWay
<1>4. Fresh' /\ Pending' /\ BrokenHeld'
  BY <1>0, <1>2 DEF Fresh, Pending, BrokenHeld, Dead
<1>5. Paired'
  BY <1>0, <1>1, PairedStays
<1>6. Current' /\ AckDue'
  BY <1>0, <1>1, Taken DEF Current, Answering, AckDue
<1>7. Detaching'
  BY <1>0, <1>1 DEF Detaching, Gone, OneWay
<1>8. Switching'
  BY <1>0, <1>1, Taken DEF Switching, Dead
<1>9. Regularly'
  BY <1>0 DEF Regularly, Answering, Dead
<1> QED
  BY <1>3, <1>4, <1>5, <1>6, <1>7, <1>8, <1>9 DEF Rest

\* A "-" is only sent by a server that ends.
LEMMA NackedStep ==
    ASSUME IInv, ClientNacked, UNCHANGED serverVars
    PROVE  Rest'
<1> USE DEF IInv
<1>0. /\ UNCHANGED <<client, req, cack, ints, faults, pc, buffer, packet, noack, log>>
      /\ s2c # <<>> /\ s2c' = Tail(s2c) /\ Head(s2c) = Minus
  BY DEF ClientNacked, serverVars, clientVars
<1>1. pc = "abort"
  BY <1>0, Taken DEF Progress
<1>2. Progress' /\ Survives' /\ Settled'
  BY <1>0, <1>1 DEF Progress, Survives, Settled, Early, Dead
<1>3. /\ Fresh' /\ Pending' /\ BrokenHeld' /\ Current' /\ AckDue' /\ Detaching' /\ Switching'
      /\ Regularly'
  BY <1>0, <1>1 DEF Fresh, Pending, BrokenHeld, Current, Answering, AckDue, Detaching, Switching,
     Regularly, Dead
<1>4. Paired'
  BY <1>0, PairedStays DEF Waiting
<1> QED
  BY <1>2, <1>3, <1>4 DEF Rest

\* The client reads a reply, which is for its last request, and acknowledges it.
LEMMA ReplyStep ==
    ASSUME IInv, ClientReply, UNCHANGED serverVars
    PROVE  Rest'
<1> USE DEF IInv
<1>0. /\ UNCHANGED <<req, ints, faults, pc, buffer, packet, noack, log>>
      /\ s2c # <<>> /\ s2c' = Tail(s2c) /\ Packet(Head(s2c)) /\ client = "waitreply"
      /\ c2s' = IF cack THEN Append(c2s, Plus) ELSE c2s
      /\ cack' = (cack /\ req.cmd # "noack")
      /\ client' = IF req.cmd = "detach" THEN "closed" ELSE "idle"
  BY DEF ClientReply, serverVars
<1>1. Replying /\ ~Replying' /\ Len(log) = req.id /\ req.cmd \notin OneWay /\ ~Answering
  BY <1>0, Taken DEF Replying, Paired, Current, Gone
<1>2. /\ Wire' = Wire \/ Wire' = Wire \cup {Plus}
      /\ c2s # <<>> => c2s' # <<>> /\ Head(c2s') = Head(c2s)
      /\ cack => c2s' # <<>>
      /\ c2s' # <<>> => c2s # <<>> \/ Head(c2s') = Plus
      /\ \A k \in DOMAIN c2s' : c2s'[k] = Plus \/ (k \in DOMAIN c2s /\ c2s'[k] = c2s[k])
  <2>1. CASE cack
    <3>1. c2s' = Append(c2s, Plus) /\ Plus \in Token
      BY <1>0, <2>1, Bytes
    <3>2. /\ Range(c2s') = Range(c2s) \cup {Plus} /\ c2s' # <<>>
          /\ Head(c2s') = IF c2s = <<>> THEN Plus ELSE Head(c2s)
          /\ \A k \in DOMAIN c2s' : c2s'[k] = Plus \/ (k \in DOMAIN c2s /\ c2s'[k] = c2s[k])
      BY <3>1, Facts, Appended
    <3> QED
      BY <1>0, <3>2 DEF Wire
  <2>2. CASE ~cack
    BY <1>0, <2>2 DEF Wire
  <2> QED
    BY <2>1, <2>2
<1>3. Progress' /\ Survives' /\ Settled'
  BY <1>0, <1>1, Taken DEF Progress, Survives, Settled, Early, Dead, Gone
<1>4. Fresh' /\ Pending' /\ BrokenHeld' /\ Paired'
  BY <1>0, <1>1, <1>2, Bytes, Facts DEF Fresh, Pending, BrokenHeld, Paired, Replying, Dead
<1>5. Current' /\ Detaching'
  <2>1. pc = "accept" \/ (pc \in {"parse", "ack"} /\ packet.cmd = "detach") => req.cmd = "detach"
    BY <1>0 DEF Detaching, Gone
  <2> QED
    BY <1>0, <1>1, <2>1 DEF Current, Answering, Detaching
<1>6. AckDue'
  <2>1. pc = "ack" => c2s' # <<>>
    BY <1>0, <1>2, Facts DEF AckDue, Switching, Gone, Dead
  <2> QED
    BY <1>0, <2>1 DEF AckDue
<1>7. Switching'
  <2>1. CASE noack
    BY <1>0, <1>1, <2>1 DEF Switching
  <2>2. CASE ~noack /\ cack /\ req.cmd = "noack"
    BY <1>0, <1>1, <1>2, <2>2 DEF Switching, Dead
  <2>3. CASE ~noack /\ ~cack
    BY <1>0, <1>1, <1>2, <2>3 DEF Switching, Dead, Gone
  <2>4. CASE ~noack /\ cack /\ req.cmd # "noack"
    BY <1>0, <1>1, <2>4 DEF Switching
  <2> QED
    BY <2>1, <2>2, <2>3, <2>4
<1>8. Regularly'
  <2> SUFFICES ASSUME faults = {}, ~Dead
               PROVE  /\ pc # "rx"
                      /\ \A k \in DOMAIN c2s' : c2s'[k] = Plus
                      /\ pc = "ack" /\ c2s' # <<>> => Head(c2s') = Plus
    BY <1>0, <1>1 DEF Regularly, Dead, Answering
  <2>1. \A k \in DOMAIN c2s : c2s[k] = Plus
    <3>1. \A k \in DOMAIN c2s : c2s[k] \in Wire
      BY DEF Wire, Range
    <3> QED
      BY <1>1, <3>1, WireFacts DEF Regularly
  <2>2. pc # "rx" /\ (pc = "ack" /\ c2s # <<>> => Head(c2s) = Plus)
    BY DEF Regularly
  <2> QED
    BY <1>2, <2>1, <2>2
<1> QED
  BY <1>3, <1>4, <1>5, <1>6, <1>7, <1>8 DEF Rest

\* A "-" or a Ctrl-C of the client: it is no regular traffic from then on.
LEMMA ByteStep ==
    ASSUME IInv, UNCHANGED <<client, req, cack, pc, buffer, packet, noack, log>>,
           NEW b \in {Minus, CtrlC}, c2s' = Append(c2s, b), faults' # {}, faults \subseteq faults',
           Waiting, s2c' = s2c \/ (s2c # <<>> /\ s2c' = Tail(s2c))
    PROVE  Rest'
<1> USE DEF IInv
<1>1. Wire' = Wire \cup {b} /\ b # Broken /\ ~Packet(b) /\ c2s' # <<>>
  BY Facts, Bytes, Appended DEF Wire
<1>2. (Replying' => Replying) /\ Range(s2c') \subseteq Range(s2c)
  BY Taken DEF Replying
<1>3. Progress' /\ Survives' /\ Settled'
  BY <1>2 DEF Progress, Survives, Settled, Early, Dead, Gone, Waiting
<1>4. Fresh' /\ BrokenHeld'
  BY <1>1 DEF Fresh, BrokenHeld, Dead
<1>5. Pending'
  BY <1>1 DEF Pending, Dead
<1>6. Paired'
  BY PairedStays DEF Paired, Waiting
<1>7. Current' /\ Detaching' /\ AckDue'
  BY <1>1, <1>2 DEF Current, Answering, Detaching, AckDue, Gone, Waiting
<1>8. Switching'
  BY <1>1, <1>2 DEF Switching, Dead, Gone
<1>9. Regularly'
  BY DEF Regularly
<1> QED
  BY <1>3, <1>4, <1>5, <1>6, <1>7, <1>8, <1>9 DEF Rest

\* The client throws a packet away.
LEMMA DiscardStep ==
    ASSUME IInv, ClientDiscard, UNCHANGED serverVars
    PROVE  Rest'
<1> USE DEF IInv
<1>0. /\ UNCHANGED <<c2s, client, req, cack, ints, faults, pc, buffer, packet, noack, log>>
      /\ s2c # <<>> /\ s2c' = Tail(s2c)
  BY DEF ClientDiscard, serverVars, clientVars
<1>1. (Replying' => Replying) /\ Range(s2c') \subseteq Range(s2c) /\ Wire' = Wire
  BY <1>0, Taken, SameWire
<1>2. Progress' /\ Survives' /\ Settled'
  BY <1>0, <1>1 DEF Progress, Survives, Settled, Early, Dead, Gone
<1>3. Fresh' /\ BrokenHeld' /\ Pending'
  BY <1>0, <1>1 DEF Fresh, BrokenHeld, Pending, Dead
<1>4. Paired'
  BY <1>0, PairedStays DEF Waiting
<1>5. Current' /\ Detaching' /\ AckDue' /\ Switching' /\ Regularly'
  BY <1>0, <1>1 DEF Current, Answering, Detaching, AckDue, Switching, Regularly, Gone, Waiting, Dead
<1> QED
  BY <1>2, <1>3, <1>4, <1>5 DEF Rest

\* The client closes the connection, or is killed.
LEMMA HangupStep ==
    ASSUME IInv, ClientHangup, UNCHANGED serverVars
    PROVE  Rest'
<1> USE DEF IInv
<1>0. /\ UNCHANGED <<c2s, req, cack, ints, pc, buffer, packet, noack, log>>
      /\ s2c' = <<>> /\ client' = "closed" /\ faults' # {}
  BY DEF ClientHangup, serverVars
<1>1. ~Replying' /\ Range(s2c') = {} /\ Wire' = Wire
  BY <1>0, RangeEmpty, SameWire DEF Replying
<1>2. Progress' /\ Survives' /\ Settled' /\ Paired'
  BY <1>0, <1>1 DEF Progress, Survives, Settled, Paired, Replying, Early, Dead, Gone
<1>3. Fresh' /\ BrokenHeld' /\ Pending'
  BY <1>0, <1>1 DEF Fresh, BrokenHeld, Pending, Dead
<1>4. Current' /\ Detaching' /\ AckDue' /\ Switching' /\ Regularly'
  BY <1>0, <1>1 DEF Current, Answering, Detaching, AckDue, Switching, Regularly, Gone, Dead
<1> QED
  BY <1>2, <1>3, <1>4 DEF Rest

-----------------------------------------------------------------------------
(* The invariant holds *)

\* The invariant holds when the program starts.
LEMMA InitIInv ==
    ASSUME Init
    PROVE  IInv
<1> USE DEF Init, ClientInit, NoRequest
<1>1. TypeOK
  <2>1. <<>> \in Seq(Token) /\ <<>> \in Seq(0 .. MaxCmds)
    BY EmptySeq
  <2>2. NoRequest \in Request /\ 0 \in 0 .. MaxInterrupts
    BY ClientAssumption DEF Request
  <2>3. noack \in BOOLEAN
    BY SessionAssumption
  <2> QED
    BY <2>1, <2>2, <2>3 DEF TypeOK, ClientTypeOK
<1>2. Wire = {} /\ Range(s2c) = {} /\ Len(log) = 0
  BY RangeEmpty DEF Wire
<1>3. Progress /\ Survives /\ Settled /\ Paired
  BY <1>2 DEF Progress, Survives, Settled, Paired, Gone
<1>4. Fresh /\ BrokenHeld /\ Pending
  BY <1>2 DEF Fresh, BrokenHeld, Pending
<1>5. Current /\ Detaching /\ AckDue /\ Switching /\ Regularly
  BY DEF Current, Answering, Detaching, AckDue, Switching, Regularly, Gone, Replying
<1> QED
  BY <1>1, <1>2, <1>3, <1>4, <1>5 DEF IInv

\* A handler replies, returns without a reply, or ends the process.
LEMMA Handlers ==
    ASSUME IInv, parse
    PROVE  /\ pc = "parse"
           /\ \/ packet.cmd \notin OneWay /\ tx
              \/ packet.cmd # "detach" /\ GoTo("loop")
              \/ packet.cmd \in Failing /\ GoTo("abort")
              \/ GoTo("exit")
  BY DEF parse, signal, thread, query_monitor, query_supported, query, verbose, access, crash,
     run_step, run_continue, run_backward, point, extended, reset, detach, kill, unsupported,
     Handling, OneWay, Failing

\* Every step of the session keeps the invariant.
LEMMA NextIInv ==
    ASSUME IInv, [Next]_vars
    PROVE  IInv'
<1> SUFFICES Rest'
  BY TypeStep DEF IInv, Rest
<1>1. CASE main \/ listenUnix \/ listenTcp
  <2>1. PICK place \in {"listen", "accept", "deaf", "exit"} : GoTo(place)
    BY <1>1 DEF main, listenUnix, listenTcp
  <2>2. pc \in {"main", "listen"}
    BY <1>1 DEF main, listenUnix, listenTcp
  <2> QED
    BY <2>1, <2>2, StartStep, DeadStep DEF Dead
<1>2. CASE acceptFails \/ EndOfStream
  BY <1>2, DeadStep DEF acceptFails, EndOfStream, Dead
<1>3. CASE SocketFails
  BY <1>3, DeadStep DEF SocketFails, HungUp, Dead
<1>4. CASE parse
  BY <1>4, Handlers, TxStep, SilentStep, DeadStep DEF Dead
<1>5. CASE loop
  BY <1>5, LoopStep
<1>6. CASE rx
  BY <1>6, RxStep
<1>7. CASE txAck
  BY <1>7, TxAckStep
<1>8. CASE accept
  BY <1>8, AcceptStep
<1>9. CASE Client /\ UNCHANGED serverVars
  <2>1. CASE ClientSend
    BY <1>9, <2>1, SendStep
  <2>2. CASE ClientAcked
    BY <1>9, <2>2, AckedStep
  <2>3. CASE ClientNacked
    BY <1>9, <2>3, NackedStep
  <2>4. CASE ClientReply
    BY <1>9, <2>4, ReplyStep
  <2>5. CASE ClientReject
    <3>1. /\ UNCHANGED <<client, req, cack, pc, buffer, packet, noack, log>> /\ Waiting
          /\ c2s' = Append(c2s, Minus) /\ faults' # {} /\ faults \subseteq faults'
          /\ s2c # <<>> /\ s2c' = Tail(s2c)
      BY <1>9, <2>5 DEF ClientReject, serverVars, Waiting
    <3> QED
      BY <3>1, ByteStep
  <2>6. CASE ClientDiscard
    BY <1>9, <2>6, DiscardStep
  <2>7. CASE ClientInterrupt
    <3>1. /\ UNCHANGED <<client, req, cack, pc, buffer, packet, noack, log>> /\ Waiting
          /\ c2s' = Append(c2s, CtrlC) /\ faults' # {} /\ faults \subseteq faults' /\ s2c' = s2c
      BY <1>9, <2>7 DEF ClientInterrupt, serverVars, Waiting
    <3> QED
      BY <3>1, ByteStep
  <2>8. CASE ClientHangup
    BY <1>9, <2>8, HangupStep
  <2> QED
    BY <1>9, <2>1, <2>2, <2>3, <2>4, <2>5, <2>6, <2>7, <2>8 DEF Client
<1>10. CASE UNCHANGED vars
  <2>1. /\ UNCHANGED <<c2s, s2c, client, req, cack, ints, faults, pc, buffer, packet, noack, log>>
    BY <1>10 DEF vars
  <2> QED
    BY <2>1 DEF IInv, Rest, Progress, Fresh, Pending, BrokenHeld, Settled, Paired, Current,
       Detaching, AckDue, Switching, Regularly, Survives, Wire, Dead, Early, Replying, Answering,
       Gone, Waiting
<1> QED
  BY <1>1, <1>2, <1>3, <1>4, <1>5, <1>6, <1>7, <1>8, <1>9, <1>10 DEF Next, Server, Protocol

\* The inductive invariant holds throughout a session.
THEOREM Invariance == Spec => []IInv
<1>1. Init => IInv
  BY InitIInv
<1>2. IInv /\ [Next]_vars => IInv'
  BY NextIInv
<1> QED
  BY <1>1, <1>2, PTL DEF Spec

\* TypeOK: a handler only ever works on a packet.
THEOREM TypeCorrect == Spec => []TypeOK
<1>1. IInv => TypeOK
  BY DEF IInv
<1> QED
  BY <1>1, Invariance, PTL

\* ReplyPairing: a reply on its way to the client is the only one and belongs to the
\* request the client is waiting for, with any interrupts, damage and hang-ups.
THEOREM RepliesPaired == Spec => []ReplyPairing
<1>1. IInv => ReplyPairing
  BY DEF IInv, Paired, ReplyPairing, Replies
<1> QED
  BY <1>1, Invariance, PTL

\* AckComes: a server that waits for the acknowledge of a reply which its client has got
\* will read a byte.
THEOREM AcksCome == Spec => []AckComes
<1>1. IInv => AckComes
  BY DEF IInv, AckDue, AckComes, Gone, Waiting
<1> QED
  BY <1>1, Invariance, PTL

\* Survives: regular traffic never ends the process by an exception.
THEOREM RegularSurvives == Spec => []Survives
<1>1. IInv => Survives
  BY DEF IInv
<1> QED
  BY <1>1, Invariance, PTL

-----------------------------------------------------------------------------
(* No request is lost *)

\* The client awaits an acknowledge in its mode only, and a server with acknowledges
\* sends it before the reply.
AckFirst ==
    client = "waitack" =>
       /\ cack
       /\ pc # "abort" /\ ~noack /\ Len(log) = req.id => s2c # <<>> /\ ~Packet(Head(s2c))

\* k is the last request of its client: nothing is sent, and nobody accepted, behind it.
Killed ==
    faults = {} =>
       /\ req.cmd = "kill" => client # "idle"
       /\ pc = "parse" /\ packet.cmd = "kill" => req.cmd = "kill"
       /\ pc = "accept" \/ (pc \in {"parse", "ack"} /\ packet.cmd = "detach") => req.cmd # "kill"

\* Why a server has ended to which a client is still connected.
Ended ==
    faults = {} /\ Dead /\ ~Gone =>
       /\ client # "idle"
       /\ \/ req.cmd \in Failing \cup {"kill"} /\ ~Replying
          \/ req.cmd = "detach" /\ Len(log) = req.id /\ pc # "abort"

\* A request that was handled is being answered, or its answer is on its way; the client
\* only discards the answer if it waits for acknowledges that the server does not send.
Held ==
    Waiting /\ faults = {} /\ ~(noack /\ cack) /\ Len(log) = req.id
            /\ req.cmd \notin OneWay \cup Unanswered =>
       \/ pc = "parse" /\ packet = req
       \/ \E k \in DOMAIN s2c : s2c[k] = req

Kept == AckFirst /\ Killed /\ Ended /\ Held

\* A step that moves the server only, and is no end of it.
LEMMA KeptMove ==
    ASSUME IInv, Kept, NEW place \in {"listen", "accept", "deaf", "loop"}, GoTo(place),
           \/ pc \in {"main", "listen"}
           \/ place = "loop" /\ pc = "parse" /\ packet.cmd \in OneWay \cup Unanswered
    PROVE  Kept'
<1> USE DEF IInv, Kept, GoTo, linkVars
<1>1. AckFirst' /\ Ended'
  BY DEF AckFirst, Ended, Dead
<1>2. Killed'
  BY DEF Killed, Progress, Early, NoRequest
<1>3. Held'
  BY DEF Held, Current, Answering, Progress, Early, Gone, Waiting
<1> QED
  BY <1>1, <1>2, <1>3

\* The server ends: an exception, k, a failing accept, or the end of the stream.
LEMMA KeptEnd ==
    ASSUME IInv, Kept, NEW place \in {"abort", "exit", "spin"}, GoTo(place), ~Dead,
           \/ Gone \/ (pc = "accept" /\ place = "exit") \/ faults # {}
           \/ pc = "parse" /\ packet.cmd \in Failing \cup {"kill"}
    PROVE  Kept'
<1> USE DEF IInv, Kept, GoTo, linkVars
<1>1. AckFirst' /\ Killed'
  BY DEF AckFirst, Killed, Dead
<1>2. Held'
  BY DEF Held, Current, Answering, Unanswered, OneWay, Gone, Waiting, Killed
<1>3. Ended'
  <2> SUFFICES ASSUME faults = {}, ~Gone
               PROVE  /\ client # "idle"
                      /\ \/ req.cmd \in Failing \cup {"kill"} /\ ~Replying
                         \/ req.cmd = "detach" /\ Len(log) = req.id /\ place # "abort"
    BY DEF Ended, Gone, Replying
  <2>1. CASE pc = "accept" /\ place = "exit"
    BY <2>1 DEF Detaching
  <2>2. CASE pc = "parse" /\ packet.cmd \in Failing
    BY <2>2 DEF Current, Answering, OneWay, Waiting, Failing
  <2>3. CASE pc = "parse" /\ packet.cmd = "kill"
    BY <2>3 DEF Killed, Paired, Replying, OneWay
  <2> QED
    BY <2>1, <2>2, <2>3
<1> QED
  BY <1>1, <1>2, <1>3

\* A handler replies.
LEMMA KeptTx ==
    ASSUME IInv, Kept, pc = "parse", packet.cmd \notin OneWay, tx
    PROVE  Kept'
<1> USE DEF IInv, Kept
<1>0. /\ UNCHANGED <<c2s, buffer, packet, log, client, req, cack, ints, faults>>
      /\ pc' \in {"accept", "loop", "ack"} /\ (pc' = "accept" => packet.cmd = "detach")
      /\ noack => noack'
      /\ ~noack' => ~noack
  BY Facts DEF tx, return, clientVars
<1>1. CASE Gone
  BY <1>0, <1>1 DEF AckFirst, Killed, Ended, Held, Gone, Waiting, Dead
<1>2. CASE ~Gone
  <2>1. packet = req /\ Waiting /\ Len(log) = req.id
    BY <1>2 DEF Current, Answering
  <2>2. s2c' = Append(s2c, req) /\ Packet(req) /\ req \in Token
    BY <1>2, <2>1, Facts, RequestFields, Packets, Bytes DEF tx, Put, Progress
  <2>3. /\ \E k \in DOMAIN s2c' : s2c'[k] = req
        /\ s2c' # <<>> /\ (s2c # <<>> => Head(s2c') = Head(s2c))
    BY <2>2, Facts, Appended
  <2>4. AckFirst' /\ Ended'
    BY <1>0, <2>3 DEF AckFirst, Ended, Dead
  <2>5. Killed' /\ Held'
    BY <1>0, <2>3 DEF Killed, Held
  <2> QED
    BY <2>4, <2>5
<1> QED
  BY <1>1, <1>2

\* Without a fault, rx receives one packet.
LEMMA OnePacket ==
    ASSUME IInv, rx, faults = {}
    PROVE  Ends(c2s[Len(c2s)]) /\ Intact(buffer \o c2s)
<1> USE DEF IInv
<1>1. pc = "loop" /\ c2s # <<>> /\ Head(c2s) # Plus
  BY DEF rx, Regularly, Dead
<1>2. buffer = <<>>
  BY <1>1 DEF Progress, Dead
<1>3. Len(c2s) \in Nat /\ Len(c2s) > 0 /\ Head(c2s) = c2s[1] /\ 1 \in DOMAIN c2s
  BY <1>1, Facts, RangeTail
<1>4. Len(c2s) = 1 /\ Packet(c2s[1]) /\ ~c2s[1].bad
  BY <1>1, <1>3 DEF Regularly, Dead
<1>5. buffer \o c2s = c2s
  BY <1>2, Facts, ConcatEmptySeq
<1> QED
  BY <1>4, <1>5 DEF Intact, Packet

\* rx: the acknowledge is sent before the handler replies.
LEMMA KeptRx ==
    ASSUME IInv, Kept, rx
    PROVE  Kept'
<1> USE DEF IInv, Kept
<1>0. /\ UNCHANGED <<client, req, cack, ints, faults, noack>>
      /\ pc \in {"rx", "loop"} /\ c2s # <<>> /\ ~Dead
  BY DEF rx, clientVars, Dead
<1>1. CASE Ends(c2s[Len(c2s)]) /\ Intact(buffer \o c2s)
  <2>1. Head(buffer \o c2s) = req /\ Len(log) + 1 = req.id
    BY <1>0, <1>1, Received
  <2>2. /\ pc' = "parse" /\ packet' = req
        /\ IF noack THEN UNCHANGED s2c ELSE Put(Plus)
    BY <1>1, <2>1 DEF rx, checksum
  <2>3. ~Replying
    BY <2>1, Facts DEF Replying, Paired
  <2>4. AckFirst'
    <3> SUFFICES ASSUME client = "waitack", ~noack
                 PROVE  s2c' # <<>> /\ ~Packet(Head(s2c'))
      BY <1>0 DEF AckFirst
    <3>1. s2c' = Append(s2c, Plus)
      BY <2>2 DEF Put, Gone
    <3>2. /\ s2c' # <<>>
          /\ Head(s2c') = IF s2c = <<>> THEN Plus ELSE Head(s2c)
      BY <3>1, Facts, Appended, Bytes
    <3>3. s2c # <<>> => ~Packet(Head(s2c))
      BY <2>3, Facts, RangeTail DEF Replying
    <3> QED
      BY <3>2, <3>3, Bytes
  <2>5. Killed'
    BY <1>0, <2>2 DEF Killed
  <2>6. Ended' /\ Held'
    BY <1>0, <2>2 DEF Ended, Held, Dead
  <2> QED
    BY <2>4, <2>5, <2>6
<1>2. CASE ~(Ends(c2s[Len(c2s)]) /\ Intact(buffer \o c2s))
  <2>1. faults # {}
    BY <1>2, OnePacket
  <2>2. pc' = "abort" \/ (pc' = "rx" /\ UNCHANGED <<s2c, log>>)
    BY <1>2 DEF rx, checksum
  <2>3. AckFirst'
    BY <1>0, <2>2 DEF AckFirst, Dead
  <2> QED
    BY <1>0, <2>1, <2>3 DEF Killed, Ended, Held
<1> QED
  BY <1>1, <1>2

\* tx has read the acknowledge, or the main loop throws one away.
LEMMA KeptByte ==
    ASSUME IInv, Kept, txAck \/ loop
    PROVE  Kept'
<1> USE DEF IInv, Kept
<1>0. /\ UNCHANGED <<s2c, buffer, packet, log, client, req, cack, ints, faults>>
      /\ pc \in {"ack", "loop"} /\ ~Dead /\ (noack => noack')
      /\ \/ pc = "loop" /\ UNCHANGED <<pc, noack>>
         \/ pc = "ack" /\ pc' = "abort"
         \/ pc = "ack" /\ pc' \in {"accept", "loop"} /\ (pc' = "accept" => packet.cmd = "detach")
  BY Facts DEF txAck, loop, return, serverVars, clientVars, Dead
<1>1. faults = {} => pc' # "abort"
  <2> SUFFICES ASSUME faults = {}, pc = "ack", c2s # <<>> PROVE Head(c2s) # Minus
    BY <1>0 DEF txAck, return, loop
  <2> QED
    BY Bytes DEF Regularly, Dead
<1>2. AckFirst'
  BY <1>0, Facts DEF AckFirst, Dead
<1>3. Killed' /\ Ended'
  BY <1>0, <1>1 DEF Killed, Ended, Dead
<1>4. Held'
  BY <1>0, Facts DEF Held, Waiting
<1> QED
  BY <1>2, <1>3, <1>4

\* The client sends a request, or reads a reply, or leaves.
LEMMA KeptClient ==
    ASSUME IInv, Kept, ClientSend \/ ClientReply \/ ClientHangup \/ ClientReject \/ ClientInterrupt,
           UNCHANGED serverVars
    PROVE  Kept'
<1> USE DEF IInv, Kept
<1>0. UNCHANGED <<pc, buffer, packet, noack, log>>
  BY DEF serverVars
<1>1. CASE ClientSend
  <2>1. /\ client = "idle" /\ req'.id = req.id + 1 /\ cack' = cack
        /\ client' = IF cack THEN "waitack" ELSE Sent(req'.cmd)
        /\ faults' = {} => faults = {}
    BY <1>1 DEF ClientSend
  <2>2. Len(log) # req'.id
    BY <2>1, Facts DEF Progress
  <2>3. AckFirst' /\ Held'
    BY <1>0, <2>1, <2>2, Facts DEF AckFirst, Held, Sent
  <2>4. Killed'
    BY <1>0, <2>1 DEF Killed, Sent, Detaching
  <2>5. Ended'
    BY <1>0, <2>1 DEF Ended, Gone, Dead
  <2> QED
    BY <2>3, <2>4, <2>5
<1>2. CASE ClientReply
  <2>1. /\ client' \in {"idle", "closed"} /\ UNCHANGED <<req, faults>>
        /\ client' = "idle" => req.cmd # "detach"
        /\ s2c # <<>> /\ s2c' = Tail(s2c) /\ Packet(Head(s2c)) /\ client = "waitreply"
    BY <1>2 DEF ClientReply
  <2>2. Replying /\ req.cmd \notin OneWay
    BY <2>1, Taken DEF Paired, Replying
  <2>3. AckFirst' /\ Held'
    BY <2>1 DEF AckFirst, Held, Waiting
  <2>4. Killed'
    BY <1>0, <2>1, <2>2 DEF Killed, OneWay
  <2>5. Ended'
    BY <1>0, <2>1, <2>2 DEF Ended, Gone, Dead
  <2> QED
    BY <2>3, <2>4, <2>5
<1>3. CASE ClientHangup \/ ClientReject \/ ClientInterrupt
  <2>1. faults' # {}
    BY <1>3 DEF ClientHangup, ClientReject, ClientInterrupt
  <2>2. /\ client' # "waitack"
    BY <1>3 DEF ClientHangup, ClientReject, ClientInterrupt
  <2> QED
    BY <2>1, <2>2 DEF AckFirst, Killed, Ended, Held
<1> QED
  BY <1>1, <1>2, <1>3

\* The client reads an acknowledge, or throws a packet away.
LEMMA KeptRead ==
    ASSUME IInv, Kept, ClientAcked \/ ClientNacked \/ ClientDiscard, UNCHANGED serverVars
    PROVE  Kept'
<1> USE DEF IInv, Kept
<1>0. /\ UNCHANGED <<req, cack, ints, faults, pc, buffer, packet, noack, log>>
      /\ s2c # <<>> /\ s2c' = Tail(s2c)
      /\ \/ client' = client
         \/ client = "waitack" /\ client' = Sent(req.cmd) /\ Head(s2c) = Plus
      /\ client' = "waitack" => client = "waitack" /\ Head(s2c) # Plus
  BY Bytes DEF ClientAcked, ClientNacked, ClientDiscard, serverVars, clientVars, Sent
<1>1. Replying' => Replying
  BY <1>0, Taken
<1>2. \/ Head(s2c) \in {Plus, Minus}
      \/ client = "waitack" /\ Packet(Head(s2c))
  BY DEF ClientAcked, ClientNacked, ClientDiscard
<1>3. Head(s2c) = Minus => pc = "abort"
  BY <1>0, Taken DEF Progress
<1>4. AckFirst'
  BY <1>0, <1>2, <1>3 DEF AckFirst, Dead
<1>5. Killed'
  BY <1>0 DEF Killed, Sent
<1>6. Ended'
  BY <1>0, <1>1 DEF Ended, Gone, Dead, Sent, Failing
<1>7. Held'
  <2> SUFFICES ASSUME Waiting', faults = {}, ~(noack /\ cack), Len(log) = req.id,
                      req.cmd \notin OneWay \cup Unanswered,
                      ~(pc = "parse" /\ packet = req)
               PROVE  \E k \in DOMAIN s2c' : s2c'[k] = req
    BY <1>0 DEF Held
  <2>1. Waiting
    BY <1>0 DEF Waiting
  <2>2. PICK k \in DOMAIN s2c : s2c[k] = req
    BY <2>1 DEF Held
  <2>3. Head(s2c) # req
    <3>1. ~(client = "waitack" /\ Packet(Head(s2c)))
      <4>1. CASE pc # "abort"
        BY <4>1, Facts DEF AckFirst
      <4>2. CASE pc = "abort"
        BY <2>1, <4>2 DEF Ended, Dead, Waiting, Gone, Unanswered, OneWay
      <4> QED
        BY <4>1, <4>2
    <3> QED
      BY <1>2, <3>1, Facts, Packets, Bytes
  <2>4. Range(s2c) = {Head(s2c)} \cup Range(s2c')
    BY <1>0, Facts, RangeTail
  <2>5. req \in Range(s2c)
    BY <2>2 DEF Range
  <2> QED
    BY <2>3, <2>4, <2>5 DEF Range
<1> QED
  BY <1>4, <1>5, <1>6, <1>7

\* Every step of the session keeps these parts.
LEMMA KeptStep ==
    ASSUME IInv, Kept, [Next]_vars
    PROVE  Kept'
<1> USE DEF IInv
<1>1. CASE main \/ listenUnix \/ listenTcp
  <2>1. PICK place \in {"listen", "accept", "deaf", "exit"} : GoTo(place)
    BY <1>1 DEF main, listenUnix, listenTcp
  <2>2. pc \in {"main", "listen"}
    BY <1>1 DEF main, listenUnix, listenTcp
  <2>3. Gone /\ ~Dead
    BY <2>2 DEF Progress, Early, Dead
  <2> QED
    BY <2>1, <2>2, <2>3, KeptMove, KeptEnd
<1>2. CASE acceptFails
  <2>1. pc = "accept" \/ Gone
    BY <1>2 DEF acceptFails, Progress, Early
  <2> QED
    BY <1>2, <2>1, KeptEnd DEF acceptFails, Dead
<1>3. CASE EndOfStream \/ SocketFails
  BY <1>3, KeptEnd DEF EndOfStream, SocketFails, Dead
<1>4. CASE parse
  <2>1. /\ pc = "parse"
        /\ \/ packet.cmd \notin OneWay /\ tx
           \/ packet.cmd \in OneWay \cup Unanswered /\ GoTo("loop")
           \/ packet.cmd \in Failing /\ GoTo("abort")
           \/ packet.cmd = "kill" /\ GoTo("exit")
    BY <1>4 DEF parse, signal, thread, query_monitor, query_supported, query, verbose, access,
       crash, run_step, run_continue, run_backward, point, extended, reset, detach, kill,
       unsupported, Handling, OneWay, Unanswered, Failing
  <2> QED
    BY <2>1, KeptTx, KeptMove, KeptEnd DEF Dead
<1>5. CASE loop \/ txAck
  BY <1>5, KeptByte
<1>6. CASE rx
  BY <1>6, KeptRx
<1>7. CASE accept
  <2>1. /\ pc = "accept" /\ pc' = "loop" /\ client' = "idle"
        /\ UNCHANGED <<req, packet, noack, log, faults>>
    BY <1>7 DEF accept, ClientConnect
  <2> QED
    BY <2>1 DEF Kept, AckFirst, Killed, Ended, Held, Dead, Waiting
<1>8. CASE Client /\ UNCHANGED serverVars
  BY <1>8, KeptClient, KeptRead DEF Client
<1>9. CASE UNCHANGED vars
  BY <1>9 DEF vars, Kept, AckFirst, Killed, Ended, Held, Dead, Waiting, Gone, Replying
<1> QED
  BY <1>1, <1>2, <1>3, <1>4, <1>5, <1>6, <1>7, <1>8, <1>9 DEF Next, Server, Protocol

\* RequestNotLost: no request that regular traffic waits for is lost on its way to the
\* handler, and no answer on the way back, in either acknowledge mode, across detach,
\* reconnect and the switch of the mode.
THEOREM NothingLost == Spec => []RequestNotLost
<1>1. Init => Kept
  BY DEF Init, ClientInit, NoRequest, Kept, AckFirst, Killed, Ended, Held, Dead, Waiting, Gone
<1>2. IInv /\ Kept /\ [Next]_vars => Kept'
  BY KeptStep
<1>3. IInv /\ Kept => RequestNotLost
  <2> SUFFICES ASSUME IInv, Kept, Waiting, faults = {}, SameMode,
                      req.cmd \notin OneWay \cup Unanswered, Len(log) # req.id
               PROVE  \E k \in DOMAIN c2s : c2s[k] = req
    BY Facts DEF RequestNotLost, Regular, Kept, Held, SameMode, IInv
  <2> USE DEF IInv, Kept
  <2>1. ~Dead
    BY DEF Ended, Gone, Waiting, Unanswered, OneWay
  <2>2. req.id \in Len(log) + 1 .. req.id
    BY Facts DEF Progress
  <2>3. PICK t \in Wire : t = Broken \/ (Packet(t) /\ t.id = req.id)
    BY <2>1, <2>2 DEF Pending
  <2>4. buffer = <<>>
    BY <2>1 DEF Progress, Regularly
  <2>5. PICK k \in DOMAIN c2s : c2s[k] = t
    BY <2>3, <2>4, RangeEmpty DEF Wire, Range
  <2>6. Packet(t) /\ ~t.bad /\ t.id = req.id /\ t \in Token
    BY <2>1, <2>3, <2>5, Bytes, Facts DEF Regularly
  <2>7. t.cmd = req.cmd
    BY <2>1, <2>3, <2>6 DEF Fresh
  <2>8. t = req
    BY <2>6, <2>7, Facts, Packets DEF Request, Progress
  <2> QED
    BY <2>5, <2>8
<1> QED
  BY <1>1, <1>2, <1>3, Invariance, PTL DEF Spec

-----------------------------------------------------------------------------
(* The session implements RequestReply *)

\* What the abstract session sees.
Unseen == UNCHANGED <<client, req, log>>

\* A step that changes neither the client's side nor the log is not seen.
LEMMA UnseenStutters ==
    ASSUME Unseen
    PROVE  UNCHANGED Service!vars
  BY DEF Unseen, Service!vars, Gone, Waiting

\* Every step of the session is a step of RequestReply, or is not seen by it.
LEMMA ServiceStep ==
    ASSUME IInv, [Next]_vars
    PROVE  [Service!Next]_(Service!vars)
<1> USE DEF IInv
<1>0. req.id \in Nat /\ Len(log) \in Nat /\ Len(log) <= req.id
  BY Facts DEF Progress
<1>1. ASSUME NEW place, GoTo(place) PROVE Unseen
  BY <1>1 DEF GoTo, linkVars, Unseen
<1>2. CASE main \/ listenUnix \/ listenTcp \/ acceptFails \/ EndOfStream \/ SocketFails
  BY <1>1, <1>2, UnseenStutters DEF main, listenUnix, listenTcp, acceptFails, EndOfStream, SocketFails
<1>3. CASE parse
  <2>1. tx => Unseen
    BY DEF tx, clientVars, Unseen
  <2> QED
    BY <1>1, <1>3, <2>1, Handlers, UnseenStutters
<1>4. CASE loop \/ txAck
  <2>1. Unseen
    BY <1>4 DEF loop, txAck, serverVars, clientVars, Unseen
  <2> QED
    BY <2>1, UnseenStutters
<1>5. CASE rx
  <2>0. UNCHANGED <<client, req>> /\ pc \in {"rx", "loop"} /\ c2s # <<>>
    BY <1>5 DEF rx, clientVars
  <2>1. CASE log' = log
    BY <2>0, <2>1, UnseenStutters DEF Unseen
  <2>2. CASE log' # log
    <3>1. Intact(buffer \o c2s) /\ log' = Append(log, Head(buffer \o c2s).id)
      BY <1>5, <2>2 DEF rx, checksum
    <3>2. log' = Append(log, Len(log) + 1) /\ Len(log) < req.id
      BY <1>0, <2>0, <3>1, Received
    <3>3. Service!Handle
      BY <2>0, <3>2 DEF Service!Handle, Gone, Waiting
    <3> QED
      BY <3>3 DEF Service!Next
  <2> QED
    BY <2>1, <2>2
<1>6. CASE accept
  <2>1. Gone /\ client' = "idle" /\ UNCHANGED <<req, log>>
    BY <1>6 DEF accept, ClientConnect
  <2>2. Service!Open
    BY <2>1 DEF Service!Open, Gone, Waiting
  <2> QED
    BY <2>2 DEF Service!Next
<1>7. CASE Client /\ UNCHANGED serverVars
  <2>0. UNCHANGED log
    BY <1>7 DEF serverVars
  <2>1. CASE ClientSend
    <3>1. client = "idle" /\ req'.id = req.id + 1
      BY <2>1 DEF ClientSend
    <3>2. \/ Waiting' /\ ~Gone'
          \/ ~Waiting' /\ req'.cmd \in OneWay
      BY <2>1 DEF ClientSend, Sent, OneWay, Waiting, Gone
    <3>3. Service!Ask
      BY <1>0, <2>0, <3>1, <3>2 DEF Service!Ask, Gone, Waiting
    <3> QED
      BY <3>3 DEF Service!Next
  <2>2. CASE ClientAcked
    <3>0. UNCHANGED req /\ client' = IF client = "waitack" THEN Sent(req.cmd) ELSE client
      BY <2>2 DEF ClientAcked
    <3>1. CASE client = "waitack" /\ req.cmd = "reset"
      <4>1. Service!Settle
        BY <1>0, <2>0, <3>0, <3>1 DEF Service!Settle, Gone, Waiting, Sent, OneWay
      <4> QED
        BY <4>1 DEF Service!Next
    <3>2. CASE client = "waitack" /\ req.cmd = "kill"
      <4>1. Service!Close
        BY <1>0, <2>0, <3>0, <3>2 DEF Service!Close, Gone, Waiting, Sent
      <4> QED
        BY <4>1 DEF Service!Next
    <3>3. CASE client # "waitack" \/ req.cmd \notin {"reset", "kill"}
      BY <2>0, <3>0, <3>3 DEF Service!vars, Gone, Waiting, Sent
    <3> QED
      BY <3>1, <3>2, <3>3
  <2>3. CASE ClientReply
    <3>0. /\ UNCHANGED req /\ client = "waitreply"
          /\ client' = IF req.cmd = "detach" THEN "closed" ELSE "idle"
          /\ s2c # <<>> /\ s2c' = Tail(s2c) /\ Packet(Head(s2c))
      BY <2>3 DEF ClientReply
    <3>1. Len(log) = req.id
      BY <3>0, Taken DEF Paired
    <3>2. CASE req.cmd = "detach"
      <4>1. Service!Close
        BY <1>0, <2>0, <3>0, <3>2 DEF Service!Close, Gone, Waiting
      <4> QED
        BY <4>1 DEF Service!Next
    <3>3. CASE req.cmd # "detach"
      <4>1. Service!Settle
        BY <1>0, <2>0, <3>0, <3>1, <3>3 DEF Service!Settle, Gone, Waiting
      <4> QED
        BY <4>1 DEF Service!Next
    <3> QED
      BY <3>2, <3>3
  <2>4. CASE ClientHangup
    <3>1. ~Gone /\ client' = "closed" /\ UNCHANGED req
      BY <2>4 DEF ClientHangup
    <3>2. Service!Close
      BY <1>0, <2>0, <3>1 DEF Service!Close, Gone, Waiting
    <3> QED
      BY <3>2 DEF Service!Next
  <2>5. CASE ClientNacked \/ ClientReject \/ ClientDiscard \/ ClientInterrupt
    <3>1. Unseen
      BY <2>0, <2>5 DEF ClientNacked, ClientReject, ClientDiscard, ClientInterrupt, clientVars, Unseen
    <3> QED
      BY <3>1, UnseenStutters
  <2> QED
    BY <1>7, <2>1, <2>2, <2>3, <2>4, <2>5 DEF Client
<1>8. CASE UNCHANGED vars
  BY <1>8, UnseenStutters DEF vars, Unseen
<1> QED
  BY <1>2, <1>3, <1>4, <1>5, <1>6, <1>7, <1>8 DEF Next, Server, Protocol

\* ImplementsService: each request is handled once, in order and undamaged, before it
\* is answered.
THEOREM Implements == Spec => ImplementsService
<1>1. Init => Service!Init
  BY DEF Init, ClientInit, NoRequest, Service!Init, Gone, Waiting, OneWay
<1>2. IInv /\ [Next]_vars => [Service!Next]_(Service!vars)
  BY ServiceStep
<1> QED
  BY <1>1, <1>2, Invariance, PTL DEF Spec, ImplementsService, Service!Spec
=============================================================================
