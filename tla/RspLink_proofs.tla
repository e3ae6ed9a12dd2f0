--------------------------- MODULE RspLink_proofs ---------------------------
(***************************************************************************)
(* Proofs about RspLink, for every number of requests and interrupts.  For *)
(* all commands and faults: type correctness.  Unless a run command may be *)
(* damaged, and then be handled again by the poll of its own run           *)
(* (NoNesting): ReplyPairing and AckComes, and, without the command        *)
(* QEnableErrorStrings, AckModesAgree.  Without damaged packets, and with  *)
(* R only if the acknowledges stay: that the session implements            *)
(* RequestReply, and, without QEnableErrorStrings, RequestNotLost.         *)
(***************************************************************************)
EXTENDS RspLink, RspClient_proofs

-----------------------------------------------------------------------------
(* The inductive invariant *)

\* The stub serves a connection.
Live == pc \in {"fsm", "get", "exec", "run", "ack"}

\* A reply is on its way to the client.
Replying == \E k \in DOMAIN s2c : Packet(s2c[k])

\* The handler of a command that is answered is at work.
Answering == pc \in {"exec", "run"} /\ cmd.cmd \notin Silent

\* The stub takes, or is about to take, one byte for an acknowledge.
AckPending == pc = "ack" \/ (Answering /\ ack)

\* What rsp_get_packet has received so far begins with a packet.
Strings ==
    /\ pc = "get" => str # <<>> /\ Packet(Head(str))
    /\ pc \in {"listen", "fsm", "exec", "run", "ack", "accept"} => str = <<>>

\* What the places of the stub say of the other variables.
Places ==
    /\ Strings
    /\ ~req.bad
    /\ pc = "run" => cmd.cmd \in {"cont", "back"}
    /\ pc \in {"listen", "accept", "ack"} => ack
    /\ pc = "listen" => Gone

\* There is at most one acknowledge on its way to the client, and behind it the
\* answer to the last request.
Shape ==
    \A k \in DOMAIN s2c :
       \/ s2c[k] \in {Plus, Minus} /\ k = 1
       \/ /\ Packet(s2c[k]) /\ k = Len(s2c)
          /\ s2c[k] = req /\ Waiting /\ req.cmd \notin OneWay

Quiet == ~Waiting => s2c = <<>>

\* A packet on its way to a handler: it is the last request, which is neither
\* acknowledged nor answered, or an R, which the client does not wait for.
Ready(t) ==
    /\ s2c = <<>> /\ (cack => client = "waitack")
    /\ t.cmd # "reset" => t.id = req.id /\ t.cmd = req.cmd /\ Waiting

\* A packet that is repeated while the stub has handled it already comes first, and
\* loses its "$" to the stub, which waits for an acknowledge.
Coming ==
    Live /\ ~Gone =>
       /\ \A k \in DOMAIN str : Packet(str[k]) => Ready(str[k])
       /\ \A k \in DOMAIN c2s : Packet(c2s[k]) => Ready(c2s[k]) \/ (k = 1 /\ AckPending)

Alone ==
    Answering /\ ~Gone => \A k \in DOMAIN c2s : Packet(c2s[k]) => k = 1 /\ ack

\* The client waits for the answer that a handler is about to send.
Current ==
    Answering /\ ~Gone => cmd.id = req.id /\ cmd.cmd = req.cmd /\ Waiting /\ ~Replying

\* A "-" is answered before anything else happens on the connection.
Nacking ==
    Minus \in Range(s2c) /\ Live =>
       client = "waitack" /\ c2s = <<>> /\ (Replying => pc = "ack") /\ (Answering => ack)

\* The stub leaves the acknowledges when it has read the last one.
Switching ==
    /\ ~cack /\ ack /\ Live /\ ~Gone =>
          pc = "ack" /\ cmd.cmd \in {"noack", "errstr"} /\ c2s # <<>>
    /\ Replying /\ req.cmd = "noack" /\ ack /\ Live => pc = "ack" /\ cmd.cmd = "noack"

\* The bytes s hold a packet.
PacketOn(s) == \E k \in DOMAIN s : Packet(s[k])

\* No run command is handled in the poll of another one, and none is about to be.
Flat == runs = 0 /\ (pc = "run" => ~PacketOn(c2s))

IInv == /\ TypeOK /\ Places /\ Shape /\ Quiet /\ Coming /\ Alone /\ Current /\ Nacking
        /\ Switching /\ Flat

\* Where the stub cannot be made to handle a run command that it is running: the client
\* repeats a packet that was damaged, and no other one.
RunCommands == {"cont", "back"}
NoNesting == "damage" \notin Faults \/ RunCommands \cap Commands = {}

\* Without damaged packets nothing is refused: with acknowledges, a packet on its way is the
\* last thing that was sent, so that it is received alone.
Clean ==
    /\ Minus \notin Range(s2c)
    /\ Answering => ~PacketOn(c2s)
    /\ pc = "ack" /\ c2s # <<>> => ~Packet(Head(c2s))
    /\ ack /\ cack /\ Live /\ ~Gone =>
          pc # "get" /\ \A k \in DOMAIN c2s : Packet(c2s[k]) => k = Len(c2s)
    /\ \A k \in DOMAIN c2s : Packet(c2s[k]) => ~c2s[k].bad

\* The client leaves the acknowledges no later than the stub, unless it waits for ever
\* for the answer that would tell it to.
ClientFollows ==
    /\ cack /\ ~ack /\ Live /\ ~Gone => Waiting /\ req.cmd = "noack"
    /\ pc = "ack" /\ cmd.cmd = "noack" /\ cack /\ ~Gone => Waiting /\ req.cmd = "noack"

\* The stub waits for an acknowledge of a client that will send one.
Awaited ==
    /\ AckComes
    /\ pc = "ack" /\ ~Gone /\ s2c # <<>> => req.cmd \notin OneWay

\* With R the acknowledges stay.
Acks == "reset" \in Commands => ack /\ cack

\* The requests handled, without damaged packets: the only packet on its way is the last
\* request.
Counted ==
    /\ Live => IF PacketOn(str) \/ PacketOn(c2s) THEN Len(log) + 1 = req.id
                                                 ELSE Len(log) = req.id
    /\ client = "idle" \/ s2c # <<>> => Len(log) = req.id
    /\ pc = "accept" \/ (pc = "ack" /\ cmd.cmd = "detach")
          => Len(log) = req.id /\ client # "idle" /\ (Gone \/ req.cmd = "detach")
    /\ pc = "listen" => req.id = 0 /\ log = <<>> /\ c2s = <<>>

Single ==
    Live =>
       /\ Broken \notin Range(str) \cup Range(c2s)
       /\ \A k \in DOMAIN c2s : Packet(c2s[k]) =>
             /\ c2s[k] = req /\ pc \notin {"get", "run"} /\ (pc = "ack" => k # 1)
             /\ pc = "exec" => cmd.cmd = "reset"
             /\ \A j \in DOMAIN c2s : Packet(c2s[j]) => j = k
       /\ \A k \in DOMAIN str : Packet(str[k]) => k = 1 /\ str[k] = req

\* The client waits for what the stub handles, except for an R that it has an
\* acknowledge of.
Attended ==
    /\ Minus \notin Range(s2c)
    /\ pc \in {"exec", "run", "get"} => ~Replying
    /\ pc \in {"exec", "run", "get"} /\ client = "idle" => pc = "exec" /\ cmd.cmd = "reset"
    /\ pc = "ack" => cmd.cmd \notin Silent
    /\ pc \in {"exec", "run", "ack"} /\ ~Gone /\ s2c # <<>> => cmd.cmd = req.cmd

\* The client sends no damaged packets, and R only if it always has acknowledges: it
\* would send the next request without waiting otherwise.
Orderly ==
    /\ "damage" \notin Faults
    /\ "reset" \notin Commands \/ {"noack", "errstr"} \cap Commands = {}

SInv == Counted /\ Single /\ Attended

\* The client and the stub leave the acknowledges together: the stub has answered, and
\* waits for the last acknowledge.
Leaving ==
    /\ Live /\ ~Gone /\ cack => ack
    /\ pc \in {"exec", "ack"} /\ cmd.cmd = "noack" /\ cack /\ ~Gone =>
          c2s = <<>> /\ Waiting /\ req.cmd = "noack"

\* Where the last request is.
Held ==
    /\ pc \in {"exec", "run"} /\ ~Gone /\ cmd.cmd # "reset" => cmd = req
    /\ pc \in {"spin", "finish"} => Gone \/ (Waiting /\ req.cmd = "kill")
    /\ client = "waitack" /\ Live => s2c # <<>> \/ PacketOn(c2s) \/ PacketOn(str)
    /\ client = "waitack" => cack /\ (s2c # <<>> => Head(s2c) = Plus)
    /\ Waiting /\ req.cmd \notin Silent =>
          \/ Live /\ (PacketOn(c2s) \/ PacketOn(str))
          \/ pc \in {"exec", "run"} /\ cmd = req
          \/ Replying

-----------------------------------------------------------------------------
(* Type correctness *)

\* What the types say of single variables.
LEMMA Facts ==
    ASSUME TypeOK
    PROVE  /\ c2s \in Seq(Token) /\ s2c \in Seq(Token) /\ str \in Seq(Token)
           /\ req \in Request /\ cmd \in Request /\ req.id \in Nat /\ Len(log) \in Nat
           /\ req \in Token /\ Packet(req)
           /\ ack \in BOOLEAN /\ cack \in BOOLEAN /\ rst \in BOOLEAN
           /\ DOMAIN c2s = 1 .. Len(c2s) /\ Len(c2s) \in Nat
           /\ DOMAIN s2c = 1 .. Len(s2c) /\ Len(s2c) \in Nat
<1>1. /\ c2s \in Seq(Token) /\ s2c \in Seq(Token) /\ str \in Seq(Token)
      /\ req \in Request /\ cmd \in Request /\ ack \in BOOLEAN /\ cack \in BOOLEAN
      /\ rst \in BOOLEAN /\ log \in Seq(0 .. MaxCmds)
  BY DEF TypeOK, ClientTypeOK
<1>2. req.id \in Nat /\ req \in Token /\ Packet(req)
  BY <1>1, RequestFields, Packets
<1>3. Len(log) \in Nat /\ Len(c2s) \in Nat /\ Len(s2c) \in Nat
  BY <1>1, LenProperties
<1>4. DOMAIN c2s = 1 .. Len(c2s) /\ DOMAIN s2c = 1 .. Len(s2c)
  BY <1>1, LenProperties
<1> QED
  BY <1>1, <1>2, <1>3, <1>4

\* What rsp_get_packet has received begins with a packet.
LEMMA FirstReceived ==
    ASSUME TypeOK, Strings, rsp_get_packet
    PROVE  /\ Head(str \o c2s) \in Request
           /\ Head(str \o c2s) = IF pc = "get" THEN Head(str) ELSE Head(c2s)
           /\ pc = "get" => str # <<>> /\ 1 \in DOMAIN str /\ Head(str) = str[1] /\ Packet(str[1])
           /\ pc # "get" => 1 \in DOMAIN c2s /\ Head(c2s) = c2s[1] /\ Packet(c2s[1])
           /\ pc # "get" => str = <<>> /\ str \o c2s = c2s
           /\ str \o c2s # <<>> /\ str \o c2s \in Seq(Token)
<1>0. c2s # <<>> /\ pc \in {"fsm", "get"} /\ (pc = "fsm" => Packet(Head(c2s)))
  BY DEF rsp_get_packet
<1>1. CASE pc = "get"
  <2>1. str # <<>> /\ Packet(Head(str)) /\ str \in Seq(Token) /\ c2s \in Seq(Token)
    BY <1>1, Facts DEF Strings
  <2>2. /\ 1 \in DOMAIN str /\ Head(str) = str[1] /\ Head(str) \in Token /\ Len(str) \in Nat \ {0}
    BY <2>1, RangeTail
  <2>3. str \o c2s \in Seq(Token) /\ str \o c2s # <<>> /\ (str \o c2s)[1] = str[1]
    <3>1. 1 \in 1 .. Len(str) + Len(c2s) /\ 1 <= Len(str)
      BY <2>2, Facts
    <3>2. str \o c2s \in Seq(Token) /\ (str \o c2s)[1] = str[1]
      BY <2>1, <3>1, ConcatProperties
    <3>3. str \o c2s # <<>>
      BY <2>1, ConcatEqualIffEmpty
    <3> QED
      BY <3>2, <3>3
  <2>4. Head(str \o c2s) = (str \o c2s)[1]
    BY <2>3, RangeTail
  <2> QED
    BY <1>1, <2>1, <2>2, <2>3, <2>4, Packets
<1>2. CASE pc = "fsm"
  <2>1. str = <<>> /\ c2s \in Seq(Token)
    BY <1>2, Facts DEF Strings
  <2>2. str \o c2s = c2s
    BY <2>1, ConcatEmptySeq
  <2>3. 1 \in DOMAIN c2s /\ Head(c2s) = c2s[1] /\ Head(c2s) \in Token
    BY <1>0, <2>1, RangeTail
  <2> QED
    BY <1>0, <1>2, <2>1, <2>2, <2>3, Packets
<1> QED
  BY <1>0, <1>1, <1>2

\* rsp_send_packet and the end of a handler keep the types.
LEMMA SendTypes ==
    ASSUME TypeOK, rsp_send_packet
    PROVE  s2c' \in Seq(Token) /\ ack' \in BOOLEAN /\ pc' \in {"fsm", "ack", "accept"}
<1>1. [cmd EXCEPT !.bad = FALSE] \in Token
  BY Facts, RequestFields, Packets
<1>2. s2c' \in Seq(Token)
  BY <1>1, Facts, AppendProperties DEF rsp_send_packet, Put
<1> QED
  BY <1>2, Facts DEF rsp_send_packet, AfterReply

\* Receiving keeps the types.
LEMMA ReceiptTypes ==
    ASSUME TypeOK, NEW tokens \in Seq(Token), Head(tokens) \in Request,
           Received(tokens) \/ GetMore(tokens), runs' \in Nat, c2s' = <<>>,
           UNCHANGED <<ack, rst, client, req, cack, ints, faults>>
    PROVE  TypeOK'
<1>0. <<>> \in Seq(Token)
  BY EmptySeq
<1>1. CASE Received(tokens)
  <2>1. s2c' \in Seq(Token)
    <3>1. \A t \in Token : Append(s2c, t) \in Seq(Token)
      BY Facts, AppendProperties
    <3> QED
      BY <1>1, <3>1, Bytes, Facts DEF Received, Put
  <2>2. log' \in Seq(0 .. MaxCmds)
    <3>1. Head(tokens).id \in 0 .. MaxCmds /\ 0 \in 0 .. MaxCmds
      <4>1. \A q \in Request : q.id \in 0 .. MaxCmds
        BY DEF Request
      <4>2. 0 \in 0 .. MaxCmds
        BY ClientAssumption
      <4> QED
        BY <4>1, <4>2, Zenon
    <3>2. \A i \in 0 .. MaxCmds : Append(log, i) \in Seq(0 .. MaxCmds)
      BY AppendProperties DEF TypeOK
    <3>3. log' = Append(log, IF Intact(tokens) THEN Head(tokens).id ELSE 0)
      BY <1>1 DEF Received
    <3> QED
      BY <3>1, <3>2, <3>3
  <2> QED
    BY <1>0, <1>1, <2>1, <2>2 DEF Received, TypeOK, ClientTypeOK
<1>2. CASE GetMore(tokens)
  BY <1>0, <1>2 DEF GetMore, TypeOK, ClientTypeOK
<1> QED
  BY <1>1, <1>2

\* The values of the variables (TypeOK) hold after every step of the session.
LEMMA TypeStep ==
    ASSUME TypeOK, Strings, [Next]_vars
    PROVE  TypeOK'
<1>0. TypeOK /\ ClientTypeOK
  BY DEF TypeOK
<1>1. CASE socket_listen \/ EndOfStream \/ BrokenPipe \/ rsp_continue \/ rsp_backward
  BY <1>1 DEF socket_listen, EndOfStream, BrokenPipe, rsp_continue, rsp_backward, TypeOK, ClientTypeOK, linkVars
<1>2. CASE ExecSilent
  BY <1>2 DEF ExecSilent, TypeOK, ClientTypeOK, linkVars
<1>3. CASE StubPlus
  BY <1>3, HeadTailProperties DEF StubPlus, stubVars, clientVars, TypeOK, ClientTypeOK
<1>4. CASE rsp_query_packet \/ rsp_step \/ rsp_detach \/ rsp_query_monitor
  <2>1. rsp_send_packet /\ rst' \in BOOLEAN /\ UNCHANGED <<c2s, str, cmd, runs, log, clientVars>>
    BY <1>4, Facts DEF rsp_query_packet, rsp_step, rsp_detach, rsp_query_monitor
  <2> QED
    BY <2>1, SendTypes DEF TypeOK, ClientTypeOK, clientVars
<1>5. ASSUME NEW hit \in BOOLEAN, RunStep(hit) PROVE TypeOK'
  <2>0. UNCHANGED <<rst, client, req, cack, ints, faults>>
    BY <1>5 DEF RunStep, clientVars
  <2>1. CASE c2s # <<>> /\ Packet(Head(c2s))
    <3>1. Head(c2s) \in Request /\ runs' \in Nat /\ RunNested
      BY <1>5, <2>1, Facts, RangeTail, Packets DEF RunStep, RunNested, TypeOK
    <3> QED
      BY <2>0, <3>1, Facts, ReceiptTypes DEF RunNested
  <2>2. CASE ~(c2s # <<>> /\ Packet(Head(c2s)))
    <3>0. RunAlone(hit)
      BY <1>5, <2>2 DEF RunStep
    <3>1. c2s' \in Seq(Token)
      BY <3>0, Facts, HeadTailProperties DEF RunAlone
    <3>2. s2c' \in Seq(Token) /\ ack' \in BOOLEAN
          /\ pc' \in {"listen", "fsm", "get", "exec", "run", "ack", "accept", "spin", "finish"}
      BY <3>0, Facts, SendTypes DEF RunAlone, TypeOK
    <3> QED
      BY <2>0, <3>0, <3>1, <3>2 DEF RunAlone, TypeOK, ClientTypeOK
  <2> QED
    BY <2>1, <2>2
<1>6. CASE StubAck
  <2>1. c2s' \in Seq(Token)
    <3>1. CASE c2s = <<>>
      BY <1>6, <3>1, EmptySeq DEF StubAck
    <3>2. CASE c2s # <<>>
      <4>1. Tail(c2s) \in Seq(Token) /\ <<Broken>> \in Seq(Token)
        BY <3>2, HeadTailProperties, Bytes, Facts
      <4>2. <<Broken>> \o Tail(c2s) \in Seq(Token)
        BY <4>1, ConcatProperties
      <4> QED
        BY <1>6, <3>2, <4>1, <4>2 DEF StubAck
    <3> QED
      BY <3>1, <3>2
  <2>2. ack' \in BOOLEAN /\ pc' \in {"accept", "fsm", "ack"} /\ runs' \in Nat
    <3>1. runs \in Nat /\ ack \in BOOLEAN
      BY Facts DEF TypeOK
    <3>2. CASE runs > 0
      BY <1>6, <3>1, <3>2 DEF StubAck
    <3>3. CASE ~(runs > 0)
      BY <1>6, <3>1, <3>3 DEF StubAck, AfterReply
    <3> QED
      BY <3>2, <3>3
  <2>3. s2c' \in Seq(Token)
    <3>1. s2c' \in {s2c, Append(s2c, [cmd EXCEPT !.bad = FALSE])}
      BY <1>6 DEF StubAck, Put
    <3>2. [cmd EXCEPT !.bad = FALSE] \in Token
      BY Facts, RequestFields, Packets
    <3>3. Append(s2c, [cmd EXCEPT !.bad = FALSE]) \in Seq(Token)
      BY <3>2, Facts, AppendProperties
    <3> QED
      BY <3>1, <3>3, Facts
  <2> QED
    BY <1>6, <2>1, <2>2, <2>3 DEF StubAck, clientVars, TypeOK, ClientTypeOK
<1>7. CASE rsp_get_packet
  <2>1. str \o c2s \in Seq(Token) /\ Head(str \o c2s) \in Request
    BY <1>7, FirstReceived
  <2>2. /\ UNCHANGED <<ack, rst, client, req, cack, ints, faults>> /\ c2s' = <<>> /\ runs' \in Nat
        /\ Received(str \o c2s) \/ GetMore(str \o c2s)
    BY <1>7 DEF rsp_get_packet, clientVars, TypeOK
  <2> QED
    BY <2>1, <2>2, ReceiptTypes
<1>8. CASE Connect
  BY <1>0, <1>8, ClientTypes DEF Connect, TypeOK
<1>9. CASE Client /\ UNCHANGED stubVars
  BY <1>0, <1>9, ClientTypes DEF stubVars, TypeOK
<1>10. CASE UNCHANGED vars
  BY <1>10 DEF vars, TypeOK, ClientTypeOK
<1> QED
  BY <1>1, <1>2, <1>3, <1>4, <1>5, <1>6, <1>7, <1>8, <1>9, <1>10 DEF Next, Stub, Exec

\* Every step keeps the string of rsp_get_packet beginning with a packet.
LEMMA StringsStep ==
    ASSUME TypeOK, Strings, [Next]_vars
    PROVE  Strings'
<1>1. ASSUME UNCHANGED <<pc, str>> PROVE Strings'
  BY <1>1 DEF Strings
<1>2. ASSUME pc' # "get", str' = <<>> \/ pc' \in {"spin", "finish"} PROVE Strings'
  BY <1>2 DEF Strings
<1>3. CASE socket_listen \/ EndOfStream \/ BrokenPipe \/ ExecSilent \/ rsp_continue \/ rsp_backward
           \/ Connect
  BY <1>2, <1>3 DEF socket_listen, EndOfStream, BrokenPipe, ExecSilent, rsp_continue, rsp_backward,
     Connect, Strings
<1>4. CASE StubPlus \/ (Client /\ UNCHANGED stubVars) \/ UNCHANGED vars
  BY <1>1, <1>4 DEF StubPlus, stubVars, vars
<1>5. CASE rsp_query_packet \/ rsp_query_monitor \/ rsp_step \/ rsp_detach
  BY <1>2, <1>5, SendTypes DEF rsp_query_packet, rsp_query_monitor, rsp_step, rsp_detach, Strings
<1>6. CASE StubAck
  BY <1>2, <1>6 DEF StubAck, AfterReply, Strings
<1>7. CASE rsp_get_packet
  <2>1. str \o c2s # <<>> /\ Packet(Head(str \o c2s))
    BY <1>7, FirstReceived, Packets
  <2> QED
    BY <1>7, <2>1 DEF rsp_get_packet, Received, GetMore, Strings
<1>8. ASSUME NEW hit \in BOOLEAN, RunStep(hit) PROVE Strings'
  <2>1. CASE c2s # <<>> /\ Packet(Head(c2s))
    BY <1>8, <2>1 DEF RunStep, RunNested, Received, GetMore, Strings
  <2>2. CASE ~(c2s # <<>> /\ Packet(Head(c2s)))
    BY <1>1, <1>2, <1>8, <2>2, SendTypes DEF RunStep, RunAlone, Strings
  <2> QED
    BY <2>1, <2>2
<1> QED
  BY <1>3, <1>4, <1>5, <1>6, <1>7, <1>8 DEF Next, Stub, Exec

\* The types hold at first.
LEMMA InitTypes ==
    ASSUME Init
    PROVE  TypeOK /\ Strings
<1> USE DEF Init, ClientInit
<1>1. <<>> \in Seq(Token) /\ <<>> \in Seq(0 .. MaxCmds)
  BY EmptySeq
<1>2. NoRequest \in Request /\ 0 \in 0 .. MaxInterrupts
  BY ClientAssumption DEF Request, NoRequest
<1> QED
  BY <1>1, <1>2 DEF TypeOK, ClientTypeOK, Strings

\* TypeOK: a handler of the stub only ever works on a packet, for all commands and faults,
\* a run command in the poll of another one included.
THEOREM TypeCorrect == Spec => []TypeOK
<1>1. Init => TypeOK /\ Strings
  BY InitTypes
<1>2. TypeOK /\ Strings /\ [Next]_vars => TypeOK' /\ Strings'
  BY TypeStep, StringsStep
<1> QED
  BY <1>1, <1>2, PTL DEF Spec

-----------------------------------------------------------------------------
(* Steps of the stub *)

\* The poll of a run finds no packet.
LEMMA Unnested ==
    ASSUME IInv, NEW hit \in BOOLEAN, RunStep(hit)
    PROVE  pc = "run" /\ RunAlone(hit) /\ UNCHANGED <<rst, clientVars>>
<1>1. c2s # <<>> => ~Packet(Head(c2s))
  BY Facts, RangeTail DEF IInv, RunStep, Flat, PacketOn
<1> QED
  BY <1>1 DEF RunStep

\* Likewise for the acknowledge of a reply: no other run goes on after it.
LEMMA Acknowledged ==
    ASSUME IInv, StubAck
    PROVE  /\ pc = "ack" /\ (c2s # <<>> \/ Gone) /\ str = <<>> /\ ack
           /\ AfterReply /\ pc' \in {"fsm", "accept"}
           /\ UNCHANGED <<s2c, runs, str, cmd, rst, log, client, req, cack, ints, faults>>
<1>1. pc = "ack" /\ str = <<>> /\ ack /\ ~(runs > 0)
  BY DEF IInv, StubAck, Flat, Places, Strings
<1>2. AfterReply /\ UNCHANGED <<s2c, runs>>
  BY <1>1 DEF StubAck
<1>3. pc' \in {"fsm", "accept"}
  BY <1>2 DEF AfterReply
<1> QED
  BY <1>1, <1>2, <1>3 DEF StubAck, clientVars

\* The parts of the invariant besides the types.
Rest == /\ Places /\ Shape /\ Quiet /\ Coming /\ Alone /\ Current /\ Nacking /\ Switching

\* The stub does not serve a connection any more, or not yet.
LEMMA AwayStep ==
    ASSUME IInv, pc' \in {"accept", "spin", "finish"}, pc' = "accept" => ack' /\ str' = <<>>,
           UNCHANGED <<s2c, client, req>>
    PROVE  Rest'
<1> USE DEF IInv
<1>1. Places' /\ Shape' /\ Quiet'
  BY DEF Places, Strings, Shape, Quiet, Waiting
<1>2. Coming' /\ Alone' /\ Current' /\ Nacking' /\ Switching'
  BY DEF Coming, Alone, Current, Nacking, Switching, Live, Answering
<1> QED
  BY <1>1, <1>2 DEF Rest

\* The main loop throws an acknowledge away.
LEMMA PlusStep ==
    ASSUME IInv, StubPlus
    PROVE  Rest'
<1> USE DEF IInv
<1>0. /\ UNCHANGED <<s2c, pc, str, cmd, ack, rst, log, client, req, cack, ints, faults>>
      /\ pc = "fsm" /\ c2s # <<>> /\ c2s' = Tail(c2s)
  BY DEF StubPlus, stubVars, clientVars
<1>1. \A k \in DOMAIN c2s' : k + 1 \in DOMAIN c2s /\ c2s'[k] = c2s[k + 1]
  BY <1>0, Facts, Shifted
<1>2. Places' /\ Shape' /\ Quiet'
  BY <1>0 DEF Places, Strings, Shape, Quiet, Waiting, Gone
<1>3. Coming'
  BY <1>0, <1>1 DEF Coming, Ready, Live, AckPending, Answering, Waiting, Gone
<1>4. Alone' /\ Current'
  BY <1>0 DEF Alone, Current, Answering
<1>5. Nacking' /\ Switching'
  BY <1>0 DEF Nacking, Switching, Replying, Live, Answering, Gone
<1> QED
  BY <1>2, <1>3, <1>4, <1>5 DEF Rest

\* More of a packet is awaited.
LEMMA MoreStep ==
    ASSUME IInv, rsp_get_packet, GetMore(str \o c2s)
    PROVE  Rest'
<1> USE DEF IInv
<1>0. /\ UNCHANGED <<s2c, cmd, ack, rst, log, client, req, cack, ints, faults>>
      /\ pc \in {"fsm", "get"} /\ pc' = "get" /\ str' = str \o c2s /\ c2s' = <<>>
  BY DEF GetMore, rsp_get_packet, clientVars
<1>1. Places'
  BY <1>0, FirstReceived, Packets, Facts DEF Places, Strings, Gone
<1>2. Shape' /\ Quiet'
  BY <1>0 DEF Shape, Quiet, Waiting
<1>3. Coming'
  <2>1. /\ DOMAIN str = 1 .. Len(str) /\ Len(str) \in Nat /\ DOMAIN str' = 1 .. Len(str) + Len(c2s)
        /\ \A k \in 1 .. Len(str) + Len(c2s) : str'[k] = IF k <= Len(str) THEN str[k] ELSE c2s[k - Len(str)]
    BY <1>0, Facts, ConcatProperties, LenProperties
  <2>2. \A k \in DOMAIN str' : \/ k \in DOMAIN str /\ str'[k] = str[k]
                               \/ \E j \in DOMAIN c2s : str'[k] = c2s[j]
    <3> SUFFICES ASSUME NEW k \in DOMAIN str'
                 PROVE  \/ k \in DOMAIN str /\ str'[k] = str[k]
                        \/ \E j \in DOMAIN c2s : str'[k] = c2s[j]
      OBVIOUS
    <3>1. CASE k <= Len(str)
      BY <2>1, <3>1
    <3>2. CASE k > Len(str)
      <4>1. k - Len(str) \in 1 .. Len(c2s) /\ str'[k] = c2s[k - Len(str)]
        BY <2>1, <3>2, Facts
      <4> QED
        BY <4>1, Facts
    <3> QED
      BY <2>1, <3>1, <3>2, Facts
  <2> QED
    BY <1>0, <2>2 DEF Coming, Ready, Live, AckPending, Answering, Waiting, Gone
<1>4. Alone' /\ Current'
  BY <1>0 DEF Alone, Current, Answering
<1>5. Nacking' /\ Switching'
  BY <1>0 DEF Nacking, Switching, Replying, Live, Answering, Gone
<1> QED
  BY <1>1, <1>2, <1>3, <1>4, <1>5 DEF Rest

\* The end of rsp_get_packet: the connection is silent, and the client waits for an
\* acknowledge if the stub sends one.
LEMMA ReceivedStep ==
    ASSUME IInv, rsp_get_packet, Received(str \o c2s)
    PROVE  Rest'
<1> USE DEF IInv
<1> DEFINE t == Head(str \o c2s)
<1>0. /\ UNCHANGED <<ack, rst, client, req, cack, ints, faults>>
      /\ pc \in {"fsm", "get"} /\ pc' = "exec" /\ str' = <<>> /\ c2s' = <<>> /\ cmd' = t
      /\ s2c' = IF ack /\ ~Gone THEN Append(s2c, IF Intact(str \o c2s) THEN Plus ELSE Minus) ELSE s2c
  BY DEF Received, Put, rsp_get_packet, clientVars
<1>1. ~Gone => Ready(t) /\ (ack => cack)
  <2>1. ~Gone => Ready(t)
    BY <1>0, FirstReceived DEF Coming, Live, AckPending, Answering, Places
  <2>2. ~Gone => (ack => cack)
    BY <1>0, Facts DEF Switching, Live
  <2> QED
    BY <2>1, <2>2
<1>2. ~Gone => s2c = <<>> /\ (ack => client = "waitack")
               /\ (t.cmd \notin Silent => t.id = req.id /\ t.cmd = req.cmd /\ Waiting)
  BY <1>1 DEF Ready, Silent
<1>3. s2c = <<>>
  BY <1>2 DEF Quiet, Gone, Waiting
<1>4. PICK a \in {Plus, Minus} : s2c' = <<>> \/ (s2c' = Append(s2c, a) /\ client = "waitack")
  BY <1>0, <1>2, <1>3
<1>5. /\ \A k \in DOMAIN s2c' : s2c'[k] \in {Plus, Minus} /\ k = 1
      /\ s2c' # <<>> => client = "waitack"
  <2>1. CASE s2c' = <<>>
    BY <2>1
  <2>2. CASE s2c' = Append(s2c, a) /\ client = "waitack"
    <3>1. DOMAIN s2c' = 1 .. Len(s2c) + 1 /\ s2c'[Len(s2c) + 1] = a
      BY <2>2, Facts, Bytes, Appended
    <3>2. Len(s2c) = 0
      BY <1>3
    <3> QED
      BY <2>2, <3>1, <3>2
  <2> QED
    BY <1>4, <2>1, <2>2
<1>6. ~Replying'
  BY <1>5, Bytes DEF Replying
<1> HIDE DEF t
<1>7. Places' /\ Shape' /\ Quiet'
  BY <1>0, <1>5 DEF Places, Strings, Shape, Quiet, Waiting
<1>8. Coming' /\ Alone'
  BY <1>0 DEF Coming, Alone
<1>9. Current'
  BY <1>0, <1>2, <1>6 DEF Current, Answering, Waiting, Gone
<1>10. Nacking'
  <2>1. Minus \in Range(s2c') => s2c' # <<>>
    BY RangeEmpty
  <2>2. s2c' # <<>> => ack
    BY <1>0, <1>3
  <2> QED
    BY <1>0, <1>5, <1>6, <2>1, <2>2 DEF Nacking
<1>11. Switching'
  BY <1>0, <1>1, <1>6 DEF Switching, Live, Gone
<1> QED
  BY <1>7, <1>8, <1>9, <1>10, <1>11 DEF Rest

\* A handler sends its reply.  The poll of a run may have taken a "+" before.
LEMMA ReplySent ==
    ASSUME IInv, Answering, rsp_send_packet, UNCHANGED <<str, cmd, client, req, cack>>,
           c2s' = c2s \/ (c2s # <<>> /\ Head(c2s) = Plus /\ c2s' = Tail(c2s))
    PROVE  Rest'
<1> USE DEF IInv
<1>0. /\ pc \in {"exec", "run"} /\ cmd.cmd \notin Silent /\ str = <<>> /\ Live
      /\ s2c' = IF Gone THEN s2c ELSE Append(s2c, [cmd EXCEPT !.bad = FALSE])
      /\ ack => pc' = "ack" /\ ack'
      /\ ~ack => /\ pc' \in {"accept", "fsm"}
                 /\ pc' = "accept" => ack'
                 /\ pc' = "fsm" => ~ack'
  BY Facts DEF Answering, Live, rsp_send_packet, AfterReply, Put, Places, Strings
<1>1. CASE Gone
  <2>1. s2c' = s2c /\ ~Replying
    BY <1>0, <1>1 DEF Quiet, Waiting, Gone, Replying
  <2>2. Places' /\ Shape' /\ Quiet'
    BY <1>0, <2>1 DEF Places, Strings, Shape, Quiet, Waiting
  <2>3. Coming' /\ Alone' /\ Current'
    BY <1>1 DEF Coming, Alone, Current, Gone
  <2>4. Nacking' /\ Switching'
    BY <1>0, <1>1, <2>1, RangeEmpty DEF Nacking, Switching, Gone, Quiet, Waiting, Replying
  <2> QED
    BY <2>2, <2>3, <2>4 DEF Rest
<1>2. CASE ~Gone
  <2>1. cmd.id = req.id /\ cmd.cmd = req.cmd /\ Waiting /\ ~Replying
    BY <1>2 DEF Current
  <2>2. [cmd EXCEPT !.bad = FALSE] = req
    BY <2>1, Facts DEF Request, Places, Strings
  <2>3. /\ s2c' = Append(s2c, req) /\ Len(s2c') = Len(s2c) + 1
        /\ DOMAIN s2c' = 1 .. Len(s2c) + 1 /\ s2c'[Len(s2c) + 1] = req
        /\ \A k \in DOMAIN s2c : s2c'[k] = s2c[k]
        /\ \A k \in DOMAIN s2c' : k \in DOMAIN s2c \/ k = Len(s2c) + 1
        /\ Range(s2c') = Range(s2c) \cup {req}
    <3>1. s2c' = Append(s2c, req) /\ s2c \in Seq(Token) /\ req \in Token
      BY <1>0, <1>2, <2>2, Facts
    <3> QED
      BY <3>1, Appended
  <2>4. req.cmd \notin OneWay /\ req # Minus
    BY <1>0, <2>1, Facts, Bytes DEF Silent, OneWay
  <2>5. \A k \in DOMAIN c2s' : Packet(c2s'[k]) => k = 1 /\ ack
    <3>1. \A k \in DOMAIN c2s : Packet(c2s[k]) => k = 1 /\ ack
      BY <1>2 DEF Alone
    <3>2. CASE c2s' = c2s
      BY <3>1, <3>2
    <3>3. CASE c2s # <<>> /\ Head(c2s) = Plus /\ c2s' = Tail(c2s)
      <4>1. \A k \in DOMAIN c2s' : k + 1 \in DOMAIN c2s /\ c2s'[k] = c2s[k + 1] /\ k + 1 # 1
        BY <3>3, Facts, Shifted
      <4> QED
        BY <3>1, <4>1
    <3> QED
      BY <3>2, <3>3
  <2>6. Places' /\ Quiet'
    BY <1>0, <2>1 DEF Places, Strings, Quiet, Waiting
  <2>7. Shape'
    <3>1. \A k \in DOMAIN s2c : s2c[k] \in {Plus, Minus} /\ k = 1
      BY <2>1 DEF Shape, Replying
    <3> QED
      BY <2>1, <2>3, <2>4, <3>1, Facts DEF Shape, Waiting
  <2>8. Coming' /\ Alone'
    BY <1>0, <2>5 DEF Coming, Alone, AckPending, Answering
  <2>9. Current'
    BY <1>0 DEF Current, Answering
  <2>10. Nacking'
    <3>1. Minus \in Range(s2c') => Minus \in Range(s2c)
      BY <2>3, <2>4
    <3>2. Minus \in Range(s2c') => client = "waitack" /\ c2s = <<>> /\ ack
      BY <1>0, <3>1 DEF Nacking
    <3> QED
      BY <1>0, <3>2 DEF Nacking, Answering
  <2>11. Switching'
    <3>1. ~cack => ~ack
      BY <1>0, <1>2 DEF Switching
    <3> QED
      BY <1>0, <2>1, <3>1 DEF Switching, Live
  <2> QED
    BY <2>6, <2>7, <2>8, <2>9, <2>10, <2>11 DEF Rest
<1> QED
  BY <1>1, <1>2

\* An iteration of a run that does not stop it.
LEMMA RunOnStep ==
    ASSUME IInv, pc = "run", UNCHANGED <<s2c, pc, ack, str, cmd, client, req, cack>>,
           c2s' = c2s \/ (c2s # <<>> /\ Head(c2s) = Plus /\ c2s' = Tail(c2s))
    PROVE  Rest'
<1> USE DEF IInv
<1>0. Answering /\ Live
  BY DEF Answering, Live, Places, Strings, Silent
<1>1. ~Gone => \A k \in DOMAIN c2s' : Packet(c2s'[k]) => k = 1 /\ ack
  <2>1. CASE c2s' = c2s
    BY <1>0, <2>1 DEF Alone
  <2>2. CASE c2s # <<>> /\ Head(c2s) = Plus /\ c2s' = Tail(c2s)
    <3>1. \A k \in DOMAIN c2s' : k + 1 \in DOMAIN c2s /\ c2s'[k] = c2s[k + 1] /\ k + 1 # 1
      BY <2>2, Facts, Shifted
    <3> QED
      BY <1>0, <3>1 DEF Alone
  <2> QED
    BY <2>1, <2>2
<1>2. Places' /\ Shape' /\ Quiet'
  BY DEF Places, Strings, Shape, Quiet, Waiting, Gone
<1>3. Coming' /\ Alone' /\ Current'
  BY <1>0, <1>1 DEF Coming, Alone, Current, Answering, AckPending, Live, Gone, Waiting, Replying, Places, Strings
<1>4. Nacking' /\ Switching'
  BY <1>0 DEF Nacking, Switching, Replying, Live, Answering, Gone
<1> QED
  BY <1>2, <1>3, <1>4 DEF Rest

\* A handler that does not reply returns, and a run command begins its loop.
LEMMA SilentStep ==
    ASSUME IInv, pc = "exec", \/ pc' = "fsm" /\ cmd.cmd \in Silent
                              \/ pc' = "run" /\ cmd.cmd \in {"cont", "back"},
           UNCHANGED <<c2s, s2c, client, req, cack, str, cmd, ack>>
    PROVE  Rest'
<1> USE DEF IInv
<1>1. Places' /\ Shape' /\ Quiet'
  BY DEF Places, Strings, Shape, Quiet, Waiting, Gone
<1>2. Answering' <=> Answering
  BY DEF Answering, Silent
<1>3. Coming'
  BY <1>2 DEF Coming, AckPending, Answering, Live, Gone, Waiting, Ready
<1>4. Alone' /\ Current'
  BY <1>2 DEF Alone, Current, Gone, Waiting, Replying
<1>5. Nacking' /\ Switching'
  BY <1>2 DEF Nacking, Switching, Replying, Live, Gone
<1> QED
  BY <1>1, <1>3, <1>4, <1>5 DEF Rest

\* The rest of rsp_send_packet: the byte it takes is the first one, after which only
\* packets are left that are still to be handled.
LEMMA AckStep ==
    ASSUME IInv, StubAck
    PROVE  Rest'
<1> USE DEF IInv
<1>0. /\ UNCHANGED <<s2c, str, cmd, rst, log, client, req, cack, ints, faults>>
      /\ pc = "ack" /\ (c2s # <<>> \/ Gone) /\ str = <<>> /\ ack /\ pc' \in {"fsm", "accept"}
      /\ ack' = (cmd.cmd \notin {"noack", "errstr"}) /\ (pc' = "accept" => ack')
  BY Acknowledged DEF AfterReply
<1>1. \A k \in DOMAIN c2s' : Packet(c2s'[k]) =>
         \E j \in DOMAIN c2s : j # 1 /\ c2s'[k] = c2s[j]
  <2>1. CASE c2s = <<>>
    BY <2>1 DEF StubAck
  <2>2. CASE c2s # <<>> /\ ~Packet(Head(c2s))
    BY <2>2, Facts, Shifted DEF StubAck
  <2>3. CASE c2s # <<>> /\ Packet(Head(c2s))
    <3>1. c2s' = <<Broken>> \o Tail(c2s) /\ Tail(c2s) \in Seq(Token) /\ Broken \in Token
      BY <2>3, Facts, RangeTail, Bytes DEF StubAck
    <3>2. \A k \in DOMAIN c2s' : c2s'[k] = Broken \/ \E i \in DOMAIN Tail(c2s) : c2s'[k] = Tail(c2s)[i]
      BY <3>1, RangePrepend DEF Range
    <3> QED
      BY <2>3, <3>2, Facts, Shifted, Bytes
  <2> QED
    BY <2>1, <2>2, <2>3
<1>2. Places' /\ Shape' /\ Quiet'
  BY <1>0 DEF Places, Strings, Shape, Quiet, Waiting
<1>3. Coming'
  BY <1>0, <1>1 DEF Coming, Ready, Live, AckPending, Waiting, Gone
<1>4. Alone' /\ Current'
  BY <1>0 DEF Alone, Current, Answering
<1>5. Nacking'
  BY <1>0, RangeEmpty DEF Nacking, Live, Quiet, Gone, Waiting, Answering
<1>6. Switching'
  BY <1>0 DEF Switching, Live, Gone, Replying
<1> QED
  BY <1>2, <1>3, <1>4, <1>5, <1>6 DEF Rest

\* A new client begins with an empty connection and acknowledges.
LEMMA ConnectStep ==
    ASSUME IInv, Connect
    PROVE  Rest'
<1> USE DEF IInv
<1>0. /\ UNCHANGED <<req, str, cmd, ack>> /\ pc = "accept" /\ pc' = "fsm" /\ str = <<>>
      /\ c2s' = <<Plus>> /\ s2c' = <<>> /\ client' = "idle" /\ cack' = TRUE
  BY DEF Connect, ClientConnect, Places, Strings
<1>1. Places' /\ Shape' /\ Quiet'
  BY <1>0 DEF Places, Strings, Shape, Quiet
<1>2. Coming'
  BY <1>0, Bytes DEF Coming
<1>3. Alone' /\ Current'
  BY <1>0 DEF Alone, Current, Answering
<1>4. Nacking' /\ Switching'
  BY <1>0, RangeEmpty DEF Nacking, Switching, Replying
<1> QED
  BY <1>1, <1>2, <1>3, <1>4 DEF Rest

-----------------------------------------------------------------------------
(* Steps of the client *)

\* What is left for the client when it has read a token: the answer, behind an
\* acknowledge, or nothing.
LEMMA Taken ==
    ASSUME IInv, s2c # <<>>, s2c' = Tail(s2c)
    PROVE  /\ 1 \in DOMAIN s2c /\ Head(s2c) = s2c[1] /\ Head(s2c) \in Range(s2c)
           /\ Minus \notin Range(s2c')
           /\ Replying' => Replying /\ ~Packet(Head(s2c))
           /\ Packet(Head(s2c)) => Replying
           /\ ~Replying' => s2c' = <<>>
           /\ \A k \in DOMAIN s2c' : /\ Packet(s2c'[k]) /\ k = Len(s2c')
                                     /\ s2c'[k] = req /\ Waiting /\ req.cmd \notin OneWay
<1>1. /\ s2c \in Seq(Token) /\ s2c' \in Seq(Token) /\ Len(s2c') = Len(s2c) - 1 /\ Len(s2c) \in Nat
      /\ Head(s2c) = s2c[1] /\ 1 \in DOMAIN s2c /\ Range(s2c) = {Head(s2c)} \cup Range(s2c')
      /\ DOMAIN s2c' = 1 .. Len(s2c')
  BY Facts, RangeTail DEF IInv
<1>2. \A k \in DOMAIN s2c' : k + 1 \in DOMAIN s2c /\ s2c'[k] = s2c[k + 1] /\ k \in Nat /\ k + 1 # 1
  BY Facts, Shifted DEF IInv
<1>3. \A k \in DOMAIN s2c' : /\ Packet(s2c'[k]) /\ k + 1 = Len(s2c)
                             /\ s2c'[k] = req /\ Waiting /\ req.cmd \notin OneWay
  BY <1>2 DEF Shape, IInv
<1>4. \A k \in DOMAIN s2c' : k = Len(s2c')
  BY <1>1, <1>2, <1>3
<1>5. Minus \notin Range(s2c')
  BY <1>3, Bytes DEF Range
<1>6. ~Replying' => s2c' = <<>>
  BY <1>1, <1>3 DEF Replying
<1>7. Replying' => Replying
  BY <1>2 DEF Replying
<1>8. Replying' => ~Packet(Head(s2c))
  <2>1. ASSUME Replying', Packet(Head(s2c)) PROVE FALSE
    <3>1. PICK k \in DOMAIN s2c' : Packet(s2c'[k])
      BY <2>1 DEF Replying
    <3>2. k + 1 = Len(s2c) /\ k + 1 # 1
      BY <1>2, <1>3, <3>1
    <3>3. Len(s2c) = 1
      BY <1>1, <2>1, Bytes DEF Shape, IInv
    <3> QED
      BY <3>2, <3>3
  <2> QED
    BY <2>1
<1>9. Packet(Head(s2c)) => Replying
  BY <1>1 DEF Replying
<1> QED
  BY <1>1, <1>3, <1>4, <1>5, <1>6, <1>7, <1>8, <1>9

\* Nothing is on its way to a handler when something is on its way to the client,
\* except for a packet that the stub takes for an acknowledge.
LEMMA NothingComes ==
    ASSUME IInv, Live, ~Gone, s2c # <<>>
    PROVE  /\ \A k \in DOMAIN str : ~Packet(str[k])
           /\ \A k \in DOMAIN c2s : Packet(c2s[k]) => k = 1 /\ AckPending
  BY DEF IInv, Coming, Ready

\* Ready, after a step.
ReadyNext(t) ==
    /\ s2c' = <<>> /\ (cack' => client' = "waitack")
    /\ t.cmd # "reset" => t.id = req'.id /\ t.cmd = req'.cmd /\ Waiting'

\* What Coming says after a step that changes neither pc nor cmd.
LEMMA ComingNext ==
    ASSUME UNCHANGED <<pc, str, cmd, ack>>,
           Live /\ ~Gone' =>
              /\ \A k \in DOMAIN str : Packet(str[k]) => ReadyNext(str[k])
              /\ \A k \in DOMAIN c2s' : Packet(c2s'[k]) => ReadyNext(c2s'[k]) \/ (k = 1 /\ AckPending)
    PROVE  Coming'
  BY DEF Coming, Live, AckPending, Answering, Ready, ReadyNext

\* The client sends a request; the connection is silent.
LEMMA SendStep ==
    ASSUME IInv, ClientSend, UNCHANGED stubVars
    PROVE  Rest'
<1> USE DEF IInv
<1>0. /\ UNCHANGED <<s2c, cack, pc, str, cmd, ack, rst, log>>
      /\ client = "idle" /\ ~req'.bad
      /\ client' = IF cack THEN "waitack" ELSE Sent(req'.cmd)
  BY DEF ClientSend, stubVars
<1>1. PICK t \in Token : /\ c2s' = Append(c2s, t) /\ Packet(t) /\ t.id = req'.id /\ t.cmd = req'.cmd
  <2>1. req' \in Request
    BY TypeStep DEF Next, Client, TypeOK, ClientTypeOK, Places
  <2>2. /\ req' \in Token /\ Packet(req')
        /\ [req' EXCEPT !.bad = TRUE] \in Token /\ Packet([req' EXCEPT !.bad = TRUE])
        /\ [req' EXCEPT !.bad = TRUE].id = req'.id /\ [req' EXCEPT !.bad = TRUE].cmd = req'.cmd
    BY <2>1, Packets, RequestFields
  <2> QED
    BY <2>2 DEF ClientSend
<1>2. s2c = <<>> /\ ~Replying /\ ~Answering
  BY <1>0 DEF Quiet, Waiting, Replying, Current, Gone
<1>3. /\ c2s' # <<>> /\ DOMAIN c2s' = 1 .. Len(c2s) + 1 /\ c2s'[Len(c2s) + 1] = t
      /\ \A k \in DOMAIN c2s : c2s'[k] = c2s[k]
      /\ \A k \in DOMAIN c2s' : k \in DOMAIN c2s \/ k = Len(c2s) + 1
  BY <1>1, Facts, Appended
<1>4. Places' /\ Shape' /\ Quiet'
  BY <1>0, <1>2 DEF Places, Strings, Shape, Quiet, Gone
<1>5. Coming'
  <2> SUFFICES ASSUME Live, ~Gone'
               PROVE  /\ \A k \in DOMAIN str : Packet(str[k]) => ReadyNext(str[k])
                      /\ \A k \in DOMAIN c2s' : Packet(c2s'[k]) => ReadyNext(c2s'[k]) \/ (k = 1 /\ AckPending)
    BY <1>0, ComingNext
  <2>1. ASSUME NEW u, Ready(u) PROVE ReadyNext(u)
    BY <1>0, <2>1 DEF Ready, ReadyNext, Waiting
  <2>2. ReadyNext(t)
    BY <1>0, <1>1, <1>2 DEF ReadyNext, Waiting, Sent, Gone
  <2>3. ~Gone
    BY <1>0 DEF Gone
  <2>4. \A k \in DOMAIN str : Packet(str[k]) => ReadyNext(str[k])
    BY <2>1, <2>3 DEF Coming
  <2>5. ASSUME NEW k \in DOMAIN c2s', Packet(c2s'[k])
        PROVE  ReadyNext(c2s'[k]) \/ (k = 1 /\ AckPending)
    <3>1. CASE k \in DOMAIN c2s
      BY <1>3, <2>1, <2>3, <2>5, <3>1 DEF Coming
    <3>2. CASE k = Len(c2s) + 1
      BY <1>3, <2>2, <3>2
    <3> QED
      BY <1>3, <3>1, <3>2
  <2> QED
    BY <2>4, <2>5
<1>6. Alone' /\ Current'
  BY <1>0, <1>2 DEF Alone, Current, Answering
<1>7. Nacking' /\ Switching'
  BY <1>0, <1>2, <1>3, RangeEmpty DEF Nacking, Switching, Replying, Live, Gone
<1> QED
  BY <1>4, <1>5, <1>6, <1>7 DEF Rest

\* The client reads an acknowledge or a "-", or throws a packet away.
LEMMA ReadStep ==
    ASSUME IInv, s2c # <<>>, s2c' = Tail(s2c), UNCHANGED <<req, cack, pc, str, cmd, ack>>,
           \/ client' = client
           \/ client = "waitack" /\ client' = Sent(req.cmd),
           \/ c2s' = c2s
           \/ Head(s2c) = Minus /\ client = "waitack" /\ client' = client /\ c2s' = Append(c2s, req)
    PROVE  Rest'
<1> USE DEF IInv
<1>0. /\ Waiting /\ (req.cmd \notin OneWay => Waiting') /\ (Gone => Gone') /\ ~Gone
      /\ ~Waiting' => s2c' = <<>>
  <2>1. Waiting /\ ~Gone
    BY DEF Quiet, Gone, Waiting
  <2>2. req.cmd \notin OneWay => Waiting'
    BY <2>1 DEF Waiting, Sent, OneWay
  <2>3. req.cmd \in OneWay => ~Replying'
    BY Taken DEF Replying
  <2> QED
    BY <2>1, <2>2, <2>3, Taken
<1>1. Places' /\ Shape' /\ Quiet'
  <2>1. Places'
    BY <1>0 DEF Places, Strings
  <2>2. Shape'
    BY <1>0, Taken DEF Shape
  <2> QED
    BY <1>0, <2>1, <2>2 DEF Quiet
<1>2. Coming'
  <2> SUFFICES ASSUME Live, ~Gone'
               PROVE  /\ \A k \in DOMAIN str : Packet(str[k]) => ReadyNext(str[k])
                      /\ \A k \in DOMAIN c2s' : Packet(c2s'[k]) => ReadyNext(c2s'[k]) \/ (k = 1 /\ AckPending)
    BY ComingNext
  <2>1. CASE c2s' = c2s
    BY <1>0, <2>1, NothingComes
  <2>2. CASE Head(s2c) = Minus /\ client = "waitack" /\ client' = client /\ c2s' = Append(c2s, req)
    <3>1. c2s = <<>> /\ (Replying => pc = "ack") /\ Len(c2s) = 0
      BY <2>2, Taken DEF Nacking
    <3>2. DOMAIN c2s' = 1 .. 1 /\ c2s'[1] = req
      BY <2>2, <3>1, Facts, Appended
    <3>3. CASE pc = "ack"
      BY <1>0, <3>2, <3>3, NothingComes DEF AckPending
    <3>4. CASE pc # "ack"
      <4>1. s2c' = <<>>
        BY <3>1, <3>4, Taken
      <4>2. ReadyNext(req)
        BY <1>0, <2>2, <4>1 DEF ReadyNext, Waiting
      <4> QED
        BY <1>0, <3>2, <4>2, NothingComes
    <3> QED
      BY <3>3, <3>4
  <2> QED
    BY <2>1, <2>2
<1>3. Alone'
  <2>1. CASE c2s' = c2s
    BY <1>0, <2>1 DEF Alone, Answering
  <2>2. CASE Head(s2c) = Minus /\ client = "waitack" /\ client' = client /\ c2s' = Append(c2s, req)
    <3>1. Live => c2s = <<>> /\ (Answering => ack) /\ Len(c2s) = 0
      BY <2>2, Taken DEF Nacking
    <3>2. Live => DOMAIN c2s' = 1 .. 1
      BY <2>2, <3>1, Facts, Appended
    <3> QED
      BY <3>1, <3>2 DEF Alone, Answering, Live
  <2> QED
    BY <2>1, <2>2
<1>4. Current'
  <2>1. Answering => req.cmd \notin OneWay
    BY <1>0 DEF Current, Answering, Silent, OneWay
  <2> QED
    BY <1>0, <2>1, Taken DEF Current, Answering
<1>5. Nacking'
  BY Taken DEF Nacking
<1>6. Switching'
  <2>1. c2s # <<>> => c2s' # <<>>
    BY Facts, Appended
  <2> QED
    BY <1>0, <2>1, Taken DEF Switching, Live
<1> QED
  BY <1>1, <1>2, <1>3, <1>4, <1>5, <1>6 DEF Rest

\* The client reads an answer, and acknowledges it or asks for it again.
LEMMA ReplyStep ==
    ASSUME IInv, ClientReply \/ ClientReject, UNCHANGED stubVars
    PROVE  Rest'
<1> USE DEF IInv
<1>0. /\ UNCHANGED <<req, pc, str, cmd, ack, rst, log>>
      /\ s2c # <<>> /\ s2c' = Tail(s2c) /\ Packet(Head(s2c)) /\ client = "waitreply"
      /\ client' \in {"idle", "closed", "waitreply"} /\ (cack' => cack)
      /\ c2s' = IF cack THEN Append(c2s, IF ClientReply THEN Plus ELSE Minus) ELSE c2s
      /\ cack' = (cack /\ (ClientReply => req.cmd # "noack"))
      /\ ClientReject => cack
  BY Facts DEF ClientReply, ClientReject, stubVars
<1>1. PICK b \in {Plus, Minus} : c2s' = IF cack THEN Append(c2s, b) ELSE c2s
  BY <1>0
<1>2. Replying /\ ~Replying' /\ s2c' = <<>> /\ ~Answering /\ ~Gone
  BY <1>0, Taken DEF Current, Gone
<1>3. /\ \A k \in DOMAIN c2s' : Packet(c2s'[k]) => k \in DOMAIN c2s /\ c2s'[k] = c2s[k]
      /\ (cack \/ c2s # <<>>) => c2s' # <<>>
  <2>1. CASE cack
    BY <1>1, <2>1, Facts, Bytes, Appended
  <2>2. CASE ~cack
    BY <1>1, <2>2
  <2> QED
    BY <2>1, <2>2
<1>4. Places' /\ Shape' /\ Quiet'
  BY <1>0, <1>2 DEF Places, Strings, Shape, Quiet, Gone
<1>5. Coming'
  BY <1>0, <1>2, <1>3, NothingComes, ComingNext
<1>6. Alone' /\ Current'
  BY <1>0, <1>2 DEF Alone, Current, Answering
<1>7. Nacking'
  BY <1>0, Taken DEF Nacking
<1>8. Switching'
  <2>1. CASE ~ack
    BY <1>0, <1>2, <2>1 DEF Switching
  <2>2. CASE ack /\ ~cack
    BY <1>0, <1>2, <1>3, <2>2 DEF Switching, Live
  <2>3. CASE ack /\ cack /\ req.cmd = "noack"
    BY <1>0, <1>2, <1>3, <2>3 DEF Switching, Live
  <2>4. CASE ack /\ cack /\ req.cmd # "noack"
    BY <1>0, <1>2, <2>4 DEF Switching
  <2> QED
    BY <2>1, <2>2, <2>3, <2>4, Facts
<1> QED
  BY <1>4, <1>5, <1>6, <1>7, <1>8 DEF Rest

\* A Ctrl-C of the client.
LEMMA InterruptStep ==
    ASSUME IInv, ClientInterrupt, UNCHANGED stubVars
    PROVE  Rest'
<1> USE DEF IInv
<1>0. /\ UNCHANGED <<s2c, client, req, cack, pc, str, cmd, ack, rst, log>>
      /\ client = "waitreply" /\ c2s' = Append(c2s, CtrlC)
  BY DEF ClientInterrupt, stubVars
<1>1. /\ \A k \in DOMAIN c2s' : Packet(c2s'[k]) => k \in DOMAIN c2s /\ c2s'[k] = c2s[k]
      /\ c2s' # <<>>
  BY <1>0, Facts, Bytes, Appended
<1>2. Places' /\ Shape' /\ Quiet'
  BY <1>0 DEF Places, Strings, Shape, Quiet, Waiting, Gone
<1>3. Coming' /\ Alone' /\ Current'
  BY <1>0, <1>1 DEF Coming, Alone, Current, Live, Answering, AckPending, Ready, Replying, Gone, Waiting
<1>4. Nacking' /\ Switching'
  BY <1>0, <1>1 DEF Nacking, Switching, Live, Answering, Replying, Gone
<1> QED
  BY <1>2, <1>3, <1>4 DEF Rest

\* The client closes the connection, or is killed.
LEMMA HangupStep ==
    ASSUME IInv, ClientHangup, UNCHANGED stubVars
    PROVE  Rest'
<1> USE DEF IInv
<1>0. /\ UNCHANGED <<c2s, req, cack, pc, str, cmd, ack, rst, log>>
      /\ s2c' = <<>> /\ client' = "closed"
  BY DEF ClientHangup, stubVars
<1>1. Places' /\ Shape' /\ Quiet' /\ Coming' /\ Alone' /\ Current'
  BY <1>0 DEF Places, Strings, Shape, Quiet, Coming, Alone, Current, Gone
<1>2. Nacking' /\ Switching'
  BY <1>0, RangeEmpty DEF Nacking, Switching, Replying, Gone
<1> QED
  BY <1>1, <1>2 DEF Rest

-----------------------------------------------------------------------------
(* The invariant holds *)

\* The invariant holds when the simulation starts.
LEMMA InitIInv ==
    ASSUME Init
    PROVE  IInv
<1> USE DEF Init, ClientInit
<1>1. TypeOK /\ Flat
  BY InitTypes DEF Flat
<1>2. Places /\ Shape /\ Quiet
  BY DEF Places, Strings, Shape, Quiet, Gone, NoRequest
<1>3. Coming /\ Alone /\ Current /\ Nacking /\ Switching
  BY DEF Coming, Alone, Current, Nacking, Switching, Live, Answering
<1> QED
  BY <1>1, <1>2, <1>3 DEF IInv

\* The steps that send a reply.
LEMMA ReplyingHandlers ==
    ASSUME IInv, rsp_query_packet \/ rsp_query_monitor \/ rsp_step \/ rsp_detach
    PROVE  /\ pc = "exec" /\ Answering /\ rsp_send_packet
           /\ UNCHANGED <<c2s, str, cmd, log, client, req, cack, ints, faults>>
  BY DEF rsp_query_packet, rsp_query_monitor, rsp_step, rsp_detach, Answering, Silent, clientVars

\* Every step of the session keeps the invariant, except for Flat, which needs more.
LEMMA NextRest ==
    ASSUME IInv, [Next]_vars
    PROVE  TypeOK' /\ Rest'
<1> USE DEF IInv
<1> SUFFICES Rest'
  BY TypeStep DEF Places
<1>1. CASE socket_listen \/ EndOfStream \/ BrokenPipe
  <2>1. /\ pc' \in {"accept", "spin", "finish"} /\ UNCHANGED <<s2c, client, req, ack, str>>
        /\ pc' = "accept" => pc = "listen"
    BY <1>1 DEF socket_listen, EndOfStream, BrokenPipe, linkVars
  <2> QED
    BY <2>1, AwayStep DEF Places, Strings
<1>2. CASE StubPlus
  BY <1>2, PlusStep
<1>3. CASE rsp_get_packet
  BY <1>3, MoreStep, ReceivedStep DEF rsp_get_packet
<1>4. CASE StubAck
  BY <1>4, AckStep
<1>5. CASE rsp_query_packet \/ rsp_query_monitor \/ rsp_step \/ rsp_detach
  BY <1>5, ReplyingHandlers, ReplySent
<1>6. CASE ExecSilent
  <2>1. UNCHANGED <<c2s, s2c, client, req, cack, str, cmd, ack>> /\ pc = "exec" /\ cmd.cmd \in Silent
        /\ pc' \in {"fsm", "finish"}
    BY <1>6 DEF ExecSilent, linkVars
  <2> QED
    BY <2>1, SilentStep, AwayStep
<1>7. CASE rsp_continue \/ rsp_backward
  BY <1>7, SilentStep DEF rsp_continue, rsp_backward, linkVars
<1>8. ASSUME NEW hit \in BOOLEAN, RunStep(hit) PROVE Rest'
  <2>1. /\ pc = "run" /\ UNCHANGED <<str, cmd, client, req, cack>>
        /\ c2s' = c2s \/ (c2s # <<>> /\ Head(c2s) = Plus /\ c2s' = Tail(c2s))
        /\ rsp_send_packet \/ UNCHANGED <<s2c, pc, ack>>
    BY <1>8, Unnested DEF RunAlone, clientVars
  <2>2. Answering
    BY <2>1 DEF Answering, Places, Strings, Silent
  <2> QED
    BY <2>1, <2>2, ReplySent, RunOnStep
<1>9. CASE Connect
  BY <1>9, ConnectStep
<1>10. CASE Client /\ UNCHANGED stubVars
  <2>1. CASE ClientSend
    BY <1>10, <2>1, SendStep
  <2>2. CASE ClientAcked \/ ClientNacked \/ ClientDiscard
    <3>1. /\ s2c # <<>> /\ s2c' = Tail(s2c) /\ UNCHANGED <<req, cack, pc, str, cmd, ack>>
          /\ \/ client' = client
             \/ client = "waitack" /\ client' = Sent(req.cmd)
          /\ \/ c2s' = c2s
             \/ Head(s2c) = Minus /\ client = "waitack" /\ client' = client /\ c2s' = Append(c2s, req)
      BY <1>10, <2>2 DEF ClientAcked, ClientNacked, ClientDiscard, stubVars, clientVars
    <3> QED
      BY <3>1, ReadStep
  <2>3. CASE ClientReply \/ ClientReject
    BY <1>10, <2>3, ReplyStep
  <2>4. CASE ClientInterrupt
    BY <1>10, <2>4, InterruptStep
  <2>5. CASE ClientHangup
    BY <1>10, <2>5, HangupStep
  <2> QED
    BY <1>10, <2>1, <2>2, <2>3, <2>4, <2>5 DEF Client
<1>11. CASE UNCHANGED vars
  <2>1. UNCHANGED <<c2s, s2c, client, req, cack, ints, faults, pc, str, cmd, ack, rst, log>>
    BY <1>11 DEF vars
  <2> QED
    BY <2>1 DEF Rest, Places, Strings, Shape, Quiet, Coming, Alone, Current, Nacking, Switching, Live,
       Answering, AckPending, Ready, Replying, Gone, Waiting
<1> QED
  BY <1>1, <1>2, <1>3, <1>4, <1>5, <1>6, <1>7, <1>8, <1>9, <1>10, <1>11 DEF Next, Stub, Exec

-----------------------------------------------------------------------------
(* The wait for an acknowledge *)

\* Every step of the session keeps the acknowledge coming.
LEMMA AwaitedStep ==
    ASSUME IInv, Awaited, [Next]_vars
    PROVE  Awaited'
<1> USE DEF IInv
<1>1. ASSUME pc' # "ack" PROVE Awaited'
  BY <1>1 DEF Awaited, AckComes
<1>2. CASE \/ socket_listen \/ EndOfStream \/ BrokenPipe \/ ExecSilent
           \/ rsp_continue \/ rsp_backward \/ StubAck \/ Connect
  BY <1>1, <1>2, Acknowledged DEF socket_listen, EndOfStream, BrokenPipe, ExecSilent,
     rsp_continue, rsp_backward, Connect
<1>3. CASE StubPlus \/ rsp_get_packet
  BY <1>1, <1>3 DEF StubPlus, rsp_get_packet, Received, GetMore, stubVars
<1>4. ASSUME Answering, rsp_send_packet, UNCHANGED <<client, req>>
      PROVE  Awaited'
  <2>1. ~Gone => Waiting /\ req.cmd \notin OneWay
    BY <1>4 DEF Current, Answering, Silent, OneWay
  <2> QED
    BY <1>4, <2>1 DEF Awaited, AckComes, Gone, Waiting
<1>5. CASE rsp_query_packet \/ rsp_query_monitor \/ rsp_step \/ rsp_detach
  BY <1>4, <1>5, ReplyingHandlers
<1>6. ASSUME NEW hit \in BOOLEAN, RunStep(hit) PROVE Awaited'
  <2>1. /\ pc = "run" /\ UNCHANGED <<client, req>> /\ Answering
        /\ rsp_send_packet \/ pc' = pc
    BY <1>6, Unnested DEF RunAlone, clientVars, Answering, Places, Strings, Silent
  <2> QED
    BY <1>1, <1>4, <2>1
<1>7. CASE Client /\ UNCHANGED stubVars
  <2>0. UNCHANGED <<pc, ack>>
    BY <1>7 DEF stubVars
  <2> SUFFICES ASSUME pc = "ack" PROVE Awaited'
    BY <1>1, <2>0
  <2>1. CASE ClientSend
    <3>1. s2c' = <<>>
      BY <2>1 DEF ClientSend, Quiet, Waiting
    <3>2. c2s' # <<>>
      <4>1. PICK t : c2s' = Append(c2s, t)
        BY <2>1 DEF ClientSend
      <4> QED
        BY <4>1, Facts
    <3> QED
      BY <3>1, <3>2 DEF Awaited, AckComes
  <2>2. CASE ClientAcked \/ ClientNacked \/ ClientDiscard
    <3>1. /\ UNCHANGED req /\ s2c # <<>>
          /\ client' = client \/ client' = Sent(req.cmd)
      BY <2>2 DEF ClientAcked, ClientNacked, ClientDiscard, clientVars
    <3>2. Waiting /\ ~Gone /\ req.cmd \notin OneWay
      BY <3>1 DEF Quiet, Awaited, Waiting, Gone
    <3>3. Waiting'
      BY <3>1, <3>2 DEF Sent, OneWay, Waiting
    <3> QED
      BY <3>1, <3>2, <3>3 DEF Awaited, AckComes, Waiting
  <2>3. CASE ClientReply
    <3>0. /\ UNCHANGED req /\ client = "waitreply" /\ s2c # <<>>
          /\ c2s' = IF cack THEN Append(c2s, Plus) ELSE c2s
      BY <2>3 DEF ClientReply
    <3>1. ack /\ ~Gone /\ Live
      BY <3>0 DEF Places, Strings, Gone, Live
    <3>2. c2s' # <<>>
      BY <3>0, <3>1, Facts DEF Switching
    <3> QED
      BY <3>0, <3>1, <3>2 DEF Awaited, AckComes
  <2>4. CASE ClientReject \/ ClientInterrupt
    <3>1. /\ UNCHANGED <<client, req>> /\ client = "waitreply"
          /\ s2c' = s2c \/ s2c # <<>>
      BY <2>4 DEF ClientReject, ClientInterrupt
    <3> QED
      BY <3>1 DEF Awaited, AckComes, Gone
  <2>5. CASE ClientHangup
    BY <2>5 DEF ClientHangup, Awaited, AckComes, Gone
  <2> QED
    BY <1>7, <2>1, <2>2, <2>3, <2>4, <2>5 DEF Client
<1>8. CASE UNCHANGED vars
  BY <1>8 DEF vars, Awaited, AckComes, Gone
<1> QED
  BY <1>2, <1>3, <1>5, <1>6, <1>7, <1>8 DEF Next, Stub, Exec

-----------------------------------------------------------------------------
(* Without damaged packets nothing is handled twice *)

\* A token taken from the front that is not a packet.
LEMMA PacketOnTail ==
    ASSUME NEW s \in Seq(Token), s # <<>>, ~Packet(Head(s))
    PROVE  /\ PacketOn(Tail(s)) <=> PacketOn(s)
           /\ Range(Tail(s)) \subseteq Range(s)
<1>1. /\ DOMAIN Tail(s) = 1 .. Len(s) - 1 /\ Head(s) = s[1] /\ Len(s) \in Nat
      /\ DOMAIN s = 1 .. Len(s) /\ Range(s) = {Head(s)} \cup Range(Tail(s))
  BY RangeTail, LenProperties
<1>2. \A k \in DOMAIN Tail(s) : k + 1 \in DOMAIN s /\ Tail(s)[k] = s[k + 1]
  BY Shifted
<1>3. ASSUME NEW k \in DOMAIN s, Packet(s[k]) PROVE PacketOn(Tail(s))
  <2>1. k # 1
    BY <1>1, <1>3
  <2>2. k - 1 \in DOMAIN Tail(s) /\ (k - 1) + 1 = k
    BY <1>1, <2>1
  <2>3. Packet(Tail(s)[k - 1])
    BY <1>2, <1>3, <2>2
  <2> QED
    BY <2>2, <2>3 DEF PacketOn
<1> QED
  BY <1>1, <1>2, <1>3 DEF PacketOn

\* A token added that is not a packet.
LEMMA PacketOnAppend ==
    ASSUME NEW s \in Seq(Token), NEW t \in Token, ~Packet(t)
    PROVE  PacketOn(Append(s, t)) <=> PacketOn(s)
  BY Appended DEF PacketOn

\* No packet is on its way to the stub.
LEMMA NothingOn ==
    ASSUME c2s' \in Seq(Token), ~PacketOn(c2s'), pc' # "get", Minus \notin Range(s2c')
    PROVE  Clean'
<1>1. c2s' # <<>> => Head(c2s') = c2s'[1] /\ 1 \in DOMAIN c2s'
  BY RangeTail
<1> QED
  BY <1>1 DEF Clean, PacketOn, Live, Gone, Answering

\* With acknowledges the client has sent no packet while it waits for an answer.
LEMMA NoneSent ==
    ASSUME IInv, Clean, Live, ~Gone, cack, client # "waitack"
    PROVE  ~PacketOn(c2s)
<1> SUFFICES ASSUME NEW k \in DOMAIN c2s, Packet(c2s[k]) PROVE FALSE
  BY DEF PacketOn
<1>1. ~Ready(c2s[k])
  BY DEF Ready
<1>2. k = 1 /\ AckPending
  BY <1>1 DEF IInv, Coming
<1>3. c2s # <<>> /\ Head(c2s) = c2s[1]
  BY <1>2, Facts, RangeTail, EmptySeq DEF IInv
<1> QED
  BY <1>2, <1>3 DEF Clean, AckPending, PacketOn

\* The stub receives: with acknowledges, one packet that it accepts.
LEMMA CleanReceipt ==
    ASSUME IInv, Clean, rsp_get_packet
    PROVE  Clean'
<1> USE DEF IInv
<1>0. /\ pc \in {"fsm", "get"} /\ c2s # <<>> /\ (pc = "fsm" => Packet(Head(c2s))) /\ c2s' = <<>>
      /\ UNCHANGED <<ack, client, req, cack>> /\ Live
      /\ IF Ends(c2s[Len(c2s)]) THEN Received(str \o c2s) ELSE GetMore(str \o c2s)
  BY DEF rsp_get_packet, clientVars, Live
<1>1. ~PacketOn(c2s') /\ c2s' \in Seq(Token)
  BY <1>0, EmptySeq DEF PacketOn
<1>2. CASE ack /\ ~Gone
  <2>1. cack /\ pc = "fsm" /\ str = <<>>
    BY <1>0, <1>2 DEF Switching, Clean, Places, Strings
  <2>2. Head(c2s) = c2s[1] /\ 1 \in DOMAIN c2s /\ Packet(c2s[1])
    BY <1>0, <2>1, Facts, RangeTail
  <2>3. Len(c2s) = 1 /\ ~c2s[1].bad
    BY <1>0, <1>2, <2>1, <2>2 DEF Clean
  <2>4. str \o c2s = c2s /\ Ends(c2s[Len(c2s)])
    BY <2>1, <2>2, <2>3, Facts, ConcatEmptySeq DEF Packet
  <2>5. Intact(str \o c2s)
    BY <2>2, <2>3, <2>4 DEF Intact
  <2>6. pc' = "exec" /\ s2c' = Append(s2c, Plus)
    BY <1>0, <1>2, <2>4, <2>5 DEF Received, Put
  <2>7. Minus \notin Range(s2c')
    BY <2>6, Facts, RangeAppend, Bytes DEF Clean
  <2> QED
    BY <1>1, <2>6, <2>7, NothingOn
<1>3. CASE ~ack \/ Gone
  <2>1. s2c' = s2c /\ pc' \in {"exec", "get"}
    BY <1>0, <1>3 DEF Received, GetMore, Put
  <2> QED
    BY <1>0, <1>1, <1>3, <2>1 DEF Clean, PacketOn, Gone
<1> QED
  BY <1>2, <1>3, Facts

\* A reply is sent, or a run goes on.
LEMMA CleanHandler ==
    ASSUME IInv, Clean, Answering, rsp_send_packet \/ UNCHANGED <<s2c, pc, ack>>,
           c2s' = c2s \/ (c2s # <<>> /\ Head(c2s) = Plus /\ c2s' = Tail(c2s))
    PROVE  Clean'
<1> USE DEF IInv
<1>1. ~PacketOn(c2s') /\ c2s' \in Seq(Token)
  <2>1. ~PacketOn(c2s) /\ c2s \in Seq(Token)
    BY Facts DEF Clean
  <2>2. c2s # <<>> => ~PacketOn(Tail(c2s)) /\ Tail(c2s) \in Seq(Token)
    <3> SUFFICES ASSUME c2s # <<>> PROVE ~PacketOn(Tail(c2s)) /\ Tail(c2s) \in Seq(Token)
      OBVIOUS
    <3>1. ~Packet(Head(c2s))
      BY <2>1, RangeTail DEF PacketOn
    <3> QED
      BY <2>1, <3>1, PacketOnTail, HeadTailProperties
  <2> QED
    BY <2>1, <2>2
<1>2. pc' # "get"
  BY SendTypes DEF Answering
<1>3. Minus \notin Range(s2c')
  <2>1. [cmd EXCEPT !.bad = FALSE] \in Token /\ [cmd EXCEPT !.bad = FALSE] # Minus
    BY Facts, RequestFields, Packets, Bytes
  <2>2. \A t \in Token : Range(Append(s2c, t)) = Range(s2c) \cup {t}
    BY Facts, RangeAppend
  <2>3. s2c' = s2c \/ s2c' = Append(s2c, [cmd EXCEPT !.bad = FALSE])
    BY DEF rsp_send_packet, Put
  <2> QED
    BY <2>1, <2>2, <2>3 DEF Clean
<1> QED
  BY <1>1, <1>2, <1>3, NothingOn

\* A token is taken from the front, by the main loop or as an acknowledge.
LEMMA CleanTail ==
    ASSUME IInv, Clean, pc' \in {"fsm", "accept"}, UNCHANGED <<s2c, client, cack>>,
           pc \in {"fsm", "ack"}, ack' => ack \/ pc' = "accept",
           \/ c2s' = <<>>
           \/ c2s # <<>> /\ ~Packet(Head(c2s)) /\ c2s' = Tail(c2s)
    PROVE  Clean'
<1> USE DEF IInv
<1>1. CASE c2s' = <<>>
  BY <1>1, EmptySeq, NothingOn DEF PacketOn, Clean
<1>2. CASE c2s # <<>> /\ ~Packet(Head(c2s)) /\ c2s' = Tail(c2s)
  <2>1. \A k \in DOMAIN c2s' : k + 1 \in DOMAIN c2s /\ c2s'[k] = c2s[k + 1] /\ k \in Nat
    BY <1>2, Facts, Shifted
  <2>2. Len(c2s') = Len(c2s) - 1 /\ Len(c2s) \in Nat
    BY <1>2, Facts, RangeTail
  <2>3. ack' /\ cack' /\ Live' /\ ~Gone' => \A k \in DOMAIN c2s' : Packet(c2s'[k]) => k = Len(c2s')
    <3> SUFFICES ASSUME ack', cack', Live', ~Gone', NEW k \in DOMAIN c2s', Packet(c2s'[k])
                 PROVE  k = Len(c2s')
      OBVIOUS
    <3>1. ack /\ cack /\ Live /\ ~Gone
      BY DEF Live, Gone
    <3>2. k + 1 = Len(c2s)
      BY <2>1, <3>1 DEF Clean
    <3> QED
      BY <2>1, <2>2, <3>2
  <2>4. \A k \in DOMAIN c2s' : Packet(c2s'[k]) => ~c2s'[k].bad
    BY <2>1 DEF Clean
  <2> QED
    BY <2>3, <2>4 DEF Clean, Answering
<1> QED
  BY <1>1, <1>2

\* The client sends a packet: it has not sent another one since its last acknowledge.
LEMMA CleanSend ==
    ASSUME IInv, AckComes, Clean, "damage" \notin Faults, ClientSend, UNCHANGED stubVars
    PROVE  Clean'
<1> USE DEF IInv
<1>0. /\ client = "idle" /\ c2s' = Append(c2s, req') /\ req'.bad = FALSE /\ req' \in Request
      /\ UNCHANGED <<s2c, cack, pc, cmd, ack>>
  <2>1. req' \in Request
    BY TypeStep DEF Places, Next, Client, TypeOK, ClientTypeOK
  <2> QED
    BY <2>1 DEF ClientSend, MayFail, stubVars
<1>1. ~Answering /\ ~Gone
  BY <1>0 DEF Current, Waiting, Gone
<1>2. req' \in Token
  BY <1>0, Packets
<1>3. /\ DOMAIN c2s' = DOMAIN c2s \cup {Len(c2s) + 1} /\ c2s'[Len(c2s) + 1] = req'
      /\ \A k \in DOMAIN c2s : c2s'[k] = c2s[k] /\ k # Len(c2s) + 1
      /\ Len(c2s') = Len(c2s) + 1
  BY <1>0, <1>2, Facts, AppendProperties
<1>4. pc = "ack" => ~Packet(Head(c2s'))
  <2> SUFFICES ASSUME pc = "ack" PROVE ~Packet(Head(c2s'))
    OBVIOUS
  <2>1. c2s # <<>>
    BY <1>0 DEF AckComes
  <2>2. c2s' \in Seq(Token) /\ c2s' # <<>>
    BY <1>0, <1>2, Facts, AppendProperties
  <2>3. Head(c2s) = c2s[1] /\ 1 \in DOMAIN c2s /\ Head(c2s') = c2s'[1]
    BY <2>1, <2>2, Facts, RangeTail
  <2> QED
    BY <1>3, <2>1, <2>3 DEF Clean
<1>5. ack /\ cack /\ Live => pc # "get" /\ ~PacketOn(c2s)
  BY <1>0, <1>1, NoneSent DEF Clean
<1> QED
  BY <1>0, <1>1, <1>3, <1>4, <1>5 DEF Clean, PacketOn, Answering, Live

\* The client reads an answer or interrupts.
LEMMA CleanAppend ==
    ASSUME IInv, Clean, UNCHANGED stubVars, client = "waitreply", cack' => cack,
           NEW t \in {Plus, CtrlC}, c2s' = c2s \/ c2s' = Append(c2s, t),
           Range(s2c') \subseteq Range(s2c)
    PROVE  Clean'
<1> USE DEF IInv
<1>0. UNCHANGED <<pc, cmd, ack>> /\ Minus \notin Range(s2c') /\ ~Gone
  BY DEF stubVars, Clean, Gone
<1>1. /\ t \in Token /\ ~Packet(t) /\ c2s' \in Seq(Token)
      /\ PacketOn(c2s') <=> PacketOn(c2s)
  <2>1. t \in Token /\ ~Packet(t)
    BY Bytes
  <2>2. Append(c2s, t) \in Seq(Token)
    BY <2>1, Facts, AppendProperties
  <2>3. PacketOn(Append(c2s, t)) <=> PacketOn(c2s)
    BY <2>1, Facts, PacketOnAppend
  <2> QED
    BY <2>1, <2>2, <2>3, Facts
<1>2. CASE ~PacketOn(c2s) /\ pc # "get"
  BY <1>0, <1>1, <1>2, NothingOn
<1>3. CASE PacketOn(c2s) \/ pc = "get"
  <2>1. ~Answering /\ ~(ack /\ cack /\ Live)
    BY <1>0, <1>3, NoneSent DEF Clean, Live, Answering
  <2>2. \A k \in DOMAIN c2s' : Packet(c2s'[k]) => ~c2s'[k].bad
    <3>1. c2s' = Append(c2s, t) =>
             \A k \in DOMAIN c2s' : c2s'[k] = t \/ (k \in DOMAIN c2s /\ c2s'[k] = c2s[k])
      BY <1>1, Facts, AppendProperties
    <3> QED
      BY <1>1, <3>1 DEF Clean
  <2>3. pc = "ack" /\ c2s' # <<>> => ~Packet(Head(c2s'))
    <3> SUFFICES ASSUME pc = "ack", c2s' # <<>> PROVE ~Packet(Head(c2s'))
      OBVIOUS
    <3>1. CASE c2s' = c2s
      BY <3>1 DEF Clean
    <3>2. CASE c2s' = Append(c2s, t) /\ c2s # <<>>
      <4>1. Head(c2s') = c2s'[1] /\ Head(c2s) = c2s[1] /\ 1 \in DOMAIN c2s
        BY <1>1, <3>2, Facts, RangeTail
      <4>2. c2s'[1] = c2s[1]
        BY <1>1, <3>2, <4>1, Facts, AppendProperties
      <4> QED
        BY <3>2, <4>1, <4>2 DEF Clean
    <3>3. CASE c2s' = Append(c2s, t) /\ c2s = <<>>
      BY <1>1, <3>3
    <3> QED
      BY <3>1, <3>2, <3>3
  <2> QED
    BY <1>0, <2>1, <2>2, <2>3 DEF Clean, Answering, Live, Gone
<1> QED
  BY <1>2, <1>3

\* Without damage every step keeps the connection clean.
LEMMA CleanStep ==
    ASSUME IInv, AckComes, Clean, "damage" \notin Faults, [Next]_vars
    PROVE  Clean'
<1> USE DEF IInv
<1>1. CASE socket_listen \/ EndOfStream \/ BrokenPipe
  BY <1>1 DEF socket_listen, EndOfStream, BrokenPipe, linkVars, Clean, Live, Answering
<1>2. CASE StubPlus
  <2>1. /\ UNCHANGED <<s2c, client, cack, pc, ack>> /\ pc = "fsm" /\ c2s # <<>>
        /\ ~Packet(Head(c2s)) /\ c2s' = Tail(c2s)
    BY <1>2, Bytes DEF StubPlus, stubVars, clientVars
  <2> QED
    BY <2>1, CleanTail
<1>3. CASE rsp_get_packet
  BY <1>3, CleanReceipt
<1>4. CASE StubAck
  <2>1. /\ UNCHANGED <<s2c, client, cack>> /\ pc = "ack" /\ ack /\ pc' \in {"fsm", "accept"}
    BY <1>4 DEF StubAck, AfterReply, Flat, clientVars, Places
  <2>2. \/ c2s' = <<>>
        \/ c2s # <<>> /\ ~Packet(Head(c2s)) /\ c2s' = Tail(c2s)
    BY <1>4 DEF StubAck, Clean
  <2> QED
    BY <2>1, <2>2, CleanTail
<1>5. CASE rsp_query_packet \/ rsp_query_monitor \/ rsp_step \/ rsp_detach
  BY <1>5, ReplyingHandlers, CleanHandler
<1>6. CASE ExecSilent \/ rsp_continue \/ rsp_backward
  <2>1. /\ UNCHANGED <<c2s, s2c, client, cack, cmd, ack>> /\ pc = "exec"
        /\ pc' \in {"fsm", "finish", "run"}
    BY <1>6 DEF ExecSilent, rsp_continue, rsp_backward, linkVars
  <2> QED
    BY <2>1 DEF Clean, Live, Answering, Gone
<1>7. ASSUME NEW hit \in BOOLEAN, RunStep(hit) PROVE Clean'
  <2>1. /\ pc = "run" /\ (rsp_send_packet \/ UNCHANGED <<s2c, pc, ack>>)
        /\ c2s' = c2s \/ (c2s # <<>> /\ Head(c2s) = Plus /\ c2s' = Tail(c2s))
    BY <1>7, Unnested DEF RunAlone
  <2>2. Answering
    BY <1>7, Unnested DEF Answering, Places, Silent
  <2> QED
    BY <2>1, <2>2, CleanHandler
<1>8. CASE Connect
  <2>1. pc' = "fsm" /\ c2s' = <<Plus>> /\ s2c' = <<>>
    BY <1>8 DEF Connect, ClientConnect
  <2>2. ~PacketOn(<<Plus>>) /\ <<Plus>> \in Seq(Token)
    BY Bytes DEF PacketOn
  <2> QED
    BY <2>1, <2>2, RangeEmpty, NothingOn
<1>9. CASE Client /\ UNCHANGED stubVars
  <2>0. UNCHANGED <<pc, cmd, ack>>
    BY <1>9 DEF stubVars
  <2>1. CASE ClientSend
    BY <1>9, <2>1, CleanSend
  <2>2. CASE ClientAcked \/ ClientNacked \/ ClientDiscard
    <3>1. /\ s2c # <<>> /\ s2c' = Tail(s2c) /\ UNCHANGED cack /\ (Gone => Gone')
          /\ c2s' = c2s \/ Head(s2c) = Minus
      BY <2>2 DEF ClientAcked, ClientNacked, ClientDiscard, clientVars, Gone
    <3>2. Head(s2c) \in Range(s2c) /\ Range(s2c') \subseteq Range(s2c)
      BY <3>1, Facts, RangeTail
    <3> QED
      BY <2>0, <3>1, <3>2 DEF Clean, Answering, Live
  <2>3. CASE ClientReply
    <3>1. /\ client = "waitreply" /\ s2c # <<>> /\ s2c' = Tail(s2c) /\ (cack' => cack)
          /\ c2s' = c2s \/ c2s' = Append(c2s, Plus)
      BY <2>3, Facts DEF ClientReply
    <3>2. Range(s2c') \subseteq Range(s2c)
      BY <3>1, Facts, RangeTail
    <3> QED
      BY <1>9, <3>1, <3>2, CleanAppend
  <2>4. ~ClientReject
    BY DEF ClientReject, MayFail
  <2>5. CASE ClientInterrupt
    <3>1. client = "waitreply" /\ UNCHANGED <<s2c, cack>> /\ c2s' = Append(c2s, CtrlC)
      BY <2>5 DEF ClientInterrupt
    <3> QED
      BY <1>9, <3>1, CleanAppend
  <2>6. CASE ClientHangup
    <3>1. Gone' /\ s2c' = <<>> /\ UNCHANGED c2s
      BY <2>6 DEF ClientHangup, Gone
    <3> QED
      BY <2>0, <3>1, RangeEmpty DEF Clean, Answering
  <2> QED
    BY <1>9, <2>1, <2>2, <2>3, <2>4, <2>5, <2>6 DEF Client
<1>10. CASE UNCHANGED vars
  BY <1>10 DEF vars, Clean, Live, Answering, Gone
<1> QED
  BY <1>1, <1>2, <1>3, <1>4, <1>5, <1>6, <1>7, <1>8, <1>9, <1>10 DEF Next, Stub, Exec

\* No step makes the stub handle a run command in the poll of another one.
LEMMA RunsStep ==
    ASSUME IInv, [Next]_vars
    PROVE  runs' = 0
<1>0. runs = 0
  BY DEF IInv, Flat
<1>1. ASSUME NEW hit \in BOOLEAN, RunStep(hit) PROVE runs' = 0
  BY <1>0, <1>1, Unnested DEF RunAlone
<1> QED
  BY <1>0, <1>1 DEF Next, Stub, Exec, socket_listen, StubPlus, rsp_get_packet, EndOfStream, BrokenPipe,
     StubAck, rsp_query_packet, rsp_query_monitor, rsp_step, rsp_detach, ExecSilent, rsp_continue,
     rsp_backward, Connect, stubVars, vars

\* The inductive invariant holds throughout a session.
THEOREM Invariance ==
    ASSUME NoNesting
    PROVE  Spec => [](IInv /\ Awaited)
<1> DEFINE J == IInv /\ Awaited /\ ("damage" \notin Faults => Clean)
<1>1. Init => J
  <2>1. Init => Awaited
    BY DEF Init, Awaited, AckComes
  <2>2. Init => Clean
    BY RangeEmpty DEF Init, ClientInit, Clean, PacketOn, Live, Answering
  <2> QED
    BY <2>1, <2>2, InitIInv
<1>2. J /\ [Next]_vars => J'
  <2> SUFFICES ASSUME J, [Next]_vars PROVE J'
    OBVIOUS
  <2>1. TypeOK' /\ Rest' /\ Awaited' /\ runs' = 0
    BY NextRest, AwaitedStep, RunsStep
  <2>2. "damage" \notin Faults => Clean'
    BY CleanStep DEF Awaited
  <2>3. pc' = "run" => ~PacketOn(c2s')
    <3> SUFFICES ASSUME pc' = "run" PROVE ~PacketOn(c2s')
      OBVIOUS
    <3>1. cmd'.cmd \in RunCommands /\ cmd'.cmd \in Commands \cup {"none"}
      BY <2>1 DEF Rest, Places, RunCommands, TypeOK, Request
    <3>2. "damage" \notin Faults
      BY <3>1 DEF NoNesting, RunCommands
    <3> QED
      BY <2>2, <3>1, <3>2 DEF Clean, Answering, RunCommands, Silent
  <2> QED
    BY <2>1, <2>2, <2>3 DEF IInv, Rest, Flat
<1> QED
  BY <1>1, <1>2, PTL DEF Spec

\* ReplyPairing: a reply of the stub on its way to the client is the only one and belongs
\* to the request the client is waiting for, with any interrupts and hang-ups, and with
\* damaged packets and retransmissions if there are no run commands.  With both, a run
\* command may be handled in the poll of its own run, and be answered twice (VNack.cfg).
THEOREM RepliesPaired ==
    ASSUME NoNesting
    PROVE  Spec => []ReplyPairing
<1>1. IInv => ReplyPairing
  BY Bytes DEF IInv, Shape, ReplyPairing, Replies
<1> QED
  BY <1>1, Invariance, PTL

\* AckComes: rsp_send_packet never blocks for an acknowledge while the client has nothing
\* to send, with any interrupts and hang-ups, and with damaged packets if there are no run
\* commands.
THEOREM AcksCome ==
    ASSUME NoNesting
    PROVE  Spec => []AckComes
<1>1. Awaited => AckComes
  BY DEF Awaited
<1> QED
  BY <1>1, Invariance, PTL

-----------------------------------------------------------------------------
(* The acknowledge modes *)

\* Without QEnableErrorStrings the client leaves the acknowledges with the stub.
LEMMA ClientFollowsStep ==
    ASSUME IInv, ClientFollows, "errstr" \notin Commands, [Next]_vars
    PROVE  ClientFollows'
<1> USE DEF IInv
<1>0. cmd.cmd # "errstr" /\ ack \in BOOLEAN
  BY Facts DEF Request
<1>1. ASSUME pc' # "ack", UNCHANGED <<client, req, cack, ack>>, Live' => Live
      PROVE  ClientFollows'
  BY <1>1 DEF ClientFollows, Gone, Waiting
<1>2. CASE socket_listen \/ EndOfStream \/ BrokenPipe \/ ExecSilent \/ rsp_continue \/ rsp_backward
  <2>1. pc' # "ack" /\ UNCHANGED <<client, req, cack, ack>> /\ (Live' => Live)
    BY <1>2 DEF socket_listen, EndOfStream, BrokenPipe, ExecSilent, rsp_continue, rsp_backward, linkVars, Live
  <2> QED
    BY <1>1, <2>1
<1>3. CASE StubPlus
  <2>1. pc' # "ack" /\ UNCHANGED <<client, req, cack, ack>> /\ (Live' => Live)
    BY <1>3 DEF StubPlus, stubVars, clientVars, Live
  <2> QED
    BY <1>1, <2>1
<1>4. CASE rsp_get_packet
  <2>1. pc' # "ack" /\ UNCHANGED <<client, req, cack, ack>> /\ (Live' => Live)
    BY <1>4 DEF rsp_get_packet, Received, GetMore, clientVars, Live
  <2> QED
    BY <1>1, <2>1
<1>5. ASSUME Answering, rsp_send_packet, UNCHANGED <<client, req, cack, cmd>>
      PROVE  ClientFollows'
  <2>0. ~Gone => cmd.cmd = req.cmd /\ Waiting
    BY <1>5 DEF Current
  <2>1. CASE ack
    BY <1>5, <2>0, <2>1 DEF rsp_send_packet, ClientFollows, Gone, Waiting
  <2>2. CASE ~ack
    <3>1. pc' \in {"fsm", "accept"}
      BY <1>5, <2>2 DEF rsp_send_packet, AfterReply
    <3> QED
      BY <1>5, <2>2, <3>1 DEF ClientFollows, Gone, Waiting, Live, Answering
  <2> QED
    BY <2>1, <2>2
<1>6. CASE rsp_query_packet \/ rsp_query_monitor \/ rsp_step \/ rsp_detach
  BY <1>5, <1>6, ReplyingHandlers
<1>7. ASSUME NEW hit \in BOOLEAN, RunStep(hit) PROVE ClientFollows'
  <2>1. pc = "run" /\ UNCHANGED <<client, req, cack, cmd>> /\ Answering
    BY <1>7, Unnested DEF RunAlone, clientVars, Answering, Places, Strings, Silent
  <2>2. CASE rsp_send_packet
    BY <1>5, <2>1, <2>2
  <2>3. CASE UNCHANGED <<s2c, pc, ack>>
    BY <1>1, <2>1, <2>3 DEF Live
  <2> QED
    BY <1>7, <2>2, <2>3, Unnested DEF RunAlone
<1>8. CASE StubAck
  <2>1. /\ pc = "ack" /\ pc' \in {"fsm", "accept"} /\ UNCHANGED <<client, req, cack>>
        /\ ack' \/ cmd.cmd = "noack"
    BY <1>0, <1>8, Acknowledged DEF AfterReply
  <2> QED
    BY <2>1 DEF ClientFollows, Gone, Waiting
<1>9. CASE Connect
  <2>1. pc = "accept" /\ pc' = "fsm" /\ ack' = ack /\ ack
    BY <1>9 DEF Connect, Places, Strings
  <2> QED
    BY <2>1 DEF ClientFollows
<1>10. CASE Client /\ UNCHANGED stubVars
  <2>0. UNCHANGED <<pc, cmd, ack>>
    BY <1>10 DEF stubVars
  <2>1. CASE ClientSend
    <3>1. client = "idle" /\ cack' = cack
      BY <2>1 DEF ClientSend
    <3> QED
      BY <2>0, <3>1 DEF ClientFollows, Live, Gone, Waiting
  <2>2. CASE ClientAcked \/ ClientNacked \/ ClientDiscard \/ ClientReject \/ ClientInterrupt
    <3>1. UNCHANGED <<req, cack>> /\ (client' = client \/ (client = "waitack" /\ client' = Sent(req.cmd)))
      BY <2>2 DEF ClientAcked, ClientNacked, ClientDiscard, ClientReject, ClientInterrupt, clientVars
    <3> QED
      BY <2>0, <3>1 DEF ClientFollows, Live, Gone, Waiting, Sent
  <2>3. CASE ClientReply
    <3>1. UNCHANGED req /\ cack' = (cack /\ req.cmd # "noack") /\ client = "waitreply"
      BY <2>3 DEF ClientReply
    <3> QED
      BY <2>0, <3>1 DEF ClientFollows, Live, Gone
  <2>4. CASE ClientHangup
    BY <2>4 DEF ClientHangup, ClientFollows, Gone
  <2> QED
    BY <1>10, <2>1, <2>2, <2>3, <2>4 DEF Client
<1>11. CASE UNCHANGED vars
  BY <1>11 DEF vars, ClientFollows, Live, Gone, Waiting
<1> QED
  BY <1>2, <1>3, <1>4, <1>6, <1>7, <1>8, <1>9, <1>10, <1>11 DEF Next, Stub, Exec

\* AckModesAgree: when nothing is on its way the stub and the client agree on whether
\* packets are acknowledged, also after a detach and with any interrupts, and with damaged
\* packets if there are no run commands; provided that QEnableErrorStrings, which ends the
\* acknowledges of the stub only, is not used.
THEOREM ModesAgree ==
    ASSUME NoNesting, "errstr" \notin Commands
    PROVE  Spec => []AckModesAgree
<1>1. Init => ClientFollows
  BY DEF Init, ClientFollows, Live
<1>2. IInv /\ ClientFollows /\ [Next]_vars => ClientFollows'
  BY ClientFollowsStep
<1>3. IInv /\ ClientFollows => AckModesAgree
  BY Facts DEF IInv, Switching, ClientFollows, AckModesAgree, Live, Gone, Waiting
<1> QED
  BY <1>1, <1>2, <1>3, Invariance, PTL DEF Spec

-----------------------------------------------------------------------------
(* The abstract service *)

\* Acknowledges that no command ends stay.
LEMMA AcksStep ==
    ASSUME IInv, Acks, Orderly, [Next]_vars
    PROVE  Acks'
<1> USE DEF IInv
<1> SUFFICES ASSUME "reset" \in Commands PROVE ack' /\ cack'
  BY DEF Acks
<1>0. ack /\ cack /\ cmd.cmd \notin {"noack", "errstr"} /\ req.cmd # "noack"
  BY Facts DEF Acks, Orderly, Request
<1>1. ASSUME UNCHANGED <<ack, cack>> PROVE ack' /\ cack'
  BY <1>0, <1>1
<1>2. CASE socket_listen \/ EndOfStream \/ BrokenPipe \/ ExecSilent \/ rsp_continue \/ rsp_backward
  BY <1>1, <1>2 DEF socket_listen, EndOfStream, BrokenPipe, ExecSilent, rsp_continue, rsp_backward, linkVars
<1>3. CASE StubPlus \/ rsp_get_packet
  BY <1>1, <1>3 DEF StubPlus, rsp_get_packet, stubVars, clientVars
<1>4. CASE StubAck
  BY <1>0, <1>4 DEF StubAck, AfterReply, Flat, clientVars
<1>5. CASE rsp_query_packet \/ rsp_query_monitor \/ rsp_step \/ rsp_detach
  BY <1>0, <1>5, ReplyingHandlers DEF rsp_send_packet
<1>6. ASSUME NEW hit \in BOOLEAN, RunStep(hit) PROVE ack' /\ cack'
  BY <1>0, <1>6, Unnested DEF RunAlone, rsp_send_packet, clientVars
<1>7. CASE Connect
  BY <1>0, <1>7 DEF Connect, ClientConnect
<1>8. CASE Client /\ UNCHANGED stubVars
  <2>1. UNCHANGED ack
    BY <1>8 DEF stubVars
  <2>2. cack' = cack \/ cack' = (cack /\ req.cmd # "noack")
    BY <1>8 DEF Client, ClientSend, ClientAcked, ClientNacked, ClientReply, ClientReject,
       ClientDiscard, ClientInterrupt, ClientHangup, clientVars
  <2> QED
    BY <1>0, <2>1, <2>2
<1>9. CASE UNCHANGED vars
  BY <1>1, <1>9 DEF vars
<1> QED
  BY <1>2, <1>3, <1>4, <1>5, <1>6, <1>7, <1>8, <1>9 DEF Next, Stub, Exec

\* What the stub throws away leaves Single as it is.
LEMMA SingleTail ==
    ASSUME IInv, SInv, Live, c2s # <<>>, ~Packet(Head(c2s)), c2s' = Tail(c2s),
           UNCHANGED <<str, req>>, pc' = "fsm" \/ ~PacketOn(c2s)
    PROVE  Single'
<1>1. \A k \in DOMAIN c2s' : k + 1 \in DOMAIN c2s /\ c2s'[k] = c2s[k + 1] /\ k \in Nat
  BY Facts, Shifted DEF IInv
<1>2. Range(c2s') \subseteq Range(c2s) /\ (PacketOn(c2s') => PacketOn(c2s))
  BY Facts, PacketOnTail DEF IInv
<1>3. Broken \notin Range(str') \cup Range(c2s')
  BY <1>2 DEF SInv, Single
<1>4. \A k \in DOMAIN str' : Packet(str'[k]) => k = 1 /\ str'[k] = req'
  BY DEF SInv, Single
<1>5. ASSUME NEW k \in DOMAIN c2s', Packet(c2s'[k])
      PROVE  /\ c2s'[k] = req' /\ pc' = "fsm"
             /\ \A j \in DOMAIN c2s' : Packet(c2s'[j]) => j = k
  <2>1. Packet(c2s[k + 1]) /\ k + 1 \in DOMAIN c2s
    BY <1>1, <1>5
  <2>2. c2s[k + 1] = req /\ \A j \in DOMAIN c2s : Packet(c2s[j]) => j = k + 1
    BY <2>1 DEF SInv, Single
  <2>3. ASSUME NEW j \in DOMAIN c2s', Packet(c2s'[j]) PROVE j = k
    <3>1. j + 1 = k + 1
      BY <1>1, <2>2, <2>3
    <3> QED
      BY <1>1, <3>1
  <2>4. pc' = "fsm"
    BY <2>1 DEF PacketOn
  <2> QED
    BY <1>1, <2>2, <2>3, <2>4
<1> QED
  BY <1>3, <1>4, <1>5 DEF Single

\* The poll of a run, and the main loop, take a "+".
LEMMA PlusTaken ==
    ASSUME IInv, SInv, Live, c2s # <<>>, Head(c2s) = Plus, c2s' = Tail(c2s),
           pc' = "fsm" \/ ~PacketOn(c2s), UNCHANGED <<str, req>>
    PROVE  Single' /\ (PacketOn(c2s') <=> PacketOn(c2s))
  BY SingleTail, PacketOnTail, Facts, Bytes DEF IInv

\* Without damaged packets the packet that rsp_get_packet ends with is the last
\* request, and the next one to be handled.
LEMMA ReceivedOrderly ==
    ASSUME IInv, SInv, rsp_get_packet, Received(str \o c2s)
    PROVE  /\ pc = "fsm" /\ c2s = <<req>> /\ str \o c2s = <<req>> /\ Intact(<<req>>)
           /\ Len(log) + 1 = req.id /\ log' = Append(log, req.id) /\ cmd' = req
<1> USE DEF IInv
<1>0. c2s # <<>> /\ pc \in {"fsm", "get"} /\ Live /\ (pc = "fsm" => Packet(Head(c2s)))
  BY DEF rsp_get_packet, Live
<1>1. Len(c2s) \in DOMAIN c2s /\ c2s[Len(c2s)] \in Range(c2s) /\ Len(c2s) \in Nat
  BY <1>0, Facts, RangeTail DEF Range
<1>2. Ends(c2s[Len(c2s)])
  <2>1. ~GetMore(str \o c2s)
    BY DEF Received, GetMore
  <2> QED
    BY <2>1 DEF rsp_get_packet
<1>3. Packet(c2s[Len(c2s)])
  BY <1>0, <1>1, <1>2 DEF Packet, SInv, Single
<1>4. pc = "fsm"
  BY <1>0, <1>1, <1>3 DEF SInv, Single
<1>5. 1 \in DOMAIN c2s /\ Packet(c2s[1]) /\ str \o c2s = c2s
  BY <1>4, FirstReceived DEF Places
<1>6. Len(c2s) = 1 /\ c2s[1] = req
  BY <1>0, <1>1, <1>3, <1>5 DEF SInv, Single
<1>7. c2s = <<req>>
  BY <1>6, Facts
<1>8. Intact(<<req>>)
  BY Facts DEF Intact, Places, Strings
<1>9. Len(log) + 1 = req.id
  BY <1>0, <1>5 DEF SInv, Counted, PacketOn
<1>10. log' = Append(log, req.id) /\ cmd' = req
  <2>1. cmd' = Head(<<req>>) /\ log' = Append(log, IF Intact(<<req>>) THEN cmd'.id ELSE 0)
    BY <1>5, <1>7 DEF Received
  <2>2. cmd' = req
    BY <2>1
  <2> QED
    BY <1>8, <2>1, <2>2
<1> QED
  BY <1>4, <1>5, <1>7, <1>8, <1>9, <1>10

\* Somebody waits for what the stub is about to receive.
LEMMA ClientWaits ==
    ASSUME IInv, SInv, Acks, rsp_get_packet
    PROVE  client # "idle" /\ s2c = <<>>
<1> USE DEF IInv
<1>1. CASE pc = "get"
  <2>1. client # "idle"
    BY <1>1 DEF SInv, Attended
  <2>2. ~Gone => s2c = <<>>
    BY <1>1, FirstReceived DEF Coming, Live, Ready, Places
  <2> QED
    BY <2>1, <2>2 DEF Quiet, Gone, Waiting
<1>2. CASE pc = "fsm"
  <2>0. 1 \in DOMAIN c2s /\ Packet(c2s[1]) /\ Live
    BY <1>2, FirstReceived DEF Live, Places
  <2>1. c2s[1] = req /\ (req.cmd = "reset" => cack)
    BY <2>0, Facts DEF SInv, Single, Acks, Request
  <2>2. ~Gone => Ready(c2s[1])
    BY <1>2, <2>0 DEF Coming, Live, AckPending, Answering
  <2>3. ~Gone => Waiting /\ s2c = <<>>
    BY <2>1, <2>2 DEF Ready, Waiting
  <2> QED
    BY <2>3 DEF Quiet, Gone, Waiting
<1> QED
  BY <1>1, <1>2 DEF rsp_get_packet

\* The stub receives.
LEMMA GetOrderly ==
    ASSUME IInv, SInv, Acks, rsp_get_packet
    PROVE  SInv'
<1> USE DEF IInv
<1>0. /\ c2s # <<>> /\ pc \in {"fsm", "get"} /\ Live /\ (pc = "fsm" => Packet(Head(c2s)))
      /\ UNCHANGED <<client, req>> /\ c2s' = <<>> /\ client # "idle" /\ s2c = <<>>
  BY ClientWaits DEF rsp_get_packet, clientVars, Live
<1>1. CASE Received(str \o c2s)
  <2>1. /\ pc' = "exec" /\ str' = <<>> /\ log' = Append(log, req.id) /\ Len(log) + 1 = req.id
        /\ cmd' = req /\ (s2c' = <<>> \/ s2c' = <<Plus>>)
    BY <1>0, <1>1, ReceivedOrderly DEF Received, Put
  <2>2. Len(log') = req.id
    BY <2>1, AppendProperties DEF TypeOK
  <2>3. Minus \notin Range(s2c') /\ ~Replying'
    BY <2>1, Bytes DEF Range, Replying
  <2>4. Counted'
    BY <1>0, <2>1, <2>2, <2>3 DEF Counted, PacketOn
  <2>5. Single'
    BY <1>0, <2>1, RangeEmpty DEF Single
  <2> QED
    BY <1>0, <2>1, <2>3, <2>4, <2>5 DEF SInv, Attended
<1>2. CASE GetMore(str \o c2s)
  <2>1. pc' = "get" /\ str' = str \o c2s /\ UNCHANGED <<cmd, s2c, log>>
    BY <1>2 DEF GetMore
  <2>2. /\ Range(str') = Range(str) \cup Range(c2s)
        /\ \A k \in DOMAIN str' : Packet(str'[k]) => k = 1 /\ str'[k] = req
        /\ PacketOn(str')
    <3>1. CASE pc = "fsm"
      <4>1. str' = c2s /\ str = <<>> /\ 1 \in DOMAIN c2s /\ Packet(c2s[1])
        BY <2>1, <3>1, FirstReceived DEF Places
      <4>2. \A k \in DOMAIN c2s : Packet(c2s[k]) => k = 1 /\ c2s[k] = req
        BY <1>0, <4>1 DEF SInv, Single
      <4> QED
        BY <4>1, <4>2, RangeEmpty DEF PacketOn
    <3>2. CASE pc = "get"
      <4>1. /\ \A k \in DOMAIN c2s : ~Packet(c2s[k])
            /\ \A k \in DOMAIN str : Packet(str[k]) => k = 1 /\ str[k] = req
        BY <1>0, <3>2 DEF SInv, Single
      <4>2. 1 \in DOMAIN str /\ Packet(str[1])
        BY <3>2, FirstReceived DEF Places
      <4>3. Range(str') = Range(str) \cup Range(c2s)
        BY <2>1, Facts, RangeConcatenation
      <4>4. /\ DOMAIN str = 1 .. Len(str) /\ Len(str) \in Nat
            /\ DOMAIN str' = 1 .. Len(str) + Len(c2s)
            /\ \A k \in 1 .. Len(str) + Len(c2s) :
                  str'[k] = IF k <= Len(str) THEN str[k] ELSE c2s[k - Len(str)]
        BY <2>1, Facts, ConcatProperties, LenProperties
      <4>5. ASSUME NEW k \in DOMAIN str', Packet(str'[k]) PROVE k = 1 /\ str'[k] = req
        <5>1. CASE k <= Len(str)
          BY <4>1, <4>4, <4>5, <5>1
        <5>2. CASE ~(k <= Len(str))
          <6>1. k - Len(str) \in 1 .. Len(c2s) /\ str'[k] = c2s[k - Len(str)]
            BY <4>4, <5>2, Facts
          <6> QED
            BY <4>1, <4>5, <6>1, Facts
        <5> QED
          BY <5>1, <5>2
      <4>6. 1 \in DOMAIN str' /\ str'[1] = str[1]
        BY <4>2, <4>4, Facts
      <4> QED
        BY <4>2, <4>3, <4>5, <4>6 DEF PacketOn
    <3> QED
      BY <1>0, <3>1, <3>2
  <2>3. PacketOn(str) \/ PacketOn(c2s)
    BY FirstReceived DEF PacketOn, Places
  <2>4. Counted'
    <3>1. Len(log) + 1 = req.id
      BY <1>0, <2>3 DEF SInv, Counted
    <3>2. ~Replying'
      BY <1>0, <2>1 DEF Replying
    <3> QED
      BY <1>0, <2>1, <2>2, <3>1, <3>2 DEF Counted, PacketOn
  <2>5. Single'
    BY <1>0, <2>1, <2>2, RangeEmpty DEF SInv, Single
  <2>6. Attended'
    BY <1>0, <2>1 DEF SInv, Attended, Replying
  <2> QED
    BY <2>4, <2>5, <2>6 DEF SInv
<1> QED
  BY <1>1, <1>2 DEF rsp_get_packet

\* No packet is on its way while a handler is at work, other than that of R.
LEMMA Handling ==
    ASSUME IInv, SInv, pc \in {"exec", "run"}, cmd.cmd # "reset"
    PROVE  /\ Live /\ str = <<>> /\ ~PacketOn(str) /\ ~PacketOn(c2s) /\ Len(log) = req.id
           /\ client # "idle" /\ ~Replying
<1>1. Live /\ str = <<>> /\ ~PacketOn(str)
  BY DEF IInv, Places, Strings, Live, PacketOn
<1>2. ~PacketOn(c2s)
  BY <1>1 DEF SInv, Single, PacketOn
<1> QED
  BY <1>1, <1>2 DEF SInv, Counted, Attended

\* A handler sends its reply, or an iteration of a run goes on.
LEMMA HandlerOrderly ==
    ASSUME IInv, SInv, Answering, UNCHANGED <<str, cmd, client, req, cack, log>>,
           rsp_send_packet \/ UNCHANGED <<s2c, pc, ack>>,
           c2s' = c2s \/ (c2s # <<>> /\ Head(c2s) = Plus /\ c2s' = Tail(c2s))
    PROVE  SInv'
<1> USE DEF IInv
<1>0. /\ pc \in {"exec", "run"} /\ Live /\ str = <<>> /\ ~PacketOn(str) /\ ~PacketOn(c2s)
      /\ Len(log) = req.id /\ client # "idle" /\ ~Replying
  BY Handling DEF Answering, Silent
<1>1. ~PacketOn(c2s') /\ Single'
  <2>1. CASE c2s' = c2s
    BY <1>0, <2>1 DEF SInv, Single, PacketOn
  <2>2. CASE c2s # <<>> /\ Head(c2s) = Plus /\ c2s' = Tail(c2s)
    BY <1>0, <2>2, PlusTaken
  <2> QED
    BY <2>1, <2>2
<1>2. /\ pc' \in {"exec", "run", "ack", "fsm", "accept"}
      /\ pc' \in {"exec", "run"} => pc' = pc /\ s2c' = s2c
      /\ pc' = "accept" => cmd.cmd = "detach"
  BY <1>0 DEF rsp_send_packet, AfterReply
<1>3. Minus \notin Range(s2c')
  <2>1. Minus \notin Range(s2c)
    BY DEF SInv, Attended
  <2>2. CASE s2c' = s2c
    BY <2>1, <2>2
  <2>3. CASE s2c' = Append(s2c, [cmd EXCEPT !.bad = FALSE])
    <3> DEFINE r == [cmd EXCEPT !.bad = FALSE]
    <3>1. r \in Request /\ r \in Token
      BY Facts, RequestFields, Packets
    <3>2. r # Minus
      BY <3>1, Packets, Bytes
    <3> HIDE DEF r
    <3>3. Range(Append(s2c, r)) = Range(s2c) \cup {r}
      BY <3>1, Facts, RangeAppend
    <3>4. s2c' = Append(s2c, r)
      BY <2>3 DEF r
    <3> QED
      BY <2>1, <3>2, <3>3, <3>4
  <2> QED
    BY <2>2, <2>3 DEF rsp_send_packet, Put
<1>4. Gone \/ cmd.cmd = req.cmd
  BY DEF Current
<1>5. Counted'
  BY <1>0, <1>1, <1>2, <1>4 DEF Counted, PacketOn, Gone
<1>6. Attended'
  BY <1>0, <1>2, <1>3, <1>4 DEF Attended, Replying, Answering, Gone
<1> QED
  BY <1>1, <1>5, <1>6 DEF SInv

\* A handler that does not reply returns, and a run command begins its loop.
LEMMA SilentOrderly ==
    ASSUME IInv, SInv, pc = "exec", pc' \in {"fsm", "run", "finish"},
           pc' = "run" => cmd.cmd \in {"cont", "back"},
           UNCHANGED <<c2s, s2c, client, req, str, cmd, log>>
    PROVE  SInv'
<1>0. Live /\ (pc' = "run" => ~PacketOn(c2s) /\ client # "idle" /\ ~Replying)
  BY Handling DEF Live
<1>1. Counted'
  BY <1>0 DEF SInv, Counted, PacketOn
<1>2. Single'
  BY <1>0 DEF SInv, Single, PacketOn
<1>3. Attended'
  BY <1>0 DEF SInv, Attended, Replying, Gone
<1> QED
  BY <1>1, <1>2, <1>3 DEF SInv

\* The stub reads the acknowledge: it is not a packet.
LEMMA AckOrderly ==
    ASSUME IInv, SInv, StubAck
    PROVE  SInv'
<1> USE DEF IInv
<1>0. /\ UNCHANGED <<s2c, str, cmd, log, client, req>>
      /\ pc = "ack" /\ Live /\ (c2s # <<>> \/ Gone) /\ str = <<>>
      /\ pc' = IF cmd.cmd = "detach" THEN "accept" ELSE "fsm"
  BY DEF StubAck, AfterReply, Flat, clientVars, Places, Strings, Live
<1>1. c2s # <<>> => ~Packet(Head(c2s)) /\ c2s' = Tail(c2s)
  <2>1. c2s # <<>> => ~Packet(Head(c2s))
    BY <1>0, Facts, RangeTail DEF SInv, Single
  <2> QED
    BY <2>1 DEF StubAck
<1>2. PacketOn(c2s') <=> PacketOn(c2s)
  BY <1>1, PacketOnTail, Facts DEF StubAck, PacketOn
<1>3. Single'
  <2>1. CASE pc' = "accept"
    BY <2>1 DEF Single, Live
  <2>2. CASE pc' = "fsm" /\ c2s # <<>>
    BY <1>0, <1>1, <2>2, SingleTail
  <2>3. CASE pc' = "fsm" /\ c2s = <<>>
    BY <1>0, <2>3 DEF SInv, Single, StubAck
  <2> QED
    BY <1>0, <2>1, <2>2, <2>3
<1>4. Counted'
  <2>1. PacketOn(str') <=> PacketOn(str)
    BY <1>0 DEF PacketOn
  <2> QED
    BY <1>0, <1>2, <2>1 DEF SInv, Counted, Live, Replying, Gone
<1>5. Attended'
  BY <1>0 DEF SInv, Attended
<1> QED
  BY <1>3, <1>4, <1>5 DEF SInv

\* The client sends a request: the one before it is handled.
LEMMA SendOrderly ==
    ASSUME IInv, SInv, Acks, AckComes, Orderly, ClientSend, UNCHANGED stubVars
    PROVE  SInv'
<1> USE DEF IInv
<1>0. /\ UNCHANGED <<s2c, cack, pc, str, cmd, ack, log>> /\ client = "idle"
      /\ req'.id = req.id + 1 /\ req'.cmd \in Commands /\ c2s' = Append(c2s, req')
      /\ client' = IF cack THEN "waitack" ELSE Sent(req'.cmd)
  BY DEF ClientSend, stubVars, MayFail, Orderly
<1>1. req' \in Token /\ Packet(req') /\ req' # Broken
  <2>1. req' \in Request
    BY TypeStep DEF Next, Client, TypeOK, ClientTypeOK, Places
  <2> QED
    BY <2>1, Packets, Bytes
<1>2. client' # "idle"
  BY <1>0 DEF Sent, Acks
<1>3. /\ Len(log) = req.id /\ s2c' = <<>> /\ ~Replying'
      /\ pc \notin {"run", "get", "accept", "listen"}
      /\ pc = "exec" => cmd.cmd = "reset"
      /\ pc = "ack" => c2s # <<>> /\ cmd.cmd # "detach" /\ cmd.cmd \notin Silent
      /\ Live => ~PacketOn(str) /\ ~PacketOn(c2s)
  <2>1. /\ Len(log) = req.id /\ pc \notin {"run", "get", "accept"}
        /\ pc = "exec" => cmd.cmd = "reset"
        /\ pc = "ack" => c2s # <<>> /\ cmd.cmd # "detach" /\ cmd.cmd \notin Silent
    BY <1>0 DEF SInv, Counted, Attended, AckComes
  <2>2. pc # "listen" /\ s2c = <<>>
    BY <1>0 DEF Places, Strings, Quiet, Gone, Waiting
  <2>3. Live => ~PacketOn(str) /\ ~PacketOn(c2s)
    BY <2>1, Facts DEF SInv, Counted
  <2> QED
    BY <1>0, <2>1, <2>2, <2>3 DEF Replying
<1>4. /\ DOMAIN c2s' = 1 .. Len(c2s) + 1 /\ c2s'[Len(c2s) + 1] = req'
      /\ \A k \in DOMAIN c2s : c2s'[k] = c2s[k]
      /\ \A k \in DOMAIN c2s' : k \in DOMAIN c2s \/ k = Len(c2s) + 1
      /\ Range(c2s') = Range(c2s) \cup {req'}
  <2>1. c2s \in Seq(Token)
    BY Facts
  <2> QED
    BY <1>0, <1>1, <2>1, Appended
<1>5. PacketOn(c2s')
  <2>1. Len(c2s) + 1 \in DOMAIN c2s'
    BY <1>4, Facts
  <2> QED
    BY <1>1, <1>4, <2>1 DEF PacketOn
<1>6. Counted'
  BY <1>0, <1>2, <1>3, <1>5 DEF Counted, Live
<1>7. Single'
  <2> SUFFICES ASSUME Live PROVE Single'
    BY <1>0 DEF Single, Live
  <2>1. Broken \notin Range(str') \cup Range(c2s')
    BY <1>0, <1>1, <1>4 DEF SInv, Single
  <2>2. \A k \in DOMAIN str' : ~Packet(str'[k])
    BY <1>0, <1>3 DEF PacketOn
  <2>3. \A k \in DOMAIN c2s' : Packet(c2s'[k]) => k = Len(c2s) + 1
    BY <1>3, <1>4 DEF PacketOn
  <2>4. pc = "ack" => Len(c2s) + 1 # 1
    BY <1>3, Facts, RangeTail
  <2> QED
    BY <1>0, <1>3, <1>4, <2>1, <2>2, <2>3, <2>4 DEF Single
<1>8. Attended'
  BY <1>0, <1>2, <1>3, RangeEmpty DEF Attended
<1> QED
  BY <1>6, <1>7, <1>8 DEF SInv

\* The client reads what the stub sent, or interrupts a run.
LEMMA ReadOrderly ==
    ASSUME IInv, SInv, UNCHANGED <<req, pc, str, cmd, log>>,
           client' = "idle" => client = "waitack" /\ req.cmd = "reset" /\ s2c # <<>>,
           s2c' = s2c \/ (s2c # <<>> /\ s2c' = Tail(s2c)) \/ (s2c' = <<>> /\ Gone'),
           c2s' = c2s \/ c2s' = Append(c2s, CtrlC) \/ c2s' = Append(c2s, Plus),
           Gone => Gone' /\ c2s' = c2s
    PROVE  SInv'
<1> USE DEF IInv
<1>1. Minus \notin Range(s2c') /\ (Replying' => Replying)
  BY Taken, RangeEmpty DEF SInv, Attended, Replying
<1>2. PICK t \in {Plus, CtrlC} : c2s' = c2s \/ c2s' = Append(c2s, t)
  OBVIOUS
<1>3. t \in Token /\ ~Packet(t) /\ t # Broken
  BY Bytes
<1>4. /\ PacketOn(c2s') <=> PacketOn(c2s)
      /\ \A k \in DOMAIN c2s' : Packet(c2s'[k]) => k \in DOMAIN c2s /\ c2s'[k] = c2s[k]
      /\ Broken \in Range(c2s') => Broken \in Range(c2s)
  <2>1. CASE c2s' = c2s
    BY <2>1
  <2>2. CASE c2s' = Append(c2s, t)
    <3>1. c2s \in Seq(Token)
      BY Facts
    <3> QED
      BY <1>3, <2>2, <3>1, Appended, PacketOnAppend
  <2> QED
    BY <1>2, <2>1, <2>2
<1>5. PacketOn(str') <=> PacketOn(str)
  BY DEF PacketOn
<1>6. Counted'
  <2>1. pc = "listen" => c2s' = c2s
    BY DEF Places, Strings, Gone
  <2> QED
    BY <1>1, <1>4, <1>5, <2>1 DEF SInv, Counted, Live, Gone
<1>7. Single'
  BY <1>4 DEF SInv, Single, Live
<1>8. Attended'
  <2>1. ASSUME pc \in {"exec", "run", "get"}, client' = "idle"
        PROVE  pc = "exec" /\ cmd.cmd = "reset"
    <3>1. ~Gone /\ s2c # <<>> /\ req.cmd = "reset"
      BY <2>1 DEF Gone
    <3>2. pc # "get"
      <4>1. ASSUME pc = "get" PROVE 1 \in DOMAIN str /\ Packet(str[1])
        BY <4>1, Facts, RangeTail DEF Places, Strings
      <4> QED
        BY <3>1, <4>1, NothingComes DEF Live
    <3> QED
      BY <2>1, <3>1, <3>2 DEF SInv, Attended, Places, Strings
  <2>2. s2c' # <<>> => s2c # <<>>
    OBVIOUS
  <2> QED
    BY <1>1, <2>1, <2>2 DEF SInv, Attended
<1> QED
  BY <1>6, <1>7, <1>8 DEF SInv

\* The client reads an answer: its request is handled.
LEMMA ReplyOrderly ==
    ASSUME IInv, SInv, ClientReply, UNCHANGED stubVars
    PROVE  SInv'
<1> USE DEF IInv
<1>0. /\ UNCHANGED <<req, pc, str, cmd, log>> /\ client = "waitreply"
      /\ s2c # <<>> /\ s2c' = Tail(s2c) /\ Packet(Head(s2c))
      /\ c2s' = IF cack THEN Append(c2s, Plus) ELSE c2s
      /\ client' = IF req.cmd = "detach" THEN "closed" ELSE "idle"
  BY DEF ClientReply, stubVars
<1>1. Replying /\ ~Replying' /\ Minus \notin Range(s2c')
  BY <1>0, Taken
<1>2. Len(log) = req.id /\ pc \notin {"exec", "run", "get"} /\ pc # "listen"
  BY <1>0, <1>1 DEF SInv, Counted, Attended, Places, Strings, Gone
<1>3. /\ PacketOn(c2s') <=> PacketOn(c2s)
      /\ \A k \in DOMAIN c2s' : Packet(c2s'[k]) => k \in DOMAIN c2s /\ c2s'[k] = c2s[k]
      /\ Broken \in Range(c2s') => Broken \in Range(c2s)
  <2>1. CASE cack
    <3>1. c2s \in Seq(Token) /\ c2s' = Append(c2s, Plus)
      BY <1>0, <2>1, Facts
    <3> QED
      BY <3>1, Bytes, Appended, PacketOnAppend
  <2>2. CASE ~cack
    BY <1>0, <2>2
  <2> QED
    BY <2>1, <2>2
<1>4. Counted'
  <2>1. PacketOn(str') <=> PacketOn(str)
    BY <1>0 DEF PacketOn
  <2> QED
    BY <1>0, <1>1, <1>2, <1>3, <2>1 DEF SInv, Counted, Live, Gone
<1>5. Single'
  BY <1>0, <1>3 DEF SInv, Single, Live
<1>6. Attended'
  BY <1>0, <1>1, <1>2 DEF SInv, Attended, Gone
<1> QED
  BY <1>4, <1>5, <1>6 DEF SInv

\* Without damaged packets every step keeps the requests in order.
LEMMA NextSInv ==
    ASSUME IInv, SInv, Acks, AckComes, Orderly, [Next]_vars
    PROVE  SInv'
<1> USE DEF IInv
<1>1. CASE socket_listen \/ EndOfStream \/ BrokenPipe
  <2>1. /\ pc' \in {"accept", "spin", "finish"} /\ (pc' = "accept" => pc = "listen")
        /\ UNCHANGED <<c2s, s2c, client, req, str, cmd, log>>
    BY <1>1 DEF socket_listen, EndOfStream, BrokenPipe, linkVars
  <2>2. pc = "listen" => Len(log) = req.id /\ Gone
    BY DEF SInv, Counted, Places, Strings
  <2>3. Counted'
    BY <2>1, <2>2 DEF SInv, Counted, Live, Replying, Gone
  <2>4. Single' /\ Attended'
    BY <2>1 DEF SInv, Single, Attended, Live
  <2> QED
    BY <2>3, <2>4 DEF SInv
<1>2. CASE StubPlus
  <2>1. /\ UNCHANGED <<s2c, client, req, pc, str, cmd, log>> /\ pc = "fsm" /\ c2s # <<>>
        /\ Head(c2s) = Plus /\ c2s' = Tail(c2s)
    BY <1>2 DEF StubPlus, stubVars, clientVars
  <2>2. Single' /\ (PacketOn(c2s') <=> PacketOn(c2s))
    BY <2>1, PlusTaken DEF Live
  <2>3. Counted'
    BY <2>1, <2>2 DEF SInv, Counted, Live, Replying, PacketOn
  <2>4. Attended'
    BY <2>1 DEF SInv, Attended
  <2> QED
    BY <2>2, <2>3, <2>4 DEF SInv
<1>3. CASE rsp_get_packet
  BY <1>3, GetOrderly
<1>4. CASE StubAck
  BY <1>4, AckOrderly
<1>5. CASE rsp_query_packet \/ rsp_query_monitor \/ rsp_step \/ rsp_detach
  BY <1>5, ReplyingHandlers, HandlerOrderly
<1>6. CASE ExecSilent \/ rsp_continue \/ rsp_backward
  BY <1>6, SilentOrderly DEF ExecSilent, rsp_continue, rsp_backward, linkVars
<1>7. ASSUME NEW hit \in BOOLEAN, RunStep(hit) PROVE SInv'
  <2>1. /\ pc = "run" /\ UNCHANGED <<str, cmd, client, req, cack, log>>
        /\ c2s' = c2s \/ (c2s # <<>> /\ Head(c2s) = Plus /\ c2s' = Tail(c2s))
        /\ rsp_send_packet \/ UNCHANGED <<s2c, pc, ack>>
    BY <1>7, Unnested DEF RunAlone, clientVars
  <2>2. Answering
    BY <2>1 DEF Answering, Places, Strings, Silent
  <2> QED
    BY <2>1, <2>2, HandlerOrderly
<1>8. CASE Connect
  <2>1. /\ UNCHANGED <<req, str, log>> /\ pc = "accept" /\ pc' = "fsm" /\ str = <<>>
        /\ c2s' = <<Plus>> /\ s2c' = <<>>
    BY <1>8 DEF Connect, ClientConnect, Places, Strings
  <2>2. ~PacketOn(str') /\ ~PacketOn(c2s') /\ Broken \notin Range(str') \cup Range(c2s')
    BY <2>1, Bytes DEF PacketOn, Range
  <2>3. Counted'
    BY <2>1, <2>2 DEF SInv, Counted
  <2>4. Single'
    BY <2>1, <2>2 DEF Single, PacketOn
  <2>5. Attended'
    BY <2>1, RangeEmpty DEF Attended
  <2> QED
    BY <2>3, <2>4, <2>5 DEF SInv
<1>9. CASE Client /\ UNCHANGED stubVars
  <2>0. UNCHANGED <<pc, str, cmd, log>>
    BY <1>9 DEF stubVars
  <2>1. CASE ClientSend
    BY <1>9, <2>1, SendOrderly
  <2>2. CASE ClientAcked \/ ClientNacked \/ ClientDiscard \/ ClientInterrupt \/ ClientHangup
    <3>1. CASE ClientAcked \/ ClientNacked \/ ClientDiscard
      <4>1. /\ UNCHANGED <<req, cack>> /\ s2c # <<>> /\ s2c' = Tail(s2c)
            /\ \/ client' = client
               \/ client = "waitack" /\ client' = Sent(req.cmd)
        BY <3>1 DEF ClientAcked, ClientNacked, ClientDiscard, clientVars
      <4>2. Waiting
        BY <4>1 DEF Quiet
      <4>3. client' = "idle" => client = "waitack" /\ req.cmd = "reset"
        BY <4>1, <4>2 DEF Sent, Waiting
      <4>4. c2s' = c2s
        <5>1. Head(s2c) # Minus
          BY <4>1, Taken DEF SInv, Attended
        <5> QED
          BY <3>1, <5>1 DEF ClientAcked, ClientNacked, ClientDiscard
      <4> QED
        BY <2>0, <4>1, <4>2, <4>3, <4>4, ReadOrderly DEF Gone, Waiting
    <3>2. CASE ClientInterrupt
      BY <2>0, <3>2, ReadOrderly DEF ClientInterrupt, Gone
    <3>3. CASE ClientHangup
      BY <2>0, <3>3, ReadOrderly DEF ClientHangup, Gone
    <3> QED
      BY <2>2, <3>1, <3>2, <3>3
  <2>3. CASE ClientReply
    BY <1>9, <2>3, ReplyOrderly
  <2>4. ~ClientReject
    BY DEF ClientReject, MayFail, Orderly
  <2> QED
    BY <1>9, <2>1, <2>2, <2>3, <2>4 DEF Client
<1>10. CASE UNCHANGED vars
  <2>1. UNCHANGED <<c2s, s2c, client, req, pc, str, cmd, log>>
    BY <1>10 DEF vars
  <2> QED
    BY <2>1 DEF SInv, Counted, Single, Attended, Live, Replying, PacketOn, Gone
<1> QED
  BY <1>1, <1>2, <1>3, <1>4, <1>5, <1>6, <1>7, <1>8, <1>9, <1>10 DEF Next, Stub, Exec

\* A step that changes neither the client's side nor the log is not seen by RequestReply.
Unseen == UNCHANGED <<client, req, log>>

\* A step that is not seen stutters in RequestReply.
LEMMA UnseenStutters ==
    ASSUME Unseen
    PROVE  UNCHANGED Service!vars
  BY DEF Unseen, Service!vars, Gone, Waiting

\* Without damaged packets every step of the session is a step of RequestReply,
\* or is not seen by it.
LEMMA ServiceStep ==
    ASSUME IInv, SInv, [Next]_vars
    PROVE  [Service!Next]_(Service!vars)
<1> USE DEF IInv
<1>0. req.id \in Nat /\ Len(log) \in Nat
  BY Facts
<1>1. CASE socket_listen \/ EndOfStream \/ BrokenPipe \/ StubPlus \/ StubAck \/ Exec
  <2>1. Unseen
    BY <1>1, ReplyingHandlers DEF socket_listen, EndOfStream, BrokenPipe, StubPlus, StubAck, Exec,
       ExecSilent, rsp_continue, rsp_backward, linkVars, stubVars, clientVars, Unseen
  <2> QED
    BY <2>1, UnseenStutters
<1>2. ASSUME NEW hit \in BOOLEAN, RunStep(hit) PROVE UNCHANGED Service!vars
  BY <1>2, Unnested, UnseenStutters DEF RunAlone, clientVars, Unseen
<1>3. CASE rsp_get_packet
  <2>0. UNCHANGED <<client, req>>
    BY <1>3 DEF rsp_get_packet, clientVars
  <2>1. CASE Received(str \o c2s)
    <3>1. log' = Append(log, Len(log) + 1) /\ Len(log) < req.id
      BY <1>0, <1>3, <2>1, ReceivedOrderly
    <3>2. Service!Handle
      BY <2>0, <3>1 DEF Service!Handle, Gone, Waiting
    <3> QED
      BY <3>2 DEF Service!Next
  <2>2. CASE GetMore(str \o c2s)
    BY <2>0, <2>2, UnseenStutters DEF GetMore, Unseen
  <2> QED
    BY <1>3, <2>1, <2>2 DEF rsp_get_packet
<1>4. CASE Connect
  <2>1. Gone /\ client' = "idle" /\ UNCHANGED <<req, log>>
    BY <1>4 DEF Connect, ClientConnect
  <2>2. Service!Open
    BY <2>1 DEF Service!Open, Gone, Waiting
  <2> QED
    BY <2>2 DEF Service!Next
<1>5. CASE Client /\ UNCHANGED stubVars
  <2>0. UNCHANGED log
    BY <1>5 DEF stubVars
  <2>1. CASE ClientSend
    <3>1. client = "idle" /\ req'.id = req.id + 1
      BY <2>1 DEF ClientSend
    <3>2. \/ Waiting' /\ ~Gone'
          \/ ~Waiting' /\ req'.cmd \in OneWay
      BY <2>1 DEF ClientSend, Sent, OneWay, Waiting, Gone
    <3>3. Service!Ask
      BY <1>0, <2>0, <3>1, <3>2 DEF Service!Ask, Gone, Waiting
    <3> QED
      BY <3>3 DEF Service!Next
  <2>2. CASE ClientAcked
    <3>0. UNCHANGED req /\ client' = IF client = "waitack" THEN Sent(req.cmd) ELSE client
      BY <2>2 DEF ClientAcked
    <3>1. CASE client = "waitack" /\ req.cmd = "kill"
      <4>1. Service!Close
        BY <1>0, <2>0, <3>0, <3>1 DEF Service!Close, Gone, Waiting, Sent
      <4> QED
        BY <4>1 DEF Service!Next
    <3>2. CASE client = "waitack" /\ req.cmd = "reset"
      <4>1. Service!Settle
        BY <1>0, <2>0, <3>0, <3>2 DEF Service!Settle, Gone, Waiting, Sent, OneWay
      <4> QED
        BY <4>1 DEF Service!Next
    <3>3. CASE client # "waitack" \/ req.cmd \notin OneWay
      BY <2>0, <3>0, <3>3 DEF Service!vars, Gone, Waiting, Sent, OneWay
    <3> QED
      BY <3>1, <3>2, <3>3 DEF OneWay
  <2>3. CASE ClientReply
    <3>0. /\ UNCHANGED req /\ client = "waitreply"
          /\ client' = IF req.cmd = "detach" THEN "closed" ELSE "idle"
          /\ s2c # <<>> /\ s2c' = Tail(s2c) /\ Packet(Head(s2c))
      BY <2>3 DEF ClientReply
    <3>1. Len(log) = req.id
      BY <3>0, Taken DEF SInv, Counted
    <3>2. CASE req.cmd = "detach"
      <4>1. Service!Close
        BY <1>0, <2>0, <3>0, <3>2 DEF Service!Close, Gone, Waiting
      <4> QED
        BY <4>1 DEF Service!Next
    <3>3. CASE req.cmd # "detach"
      <4>1. Service!Settle
        BY <1>0, <2>0, <3>0, <3>1, <3>3 DEF Service!Settle, Gone, Waiting
      <4> QED
        BY <4>1 DEF Service!Next
    <3> QED
      BY <3>2, <3>3
  <2>4. CASE ClientHangup
    <3>1. ~Gone /\ client' = "closed" /\ UNCHANGED req
      BY <2>4 DEF ClientHangup
    <3>2. Service!Close
      BY <1>0, <2>0, <3>1 DEF Service!Close, Gone, Waiting
    <3> QED
      BY <3>2 DEF Service!Next
  <2>5. CASE ClientNacked \/ ClientReject \/ ClientDiscard \/ ClientInterrupt
    <3>1. Unseen
      BY <2>0, <2>5 DEF ClientNacked, ClientReject, ClientDiscard, ClientInterrupt, clientVars, Unseen
    <3> QED
      BY <3>1, UnseenStutters
  <2> QED
    BY <1>5, <2>1, <2>2, <2>3, <2>4, <2>5 DEF Client
<1>6. CASE UNCHANGED vars
  BY <1>6, UnseenStutters DEF vars, Unseen
<1> QED
  BY <1>1, <1>2, <1>3, <1>4, <1>5, <1>6 DEF Next, Stub

\* The requests handled agree with those made, throughout a session.
LEMMA AlwaysOrdered ==
    ASSUME Orderly
    PROVE  Spec => [](SInv /\ Acks)
<1>1. Init => SInv /\ Acks
  <2>1. Init => Counted
    BY DEF Init, ClientInit, NoRequest, Counted, Live
  <2>2. Init => Single /\ Attended /\ Acks
    BY RangeEmpty DEF Init, ClientInit, Single, Attended, Live, Acks
  <2> QED
    BY <2>1, <2>2 DEF SInv
<1>2. IInv /\ Awaited /\ SInv /\ Acks /\ [Next]_vars => SInv' /\ Acks'
  BY NextSInv, AcksStep DEF Awaited
<1>3. NoNesting
  BY DEF Orderly, NoNesting
<1> QED
  BY <1>1, <1>2, <1>3, Invariance, PTL DEF Spec

\* ImplementsService: without damaged packets, with any interrupts and hang-ups, and with
\* R if the acknowledges stay, the stub handles each request once, in order, before it is
\* answered.
THEOREM Implements ==
    ASSUME Orderly
    PROVE  Spec => ImplementsService
<1>1. Init => Service!Init
  BY DEF Init, ClientInit, NoRequest, Service!Init, Gone, Waiting, OneWay
<1>2. IInv /\ SInv /\ [Next]_vars => [Service!Next]_(Service!vars)
  BY ServiceStep
<1>3. NoNesting
  BY DEF Orderly, NoNesting
<1> QED
  BY <1>1, <1>2, <1>3, Invariance, AlwaysOrdered, PTL DEF Spec, ImplementsService, Service!Spec

-----------------------------------------------------------------------------
(* No request is lost *)

\* The client and the stub leave the acknowledges together.
LEMMA LeavingStep ==
    ASSUME IInv, SInv, Leaving, "errstr" \notin Commands, Orderly, [Next]_vars
    PROVE  Leaving'
<1> USE DEF IInv
<1>0. cmd.cmd # "errstr" /\ ack \in BOOLEAN /\ cack \in BOOLEAN
  BY Facts DEF Request
<1>1. CASE socket_listen \/ EndOfStream \/ BrokenPipe
  BY <1>1 DEF socket_listen, EndOfStream, BrokenPipe, Leaving, Live
<1>2. CASE StubPlus \/ ExecSilent \/ rsp_continue \/ rsp_backward
  <2>1. /\ UNCHANGED <<client, cack, ack>> /\ pc \in {"fsm", "exec"}
        /\ pc' \in {"fsm", "run", "finish"}
    BY <1>2 DEF StubPlus, ExecSilent, rsp_continue, rsp_backward, stubVars, clientVars, linkVars
  <2> QED
    BY <2>1 DEF Leaving, Live, Gone
<1>3. CASE rsp_get_packet
  <2>0. /\ UNCHANGED <<client, req, cack, ack>> /\ c2s' = <<>> /\ pc \in {"fsm", "get"}
        /\ pc' \in {"exec", "get"}
    BY <1>3 DEF rsp_get_packet, Received, GetMore, clientVars
  <2>1. CASE Received(str \o c2s)
    <3>1. pc = "fsm" /\ cmd' = req /\ 1 \in DOMAIN c2s /\ Packet(c2s[1]) /\ c2s[1] = req
      BY <1>3, <2>1, ReceivedOrderly, FirstReceived DEF Places
    <3>2. ~Gone => Ready(req)
      BY <3>1 DEF Coming, Live, AckPending, Answering
    <3> QED
      BY <2>0, <3>1, <3>2 DEF Leaving, Ready, Live, Gone, Waiting
  <2>2. CASE GetMore(str \o c2s)
    BY <2>0, <2>2 DEF GetMore, Leaving, Live, Gone
  <2> QED
    BY <1>3, <2>1, <2>2 DEF rsp_get_packet
<1>4. CASE StubAck
  <2>1. /\ UNCHANGED <<client, cack>> /\ pc = "ack" /\ (c2s # <<>> \/ Gone) /\ ack
        /\ ack' \/ cmd.cmd = "noack"
    BY <1>0, <1>4 DEF StubAck, AfterReply, Flat, clientVars, Places, Strings
  <2>2. pc' \in {"fsm", "accept"}
    BY <1>4 DEF StubAck, AfterReply, Flat
  <2> QED
    BY <2>1, <2>2 DEF Leaving, Gone
<1>5. ASSUME Answering, rsp_send_packet, UNCHANGED <<client, req, cack, cmd>>,
             pc = "exec" => c2s' = c2s
      PROVE  Leaving'
  <2>1. CASE ack
    <3>1. pc' = "ack" /\ ack'
      BY <1>5, <2>1 DEF rsp_send_packet
    <3>2. pc = "exec" \/ cmd.cmd # "noack"
      BY <1>5 DEF Answering, Places, Strings
    <3> QED
      BY <1>5, <3>1, <3>2 DEF Leaving, Gone, Waiting, Answering
  <2>2. CASE ~ack
    <3>1. pc' \in {"fsm", "accept"} /\ (Gone \/ ~cack)
      BY <1>5, <2>2 DEF rsp_send_packet, AfterReply, Leaving, Live, Answering
    <3> QED
      BY <1>5, <3>1 DEF Leaving, Gone
  <2> QED
    BY <2>1, <2>2
<1>6. CASE rsp_query_packet \/ rsp_query_monitor \/ rsp_step \/ rsp_detach
  BY <1>5, <1>6, ReplyingHandlers
<1>7. ASSUME NEW hit \in BOOLEAN, RunStep(hit) PROVE Leaving'
  <2>1. /\ pc = "run" /\ UNCHANGED <<client, req, cack, cmd>> /\ Answering
        /\ rsp_send_packet \/ UNCHANGED <<s2c, pc, ack>>
    BY <1>7, Unnested DEF RunAlone, clientVars, Answering, Places, Strings, Silent
  <2> QED
    BY <1>5, <2>1 DEF Leaving, Live, Gone
<1>8. CASE Connect
  BY <1>8 DEF Connect, Leaving, Places, Strings
<1>9. CASE Client /\ UNCHANGED stubVars
  <2>0. UNCHANGED <<pc, cmd, ack>>
    BY <1>9 DEF stubVars
  <2>1. CASE ClientSend
    <3>1. client = "idle" /\ cack' = cack
      BY <2>1 DEF ClientSend
    <3> QED
      BY <2>0, <3>1 DEF Leaving, Live, Gone, Waiting
  <2>2. CASE ClientAcked \/ ClientNacked \/ ClientDiscard
    <3>1. /\ UNCHANGED <<req, cack>> /\ s2c # <<>> /\ s2c' = Tail(s2c)
          /\ client' = client \/ client' = Sent(req.cmd)
      BY <2>2 DEF ClientAcked, ClientNacked, ClientDiscard, clientVars
    <3>2. ~Gone /\ Waiting /\ (req.cmd = "noack" => Waiting')
      BY <3>1 DEF Quiet, Gone, Waiting, Sent
    <3>3. c2s' = c2s
      <4>1. Head(s2c) # Minus
        BY <3>1, Taken DEF SInv, Attended
      <4> QED
        BY <2>2, <4>1 DEF ClientAcked, ClientNacked, ClientDiscard
    <3> QED
      BY <2>0, <3>1, <3>2, <3>3 DEF Leaving, Live
  <2>3. CASE ClientReply
    <3>1. UNCHANGED req /\ cack' = (cack /\ req.cmd # "noack") /\ client = "waitreply"
      BY <2>3 DEF ClientReply
    <3> QED
      BY <2>0, <3>1 DEF Leaving, Live, Gone
  <2>4. CASE ClientInterrupt
    <3>1. UNCHANGED <<req, client, cack>> /\ req.cmd # "noack"
      BY <2>4 DEF ClientInterrupt
    <3> QED
      BY <2>0, <3>1 DEF Leaving, Live, Gone
  <2>5. CASE ClientHangup
    BY <2>5 DEF ClientHangup, Leaving, Gone
  <2>6. ~ClientReject
    BY DEF ClientReject, MayFail, Orderly
  <2> QED
    BY <1>9, <2>1, <2>2, <2>3, <2>4, <2>5, <2>6 DEF Client
<1>10. CASE UNCHANGED vars
  BY <1>10 DEF vars, Leaving, Live, Gone, Waiting
<1> QED
  BY <1>1, <1>2, <1>3, <1>4, <1>6, <1>7, <1>8, <1>9, <1>10 DEF Next, Stub, Exec

\* The stub receives the request: it is in the string, or in its handler.
LEMMA GetHeld ==
    ASSUME IInv, SInv, Acks, Leaving, Held, rsp_get_packet
    PROVE  Held'
<1> USE DEF IInv
<1>0. /\ UNCHANGED <<client, req, cack>> /\ pc \in {"fsm", "get"} /\ Live
      /\ client # "idle" /\ s2c = <<>>
  BY ClientWaits DEF rsp_get_packet, clientVars, Live
<1>1. CASE Received(str \o c2s)
  <2>1. pc' = "exec" /\ cmd' = req /\ Intact(str \o c2s)
    BY <1>1, ReceivedOrderly DEF Received
  <2>2. client = "waitack" => ack /\ ~Gone
    BY <1>0 DEF Leaving, Held, Gone
  <2>3. /\ client = "waitack" => s2c' = <<Plus>>
        /\ s2c' # <<>> => s2c' = <<Plus>>
    BY <1>0, <1>1, <2>1, <2>2 DEF Received, Put
  <2>4. /\ s2c' # <<>> => Head(s2c') = Plus
        /\ client = "waitack" => s2c' # <<>> /\ cack'
    BY <1>0, <2>3 DEF Held
  <2>5. client' = client /\ req' = req
    BY <1>0
  <2> QED
    BY <2>1, <2>4, <2>5 DEF Held
<1>2. CASE GetMore(str \o c2s)
  <2>1. pc' = "get" /\ s2c' = <<>> /\ str' = str \o c2s
    BY <1>0, <1>2 DEF GetMore
  <2>2. PacketOn(str')
    <3>1. str \o c2s \in Seq(Token) /\ str \o c2s # <<>> /\ Packet(Head(str \o c2s))
      BY FirstReceived, Packets DEF Places
    <3>2. 1 \in DOMAIN (str \o c2s) /\ Head(str \o c2s) = (str \o c2s)[1]
      BY <3>1, RangeTail
    <3> QED
      BY <2>1, <3>1, <3>2 DEF PacketOn
  <2> QED
    BY <1>0, <2>1, <2>2 DEF Held, Live, Gone, Waiting
<1> QED
  BY <1>1, <1>2 DEF rsp_get_packet

\* A handler sends its reply, or an iteration of a run goes on.
LEMMA HandlerHeld ==
    ASSUME IInv, SInv, Held, Answering, UNCHANGED <<str, cmd, client, req, cack>>,
           rsp_send_packet \/ UNCHANGED <<s2c, pc, ack>>,
           c2s' = c2s \/ (c2s # <<>> /\ Head(c2s) = Plus /\ c2s' = Tail(c2s))
    PROVE  Held'
<1> USE DEF IInv
<1>0. /\ pc \in {"exec", "run"} /\ Live /\ ~PacketOn(str) /\ ~PacketOn(c2s)
      /\ cmd.cmd # "reset"
  BY Handling DEF Answering, Silent
<1>1. ~Gone => cmd = req /\ Waiting
  BY <1>0 DEF Held, Current
<1>2. client = "waitack" => cack /\ s2c # <<>> /\ Head(s2c) = Plus
  BY <1>0 DEF Held
<1>3. CASE rsp_send_packet
  <2>0. pc' \in {"fsm", "ack", "accept"}
    BY <1>3, SendTypes
  <2>1. CASE Gone
    BY <2>0, <2>1 DEF Held, Gone, Waiting
  <2>2. CASE ~Gone
    <3>1. [cmd EXCEPT !.bad = FALSE] = req
      BY <1>1, <2>2, Facts DEF Places, Strings, Request
    <3>2. s2c' = Append(s2c, req)
      BY <1>3, <2>2, <3>1 DEF rsp_send_packet, Put
    <3>3. s2c \in Seq(Token) /\ req \in Token /\ Packet(req) /\ Len(s2c) \in Nat
      BY Facts
    <3>4. /\ DOMAIN s2c' = 1 .. Len(s2c) + 1 /\ s2c'[Len(s2c) + 1] = req /\ s2c' # <<>>
          /\ \A k \in DOMAIN s2c : s2c'[k] = s2c[k]
      BY <3>2, <3>3, Appended
    <3>5. Replying'
      <4>1. Len(s2c) + 1 \in DOMAIN s2c'
        BY <3>3, <3>4
      <4> QED
        BY <3>3, <3>4, <4>1 DEF Replying
    <3>6. client = "waitack" => Head(s2c') = Plus
      <4> SUFFICES ASSUME client = "waitack" PROVE Head(s2c') = Plus
        OBVIOUS
      <4>1. 1 \in DOMAIN s2c /\ Head(s2c) = s2c[1]
        BY <1>2, <3>3, RangeTail
      <4>2. s2c' \in Seq(Token)
        BY <1>3, SendTypes
      <4>3. Head(s2c') = s2c'[1]
        BY <3>4, <4>2, RangeTail
      <4> QED
        BY <1>2, <3>4, <4>1, <4>3
    <3> QED
      BY <1>2, <2>0, <3>4, <3>5, <3>6 DEF Held
  <2> QED
    BY <2>1, <2>2
<1>4. CASE UNCHANGED <<s2c, pc, ack>>
  BY <1>0, <1>1, <1>2, <1>4 DEF Held, Gone, Waiting
<1> QED
  BY <1>3, <1>4

\* A handler that does not reply returns, and a run command begins its loop.
LEMMA SilentHeld ==
    ASSUME IInv, SInv, Held, ExecSilent \/ rsp_continue \/ rsp_backward
    PROVE  Held'
<1>0. /\ UNCHANGED <<c2s, s2c, client, req, cack, str, cmd>> /\ pc = "exec" /\ Live
      /\ \/ pc' = "fsm" /\ cmd.cmd \in Silent
         \/ pc' = "finish" /\ cmd.cmd = "kill"
         \/ pc' = "run" /\ cmd.cmd \in {"cont", "back"}
  BY DEF ExecSilent, rsp_continue, rsp_backward, linkVars, Live
<1>1. (PacketOn(c2s') <=> PacketOn(c2s)) /\ (PacketOn(str') <=> PacketOn(str))
  BY <1>0 DEF PacketOn
<1>2. CASE pc' = "fsm" /\ cmd.cmd \in Silent
  <2>1. Waiting /\ req.cmd \notin Silent => PacketOn(c2s) \/ PacketOn(str) \/ Replying
    BY <1>2 DEF Held
  <2> QED
    BY <1>0, <1>1, <1>2, <2>1 DEF Held, Live, Gone, Waiting, Replying
<1>3. CASE pc' = "finish" /\ cmd.cmd = "kill"
  <2>1. Gone \/ (Waiting /\ req.cmd = "kill")
    BY <1>0, <1>3 DEF Held, SInv, Attended, IInv, TypeOK, ClientTypeOK, Gone, Waiting
  <2> QED
    BY <1>0, <1>3, <2>1 DEF Held, Live, Gone, Waiting, Silent
<1>4. CASE pc' = "run" /\ cmd.cmd \in {"cont", "back"}
  BY <1>0, <1>1, <1>4 DEF Held, Live, Gone, Waiting, Replying
<1> QED
  BY <1>0, <1>2, <1>3, <1>4

\* The client sends a request: the stub serves its connection.
LEMMA SendHeld ==
    ASSUME IInv, SInv, Held, Orderly, ClientSend, UNCHANGED stubVars
    PROVE  Held'
<1> USE DEF IInv
<1>0. /\ UNCHANGED <<s2c, cack, pc, str, cmd>> /\ client = "idle" /\ s2c = <<>>
      /\ c2s' = Append(c2s, req')
      /\ client' = "waitack" => cack
  BY DEF ClientSend, stubVars, MayFail, Orderly, Sent, Quiet, Waiting
<1>1. PacketOn(c2s')
  <2>1. req' \in Request
    BY TypeStep DEF Next, Client, TypeOK, ClientTypeOK, Places
  <2>2. c2s \in Seq(Token) /\ req' \in Token /\ Packet(req') /\ Len(c2s) \in Nat
    BY <2>1, Packets, Facts
  <2>3. DOMAIN c2s' = 1 .. Len(c2s) + 1 /\ c2s'[Len(c2s) + 1] = req'
    BY <1>0, <2>2, Appended
  <2>4. Len(c2s) + 1 \in DOMAIN c2s'
    BY <2>2, <2>3
  <2> QED
    BY <2>2, <2>3, <2>4 DEF PacketOn
<1>2. Live /\ pc \notin {"spin", "finish"} /\ (pc \in {"exec", "run"} => cmd.cmd = "reset")
  BY <1>0 DEF Held, SInv, Counted, Attended, Places, Strings, TypeOK, Live, Gone, Waiting
<1> QED
  BY <1>0, <1>1, <1>2 DEF Held, Live

\* The client reads what the stub sent.
LEMMA ReadHeld ==
    ASSUME IInv, SInv, Held, ClientAcked \/ ClientReply, UNCHANGED stubVars
    PROVE  Held'
<1> USE DEF IInv
<1>0. /\ UNCHANGED <<req, pc, str, cmd>> /\ s2c # <<>> /\ s2c' = Tail(s2c)
  BY DEF ClientAcked, ClientReply, stubVars
<1>1. Waiting /\ ~Gone
  BY <1>0 DEF Quiet, Gone, Waiting
<1>2. CASE ClientAcked
  <2>1. /\ UNCHANGED c2s /\ Head(s2c) = Plus
        /\ client' = IF client = "waitack" THEN Sent(req.cmd) ELSE client
    BY <1>2 DEF ClientAcked
  <2>2. PacketOn(Tail(s2c)) <=> PacketOn(s2c)
    BY <1>0, <2>1, PacketOnTail, Facts, Bytes
  <2>3. (Replying' <=> Replying) /\ (PacketOn(c2s') <=> PacketOn(c2s)) /\ (PacketOn(str') <=> PacketOn(str))
    BY <1>0, <2>1, <2>2 DEF Replying, PacketOn
  <2>4. client' # "waitack" /\ (req.cmd = "kill" => Gone' \/ Waiting')
    BY <1>1, <2>1 DEF Sent, Gone, Waiting
  <2> QED
    BY <1>0, <1>1, <2>3, <2>4 DEF Held, Live
<1>3. CASE ClientReply
  <2>1. client' \in {"idle", "closed"} /\ Packet(Head(s2c))
    BY <1>3 DEF ClientReply
  <2>2. Replying /\ 1 \in DOMAIN s2c /\ Head(s2c) = s2c[1]
    BY <1>0, <2>1, Taken
  <2>3. pc \notin {"exec", "run"} /\ req.cmd \notin OneWay
    BY <2>1, <2>2, Bytes DEF SInv, Attended, Shape
  <2> QED
    BY <1>0, <1>1, <2>1, <2>3 DEF Held, OneWay, Waiting
<1> QED
  BY <1>2, <1>3

\* The last request stays where the stub finds it.
LEMMA HeldStep ==
    ASSUME IInv, SInv, Acks, Leaving, Held, Orderly, [Next]_vars
    PROVE  Held'
<1> USE DEF IInv
<1>1. CASE socket_listen \/ EndOfStream \/ BrokenPipe
  <2>1. Gone /\ UNCHANGED client /\ pc' \in {"accept", "spin", "finish"}
    BY <1>1 DEF socket_listen, EndOfStream, BrokenPipe, linkVars, Places, Strings
  <2> QED
    BY <2>1 DEF Held, Gone, Waiting
<1>2. CASE StubPlus
  <2>1. /\ UNCHANGED <<s2c, client, req, cack, pc, str, cmd>> /\ pc = "fsm" /\ c2s # <<>>
        /\ Head(c2s) = Plus /\ c2s' = Tail(c2s)
    BY <1>2 DEF StubPlus, stubVars, clientVars
  <2>2. (PacketOn(c2s') <=> PacketOn(c2s)) /\ (PacketOn(str') <=> PacketOn(str))
    BY <2>1, PlusTaken DEF Live, PacketOn
  <2> QED
    BY <2>1, <2>2 DEF Held, Live, Gone, Waiting, Replying
<1>3. CASE rsp_get_packet
  BY <1>3, GetHeld
<1>4. CASE StubAck
  <2>0. /\ UNCHANGED <<s2c, str, cmd, client, req, cack>>
        /\ pc = "ack" /\ Live /\ pc' = IF cmd.cmd = "detach" THEN "accept" ELSE "fsm"
    BY <1>4 DEF StubAck, AfterReply, Flat, clientVars, Live
  <2>1. c2s # <<>> => ~Packet(Head(c2s)) /\ c2s' = Tail(c2s)
    <3>1. c2s # <<>> => ~Packet(Head(c2s))
      BY <2>0, Facts, RangeTail DEF SInv, Single
    <3> QED
      BY <1>4, <3>1 DEF StubAck
  <2>2. (PacketOn(c2s') <=> PacketOn(c2s)) /\ (PacketOn(str') <=> PacketOn(str))
    BY <1>4, <2>0, <2>1, PacketOnTail, Facts DEF StubAck, PacketOn
  <2>3. cmd.cmd = "detach" => ~PacketOn(c2s) /\ ~PacketOn(str)
    BY <2>0, Facts DEF SInv, Counted
  <2> QED
    BY <2>0, <2>2, <2>3 DEF Held, Live, Gone, Waiting, Replying
<1>5. CASE rsp_query_packet \/ rsp_query_monitor \/ rsp_step \/ rsp_detach
  BY <1>5, ReplyingHandlers, HandlerHeld
<1>6. CASE ExecSilent \/ rsp_continue \/ rsp_backward
  BY <1>6, SilentHeld
<1>7. ASSUME NEW hit \in BOOLEAN, RunStep(hit) PROVE Held'
  <2>1. /\ pc = "run" /\ UNCHANGED <<str, cmd, client, req, cack>>
        /\ c2s' = c2s \/ (c2s # <<>> /\ Head(c2s) = Plus /\ c2s' = Tail(c2s))
        /\ rsp_send_packet \/ UNCHANGED <<s2c, pc, ack>>
    BY <1>7, Unnested DEF RunAlone, clientVars
  <2>2. Answering
    BY <2>1 DEF Answering, Places, Strings, Silent
  <2>3. c2s' = c2s \/ (c2s # <<>> /\ Head(c2s) = Plus /\ c2s' = Tail(c2s))
    BY <2>1
  <2> QED
    BY <2>1, <2>2, <2>3, HandlerHeld
<1>8. CASE Connect
  BY <1>8 DEF Connect, ClientConnect, Held, Waiting
<1>9. CASE Client /\ UNCHANGED stubVars
  <2>0. UNCHANGED <<pc, str, cmd>>
    BY <1>9 DEF stubVars
  <2>1. CASE ClientSend
    BY <1>9, <2>1, SendHeld
  <2>2. CASE ClientAcked \/ ClientReply
    BY <1>9, <2>2, ReadHeld
  <2>3. ~ClientNacked /\ ~ClientDiscard /\ ~ClientReject
    <3>1. ~ClientNacked
      <4>1. s2c # <<>> => Head(s2c) \in Range(s2c)
        BY Facts, RangeTail
      <4> QED
        BY <4>1 DEF ClientNacked, SInv, Attended
    <3>2. ~ClientDiscard
      BY Bytes DEF ClientDiscard, Held
    <3>3. ~ClientReject
      BY DEF ClientReject, MayFail, Orderly
    <3> QED
      BY <3>1, <3>2, <3>3
  <2>4. CASE ClientInterrupt
    <3>1. UNCHANGED <<s2c, client, req, cack>> /\ c2s' = Append(c2s, CtrlC)
      BY <2>4 DEF ClientInterrupt
    <3>2. (PacketOn(c2s') <=> PacketOn(c2s)) /\ (PacketOn(str') <=> PacketOn(str))
      BY <2>0, <3>1, PacketOnAppend, Facts, Bytes DEF PacketOn
    <3> QED
      BY <2>0, <3>1, <3>2 DEF Held, Live, Gone, Waiting, Replying
  <2>5. CASE ClientHangup
    BY <2>5 DEF ClientHangup, Held, Gone, Waiting
  <2> QED
    BY <1>9, <2>1, <2>2, <2>3, <2>4, <2>5 DEF Client
<1>10. CASE UNCHANGED vars
  BY <1>10 DEF vars, Held, Live, Gone, Waiting, Replying, PacketOn
<1> QED
  BY <1>1, <1>2, <1>3, <1>4, <1>5, <1>6, <1>7, <1>8, <1>9, <1>10 DEF Next, Stub, Exec

\* RequestNotLost: what the stub takes for an acknowledge, polls for or throws away never
\* costs a request, with any interrupts, hang-ups and changes of the mode; provided that no
\* packet is damaged, that R is used with acknowledges only and that QEnableErrorStrings,
\* after which the client throws the answers away, is not used.
THEOREM NothingLost ==
    ASSUME Orderly, "errstr" \notin Commands
    PROVE  Spec => []RequestNotLost
<1>1. Init => Leaving /\ Held
  BY DEF Init, ClientInit, Leaving, Held, Live, Gone, Waiting
<1>2. IInv /\ SInv /\ Acks /\ Leaving /\ Held /\ [Next]_vars => Leaving' /\ Held'
  BY LeavingStep, HeldStep
<1>3. IInv /\ SInv /\ Held => RequestNotLost
  <2> SUFFICES ASSUME IInv, SInv, Held, Waiting, req.cmd \notin Silent
               PROVE  RequestNotLost
    BY DEF RequestNotLost
  <2>1. CASE Live /\ (PacketOn(c2s) \/ PacketOn(str))
    BY <2>1 DEF SInv, Single, PacketOn, RequestNotLost
  <2>2. CASE pc \in {"exec", "run"} /\ cmd = req
    BY <2>2 DEF RequestNotLost
  <2>3. CASE Replying
    BY <2>3, Bytes DEF IInv, Shape, Replying, RequestNotLost
  <2> QED
    BY <2>1, <2>2, <2>3 DEF Held
<1>4. NoNesting
  BY DEF Orderly, NoNesting
<1> QED
  BY <1>1, <1>2, <1>3, <1>4, Invariance, AlwaysOrdered, PTL DEF Spec
=============================================================================
