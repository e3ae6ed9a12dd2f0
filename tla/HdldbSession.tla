---------------------------- MODULE HdldbSession ----------------------------
(***************************************************************************)
(* The session of HDLDB: the program (src/src/hdldb.cpp), its sockets      *)
(* (src/src/rsp/Socket.cpp), packets (src/src/rsp/Packet.cpp at the level   *)
(* of whole tokens; PacketRx has them byte by byte) and the class Protocol  *)
(* (src/src/rsp/Protocol.hpp): main loop, dispatcher and which handler      *)
(* replies.  What the handlers do to registers and memory is in            *)
(* HdldbShadow.                                                            *)
(*                                                                         *)
(* A failing socket call, a bad checksum and a "-" throw; the main loop is *)
(* outside of main's try, so that an exception ends the process.           *)
(***************************************************************************)
EXTENDS RspClient

\* signal  ?                          thread    H
\* query   q and Q packets that are answered and change nothing
\* monitor qRcmd                      supported qSupported with features as specified
\* feature qSupported with a feature that has neither a sign nor a value
\* noack   QStartNoAckMode            errstr    QEnableErrorStrings
\* extra   qThreadExtraInfo           verbose   v packets other than vCont
\* vcont   vCont with its actions     access    m M g G P, p behind the PC
\* outside an access that leaves the memory or the registers
\* readone p of a GPR or the PC       short     a packet that ends too early
\* point   z and Z                    extended  !
\* other   an unsupported packet      step      s and S
\* cont    c and C                    back      b
\* reset   R       detach  D          kill      k
AllCommands == {"signal", "thread", "query", "monitor", "supported", "feature", "noack",
                "errstr", "extra", "verbose", "vcont", "access", "outside", "readone", "short",
                "point", "extended", "other", "step", "cont", "back", "reset", "detach", "kill"}

CONSTANT Uninit  \* the values that m_state.startNoAckMode, which nothing
                 \* initialises, may have: FALSE if the allocator returns zeros

ASSUME SessionAssumption ==
    /\ Commands \subseteq AllCommands
    /\ Uninit \subseteq BOOLEAN

VARIABLES
    pc,      \* where the server is: "main", "listen", "accept"; "deaf", accept on a
             \* socket that does not listen; "loop", "rx", "parse"; "ack", the end of
             \* tx; "spin", a loop over a closed connection; "exit"; "abort"
    buffer,  \* m_buffer: what rx has received so far
    packet,  \* the packet being handled
    noack,   \* m_state.startNoAckMode
    log      \* history: the requests handled; 0 for one that was not intact

serverVars == <<pc, buffer, packet, noack, log>>
vars == <<c2s, s2c, client, req, cack, ints, faults, pc, buffer, packet, noack, log>>

Init ==
    /\ ClientInit
    /\ pc = "main" /\ buffer = <<>> /\ packet = NoRequest /\ noack \in Uninit
    /\ log = <<>>

GoTo(place) == pc' = place /\ UNCHANGED <<linkVars, buffer, packet, noack, log>>

-----------------------------------------------------------------------------
(* The program and its sockets *)

\* The options are parsed, or print help or an error.
main == pc = "main" /\ \E place \in {"listen", "exit"} : GoTo(place)

\* All failures throw, inside of main's try.
listenUnix == pc = "listen" /\ \E place \in {"accept", "exit"} : GoTo(place)

\* Failures to bind and to listen are only printed.
listenTcp == pc = "listen" /\ \E place \in {"accept", "deaf", "exit"} : GoTo(place)

\* A failing accept, or setsockopt, ends the program.
acceptFails == pc \in {"accept", "deaf"} /\ GoTo("exit")

accept ==
    /\ pc = "accept" /\ pc' = "loop"
    /\ ClientConnect
    /\ UNCHANGED <<buffer, packet, noack, log>>

\* recv and send throw, or raise SIGPIPE, once the connection is reset by a
\* client that went without reading all it was sent.
SocketFails == Gone /\ HungUp /\ pc \in {"loop", "rx", "parse", "ack"} /\ GoTo("abort")

-----------------------------------------------------------------------------
(* Packets *)

\* Variant (mutant): a bad checksum is reported, and the packet used.
checksumReported(tokens) ==
    /\ packet' = Head(tokens) /\ pc' = "parse"
    /\ log' = Append(log, IF Intact(tokens) THEN packet'.id ELSE 0)
    /\ IF noack THEN UNCHANGED s2c ELSE Put(IF Intact(tokens) THEN Plus ELSE Minus)

\* The end of rx: anything but one undamaged packet makes a bad checksum, which
\* is answered with "-" and throws.
checksum(tokens) ==
    /\ IF Intact(tokens)
       THEN pc' = "parse" /\ packet' = Head(tokens) /\ log' = Append(log, packet'.id)
       ELSE pc' = "abort" /\ UNCHANGED <<packet, log>>
    /\ IF noack THEN UNCHANGED s2c ELSE Put(IF Intact(tokens) THEN Plus ELSE Minus)

\* Variant (mutant): the main loop does not look at the first byte.
rxAny ==
    /\ c2s # <<>> /\ pc \in {"rx", "loop"}
    /\ IF Ends(c2s[Len(c2s)])
       THEN checksum(buffer \o c2s) /\ buffer' = <<>>
       ELSE /\ pc' = "rx" /\ buffer' = buffer \o c2s
            /\ UNCHANGED <<s2c, packet, log>>
    /\ c2s' = <<>>
    /\ UNCHANGED <<noack, clientVars>>

\* One recv takes all that has arrived; the loop ends when the third last byte
\* is a "#".
rx ==
    /\ c2s # <<>>
    /\ pc = "rx" \/ (pc = "loop" /\ Head(c2s) # Plus)
    /\ IF Ends(c2s[Len(c2s)])
       THEN checksum(buffer \o c2s) /\ buffer' = <<>>
       ELSE /\ pc' = "rx" /\ buffer' = buffer \o c2s
            /\ UNCHANGED <<s2c, packet, log>>
    /\ c2s' = <<>>
    /\ UNCHANGED <<noack, clientVars>>

\* recv returns 0: rx waits for a "#" for ever, as does the main loop if the byte
\* it peeked at last is a "+".
EndOfStream == Gone /\ c2s = <<>> /\ pc \in {"loop", "rx"} /\ GoTo("spin")

\* Variants (mutants): the acknowledge mode is not switched; D does not accept.
returnKeepMode ==
    /\ pc' = IF packet.cmd = "detach" THEN "accept" ELSE "loop"
    /\ UNCHANGED noack

returnNoAccept ==
    /\ noack' = (noack \/ packet.cmd = "noack")
    /\ pc' = "loop"

\* What a handler does after its tx: query sets the mode, detach accepts and
\* does not re-initialise it.
return ==
    /\ noack' = (noack \/ packet.cmd = "noack")
    /\ pc' = IF packet.cmd = "detach" THEN "accept" ELSE "loop"

\* tx, up to the wait for the acknowledge.
tx ==
    /\ Put([packet EXCEPT !.bad = FALSE])
    /\ IF noack THEN return ELSE pc' = "ack" /\ UNCHANGED noack
    /\ UNCHANGED <<c2s, buffer, packet, log, clientVars>>

\* Variant (mutant): what has arrived with the acknowledge is thrown away.
txAckFlush ==
    /\ pc = "ack" /\ (c2s # <<>> \/ Gone)
    /\ IF c2s # <<>> /\ Head(c2s) = Minus THEN pc' = "abort" /\ UNCHANGED noack ELSE return
    /\ c2s' = <<>>
    /\ UNCHANGED <<s2c, buffer, packet, log, clientVars>>

\* The rest of tx: one byte is read.  A "-" throws, any other byte, and no byte
\* at the end of the stream, is taken for an acknowledge.
txAck ==
    /\ pc = "ack" /\ (c2s # <<>> \/ Gone)
    /\ IF c2s # <<>> /\ Head(c2s) = Minus THEN pc' = "abort" /\ UNCHANGED noack ELSE return
    /\ c2s' = CASE c2s = <<>> -> <<>>
                [] c2s # <<>> /\ Packet(Head(c2s)) -> <<Broken>> \o Tail(c2s)
                [] OTHER -> Tail(c2s)
    /\ UNCHANGED <<s2c, buffer, packet, log, clientVars>>

-----------------------------------------------------------------------------
(* Protocol: the handlers *)

Handling(commands) == pc = "parse" /\ packet.cmd \in commands

signal   == Handling({"signal"}) /\ tx
thread   == Handling({"thread"}) /\ tx

\* The text of the command is replaced by spaces (hex2str): it is never
\* recognised, and answered as such.
query_monitor   == Handling({"monitor"}) /\ tx

\* A feature without a sign is split at its "="; without one substr throws.
query_supported ==
    \/ Handling({"supported"}) /\ tx
    \/ Handling({"feature"}) /\ GoTo("abort")

\* qThreadExtraInfo is not answered.
query ==
    \/ Handling({"query", "errstr", "noack"}) /\ tx
    \/ Handling({"extra"}) /\ GoTo("loop")

\* Variant (mutant): a stop reply for each action of a vCont.
verboseEach ==
    /\ Handling({"verbose", "vcont"})
    /\ s2c' = IF Gone THEN s2c ELSE s2c \o <<packet, packet>>
    /\ IF noack THEN return ELSE pc' = "ack" /\ UNCHANGED noack
    /\ UNCHANGED <<c2s, buffer, packet, log, clientVars>>

\* vCont is answered with a stop reply, and runs nothing.
verbose  == Handling({"verbose", "vcont"}) /\ tx

\* The access to registers and memory, in HdldbShadow: behind the arrays the process
\* may end.
access ==
    \/ Handling({"access", "outside"}) /\ tx
    \/ Handling({"outside"}) /\ GoTo("abort")

\* Reading a GPR or the PC dereferences its value, which is 0; a packet that is
\* shorter than its handler expects throws out_of_range.
crash == Handling({"readone", "short"}) /\ GoTo("abort")

\* Empty so far.
run_step     == Handling({"step"}) /\ GoTo("loop")
run_continue == Handling({"cont"}) /\ GoTo("loop")
run_backward == Handling({"back"}) /\ GoTo("loop")

\* Variant (mutant): the handler returns without a reply.
pointSilent == Handling({"point"}) /\ GoTo("loop")

point    == Handling({"point"}) /\ tx
extended == Handling({"extended"}) /\ tx
reset    == Handling({"reset"}) /\ GoTo("loop")
detach   == Handling({"detach"}) /\ tx
kill     == Handling({"kill"}) /\ GoTo("exit")

unsupported == Handling({"other"}) /\ tx

parse == \/ signal \/ thread \/ query_monitor \/ query_supported \/ query \/ verbose
         \/ access \/ crash \/ run_step \/ run_continue \/ run_backward \/ point
         \/ extended \/ reset \/ detach \/ kill \/ unsupported

\* The main loop throws a "+" away; all else is a packet (rx).
loop ==
    /\ pc = "loop" /\ c2s # <<>> /\ Head(c2s) = Plus
    /\ c2s' = Tail(c2s)
    /\ UNCHANGED <<s2c, serverVars, clientVars>>

Protocol == loop \/ rx \/ EndOfStream \/ txAck \/ parse

Server == main \/ listenUnix \/ listenTcp \/ acceptFails \/ SocketFails \/ Protocol

-----------------------------------------------------------------------------
Next == Server \/ accept \/ (Client /\ UNCHANGED serverVars)

\* The server's process runs whenever it can; it waits in recv and accept.
\* Nobody is obliged to send a command, to interrupt or to connect.
Fairness == WF_vars(Protocol) /\ ClientFairness

Spec == Init /\ [][Next]_vars /\ Fairness

-----------------------------------------------------------------------------
(* Properties *)

\* The values of the variables: a handler only ever works on a packet, never on an
\* acknowledge, a Ctrl-C or the rest of a packet that rx took for one.
TypeOK ==
    /\ ClientTypeOK
    /\ pc \in {"main", "listen", "accept", "deaf", "loop", "rx", "parse", "ack",
              "spin", "exit", "abort"}
    /\ buffer \in Seq(Token) /\ packet \in Request /\ noack \in BOOLEAN
    /\ log \in Seq(0 .. MaxCmds)

\* A server that waits in tx for the acknowledge of a reply which its client has
\* got will read a byte: the switch to the mode without acknowledges never makes
\* it wait for one that is not sent.
AckComes == pc = "ack" /\ client = "idle" => c2s # <<>>

\* The packets on which a handler fails, or may fail, by itself.
Failing == {"feature", "outside", "readone", "short"}

\* The traffic of a client that neither interrupts nor hangs up, whose packets
\* are not damaged and arrive one by one never ends the process by an exception,
\* whatever the acknowledge modes and the sessions before; the packets on which a
\* handler fails by itself are left aside.
Survives == pc = "abort" => faults # {} \/ packet.cmd \in Failing

\* The same without exception.
SurvivesAll == pc = "abort" => faults # {}

\* Both sides are in the same acknowledge mode.
SameMode == noack = ~cack

\* When nothing is on the way, the two sides agree on the acknowledge mode.
AckModesAgree ==
    client = "idle" /\ pc = "loop" /\ c2s = <<>> /\ s2c = <<>> => SameMode

\* The commands that are not answered, and those on which a handler fails.
Unanswered == {"extra", "step", "cont", "back"} \cup Failing

Regular == Waiting /\ req.cmd \notin Unanswered /\ faults = {} /\ SameMode

\* A request that regular traffic waits for is on its way, being handled, or answered by
\* a reply on its way: what the main loop throws away, tx takes for an acknowledge and
\* the client discards never costs a request.
RequestNotLost ==
    Regular /\ req.cmd \notin OneWay =>
       \/ \E k \in DOMAIN c2s : c2s[k] = req
       \/ \E k \in DOMAIN buffer : buffer[k] = req
       \/ pc = "parse" /\ packet = req
       \/ \E k \in DOMAIN s2c : s2c[k] = req

\* A command of those that are handled is answered, unless a fault happens: no
\* order of acknowledges, replies and mode switches makes the sides wait for
\* each other.
Answered == Regular ~> ~Regular

\* When a client has detached, in either mode, the server waits for the next one,
\* unless that fails.
Reaccepts == (Gone /\ req.cmd = "detach" /\ faults = {}) ~> (pc \in {"accept", "exit"})

\* However a client leaves, the server ends or waits for the next one.
ReacceptsAlways == (Gone /\ req.id > 0) ~> (pc \in {"accept", "exit", "abort"})

\* Each request is handled once, in order and undamaged, before it is answered,
\* with interrupts, damaged packets, packets that arrive together and clients
\* that hang up: what rx rejects reaches no handler.
Service == INSTANCE RequestReply WITH
    open    <- ~Gone,
    asked   <- req.id,
    settled <- IF Waiting THEN req.id - 1 ELSE req.id,
    oneway  <- req.cmd \in OneWay

ImplementsService == Service!Spec
=============================================================================
