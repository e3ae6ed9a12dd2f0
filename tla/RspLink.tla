------------------------------ MODULE RspLink ------------------------------
(***************************************************************************)
(* The remote serial protocol session between the stub                     *)
(* (src/hdl/gdb_server_stub_pkg.sv over src/hdl/socket_dpi_pkg.c) and its  *)
(* client (RspClient): framing, acknowledges, Ctrl-C, the dispatcher and   *)
(* which handler replies when.  What the handlers do to the program is in  *)
(* RunControl.                                                             *)
(***************************************************************************)
EXTENDS RspClient

\* query   any packet answered at once and without an effect on the session:
\*         m M g G p P ? q ! bs and unsupported packets
\* noack   QStartNoAckMode          errstr   QEnableErrorStrings
\* point   z and Z                  step     s and S
\* cont    c and C                  back     bc
\* assert  monitor reset assert     release  monitor reset release
\* reset   R                        detach   D
\* kill    k                        vcont    vCont with its actions
AllCommands == {"query", "noack", "errstr", "point", "step", "cont", "back", "vcont",
                "assert", "release", "reset", "detach", "kill"}

ASSUME LinkAssumption == Commands \subseteq AllCommands

VARIABLES
    pc,        \* where the stub is: "fsm" main loop, "get" inside rsp_get_packet,
               \* "exec" in a handler, "run" in the loop of rsp_continue or
               \* rsp_backward,
               \* "ack" waiting for the acknowledge of its reply,
               \* "listen" in the constructor, "accept" waiting for a
               \* connection, "spin" in a loop over a connection that is closed,
               \* "finish" after $finish, exit or SIGPIPE
    str,       \* what rsp_get_packet has received so far
    cmd,       \* the packet being handled
    runs,      \* run commands suspended in their poll by the one being handled
    ack,       \* stub_state.acknowledge
    rst,       \* reset is asserted: the CPU retires nothing
    log        \* history: the requests handled; 0 for one that was not intact

stubVars == <<pc, str, cmd, runs, ack, rst, log>>
vars == <<c2s, s2c, client, req, cack, ints, faults, pc, str, cmd, runs, ack, rst, log>>

Init ==
    /\ ClientInit
    /\ pc = "listen" /\ str = <<>> /\ cmd = NoRequest /\ runs = 0 /\ ack = TRUE /\ rst = FALSE
    /\ log = <<>>

-----------------------------------------------------------------------------
(* The stub: receiving *)

\* The constructor creates the socket and ignores a failure: accept then fails
\* as well, and exits.
socket_listen ==
    /\ pc = "listen"
    /\ pc' \in {"accept", "finish"}
    /\ UNCHANGED <<linkVars, str, cmd, runs, ack, rst, log>>

\* Variant (mutant): the "+" is only peeked at.
StubPlusKept ==
    /\ pc = "fsm" /\ c2s # <<>> /\ Head(c2s) = Plus
    /\ UNCHANGED vars

\* rsp_packet: a "+" found by the main loop is thrown away.
StubPlus ==
    /\ pc = "fsm" /\ c2s # <<>> /\ Head(c2s) = Plus
    /\ c2s' = Tail(c2s)
    /\ UNCHANGED <<s2c, stubVars, clientVars>>

\* Variant (mutant): the string is not empty when the next packet is received.
ReceivedKept(tokens) ==
    /\ pc' = "exec" /\ cmd' = Head(tokens) /\ str' = tokens
    /\ log' = Append(log, IF Intact(tokens) THEN cmd'.id ELSE 0)
    /\ IF ack THEN Put(IF Intact(tokens) THEN Plus ELSE Minus) ELSE UNCHANGED s2c

\* One recv takes all that has arrived; the loop ends when the bytes end with
\* "#" and two digits.  Anything but one undamaged packet makes a bad checksum,
\* which is answered with "-"; the handler, which ignores that, goes on with it.
Received(tokens) ==
    /\ pc' = "exec" /\ cmd' = Head(tokens) /\ str' = <<>>
    /\ log' = Append(log, IF Intact(tokens) THEN cmd'.id ELSE 0)
    /\ IF ack THEN Put(IF Intact(tokens) THEN Plus ELSE Minus) ELSE UNCHANGED s2c

GetMore(tokens) ==
    /\ pc' = "get" /\ str' = tokens
    /\ UNCHANGED <<cmd, s2c, log>>

\* Variant (mutant): a "+" is received like a packet.
rsp_get_packetAny ==
    /\ c2s # <<>> /\ pc \in {"fsm", "get"}
    /\ IF Ends(c2s[Len(c2s)]) THEN Received(str \o c2s) ELSE GetMore(str \o c2s)
    /\ c2s' = <<>>
    /\ UNCHANGED <<runs, ack, rst, clientVars>>

\* A byte that is neither "+" nor "$" is never taken: the main loop peeks at it
\* for ever (no action).
rsp_get_packet ==
    /\ c2s # <<>>
    /\ \/ pc = "fsm" /\ Packet(Head(c2s))
       \/ pc = "get"
    /\ IF Ends(c2s[Len(c2s)]) THEN Received(str \o c2s) ELSE GetMore(str \o c2s)
    /\ c2s' = <<>>
    /\ UNCHANGED <<runs, ack, rst, clientVars>>

\* recv returns 0, the peeked byte keeps its old value: either the "+" branch is
\* taken again and again, or the old command, whose rsp_get_packet never ends.
EndOfStream ==
    /\ Gone /\ c2s = <<>> /\ pc \in {"fsm", "get"}
    /\ pc' = "spin"
    /\ UNCHANGED <<linkVars, str, cmd, runs, ack, rst, log>>

\* Sending to a client that has hung up may end the process (SIGPIPE).
BrokenPipe ==
    /\ Gone /\ HungUp /\ pc \in {"fsm", "get", "exec", "run"}
    /\ pc' = "finish"
    /\ UNCHANGED <<linkVars, str, cmd, runs, ack, rst, log>>

-----------------------------------------------------------------------------
(* The stub: replying *)

\* Variant (mutant): a detach leaves the acknowledge mode as it is.
AfterReplyKeepMode ==
    /\ ack' = (ack /\ cmd.cmd \notin {"noack", "errstr"})
    /\ pc' = IF cmd.cmd = "detach" THEN "accept" ELSE "fsm"

\* Variant (mutant): a detach does not wait for a new connection.
AfterReplyNoAccept ==
    /\ ack' = CASE cmd.cmd \in {"noack", "errstr"} -> FALSE
                [] cmd.cmd = "detach" -> TRUE
                [] OTHER -> ack
    /\ pc' = "fsm"

\* Variant (mutant): QStartNoAckMode and QEnableErrorStrings change nothing.
AfterReplyModeKept ==
    /\ ack' = (ack \/ cmd.cmd = "detach")
    /\ pc' = IF cmd.cmd = "detach" THEN "accept" ELSE "fsm"

\* What a handler does once its reply is sent and, if need be, acknowledged.
AfterReply ==
    /\ ack' = CASE cmd.cmd \in {"noack", "errstr"} -> FALSE
                [] cmd.cmd = "detach" -> TRUE
                [] OTHER -> ack
    /\ pc' = IF cmd.cmd = "detach" THEN "accept" ELSE "fsm"

\* rsp_send_packet, up to the wait for the acknowledge.
rsp_send_packet ==
    /\ Put([cmd EXCEPT !.bad = FALSE])
    /\ IF ack THEN pc' = "ack" /\ UNCHANGED ack ELSE AfterReply

\* Variant (mutant): only a "+" is taken.
StubAckStrict ==
    /\ pc = "ack" /\ c2s # <<>> /\ Head(c2s) = Plus
    /\ c2s' = Tail(c2s)
    /\ AfterReply
    /\ UNCHANGED <<s2c, str, cmd, runs, rst, log, clientVars>>

\* Variant (mutant): all that has arrived is taken for the acknowledge.
StubAckFlush ==
    /\ pc = "ack" /\ (c2s # <<>> \/ Gone)
    /\ c2s' = <<>>
    /\ AfterReply
    /\ UNCHANGED <<s2c, str, cmd, runs, rst, log, clientVars>>

\* The rest of rsp_send_packet: one byte is read, whatever it is, and the
\* handler goes on, also when there is none to come.  The first byte of a packet
\* would be lost that way.  A run command that was dispatched by the poll of
\* another one returns to it with a signal set, which ends that one's loop, too:
\* it sends its own stop reply.
StubAck ==
    /\ pc = "ack" /\ (c2s # <<>> \/ Gone)
    /\ c2s' = CASE c2s = <<>> -> <<>>
                [] c2s # <<>> /\ Packet(Head(c2s)) -> <<Broken>> \o Tail(c2s)
                [] OTHER -> Tail(c2s)
    /\ IF runs > 0
       THEN Put([cmd EXCEPT !.bad = FALSE]) /\ runs' = runs - 1 /\ UNCHANGED <<pc, ack>>
       ELSE AfterReply /\ UNCHANGED <<s2c, runs>>
    /\ UNCHANGED <<str, cmd, rst, log, clientVars>>

\* Handlers that reply at once.
rsp_query_packet ==
    /\ pc = "exec" /\ cmd.cmd \in {"query", "noack", "errstr"}
    /\ rsp_send_packet
    /\ UNCHANGED <<c2s, str, cmd, runs, rst, log, clientVars>>

\* The reset is driven before the reply is sent.
rsp_query_monitor ==
    /\ pc = "exec" /\ cmd.cmd \in {"assert", "release"}
    /\ rst' = (cmd.cmd = "assert")
    /\ rsp_send_packet
    /\ UNCHANGED <<c2s, str, cmd, runs, log, clientVars>>

\* dut_step returns once the CPU has retired an instruction.
rsp_step ==
    /\ pc = "exec" /\ cmd.cmd = "step" /\ ~rst
    /\ rsp_send_packet
    /\ UNCHANGED <<c2s, str, cmd, runs, rst, log, clientVars>>

\* The rest of rsp_detach, after its reply, is in AfterReply and Connect.
rsp_detach ==
    /\ pc = "exec" /\ cmd.cmd = "detach"
    /\ rsp_send_packet
    /\ UNCHANGED <<c2s, str, cmd, runs, rst, log, clientVars>>

\* Commands that are not answered: rsp_verbose_packet parses the actions of
\* vCont and does nothing with them; rsp_point, rsp_reset and rsp_kill return
\* without a reply.
Silent == {"vcont", "point", "reset", "kill"}

ExecSilent ==
    /\ pc = "exec" /\ cmd.cmd \in Silent
    /\ rst' = (rst \/ cmd.cmd = "reset")
    /\ pc' = IF cmd.cmd = "kill" THEN "finish" ELSE "fsm"
    /\ UNCHANGED <<linkVars, str, cmd, runs, ack, log>>

rsp_continue ==
    /\ pc = "exec" /\ cmd.cmd = "cont"
    /\ pc' = "run"
    /\ UNCHANGED <<linkVars, str, cmd, runs, ack, rst, log>>

rsp_backward ==
    /\ pc = "exec" /\ cmd.cmd = "back"
    /\ pc' = "run"
    /\ UNCHANGED <<linkVars, str, cmd, runs, ack, rst, log>>

\* Variants (mutants): the loop goes on after the stop reply; it does not poll.
RunStepNoExit(hit) ==
    /\ pc = "run" /\ ~rst
    /\ Len(s2c) < 3 /\ s2c' = Append(s2c, cmd)
    /\ UNCHANGED <<c2s, pc, str, cmd, runs, ack, rst, log, clientVars>>

RunStepDeaf(hit) ==
    /\ pc = "run" /\ ~rst
    /\ IF hit THEN rsp_send_packet ELSE UNCHANGED <<s2c, pc, ack>>
    /\ UNCHANGED <<c2s, str, cmd, runs, rst, log, clientVars>>

\* The poll of a run finds no packet.  A Ctrl-C ends the loop and is left in the
\* socket; a "+" is thrown away by the nested rsp_packet.
RunAlone(hit) ==
    /\ IF hit \/ (c2s # <<>> /\ Head(c2s) = CtrlC)
       THEN rsp_send_packet
       ELSE UNCHANGED <<s2c, pc, ack>>
    /\ c2s' = IF c2s # <<>> /\ Head(c2s) = Plus THEN Tail(c2s) ELSE c2s
    /\ UNCHANGED <<str, cmd, runs, log>>

\* The poll finds a packet, which the nested rsp_packet receives and handles.  The
\* only one a client sends then is the run command itself, refused with "-" (so there
\* are acknowledges) and executed all the same, once more.
RunNested ==
    /\ IF Ends(c2s[Len(c2s)]) THEN Received(c2s) ELSE GetMore(c2s)
    /\ c2s' = <<>> /\ runs' = runs + 1
    /\ UNCHANGED ack

\* One iteration of the loop of rsp_continue, where the CPU retires an instruction,
\* or of rsp_backward, which does not need the CPU.  The step may hit a point or the
\* beginning of the history (hit); then the socket is polled.
RunStep(hit) ==
    /\ pc = "run" /\ (rst => cmd.cmd = "back")
    /\ IF c2s # <<>> /\ Packet(Head(c2s)) THEN RunNested ELSE RunAlone(hit)
    /\ UNCHANGED <<rst, clientVars>>

Exec == \/ rsp_query_packet \/ rsp_query_monitor \/ rsp_step \/ rsp_detach
        \/ ExecSilent \/ rsp_continue \/ rsp_backward

Stub == socket_listen \/ StubPlus \/ rsp_get_packet \/ EndOfStream \/ BrokenPipe
        \/ StubAck \/ Exec
        \/ \E hit \in BOOLEAN : RunStep(hit)

\* The stub's blocking accept returns with a new client.
Connect ==
    /\ pc = "accept" /\ pc' = "fsm"
    /\ ClientConnect
    /\ UNCHANGED <<str, cmd, runs, ack, rst, log>>

-----------------------------------------------------------------------------
Next == Stub \/ Connect \/ (Client /\ UNCHANGED stubVars)

\* The stub's process runs whenever it can: it waits only in recv, in accept
\* and for the CPU, which retires instructions unless it is in reset, and need
\* never hit a point.  A reverse run gets to the beginning of the history
\* (ReverseContinueTerminates of RunControl).  The client reads what it is sent.
\* Nobody is obliged to send a command, to interrupt or to connect.
Fairness ==
    /\ WF_vars(StubPlus) /\ WF_vars(rsp_get_packet) /\ WF_vars(EndOfStream) /\ WF_vars(StubAck)
    /\ WF_vars(Exec) /\ WF_vars(RunStep(FALSE)) /\ WF_vars(cmd.cmd = "back" /\ RunStep(TRUE))
    /\ ClientFairness

Spec == Init /\ [][Next]_vars /\ Fairness

-----------------------------------------------------------------------------
(* Properties *)

\* The values of the variables: a handler only ever works on a packet, never on a
\* "+" or a Ctrl-C that rsp_get_packet took for one.
TypeOK ==
    /\ ClientTypeOK
    /\ pc \in {"listen", "fsm", "get", "exec", "run", "ack", "accept", "spin", "finish"}
    /\ str \in Seq(Token) /\ cmd \in Request /\ runs \in Nat /\ {ack, rst} \subseteq BOOLEAN
    /\ log \in Seq(0 .. MaxCmds)

\* When nothing is on the way and nobody has anything to do, the two sides
\* agree on whether packets are acknowledged, also after a detach.
AckModesAgree ==
    client = "idle" /\ pc = "fsm" /\ c2s = <<>> /\ s2c = <<>> => ack = cack

\* The recv of rsp_send_packet, which blocks the simulation, has a byte to take when
\* the client has nothing more to send: the stub never waits for an acknowledge that
\* the client does not know of.
AckComes == pc = "ack" /\ client = "idle" => c2s # <<>>

\* A request that is to be answered is in the socket, in the string that
\* rsp_get_packet receives, in its handler, or answered: the byte that
\* rsp_send_packet takes for an acknowledge, a poll or the main loop never
\* costs one.
RequestNotLost ==
    Waiting /\ req.cmd \notin Silent =>
       \/ \E k \in DOMAIN c2s : c2s[k] = req
       \/ \E k \in DOMAIN str : str[k] = req
       \/ pc \in {"exec", "run"} /\ cmd = req
       \/ \E k \in DOMAIN s2c : s2c[k] = req

\* No byte is left in the socket: what the client sends is consumed, the
\* Ctrl-C that rsp_continue only peeks at included.
StreamDrains == <>[](c2s = <<>> \/ Gone)

\* A command other than continue is answered.
Answered == (Waiting /\ req.cmd # "cont") ~> ~Waiting

\* A continue that the user interrupts is answered.
InterruptAnswered == (Waiting /\ ints > 0) ~> ~Waiting

\* When a client has detached, the stub waits for the next one.
Reaccepts == (Gone /\ req.cmd = "detach" /\ ~HungUp) ~> pc = "accept"

\* However a client leaves, the stub ends or waits for the next one.
ReacceptsAlways == (Gone /\ req.id > 0) ~> (pc \in {"accept", "finish"})

\* The stub handles each request once, in order and undamaged, before it is
\* answered: rsp_get_packet, the dispatcher and the acknowledges implement the
\* abstract service.
Service == INSTANCE RequestReply WITH
    open    <- ~Gone,
    asked   <- req.id,
    settled <- IF Waiting THEN req.id - 1 ELSE req.id,
    oneway  <- req.cmd \in OneWay

ImplementsService == Service!Spec
=============================================================================
