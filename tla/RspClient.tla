----------------------------- MODULE RspClient -----------------------------
(***************************************************************************)
(* The connection and the client (GDB) of a remote serial protocol server, *)
(* both external to the repository.  RspLink and HdldbSession put their    *)
(* server at the other end.                                                *)
(*                                                                         *)
(* A token stands for the bytes that are written together: "+", "-", "^C"  *)
(* (0x03) or a packet.  The connection is a reliable byte stream in each   *)
(* direction; a packet may be damaged before it gets there (Faults), as on *)
(* a serial line behind it.  The client is a user of the all-stop mode:    *)
(* one command at a time, acknowledges if the mode has them, Ctrl-C while a *)
(* run command is unanswered, retransmission after a "-".                  *)
(***************************************************************************)
EXTENDS Naturals, Sequences

CONSTANTS
    Commands,      \* the commands the client uses, named by the server's module
    MaxCmds,       \* bound: commands sent
    MaxInterrupts, \* bound: Ctrl-C sent while one command is outstanding
    Faults         \* "damage", "hangup": each may happen once

ASSUME ClientAssumption ==
    /\ MaxCmds \in Nat /\ MaxInterrupts \in Nat
    /\ Faults \subseteq {"damage", "hangup"}
    /\ Commands \cap {"none", "+", "-", "^C", "broken"} = {}

Request == [cmd : Commands \cup {"none"}, id : 0 .. MaxCmds, bad : BOOLEAN]
NoRequest == [cmd |-> "none", id |-> 0, bad |-> FALSE]

\* Tokens other than packets: single bytes, and a packet without its "$".
Byte(c) == [cmd |-> c, id |-> 0, bad |-> FALSE]
Plus   == Byte("+")
Minus  == Byte("-")
CtrlC  == Byte("^C")
Broken == Byte("broken")
Token  == Request \cup {Plus, Minus, CtrlC, Broken}

\* A token that ends with "#" and a checksum; one that also begins with "$";
\* a receipt that is one undamaged packet.
Ends(token) == token \notin {Plus, Minus, CtrlC}
Packet(token) == Ends(token) /\ token # Broken
Intact(tokens) == Len(tokens) = 1 /\ Packet(tokens[1]) /\ ~tokens[1].bad

VARIABLES
    c2s, s2c,  \* the two directions of the connection
    client,    \* "idle", "waitack", "waitreply", or "closed": no connection
    req,       \* the client's last request
    cack,      \* the client's acknowledge mode
    ints,      \* Ctrl-C sent for the last request
    faults     \* history: what has happened so far that is not regular traffic

clientVars == <<client, req, cack, ints, faults>>
linkVars   == <<c2s, s2c, client, req, cack, ints, faults>>

ClientInit ==
    /\ c2s = <<>> /\ s2c = <<>>
    /\ client = "closed" /\ req = NoRequest /\ cack = TRUE /\ ints = 0 /\ faults = {}

Gone == client = "closed"
Waiting == client \in {"waitack", "waitreply"}
HungUp == "hangup" \in faults
MayFail(f) == f \in Faults \ faults

\* What the server sends; nobody reads it once the client has closed.
Put(token) == s2c' = IF Gone THEN s2c ELSE Append(s2c, token)

-----------------------------------------------------------------------------
\* Where the client is once a command is sent and acknowledged; the protocol
\* defines no reply for R and k.
OneWay == {"reset", "kill"}
Sent(c) == CASE c = "kill" -> "closed" [] c = "reset" -> "idle" [] OTHER -> "waitreply"

\* Sending a packet behind another one that has not been taken is noted:
\* it happens after R, which is not answered, without acknowledges.
ClientSend ==
    /\ client = "idle" /\ req.id < MaxCmds
    /\ \E c \in Commands :
          /\ req' = [cmd |-> c, id |-> req.id + 1, bad |-> FALSE]
          /\ client' = IF cack THEN "waitack" ELSE Sent(c)
    /\ ints' = 0
    /\ LET piped == IF \E k \in DOMAIN c2s : Packet(c2s[k]) THEN {"pipelined"} ELSE {}
       IN  \/ c2s' = Append(c2s, req') /\ faults' = faults \cup piped
           \/ /\ MayFail("damage")
              /\ c2s' = Append(c2s, [req' EXCEPT !.bad = TRUE])
              /\ faults' = faults \cup piped \cup {"damage"}
    /\ UNCHANGED <<s2c, cack>>

\* An acknowledge that is not awaited is ignored.
ClientAcked ==
    /\ s2c # <<>> /\ Head(s2c) = Plus
    /\ s2c' = Tail(s2c)
    /\ client' = IF client = "waitack" THEN Sent(req.cmd) ELSE client
    /\ UNCHANGED <<c2s, req, cack, ints, faults>>

ClientNacked ==
    /\ s2c # <<>> /\ Head(s2c) = Minus
    /\ s2c' = Tail(s2c)
    /\ c2s' = IF client = "waitack" THEN Append(c2s, req) ELSE c2s
    /\ UNCHANGED clientVars

ClientReply ==
    /\ client = "waitreply" /\ s2c # <<>> /\ Packet(Head(s2c))
    /\ s2c' = Tail(s2c)
    /\ c2s' = IF cack THEN Append(c2s, Plus) ELSE c2s
    /\ cack' = (cack /\ req.cmd # "noack")
    /\ client' = IF req.cmd = "detach" THEN "closed" ELSE "idle"
    /\ UNCHANGED <<req, ints, faults>>

\* A reply that arrives damaged is asked for again.
ClientReject ==
    /\ client = "waitreply" /\ cack /\ s2c # <<>> /\ Packet(Head(s2c)) /\ MayFail("damage")
    /\ s2c' = Tail(s2c)
    /\ c2s' = Append(c2s, Minus)
    /\ faults' = faults \cup {"damage"}
    /\ UNCHANGED <<client, req, cack, ints>>

\* A packet in the place of an acknowledge is thrown away.
ClientDiscard ==
    /\ client = "waitack" /\ s2c # <<>> /\ Packet(Head(s2c))
    /\ s2c' = Tail(s2c)
    /\ UNCHANGED <<c2s, clientVars>>

\* The user interrupts a program that is running or being stepped.
ClientInterrupt ==
    /\ client = "waitreply" /\ req.cmd \in {"cont", "step", "back", "vcont"}
    /\ ints < MaxInterrupts
    /\ c2s' = Append(c2s, CtrlC)
    /\ ints' = ints + 1 /\ faults' = faults \cup {"interrupt"}
    /\ UNCHANGED <<s2c, client, req, cack>>

\* The client is killed or gives up, and closes the connection without D.
ClientHangup ==
    /\ ~Gone /\ MayFail("hangup")
    /\ client' = "closed" /\ s2c' = <<>> /\ faults' = faults \cup {"hangup"}
    /\ UNCHANGED <<c2s, req, cack, ints>>

Client == \/ ClientSend \/ ClientAcked \/ ClientNacked \/ ClientReply \/ ClientReject
          \/ ClientDiscard \/ ClientInterrupt \/ ClientHangup

\* A new client; it greets the connection with a "+".
ClientConnect ==
    /\ Gone
    /\ c2s' = <<Plus>> /\ s2c' = <<>>
    /\ client' = "idle" /\ cack' = TRUE
    /\ UNCHANGED <<req, ints, faults>>

\* The client reads what it is sent.
ClientFairness == WF_linkVars(ClientAcked) /\ WF_linkVars(ClientNacked) /\ WF_linkVars(ClientReply)

ClientTypeOK ==
    /\ c2s \in Seq(Token) /\ s2c \in Seq(Token)
    /\ client \in {"idle", "waitack", "waitreply", "closed"}
    /\ req \in Request /\ cack \in BOOLEAN /\ ints \in 0 .. MaxInterrupts
    /\ faults \subseteq {"damage", "hangup", "interrupt", "pipelined"}

Replies == {k \in DOMAIN s2c : Packet(s2c[k])}

\* A reply on its way to the client is the only one and belongs to the request
\* that the client is waiting for: a Ctrl-C that crosses a stop reply, or is
\* taken for its acknowledge, never shifts or doubles replies.
ReplyPairing ==
    \A k \in Replies : s2c[k] = req /\ Waiting /\ Replies = {k}
=============================================================================
