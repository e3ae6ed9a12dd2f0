---------------------------- MODULE RequestReply ----------------------------
(***************************************************************************)
(* What a server promises to the client of a session: requests are handled *)
(* once each, in the order in which they were made, and a request that has *)
(* an answer is answered after it has been handled.  A connection that is  *)
(* closed leaves it open whether the last request was handled.             *)
(***************************************************************************)
EXTENDS Naturals, Sequences

VARIABLES
    open,     \* there is a connection
    asked,    \* the number of requests made
    settled,  \* the number of requests the client has done with
    oneway,   \* the last request has no answer
    log       \* the requests handled

vars == <<open, asked, settled, oneway, log>>

Init == open = FALSE /\ asked = 0 /\ settled = 0 /\ oneway = FALSE /\ log = <<>>

Open == ~open /\ open' = TRUE /\ UNCHANGED <<asked, settled, oneway, log>>

\* A request; the client may have done with one that has no answer.
Ask ==
    /\ open /\ settled = asked
    /\ asked' = asked + 1 /\ oneway' \in BOOLEAN
    /\ settled' = asked \/ (oneway' /\ settled' = asked')
    /\ open' = TRUE \/ settled' = asked'
    /\ UNCHANGED log

Handle ==
    /\ Len(log) < asked
    /\ log' = Append(log, Len(log) + 1)
    /\ UNCHANGED <<open, asked, settled, oneway>>

Settle ==
    /\ open /\ settled < asked
    /\ oneway \/ Len(log) = asked
    /\ settled' = asked
    /\ UNCHANGED <<open, asked, oneway, log>>

Close ==
    /\ open /\ open' = FALSE
    /\ settled' = asked
    /\ UNCHANGED <<asked, oneway, log>>

Next == Open \/ Ask \/ Handle \/ Settle \/ Close

Spec == Init /\ [][Next]_vars
=============================================================================
