------------------------------ MODULE RequestReply ----------------------------
(***************************************************************************)
(* What a session promises its user: each request is executed at most      *)
(* once, and what is shown for it is the whole result of that execution,   *)
(* or else the session is over, and the request may or may not have been   *)
(* executed. Module Conversation implements it when messages keep their    *)
(* boundaries; nothing is promised of a pipe read as a stream of bytes.    *)
(***************************************************************************)
EXTENDS Naturals

VARIABLES
    framed,    \* messages keep their boundaries
    phase,     \* "idle", "asked", "executed" or "over"
    request,   \* the number of the latest request
    executed,  \* the number of the latest request that was executed
    result,    \* what that gave: how many lines of text
    outcome    \* what the user has been shown last

vars == <<framed, phase, request, executed, result, outcome>>

Nothing == [result |-> "nothing", of |-> 0, lines |-> 0]
Failure == [result |-> "failure", of |-> 0, lines |-> 0]
Answered == [result |-> "reply", of |-> request, lines |-> result]

Init ==
    /\ framed \in BOOLEAN
    /\ phase = "idle"
    /\ request = 0 /\ executed = 0 /\ result = 0
    /\ outcome = Nothing

Ask ==
    /\ phase = "idle"
    /\ phase' = "asked"
    /\ request' = request + 1
    /\ UNCHANGED <<executed, result, outcome>>

\* Once, and also for a user who has left.
Execute ==
    /\ phase \in {"asked", "over"}
    /\ executed < request
    /\ executed' = request
    /\ result' \in Nat
    /\ phase' = IF phase = "over" THEN "over" ELSE "executed"
    /\ UNCHANGED <<request, outcome>>

\* The answer to an exit ends the session.
Answer ==
    /\ phase = "executed"
    /\ outcome' = Answered
    /\ phase' \in {"idle", "over"}
    /\ UNCHANGED <<request, executed, result>>

Fail ==
    /\ phase \in {"asked", "executed"}
    /\ outcome' = Failure
    /\ phase' = "over"
    /\ UNCHANGED <<request, executed, result>>

Leave ==
    /\ phase # "over"
    /\ phase' = "over"
    /\ UNCHANGED <<request, executed, result, outcome>>

Next ==
    /\ UNCHANGED framed
    /\ framed => Ask \/ Execute \/ Answer \/ Fail \/ Leave

Spec == Init /\ [][Next]_vars
=============================================================================
