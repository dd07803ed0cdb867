----------------------------- MODULE AckPromise -----------------------------
(***************************************************************************)
(* What emitWithAcknowledgement promises its caller: it tries at least     *)
(* once and at most Retries times, and then returns, once, whether a       *)
(* device has received the event.                                          *)
(***************************************************************************)
EXTENDS Naturals

CONSTANT Retries

VARIABLES
    attempts,   \* the times the event has been tried
    result      \* what the call has returned

Init == attempts = 0 /\ result = "pending"

Attempt ==
    /\ result = "pending" /\ attempts < Retries
    /\ attempts' = attempts + 1
    /\ UNCHANGED result

Return ==
    /\ result = "pending" /\ attempts > 0
    /\ result' \in {"received", "failed"}
    /\ UNCHANGED attempts

Next == Attempt \/ Return

Safety == Init /\ [][Next]_<<attempts, result>>

\* A call that has begun returns.
Promise == Safety /\ WF_<<attempts, result>>(attempts > 0 /\ Next)
=============================================================================
