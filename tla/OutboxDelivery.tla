--------------------------- MODULE OutboxDelivery ---------------------------
(***************************************************************************)
(* What the transactional outbox promises of each message, whoever         *)
(* dispatches it: it appears with the commit of its transaction, every     *)
(* recorded attempt counts once, and it is delivered or dead once and for  *)
(* all.                                                                    *)
(***************************************************************************)
EXTENDS Naturals

CONSTANTS
    Messages,
    Malformed,   \* the messages a dispatcher cannot read
    MaxAttempts

VARIABLES status, attempts

Init ==
    /\ status = [m \in Messages |-> "none"]
    /\ attempts = [m \in Messages |-> 0]

Commit(m) ==
    /\ status[m] = "none"
    /\ status' = [status EXCEPT ![m] = "pending"]
    /\ UNCHANGED attempts

(* An attempt is recorded, with what came of it.                           *)
Record(m, outcome) ==
    /\ status[m] = "pending"
    /\ status' = [status EXCEPT ![m] = outcome]
    /\ attempts' = [attempts EXCEPT ![m] = @ + 1]
    /\ CASE outcome = "delivered" -> m \notin Malformed
         [] outcome = "pending" -> m \notin Malformed /\ attempts[m] + 1 < MaxAttempts
         [] OTHER -> m \in Malformed \/ attempts[m] + 1 = MaxAttempts

Next ==
    \E m \in Messages :
        Commit(m) \/ \E outcome \in {"delivered", "pending", "dead"} : Record(m, outcome)

Spec == Init /\ [][Next]_<<status, attempts>>
=============================================================================
