-------------------------- MODULE OutboxProperties --------------------------
(***************************************************************************)
(* What the outbox promises, stated over OutboxDispatcher.                 *)
(***************************************************************************)
EXTENDS OutboxDispatcher

(* The dispatchers implement OutboxDelivery: whatever fails, expires or    *)
(* dies, recorded attempts count one by one, a row ends once, and nothing  *)
(* touches it afterwards.                                                  *)
Delivery == INSTANCE OutboxDelivery WITH Messages <- Rows

ImplementsDelivery == Delivery!Spec

(* Between the read-back and the mark a pass holds a count of attempts it  *)
(* read earlier.  Whenever its fenced mark would be applied that count is  *)
(* still the row's (SPEC section 4.3: why no increment is needed).         *)
SnapshotIsCurrent ==
    \A p \in Passes : pass[p].at \in {"publish", "mark"} =>
        \A r \in pass[p].rows : owner[r] = p => pass[p].seen[r] = attempts[r]

(* A row is dead only after MaxAttempts rejections that really happened,   *)
(* counted across passes, processes and lost leases, unless it cannot be   *)
(* read; and a row that is delivered was published, when every rejection   *)
(* has a reason.                                                           *)
OutcomeIsEarned ==
    \A r \in Rows :
        /\ status[r] = "dead" /\ r \notin Malformed => rejected[r] = MaxAttempts
        /\ status[r] = "delivered" /\ "none" \notin Reasons => r \in published

(* onDead is called for dead rows, as long as no lease ended under a pass. *)
OnDeadIsEarned ==
    spent["early"] = 0 => \A r \in told : status[r] = "dead"

(* When onShutdown has resolved, no pass of the dispatcher runs, not even  *)
(* one a caller of runOnce() began (its connection may now be closed).     *)
ShutdownIsQuiet ==
    \A p \in Passes : mode[Of[p]] = "resolved" => pass[p].at = "off"

(* A committed row is delivered or dead in the end, unless the loops were  *)
(* shut down, although passes fail, processes die and leases end early.    *)
EveryRowSettles ==
    \A r \in Rows :
        status[r] = "pending" ~>
            \/ status[r] \in {"delivered", "dead"}
            \/ \A p \in Looped : mode[Of[p]] = "resolved"
-----------------------------------------------------------------------------
(* What the documents say and the code does not do.                        *)

(* SPEC.md section 5: a row whose publish rejected stays pending or dies;  *)
(* delivered are the rows whose publish resolved.                          *)
DeliveredWasPublished ==
    \A r \in Rows : status[r] = "delivered" => r \in published
=============================================================================
