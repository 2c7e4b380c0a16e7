------------------------------ MODULE JobStore ------------------------------
(***************************************************************************)
(* The durable job table behind a JobStore port: the rows of zmdb_job and  *)
(* the completion markers of zmdb_job_done, with the one SQL statement or  *)
(* transaction that each port call runs.  packages/jobs-sqlite and         *)
(* packages/jobs-postgres implement the same semantics; the lines mapped   *)
(* are the SQLite ones.                                                    *)
(*                                                                         *)
(* Time is abstracted.  A row's lease_until matters only through the test  *)
(* lease_until <= now, so a row carries `hidden', TRUE while lease_until   *)
(* lies ahead, and LeaseUntilPasses(j) is the clock reaching it.  Nothing  *)
(* bounds when that happens, so the model also covers workers whose clocks *)
(* disagree and a `now' that was read well before the statement ran.       *)
(***************************************************************************)
EXTENDS Naturals, FiniteSets

CONSTANTS
    Jobs,       \* ids of the rows that enqueue calls may insert, numbered in
                \* the (enqueued_at, id) order the table is scanned in
    Dedupe,     \* the dedupeKey option of each of those calls, or NoKey
    Keys,       \* the dedupe keys the callers use
    Holders,    \* the UUIDs drawn as claim holders
    NoHolder,   \* lease_owner = ''
    NoKey,      \* no dedupeKey option
    MaxAttempts \* RetryPolicy.attempts

ASSUME JobsAssumption == Jobs \subseteq Nat
ASSUME DedupeAssumption == Dedupe \in [Jobs -> Keys \cup {NoKey}] /\ NoKey \notin Keys
ASSUME HolderAssumption == NoHolder \notin Holders
ASSUME AttemptsAssumption == MaxAttempts \in Nat \ {0}

VARIABLES
    row,   \* row[j]: the zmdb_job row of id j ("absent" before its insert)
    marker \* the keys of zmdb_job_done

storeVars == <<row, marker>>

Row == [status : {"absent", "pending", "done", "dead"},
        owner : Holders \cup {NoHolder},
        hidden : BOOLEAN,
        attempts : 0 .. MaxAttempts]

Key(j) == IF Dedupe[j] = NoKey THEN j ELSE Dedupe[j]

StoreTypeOK ==
    /\ row \in [Jobs -> Row]
    /\ marker \subseteq {Key(j) : j \in Jobs}

StoreInit ==
    /\ row = [j \in Jobs |-> [status |-> "absent", owner |-> NoHolder,
                              hidden |-> FALSE, attempts |-> 0]]
    /\ marker = {}

-----------------------------------------------------------------------------
(* enqueue: INSERT .. ON CONFLICT(dedupe_key) DO NOTHING.  A call whose    *)
(* dedupe key some row already carries, whatever that row's status, is     *)
(* answered with that row's id and inserts nothing.  delayMs > 0 inserts   *)
(* the row hidden.                                                         *)

Conflicts(j) ==
    \E i \in Jobs : /\ row[i].status # "absent"
                    /\ Dedupe[i] = Dedupe[j] /\ Dedupe[j] # NoKey

Enqueue(j, delayed) ==
    /\ row[j].status = "absent"
    /\ ~Conflicts(j)
    /\ row' = [row EXCEPT ![j] = [status |-> "pending", owner |-> NoHolder,
                                  hidden |-> delayed, attempts |-> 0]]
    /\ UNCHANGED marker

(* The clock reaches the row's lease_until. *)
LeaseUntilPasses(j) ==
    /\ row[j].status = "pending" /\ row[j].hidden
    /\ row' = [row EXCEPT ![j].hidden = FALSE]
    /\ UNCHANGED marker

-----------------------------------------------------------------------------
(* candidates and claim.  The claim re-tests each selected row, so a row   *)
(* another holder took since the scan is left out of what it returns.      *)

UnownedClaimable ==
    {j \in Jobs : row[j].status = "pending" /\ ~row[j].hidden /\ row[j].owner = NoHolder}

Claimable == {j \in Jobs : row[j].status = "pending" /\ ~row[j].hidden}

FirstOf(S, n) == {j \in S : Cardinality({i \in S : i < j}) < n}

ClaimedRow(j, ids, h) ==
    IF j \in ids \cap Claimable
    THEN [row[j] EXCEPT !.owner = h, !.hidden = TRUE]
    ELSE row[j]

ClaimRows(ids, h) == row' = [j \in Jobs |-> ClaimedRow(j, ids, h)]

-----------------------------------------------------------------------------
(* settle: one UPDATE fenced on the holder and on status = 'pending'.  The *)
(* fence does not look at lease_until: an expired holder may still settle  *)
(* as long as nobody claimed the row after it.                             *)

FencedOnStatusOnly(j, h) == row[j].status = "pending"

Fenced(j, h) == row[j].status = "pending" /\ row[j].owner = h

RowAfterResettingOnRelease(j, kind, attempts) ==
    CASE kind = "done"    -> [row[j] EXCEPT !.status = "done", !.owner = NoHolder,
                                            !.hidden = FALSE, !.attempts = @ + 1]
      [] kind = "retry"   -> [row[j] EXCEPT !.owner = NoHolder, !.hidden = TRUE,
                                            !.attempts = attempts]
      [] kind = "dead"    -> [row[j] EXCEPT !.status = "dead", !.owner = NoHolder,
                                            !.hidden = FALSE, !.attempts = attempts]
      [] kind = "release" -> [row[j] EXCEPT !.owner = NoHolder, !.hidden = FALSE,
                                            !.attempts = attempts]

RowAfter(j, kind, attempts) ==
    CASE kind = "done"    -> [row[j] EXCEPT !.status = "done", !.owner = NoHolder,
                                            !.hidden = FALSE, !.attempts = @ + 1]
      [] kind = "retry"   -> [row[j] EXCEPT !.owner = NoHolder, !.hidden = TRUE,
                                            !.attempts = attempts]
      [] kind = "dead"    -> [row[j] EXCEPT !.status = "dead", !.owner = NoHolder,
                                            !.hidden = FALSE, !.attempts = attempts]
      [] kind = "release" -> [row[j] EXCEPT !.owner = NoHolder, !.hidden = FALSE]

MarkersUnwritten(j, kind) == marker

MarkersAfter(j, kind) == IF kind = "done" THEN marker \cup {Key(j)} ELSE marker

Settle(j, h, kind, attempts) ==
    IF Fenced(j, h)
    THEN /\ row' = [row EXCEPT ![j] = RowAfter(j, kind, attempts)]
         /\ marker' = MarkersAfter(j, kind)
    ELSE UNCHANGED storeVars

(* replay: a dead row is reset in place, attempts included. *)
ReplaySettled(j) ==
    /\ row[j].status \in {"done", "dead"}
    /\ row' = [row EXCEPT ![j] = [status |-> "pending", owner |-> NoHolder,
                                  hidden |-> FALSE, attempts |-> 0]]
    /\ UNCHANGED marker

Replay(j) ==
    /\ row[j].status = "dead"
    /\ row' = [row EXCEPT ![j] = [status |-> "pending", owner |-> NoHolder,
                                  hidden |-> FALSE, attempts |-> 0]]
    /\ UNCHANGED marker
=============================================================================
