------------------------------ MODULE JobWorker ------------------------------
(***************************************************************************)
(* The workers of packages/jobs (class JobWorker), each a process of its   *)
(* own, over one job table (JobStore).  One action per step between two    *)
(* awaits: the request a step leaves behind runs in the store, and is      *)
(* answered, in a later action, so that other workers, the clock, drains,  *)
(* crashes and failed store calls come in between.                         *)
(*                                                                         *)
(* A run is one entry of #active: a claimed row on its way through         *)
(* #process and #runHandler.  Its phases:                                  *)
(*   claimed  the claim's response has not reached the worker yet          *)
(*   lock     in #lockKey, behind another run of the same key              *)
(*   check    store.completed(key) is in flight                            *)
(*   skip     the marker was there; the done settlement is in flight       *)
(*   ready    #runHandler was called, the handler's microtask is queued    *)
(*   handle   the handler runs and its timer has not fired                 *)
(*   done, retry, dead   that settlement is in flight                      *)
(*   notify   onDead is in progress                                        *)
(*   linger   settled after a timeout, waiting for the handler to return   *)
(* executing[w] holds the handler calls that have not returned, which may  *)
(* outlive their run.                                                      *)
(***************************************************************************)
EXTENDS JobStore

CONSTANTS
    Workers,     \* the worker processes
    Looped,      \* the workers driven by start(), not by calls of runOnce()
    Names,       \* job names
    Name,        \* the name of each job
    Handles,     \* the names each worker has a handler for
    Cap,         \* handler.concurrency of each name, 0 where it has none
    Unparsable,  \* the jobs whose payload is not JSON
    Rejected,    \* the jobs whose payload fails the handler's validator
    Concurrency, \* WorkerOptions.concurrency
    Batch,       \* WorkerOptions.batch
    Bound        \* how often each disturbance may happen

Disturbances == {"fault", "crash", "early", "replay", "shutdown"}

ASSUME WorkerAssumption ==
    /\ Looped \subseteq Workers
    /\ Name \in [Jobs -> Names]
    /\ Handles \in [Workers -> SUBSET Names]
    /\ Cap \in [Names -> Nat]
    /\ Concurrency \in Nat \ {0} /\ Batch \in Nat \ {0}
    /\ Bound \in [Disturbances -> Nat]

VARIABLES
    mode,      \* mode[w]: "open" while #stopping is false; "halted" once the
               \* loop failed; "draining" and "resolved" are #drain;
               \* "down" is a process that is not there
    pass,      \* pass[w]: the stage of #pass and the rows it works on
    run,       \* run[w][j]: the run of row j in worker w
    executing, \* executing[w]: handler calls, as <<job, holder>>, not returned
    releasing, \* releasing[w]: release settlements in flight, as <<job, holder>>
    spent      \* how many disturbances of each kind have happened

workerVars == <<mode, pass, run, executing, releasing>>
vars == <<row, marker, mode, pass, run, executing, releasing, spent>>

Phases == {"off", "claimed", "lock", "check", "skip", "ready", "handle",
           "done", "retry", "dead", "notify", "linger"}

Run == [at : Phases,
        holder : Holders \cup {NoHolder},
        attempts : 0 .. MaxAttempts,
        abandoned : BOOLEAN,
        marked : BOOLEAN] \* history: the marker was there when it was claimed

NoRun == [at |-> "off", holder |-> NoHolder, attempts |-> 0,
          abandoned |-> FALSE, marked |-> FALSE]

NoPass == [at |-> "none", rows |-> {}]

Modes == {"open", "halted", "draining", "resolved", "down"}

TypeOK ==
    /\ StoreTypeOK
    /\ mode \in [Workers -> Modes]
    /\ pass \in [Workers -> [at : {"none", "claim", "claimed", "requeue", "work"},
                             rows : SUBSET Jobs]]
    /\ run \in [Workers -> [Jobs -> Run]]
    /\ executing \in [Workers -> SUBSET (Jobs \X Holders)]
    /\ releasing \in [Workers -> SUBSET (Jobs \X Holders)]
    /\ spent \in [Disturbances -> Nat]

Init ==
    /\ StoreInit
    /\ mode = [w \in Workers |-> "open"]
    /\ pass = [w \in Workers |-> NoPass]
    /\ run = [w \in Workers |-> [j \in Jobs |-> NoRun]]
    /\ executing = [w \in Workers |-> {}]
    /\ releasing = [w \in Workers |-> {}]
    /\ spent = [d \in Disturbances |-> 0]

-----------------------------------------------------------------------------
(* Helpers.                                                                *)

Spend(d) == spent[d] < Bound[d] /\ spent' = [spent EXCEPT ![d] = @ + 1]

Up(w) == mode[w] # "down"

(* #active, which #inFlight mirrors. *)
Active(w) == {j \in Jobs : run[w][j].at \notin {"off", "claimed"}}

Executing(w, j) == <<j, run[w][j].holder>> \in executing[w]

(* The row's last claim belongs to a run that is still in some worker. *)
HeldByRun(j) == \E w \in Workers : /\ run[w][j].at # "off"
                                   /\ run[w][j].holder = row[j].owner

Fresh(h) ==
    /\ \A j \in Jobs : row[j].owner # h
    /\ \A w \in Workers : /\ \A j \in Jobs : run[w][j].holder # h
                          /\ \A p \in executing[w] \cup releasing[w] : p[2] # h

(* A run leaves #active when its work settles: at once, or, after a         *)
(* timeout, when the handler it gave up on has returned.                    *)
FinishedFreeingSlot(w, j) == NoRun

Finished(w, j) ==
    IF Executing(w, j) THEN [run[w][j] EXCEPT !.at = "linger"] ELSE NoRun

(* #settleFailure's choice. *)
AfterFailureOffByOne(r) ==
    IF r.attempts >= MaxAttempts THEN "dead" ELSE "retry"

AfterFailure(r) ==
    IF r.attempts + 1 >= MaxAttempts THEN "dead" ELSE "retry"

(* The work promise of run j rejects: the run is dropped from #active even  *)
(* if its handler has not returned, the pass that waits for it in           *)
(* Promise.all rejects with it, and a loop awaiting the pass ends.          *)
RunRejects(w, j) ==
    /\ run' = [run EXCEPT ![w][j] = NoRun]
    /\ IF pass[w].at = "work" /\ j \in pass[w].rows
       THEN /\ pass' = [pass EXCEPT ![w] = NoPass]
            /\ mode' = [mode EXCEPT ![w] = IF w \in Looped /\ @ = "open" THEN "halted" ELSE @]
       ELSE UNCHANGED <<pass, mode>>

PassRejects(w) ==
    /\ pass' = [pass EXCEPT ![w] = NoPass]
    /\ mode' = [mode EXCEPT ![w] = IF w \in Looped /\ @ = "open" THEN "halted" ELSE @]

-----------------------------------------------------------------------------
(* A pass: scan, claim, then start or give back what was claimed.          *)

FreeSlots(w) == Concurrency - Cardinality(Active(w))

PassLimit(w) == IF Batch < FreeSlots(w) THEN Batch ELSE FreeSlots(w)

ScanLimit(w) == IF \E n \in Handles[w] : Cap[n] > 0 THEN Batch ELSE PassLimit(w)

(* #selectCandidates: skip what is active here, keep every capped name      *)
(* within its cap, stop at the limit.                                       *)
SelectedOverCap(w, rows) == FirstOf(rows \ Active(w), PassLimit(w))

Selected(w, rows) ==
    LET eligible == rows \ Active(w)
        WithinCap(j) ==
            \/ Name[j] \notin Handles[w] \/ Cap[Name[j]] = 0
            \/ Cardinality({i \in Active(w) : Name[i] = Name[j]})
               + Cardinality({i \in eligible : i < j /\ Name[i] = Name[j]}) < Cap[Name[j]]
    IN  FirstOf({j \in eligible : WithinCap(j)}, PassLimit(w))

Scan(w) ==
    /\ mode[w] = "open" /\ pass[w].at = "none" /\ FreeSlots(w) > 0
    /\ LET picked == Selected(w, FirstOf(Claimable, ScanLimit(w)))
       IN  /\ picked # {}
           /\ pass' = [pass EXCEPT ![w] = [at |-> "claim", rows |-> picked]]
    /\ UNCHANGED <<row, marker, mode, run, executing, releasing, spent>>

ScanFails(w) ==
    /\ mode[w] = "open" /\ pass[w].at = "none" /\ FreeSlots(w) > 0
    /\ Spend("fault") /\ PassRejects(w)
    /\ UNCHANGED <<row, marker, run, executing, releasing>>

(* A holder UUID is drawn per claim; it fences the settlements of its runs. *)
ClaimWithSharedHolder(w, h) ==
    /\ pass[w].at = "claim"
    /\ LET got == pass[w].rows \cap Claimable
       IN  /\ ClaimRows(pass[w].rows, h)
           /\ pass' = [pass EXCEPT ![w] = [at |-> "claimed", rows |-> got]]
           /\ run' = [run EXCEPT ![w] = [j \in Jobs |->
                  IF j \in got
                  THEN [at |-> "claimed", holder |-> h, attempts |-> row[j].attempts,
                        abandoned |-> FALSE, marked |-> Key(j) \in marker]
                  ELSE @[j]]]
    /\ UNCHANGED <<marker, mode, executing, releasing, spent>>

Claim(w, h) ==
    /\ pass[w].at = "claim" /\ Fresh(h)
    /\ LET got == pass[w].rows \cap Claimable
       IN  /\ ClaimRows(pass[w].rows, h)
           /\ pass' = [pass EXCEPT ![w] = [at |-> "claimed", rows |-> got]]
           /\ run' = [run EXCEPT ![w] = [j \in Jobs |->
                  IF j \in got
                  THEN [at |-> "claimed", holder |-> h, attempts |-> row[j].attempts,
                        abandoned |-> FALSE, marked |-> Key(j) \in marker]
                  ELSE @[j]]]
    /\ UNCHANGED <<marker, mode, executing, releasing, spent>>

(* The claim's promise rejects; its UPDATE may have committed all the same. *)
ClaimFails(w, h) ==
    /\ pass[w].at = "claim" /\ Fresh(h)
    /\ Spend("fault") /\ PassRejects(w)
    /\ UNCHANGED row \/ ClaimRows(pass[w].rows, h)
    /\ UNCHANGED <<marker, run, executing, releasing>>

ClaimReturns(w) ==
    /\ pass[w].at = "claimed"
    /\ LET rows == pass[w].rows
       IN  IF mode[w] # "open"
           THEN /\ releasing' = [releasing EXCEPT ![w] =
                                     @ \cup {<<j, run[w][j].holder>> : j \in rows}]
                /\ run' = [run EXCEPT ![w] = [j \in Jobs |->
                       IF j \in rows THEN NoRun ELSE @[j]]]
                /\ pass' = [pass EXCEPT ![w] = [at |-> "requeue", rows |-> rows]]
           ELSE /\ run' = [run EXCEPT ![w] = [j \in Jobs |->
                       IF j \in rows THEN [@[j] EXCEPT !.at = "lock"] ELSE @[j]]]
                /\ pass' = [pass EXCEPT ![w] = [at |-> "work", rows |-> rows]]
                /\ UNCHANGED releasing
    /\ UNCHANGED <<row, marker, mode, executing, spent>>

EndPass(w) ==
    /\ \/ pass[w].at = "work" /\ \A j \in pass[w].rows : run[w][j].at = "off"
       \/ pass[w].at = "requeue" /\ \A p \in releasing[w] : p[1] \notin pass[w].rows
    /\ pass' = [pass EXCEPT ![w] = NoPass]
    /\ UNCHANGED <<row, marker, mode, run, executing, releasing, spent>>

-----------------------------------------------------------------------------
(* A run: #process.                                                        *)

(* The key lock is held while the marker is read, and while a skipped job   *)
(* is settled.  #process returns #runHandler's promise without awaiting it, *)
(* so its finally block gives the lock back before the handler starts.      *)
HoldsKey(w, j) == run[w][j].at \in {"check", "skip"}

LockKey(w, j) ==
    /\ run[w][j].at = "lock"
    /\ \A i \in Jobs : Key(i) = Key(j) => ~HoldsKey(w, i)
    /\ run' = [run EXCEPT ![w][j] = IF @.abandoned THEN NoRun ELSE [@ EXCEPT !.at = "check"]]
    /\ UNCHANGED <<row, marker, mode, pass, executing, releasing, spent>>

AfterCheckUnmarked(w, j) ==
    IF j \in Unparsable THEN "dead"
    ELSE IF Name[j] \notin Handles[w] THEN AfterFailure(run[w][j])
    ELSE IF j \in Rejected THEN "dead" ELSE "ready"

AfterCheck(w, j) ==
    IF Key(j) \in marker THEN "skip"
    ELSE IF j \in Unparsable THEN "dead"
    ELSE IF Name[j] \notin Handles[w] THEN AfterFailure(run[w][j])
    ELSE IF j \in Rejected THEN "dead" ELSE "ready"

CheckReturns(w, j) ==
    /\ run[w][j].at = "check"
    /\ run' = [run EXCEPT ![w][j] =
                  IF @.abandoned THEN NoRun ELSE [@ EXCEPT !.at = AfterCheck(w, j)]]
    /\ UNCHANGED <<row, marker, mode, pass, executing, releasing, spent>>

CheckFails(w, j) ==
    /\ run[w][j].at = "check"
    /\ Spend("fault") /\ RunRejects(w, j)
    /\ UNCHANGED <<row, marker, executing, releasing>>

-----------------------------------------------------------------------------
(* A run: #runHandler.                                                     *)

StartHandlerAbandonedToo(w, j) ==
    /\ run[w][j].at = "ready"
    /\ run' = [run EXCEPT ![w][j].at = "handle"]
    /\ executing' = [executing EXCEPT ![w] = @ \cup {<<j, run[w][j].holder>>}]
    /\ UNCHANGED <<row, marker, mode, pass, releasing, spent>>

StartHandler(w, j) ==
    /\ run[w][j].at = "ready"
    /\ IF run[w][j].abandoned
       THEN run' = [run EXCEPT ![w][j] = NoRun] /\ UNCHANGED executing
       ELSE /\ run' = [run EXCEPT ![w][j].at = "handle"]
            /\ executing' = [executing EXCEPT ![w] = @ \cup {<<j, run[w][j].holder>>}]
    /\ UNCHANGED <<row, marker, mode, pass, releasing, spent>>

(* A handler call returns, resolved or rejected, perhaps having committed   *)
(* the marker together with its effect in a transaction of its own.  Only   *)
(* the run that still waits for it in the race with the timer acts on it.   *)
HandlerReturns(w, j, h, resolved, committed) ==
    /\ <<j, h>> \in executing[w]
    /\ executing' = [executing EXCEPT ![w] = @ \ {<<j, h>>}]
    /\ committed => Key(j) \notin marker /\ resolved
    /\ marker' = IF committed THEN marker \cup {Key(j)} ELSE marker
    /\ LET r == run[w][j]
       IN  CASE r.holder # h       -> UNCHANGED run
             [] r.holder = h /\ r.at = "linger" -> run' = [run EXCEPT ![w][j] = NoRun]
             [] r.holder = h /\ r.at = "handle" ->
                  run' = [run EXCEPT ![w][j] =
                             IF r.abandoned THEN NoRun
                             ELSE [r EXCEPT !.at = IF resolved THEN "done" ELSE AfterFailure(r)]]
             [] OTHER -> UNCHANGED run
    /\ UNCHANGED <<row, mode, pass, releasing, spent>>

TimeoutFires(w, j) ==
    /\ run[w][j].at = "handle"
    /\ run' = [run EXCEPT ![w][j].at =
                  IF run[w][j].abandoned THEN "linger" ELSE AfterFailure(run[w][j])]
    /\ UNCHANGED <<row, marker, mode, pass, executing, releasing, spent>>

-----------------------------------------------------------------------------
(* Settlements.                                                            *)

Settling(w, j) == run[w][j].at \in {"skip", "done", "retry", "dead"}

SettlementKind(w, j) == IF run[w][j].at = "skip" THEN "done" ELSE run[w][j].at

SettleRow(w, j) ==
    Settle(j, run[w][j].holder, SettlementKind(w, j), run[w][j].attempts + 1)

AfterSettleIgnoringResult(w, j, settled) ==
    IF run[w][j].at = "dead" THEN [run[w][j] EXCEPT !.at = "notify"] ELSE Finished(w, j)

AfterSettle(w, j, settled) ==
    IF run[w][j].at = "dead" /\ settled
    THEN [run[w][j] EXCEPT !.at = "notify"]
    ELSE Finished(w, j)

SettleReturns(w, j) ==
    /\ Settling(w, j)
    /\ SettleRow(w, j)
    /\ run' = [run EXCEPT ![w][j] = AfterSettle(w, j, Fenced(j, run[w][j].holder))]
    /\ UNCHANGED <<mode, pass, executing, releasing, spent>>

(* The settlement's promise rejects; its transaction may have committed.    *)
SettleFails(w, j) ==
    /\ Settling(w, j)
    /\ Spend("fault") /\ RunRejects(w, j)
    /\ UNCHANGED storeVars \/ SettleRow(w, j)
    /\ UNCHANGED <<executing, releasing>>

OnDeadReturns(w, j) ==
    /\ run[w][j].at = "notify"
    /\ run' = [run EXCEPT ![w][j] = Finished(w, j)]
    /\ UNCHANGED <<row, marker, mode, pass, executing, releasing, spent>>

OnDeadFails(w, j) ==
    /\ run[w][j].at = "notify"
    /\ Spend("fault") /\ RunRejects(w, j)
    /\ UNCHANGED <<row, marker, executing, releasing>>

(* A release request runs in the store, or is lost with an ignored error.   *)
ReleaseReturns(w, j, h) ==
    /\ <<j, h>> \in releasing[w]
    /\ releasing' = [releasing EXCEPT ![w] = @ \ {<<j, h>>}]
    /\ Settle(j, h, "release", 0)
    /\ UNCHANGED <<mode, pass, run, executing, spent>>

ReleaseFails(w, j, h) ==
    /\ <<j, h>> \in releasing[w]
    /\ Spend("fault")
    /\ releasing' = [releasing EXCEPT ![w] = @ \ {<<j, h>>}]
    /\ UNCHANGED <<row, marker, mode, pass, run, executing>>

-----------------------------------------------------------------------------
(* onShutdown and the process itself.                                      *)

Shutdown(w) ==
    /\ mode[w] \in {"open", "halted"} /\ Spend("shutdown")
    /\ mode' = [mode EXCEPT ![w] = "draining"]
    /\ UNCHANGED <<row, marker, pass, run, executing, releasing>>

(* Everything #drain waits for has settled within the grace. *)
DrainSettles(w) ==
    /\ mode[w] = "draining" /\ pass[w].at = "none" /\ Active(w) = {}
    /\ mode' = [mode EXCEPT ![w] = "resolved"]
    /\ UNCHANGED <<row, marker, pass, run, executing, releasing, spent>>

GraceElapsesWithoutRelease(w) ==
    /\ mode[w] = "draining"
    /\ mode' = [mode EXCEPT ![w] = "resolved"]
    /\ run' = [run EXCEPT ![w] = [j \in Jobs |->
                  IF j \in Active(w) THEN [@[j] EXCEPT !.abandoned = TRUE] ELSE @[j]]]
    /\ UNCHANGED <<row, marker, pass, executing, releasing, spent>>

GraceElapsesWhenIdle(w) ==
    /\ mode[w] = "draining" /\ Active(w) = {}
    /\ mode' = [mode EXCEPT ![w] = "resolved"]
    /\ UNCHANGED <<row, marker, pass, run, executing, releasing, spent>>

(* The grace runs out: every active run is abandoned, and a release is sent *)
(* for each that onShutdown does not wait for.                              *)
GraceElapses(w) ==
    /\ mode[w] = "draining"
    /\ mode' = [mode EXCEPT ![w] = "resolved"]
    /\ run' = [run EXCEPT ![w] = [j \in Jobs |->
                  IF j \in Active(w) THEN [@[j] EXCEPT !.abandoned = TRUE] ELSE @[j]]]
    /\ releasing' = [releasing EXCEPT ![w] =
                        @ \cup {<<j, run[w][j].holder>> : j \in Active(w)}]
    /\ UNCHANGED <<row, marker, pass, executing, spent>>

(* The process goes away: a crash, or the exit that ends a shutdown.        *)
GoesDown(w) ==
    /\ mode' = [mode EXCEPT ![w] = "down"]
    /\ pass' = [pass EXCEPT ![w] = NoPass]
    /\ run' = [run EXCEPT ![w] = [j \in Jobs |-> NoRun]]
    /\ executing' = [executing EXCEPT ![w] = {}]
    /\ releasing' = [releasing EXCEPT ![w] = {}]
    /\ UNCHANGED storeVars

Crash(w) == Up(w) /\ Spend("crash") /\ GoesDown(w)

Exit(w) == mode[w] = "resolved" /\ GoesDown(w) /\ UNCHANGED spent

Restart(w) ==
    /\ mode[w] = "down"
    /\ mode' = [mode EXCEPT ![w] = "open"]
    /\ UNCHANGED <<row, marker, pass, run, executing, releasing, spent>>

-----------------------------------------------------------------------------
(* What happens to the table from outside the workers.                     *)

EnqueueJob(j) ==
    /\ \E delayed \in BOOLEAN : Enqueue(j, delayed)
    /\ UNCHANGED <<workerVars, spent>>

ReplayJob(j) == Replay(j) /\ Spend("replay") /\ UNCHANGED workerVars

(* A lease nobody's run holds expires in time; one that a run still holds   *)
(* does so only when the work takes longer than leaseMs, or clocks differ.  *)
LeaseExpires(j) ==
    /\ ~HeldByRun(j)
    /\ LeaseUntilPasses(j)
    /\ UNCHANGED <<workerVars, spent>>

LeaseExpiresUnderRun(j) ==
    /\ HeldByRun(j)
    /\ LeaseUntilPasses(j)
    /\ Spend("early")
    /\ UNCHANGED workerVars

-----------------------------------------------------------------------------
PassStep(w) ==
    \/ Scan(w) \/ ClaimReturns(w) \/ EndPass(w)
    \/ \E h \in Holders : Claim(w, h)

HandlerStep(w, j) ==
    \E h \in Holders, resolved, committed \in BOOLEAN :
        HandlerReturns(w, j, h, resolved, committed)

RunStep(w, j) ==
    \/ LockKey(w, j) \/ CheckReturns(w, j) \/ StartHandler(w, j)
    \/ SettleReturns(w, j) \/ OnDeadReturns(w, j)

ReleaseStep(w, j) == \E h \in Holders : ReleaseReturns(w, j, h)

Fault(w) ==
    \/ ScanFails(w)
    \/ \E h \in Holders : ClaimFails(w, h)
    \/ \E j \in Jobs : \/ CheckFails(w, j) \/ SettleFails(w, j) \/ OnDeadFails(w, j)
                       \/ \E h \in Holders : ReleaseFails(w, j, h)

Next ==
    \/ \E w \in Workers :
          \/ PassStep(w) \/ Fault(w)
          \/ Shutdown(w) \/ DrainSettles(w) \/ GraceElapses(w)
          \/ Crash(w) \/ Exit(w) \/ Restart(w)
          \/ \E j \in Jobs : \/ RunStep(w, j) \/ TimeoutFires(w, j)
                             \/ HandlerStep(w, j) \/ ReleaseStep(w, j)
    \/ \E j \in Jobs : EnqueueJob(j) \/ ReplayJob(j) \/ LeaseExpires(j) \/ LeaseExpiresUnderRun(j)

Spec == Init /\ [][Next]_vars
=============================================================================
