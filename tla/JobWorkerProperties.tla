------------------------ MODULE JobWorkerProperties ------------------------
(***************************************************************************)
(* What the job queue promises, stated over JobWorker.                     *)
(***************************************************************************)
EXTENDS JobWorker

(* A job in status done has its completion marker: the done settlement      *)
(* writes both in one transaction, so the pre-check of any later run of the *)
(* same key finds it.                                                      *)
DoneIsMarked == \A j \in Jobs : row[j].status = "done" => Key(j) \in marker

(* However leases expire and workers crash or drain, at most one worker can *)
(* settle or release a row at any moment: the holder a row names is known   *)
(* to the runs and release requests of one worker only.                     *)
Settlers(j) == {w \in Workers :
    /\ row[j].owner # NoHolder
    /\ \/ run[w][j].at # "off" /\ run[w][j].holder = row[j].owner
       \/ <<j, row[j].owner>> \in releasing[w]}

OneSettler == \A j \in Jobs : Cardinality(Settlers(j)) <= 1

(* The attempt count a run read when it claimed is still the row's count    *)
(* while it may settle, so writing `snapshot + 1' never loses or repeats an *)
(* attempt (queues/SPEC.md section 2.5 relates the two counts).             *)
SnapshotIsCurrent ==
    \A w \in Workers, j \in Jobs :
        run[w][j].at # "off" /\ Fenced(j, run[w][j].holder)
            => run[w][j].attempts = row[j].attempts

(* A job that is still to be run has attempts left: the failure that uses   *)
(* the last one makes the row dead, whichever worker recorded the others.   *)
AttemptsLeftWhilePending ==
    \A j \in Jobs : row[j].status = "pending" => row[j].attempts < MaxAttempts

(* The slot stays occupied until a timed-out handler returns (SPEC section  *)
(* 8), so a worker never has more handler calls in progress than its        *)
(* concurrency.                                                            *)
SlotsBoundHandlers == \A w \in Workers : Cardinality(executing[w]) <= Concurrency

(* ... nor more calls of one capped name than the handler's cap.            *)
CapsBoundHandlers ==
    \A w \in Workers, n \in Names :
        Cap[n] > 0 => Cardinality({p \in executing[w] : Name[p[1]] = n}) <= Cap[n]

(* A row leaves its holder only by that holder's own settlement or release, *)
(* or by a claim made after its lease had run out.                          *)
OwnerLosesRowOnlyByItselfOrExpiry ==
    [][\A j \in Jobs :
         row[j].owner # NoHolder /\ row'[j].owner # row[j].owner =>
            \/ ~row[j].hidden /\ row'[j].status = "pending" /\ row'[j].owner # NoHolder
            \/ \E w \in Workers :
                  \/ Settling(w, j) /\ run[w][j].holder = row[j].owner
                  \/ <<j, row[j].owner>> \in releasing[w]]_vars

(* A job that is done stays done, with the attempts it was done with; only  *)
(* a dead job comes back.                                                   *)
DoneIsFinal ==
    [][\A j \in Jobs : row[j].status = "done" => row'[j] = row[j]]_vars

Starts(w, j) == \E h \in Holders : <<j, h>> \in executing'[w] \ executing[w]

(* A handler is never invoked for a job whose marker was committed before   *)
(* the job was claimed: replay of completed work is a no-op (SPEC section 6)*)
(* and so is the retry of a handler that outlived its timeout (section 8).  *)
MarkedWorkIsNotRepeated ==
    [][\A w \in Workers, j \in Jobs : Starts(w, j) => ~run[w][j].marked]_vars

(* After onShutdown has resolved, the worker starts no handler, whatever    *)
(* claim or marker read was still in flight when the grace ran out.         *)
NoStartAfterShutdown ==
    [][\A w \in Workers, j \in Jobs : Starts(w, j) => mode[w] # "resolved"]_vars

(* When onShutdown resolves, every row a run of the worker still holds has   *)
(* its release on the way (SPEC section 9, phase 4), and its attempts are   *)
(* those it was claimed with.  A release lost in the store leaves the row   *)
(* to its lease.                                                           *)
ShutdownGivesRowsBack ==
    \A w \in Workers : \A j \in Active(w) :
        mode[w] = "resolved" /\ Fenced(j, run[w][j].holder)
            => <<j, row[j].owner>> \in releasing[w]

(* onDead is called only by the run whose settlement made the row dead, and *)
(* so once per death even when several workers held the row in turn.        *)
OnDeadIsEarned ==
    [][\A w \in Workers, j \in Jobs :
         run[w][j].at # "notify" /\ run'[w][j].at = "notify" =>
            row[j].status = "pending" /\ row'[j].status = "dead"]_vars

(* The comment on #claim: a capped handler does not hide other names behind *)
(* its queued candidates.  A scan that leaves a slot free leaves no         *)
(* claimable job of an uncapped name behind.                                *)
CappedNamesHideNoOther ==
    [][\A w \in Workers :
         pass[w].at = "none" /\ pass'[w].at = "claim"
            /\ Cardinality(pass'[w].rows) < PassLimit(w)
         => \A j \in Claimable \ Active(w) : Cap[Name[j]] = 0 => j \in pass'[w].rows]_vars

-----------------------------------------------------------------------------
(* Refinement: forgetting workers, holders and leases leaves the life of    *)
(* each job as its callers know it.  Every recorded attempt counts exactly  *)
(* once although workers write `snapshot + 1' rather than increment, and a  *)
(* job is buried early only for its payload.                               *)
Lifecycle == INSTANCE JobLifecycle WITH
    Jobs <- Jobs,
    KeyOf <- [j \in Jobs |-> Key(j)],
    Refused <- Unparsable \cup Rejected,
    Limit <- MaxAttempts,
    life <- [j \in Jobs |-> row[j].status],
    tries <- [j \in Jobs |-> row[j].attempts],
    finished <- marker

ImplementsLifecycle == Lifecycle!Spec

-----------------------------------------------------------------------------
(* Liveness.  The event loop takes every step that is ready, the store      *)
(* answers, handlers return, clocks reach the leases, and a process that    *)
(* went down is started again.  Timeouts, faults, crashes, shutdowns and    *)
(* replays are disturbances and are not fair.                               *)
Fairness ==
    /\ \A w \in Workers :
          /\ WF_vars(PassStep(w)) /\ WF_vars(DrainSettles(w) \/ GraceElapses(w))
          /\ WF_vars(Exit(w)) /\ WF_vars(Restart(w))
          /\ \A j \in Jobs : WF_vars(RunStep(w, j)) /\ WF_vars(HandlerStep(w, j))
                             /\ WF_vars(ReleaseStep(w, j))
    /\ \A j \in Jobs : WF_vars(LeaseExpires(j))

FairSpec == Spec /\ Fairness

(* At-least-once: a job that was enqueued, or replayed, is eventually done  *)
(* or dead, whichever workers crash, drain or lose their lease meanwhile.   *)
EveryJobSettles ==
    \A j \in Jobs : row[j].status = "pending" ~> row[j].status \in {"done", "dead"}

(* onShutdown resolves even if handlers and store calls never return: no    *)
(* fairness but that of the grace timer and of the promises it races with.  *)
DrainSpec == Spec /\ \A w \in Workers : WF_vars(DrainSettles(w) \/ GraceElapses(w))

ShutdownResolves ==
    \A w \in Workers : mode[w] = "draining" ~> mode[w] \in {"resolved", "down"}
=============================================================================
