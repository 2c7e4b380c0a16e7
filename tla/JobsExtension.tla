--------------------------- MODULE JobsExtension ---------------------------
(***************************************************************************)
(* An application whose extension Jobs is a jobsExtension                  *)
(* (packages/jobs/src/extension.ts): its workers, schedulers and stores    *)
(* are stopped one after the other, each raced with one deadline, unless   *)
(* the extension refuses the grace it is handed.  What the shutdowns do is *)
(* in JobWorker and LeaseScheduler; here each resolves, rejects, or is     *)
(* still pending when the deadline passes.                                 *)
(***************************************************************************)
EXTENDS Application

CONSTANTS
    Jobs,                        \* which extension it is
    Workers, Schedulers, Stores, \* sequences of participants
    Graces,                      \* what may be left of the grace at a stop
    MaxDelay                     \* the longest delay of a timer, 2^31 - 1 ms

Participants == Workers \o Schedulers \o Stores

ASSUME JobsAssumption ==
    /\ Jobs \in 1 .. Extensions
    /\ \A s \in {Workers, Schedulers, Stores} : s \in Seq(ToSet(s))
    /\ IsInjective(Participants)
    /\ Graces \subseteq Nat /\ MaxDelay \in Nat

VARIABLES
    jobs, \* [started, entered, stop, failed]: how many participants were
          \* started, which stop is awaited (0: none was asked), whether one
          \* failed or the grace was refused
    part, \* part[p]: idle, up, asked to stop, down, or down with a rejection
    late  \* the deadline of the application's grace has passed

jobsVars == <<jobs, part>>
vars == <<appVars, jobsVars, late>>

JobsTypeOK ==
    /\ TypeOK
    /\ jobs \in [started : BOOLEAN, entered : Nat, stop : Nat, failed : BOOLEAN]
    /\ part \in [ToSet(Participants) -> {"idle", "up", "asked", "down", "broken"}]
    /\ late \in BOOLEAN

JobsInit ==
    /\ Init
    /\ jobs = [started |-> FALSE, entered |-> 0, stop |-> 0, failed |-> FALSE]
    /\ part = [p \in ToSet(Participants) |-> IF p \in ToSet(Stores) THEN "up" ELSE "idle"]
    /\ late = FALSE

-----------------------------------------------------------------------------
(* startAll of the workers, then of the schedulers: the n-th may throw.    *)
Starters == Workers \o Schedulers

StartAll(n) ==
    /\ ~jobs.started
    /\ jobs' = [jobs EXCEPT !.started = TRUE, !.entered = n]
    /\ part' = [p \in DOMAIN part |->
                   IF \E i \in 1 .. n : Starters[i] = p THEN "up" ELSE part[p]]

JobsStart ==
    \/ StartResolves(Jobs) /\ StartAll(Len(Starters)) /\ UNCHANGED late
    \/ \E n \in DOMAIN Starters : StartRejects(Jobs) /\ StartAll(n) /\ UNCHANGED late

-----------------------------------------------------------------------------
(* stopAll.                                                                *)

(* Mutant: the workers are stopped before the schedulers.                  *)
StopsInStartOrder == SubSeq(Starters, 1, jobs.entered) \o Reverse(Stores)

Stops == Reverse(SubSeq(Starters, 1, jobs.entered)) \o Reverse(Stores)

Ask(i) == IF i \in DOMAIN Stops THEN part' = [part EXCEPT ![Stops[i]] = "asked"]
          ELSE UNCHANGED part

(* What stopEntered hands on: none once its deadline has passed.           *)
Remaining == IF late THEN {0} ELSE Graces

StopAll ==
    /\ main = [at |-> "stop", i |-> Jobs] /\ jobs.stop = 0
    /\ \E graceMs \in Remaining : graceMs <= MaxDelay
    /\ jobs' = [jobs EXCEPT !.stop = 1]
    /\ Ask(1)
    /\ UNCHANGED <<appVars, late>>

(* A grace that no timer can wait for: the stop rejects at once, and no    *)
(* participant is asked to stop.                                           *)
StopRefused ==
    /\ jobs.stop = 0
    /\ \E graceMs \in Remaining : graceMs > MaxDelay
    /\ StopSettles(Jobs)
    /\ jobs' = [jobs EXCEPT !.failed = TRUE]
    /\ UNCHANGED <<part, late>>

(* The shutdown of a participant settles, be it awaited still or not.      *)
Down(p) ==
    /\ part[p] = "asked"
    /\ \E outcome \in {"down", "broken"} : part' = [part EXCEPT ![p] = outcome]
    /\ UNCHANGED <<appVars, jobs, late>>

StopReturns ==
    /\ jobs.stop \in DOMAIN Stops /\ part[Stops[jobs.stop]] \in {"down", "broken"}
    /\ jobs' = [jobs EXCEPT !.failed = @ \/ part[Stops[jobs.stop]] = "broken",
                            !.stop = @ + 1]
    /\ Ask(jobs.stop + 1)
    /\ UNCHANGED <<appVars, late>>

(* Mutant: the shutdown is awaited without the race.                       *)
StopAwaited == FALSE /\ UNCHANGED vars

StopTimesOut ==
    /\ late /\ jobs.stop \in DOMAIN Stops /\ part[Stops[jobs.stop]] = "asked"
    /\ jobs' = [jobs EXCEPT !.failed = TRUE, !.stop = @ + 1]
    /\ Ask(jobs.stop + 1)
    /\ UNCHANGED <<appVars, late>>

JobsStopped ==
    /\ jobs.stop = Len(Stops) + 1
    /\ StopSettles(Jobs)
    /\ UNCHANGED <<jobsVars, late>>

-----------------------------------------------------------------------------
GraceElapses ==
    /\ main.at = "stop" /\ ~late
    /\ late' = TRUE
    /\ UNCHANGED <<appVars, jobsVars>>

JobsStep == JobsStart \/ StopAll \/ StopRefused \/ StopReturns \/ StopTimesOut \/ JobsStopped

AppStep(A) == A /\ UNCHANGED <<jobsVars, late>>

JobsNext ==
    \/ AppStep(Call) \/ AppStep(OwnStep)
    \/ \E h \in Handles : AppStep(LoadStep(h))
    \/ \E k \in (1 .. Extensions) \ {Jobs} : AppStep(ExtensionAnswers(k))
    \/ JobsStep \/ GraceElapses
    \/ \E p \in ToSet(Participants) : Down(p)

JobsSpec == JobsInit /\ [][JobsNext]_vars
=============================================================================
