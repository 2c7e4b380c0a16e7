--------------------------- MODULE LeaseScheduler ---------------------------
(***************************************************************************)
(* Schedulers of packages/jobs/src/schedule (class AppScheduler), each in  *)
(* a process of its own, coordinating their once-per-cluster tasks through *)
(* a LeaseStore.  One action per step between two awaits; the microtasks   *)
(* between a resolved promise and its continuation belong to the step.     *)
(*                                                                         *)
(* A run is the RuntimeTask.running of one task, with its lease session:   *)
(*   idle      no run                                                      *)
(*   acquire   store.acquire was sent                                      *)
(*   acquired  the store granted it, the answer is on its way              *)
(*   undo      granted after the session was released; the session's own   *)
(*             store.release is in flight                                  *)
(*   body      the task's method runs                                      *)
(*   end       the method settled, session.release() is in progress        *)
(* The session of a run (lease.ts):                                        *)
(*   held, and renewal: "off", "sleep" between renewals, "ask" while       *)
(*   store.renew is in flight; giving: session.release() was not called    *)
(*   ("no"), awaits the renewal ("wait"), awaits the store ("sent") or is  *)
(*   over ("done"); by: which of #finishRun and #stop called it first.     *)
(*                                                                         *)
(* When the clock says so a scheduler ticks its next instant; ScheduleTick *)
(* models which instants those are.                                        *)
(***************************************************************************)
EXTENDS LeaseStore

CONSTANTS
    Clustered, \* the tasks declared once-per-cluster
    Last,      \* each task has the instants 1 .. Last
    Bound      \* how often each disturbance may happen

(* fault: a store call rejects.  crash: a process dies.  early: a lease     *)
(* expires although its holder renews (the process or the store stalls).   *)
(* late: a request whose caller saw a rejection, or died, is executed only *)
(* after that caller's next run began (jobs-postgres rejects on its        *)
(* deadline while the SQL goes on).  shutdown: onShutdown is called.       *)
Disturbances == {"fault", "crash", "early", "late", "shutdown"}

ASSUME SchedulerAssumption ==
    /\ Clustered \subseteq Tasks
    /\ Last \in Nat
    /\ Bound \in [Disturbances -> Nat]

VARIABLES
    run,      \* run[s][t]: the run in progress and its session
    next,     \* next[s][t]: the instant nextAt stands for
    disabled, \* disabled[s][t]: RuntimeTask.disabled
    mode,     \* mode[s]: #stopped and the progress of #stop
    left,     \* left[s]: the runs #stop has still to abort and release
    stray,    \* stray[s][t]: requests without a caller that may still execute
    fires,    \* history: the schedulers that ran the body for an instant
    spent     \* how many disturbances of each kind have happened

vars == <<lease, run, next, disabled, mode, left, stray, fires, spent>>

Instants == 1 .. Last

Run == [at : {"idle", "acquire", "acquired", "undo", "body", "end"},
        instant : 0 .. Last,
        aborted : BOOLEAN,
        held : BOOLEAN,
        renewal : {"off", "sleep", "ask"},
        giving : {"no", "wait", "sent", "done"},
        by : {"nobody", "run", "stop"}]

NoRun == [at |-> "idle", instant |-> 0, aborted |-> FALSE, held |-> FALSE,
          renewal |-> "off", giving |-> "no", by |-> "nobody"]

Modes == {"open", "draining", "releasing", "resolved", "down"}

TypeOK ==
    /\ lease \in [Tasks -> Lease]
    /\ run \in [Schedulers -> [Tasks -> Run]]
    /\ next \in [Schedulers -> [Tasks -> 1 .. Last + 1]]
    /\ disabled \in [Schedulers -> [Tasks -> BOOLEAN]]
    /\ mode \in [Schedulers -> Modes]
    /\ left \in [Schedulers -> SUBSET Tasks]
    /\ stray \in [Schedulers -> [Tasks -> SUBSET {"acquire", "release"}]]
    /\ fires \in [Tasks -> [Instants -> SUBSET Schedulers]]
    /\ spent \in [Disturbances -> Nat]

Init ==
    /\ LeaseInit
    /\ run = [s \in Schedulers |-> [t \in Tasks |-> NoRun]]
    /\ next = [s \in Schedulers |-> [t \in Tasks |-> 1]]
    /\ disabled = [s \in Schedulers |-> [t \in Tasks |-> FALSE]]
    /\ mode = [s \in Schedulers |-> "open"]
    /\ left = [s \in Schedulers |-> {}]
    /\ stray = [s \in Schedulers |-> [t \in Tasks |-> {}]]
    /\ fires = [t \in Tasks |-> [i \in Instants |-> {}]]
    /\ spent = [d \in Disturbances |-> 0]

-----------------------------------------------------------------------------
(* Helpers.                                                                *)

Spend(d) == spent[d] < Bound[d] /\ spent' = [spent EXCEPT ![d] = @ + 1]

Up(s) == mode[s] # "down"

Set(s, t, r) == run' = [run EXCEPT ![s][t] = r]

(* Once the renewal is over, release() sends the store.release of a session *)
(* that is still held, and is done when it is not.                         *)
AfterRenewal(r) ==
    IF r.held THEN [r EXCEPT !.held = FALSE, !.giving = "sent"]
    ELSE [r EXCEPT !.giving = "done"]

(* session.release(): the first call stops the renewal, waiting for one in  *)
(* flight; any other returns at once.                                      *)
Release(r, who) ==
    CASE r.giving # "no" -> r
      [] r.giving = "no" /\ r.renewal = "ask" ->
            [r EXCEPT !.giving = "wait", !.by = who]
      [] OTHER -> AfterRenewal([r EXCEPT !.renewal = "off", !.by = who])

(* #finishRun goes on when its own release() is done, or was not the first: *)
(* task.running is cleared.                                                *)
Ended(r) ==
    IF r.at = "end" /\ (r.giving = "done" \/ r.by = "stop")
    THEN [r EXCEPT !.at = "idle"] ELSE r

(* A failing renewal aborts session and run, and disables the task.        *)
Lost(r) ==
    LET off == [r EXCEPT !.held = FALSE, !.renewal = "off", !.aborted = TRUE]
    IN IF r.giving = "wait" THEN Ended(AfterRenewal(off)) ELSE off

(* The scheduler is renewing, or is about to be told that it holds it.     *)
Engaged(s, t) == run[s][t].renewal # "off" \/ run[s][t].at = "acquired"

(* The run #stop is awaiting the release of.                               *)
Awaited(s, t) == run[s][t].by = "stop" /\ run[s][t].giving \in {"wait", "sent"}

-----------------------------------------------------------------------------
(* Ticks.                                                                  *)

(* #tickTask at the task's next instant, while no run is in progress:       *)
(* #launch sends store.acquire for a cluster task and invokes any other.   *)
Launch(s, t) ==
    /\ mode[s] = "open" /\ ~disabled[s][t]
    /\ next[s][t] \in Instants
    /\ run[s][t].at = "idle"
    /\ next' = [next EXCEPT ![s][t] = @ + 1]
    /\ IF t \in Clustered
       THEN /\ Set(s, t, [NoRun EXCEPT !.at = "acquire", !.instant = next[s][t]])
            /\ UNCHANGED fires
       ELSE /\ Set(s, t, [NoRun EXCEPT !.at = "body", !.instant = next[s][t]])
            /\ fires' = [fires EXCEPT ![t][next[s][t]] = @ \cup {s}]
    /\ UNCHANGED <<lease, disabled, mode, left, stray, spent>>

(* #tickTask, reported to onSkipped: 'still-running' while a run is in      *)
(* progress, and 'missed' when the tick comes after the instant.           *)
Skip(s, t) ==
    /\ mode[s] = "open" /\ ~disabled[s][t]
    /\ next[s][t] \in Instants
    /\ next' = [next EXCEPT ![s][t] = @ + 1]
    /\ UNCHANGED <<lease, run, disabled, mode, left, stray, fires, spent>>

-----------------------------------------------------------------------------
(* Acquisition.                                                            *)

AcquireGranted(s, t) ==
    /\ Up(s) /\ run[s][t].at = "acquire" /\ Obtainable(s, t)
    /\ lease' = Obtained(s, t)
    /\ Set(s, t, [run[s][t] EXCEPT !.at = "acquired"])
    /\ UNCHANGED <<next, disabled, mode, left, stray, fires, spent>>

(* Skipped as 'lease-not-held'; releasing the session that holds nothing    *)
(* sends nothing.                                                          *)
AcquireRefused(s, t) ==
    /\ Up(s) /\ run[s][t].at = "acquire" /\ ~Obtainable(s, t)
    /\ Set(s, t, [Release(run[s][t], "run") EXCEPT !.at = "idle"])
    /\ UNCHANGED <<lease, next, disabled, mode, left, stray, fires, spent>>

(* store.acquire rejects, whether or not it is executed before or after.   *)
AcquireFails(s, t) ==
    /\ Up(s) /\ run[s][t].at \in {"acquire", "acquired"}
    /\ Spend("fault")
    /\ Set(s, t, [Release(run[s][t], "run") EXCEPT !.at = "idle"])
    /\ stray' = [stray EXCEPT ![s][t] =
                    IF run[s][t].at = "acquire" THEN @ \cup {"acquire"} ELSE @]
    /\ UNCHANGED <<lease, next, disabled, mode, left, fires>>

(* Mutants: the method is invoked although the session was released;        *)
(* startRenewing is forgotten; what was granted too late is kept.          *)
AcquireReturnsReleased(s, t) ==
    /\ Up(s) /\ run[s][t].at = "acquired"
    /\ Set(s, t, [run[s][t] EXCEPT !.at = "body"])
    /\ fires' = [fires EXCEPT ![t][run[s][t].instant] = @ \cup {s}]
    /\ UNCHANGED <<lease, next, disabled, mode, left, stray, spent>>

AcquireReturnsUnrenewed(s, t) ==
    /\ Up(s) /\ run[s][t].at = "acquired" /\ run[s][t].giving = "no"
    /\ Set(s, t, [run[s][t] EXCEPT !.at = "body", !.held = TRUE])
    /\ fires' = [fires EXCEPT ![t][run[s][t].instant] = @ \cup {s}]
    /\ UNCHANGED <<lease, next, disabled, mode, left, stray, spent>>

AcquireReturnsKept(s, t) ==
    /\ Up(s) /\ run[s][t].at = "acquired"
    /\ IF run[s][t].giving = "no"
       THEN /\ Set(s, t, [run[s][t] EXCEPT !.at = "body", !.held = TRUE,
                                           !.renewal = "sleep"])
            /\ fires' = [fires EXCEPT ![t][run[s][t].instant] = @ \cup {s}]
       ELSE /\ Set(s, t, [run[s][t] EXCEPT !.at = "idle"])
            /\ UNCHANGED fires
    /\ UNCHANGED <<lease, next, disabled, mode, left, stray, spent>>

(* The grant arrives: renewal starts and the method is invoked, unless the  *)
(* session was released meanwhile, which gives the lease back.             *)
AcquireReturns(s, t) ==
    /\ Up(s) /\ run[s][t].at = "acquired"
    /\ IF run[s][t].giving = "no"
       THEN /\ Set(s, t, [run[s][t] EXCEPT !.at = "body", !.held = TRUE,
                                           !.renewal = "sleep"])
            /\ fires' = [fires EXCEPT ![t][run[s][t].instant] = @ \cup {s}]
       ELSE /\ Set(s, t, [run[s][t] EXCEPT !.at = "undo"])
            /\ UNCHANGED fires
    /\ UNCHANGED <<lease, next, disabled, mode, left, stray, spent>>

(* The session gave back what it was granted too late; a rejection is       *)
(* swallowed, and the request may still execute.                           *)
UndoReturns(s, t) ==
    /\ Up(s) /\ run[s][t].at = "undo"
    /\ Set(s, t, [run[s][t] EXCEPT !.at = "idle"])
    /\ \/ /\ lease' = Deleted(s, t)
          /\ UNCHANGED <<stray, spent>>
       \/ /\ Spend("fault")
          /\ stray' = [stray EXCEPT ![s][t] = @ \cup {"release"}]
          /\ UNCHANGED lease
    /\ UNCHANGED <<next, disabled, mode, left, fires>>

-----------------------------------------------------------------------------
(* Renewal.                                                                *)

RenewSent(s, t) ==
    /\ Up(s) /\ run[s][t].renewal = "sleep"
    /\ Set(s, t, [run[s][t] EXCEPT !.renewal = "ask"])
    /\ UNCHANGED <<lease, next, disabled, mode, left, stray, fires, spent>>

(* A renewal that succeeds goes back to sleep, or is the last one because   *)
(* the session was aborted while it was in flight.                         *)
RenewReturns(s, t) ==
    /\ Up(s) /\ run[s][t].renewal = "ask" /\ Renewable(s, t)
    /\ Set(s, t, IF run[s][t].giving = "wait"
                 THEN AfterRenewal([run[s][t] EXCEPT !.renewal = "off"])
                 ELSE [run[s][t] EXCEPT !.renewal = "sleep"])
    /\ UNCHANGED <<lease, next, disabled, mode, left, stray, fires, spent>>

(* Mutant: a renewal that was refused is tried again later.                *)
RenewRefusedRetried(s, t) ==
    /\ Up(s) /\ run[s][t].renewal = "ask" /\ ~Renewable(s, t)
    /\ Set(s, t, [run[s][t] EXCEPT !.renewal = "sleep"])
    /\ UNCHANGED <<lease, next, disabled, mode, left, stray, fires, spent>>

RenewRefused(s, t) ==
    /\ Up(s) /\ run[s][t].renewal = "ask" /\ ~Renewable(s, t)
    /\ Set(s, t, Lost(run[s][t]))
    /\ disabled' = [disabled EXCEPT ![s][t] = TRUE]
    /\ UNCHANGED <<lease, next, mode, left, stray, fires, spent>>

RenewFails(s, t) ==
    /\ Up(s) /\ run[s][t].renewal = "ask"
    /\ Spend("fault")
    /\ Set(s, t, Lost(run[s][t]))
    /\ disabled' = [disabled EXCEPT ![s][t] = TRUE]
    /\ UNCHANGED <<lease, next, mode, left, stray, fires>>

-----------------------------------------------------------------------------
(* The run's own end.                                                      *)

(* The timeout aborts the signal the method was given, and nothing else.   *)
Timeout(s, t) ==
    /\ Up(s) /\ run[s][t].at = "body"
    /\ Set(s, t, [run[s][t] EXCEPT !.aborted = TRUE])
    /\ UNCHANGED <<lease, next, disabled, mode, left, stray, fires, spent>>

(* The method resolves or rejects: #finishRun releases the session.        *)
BodySettles(s, t) ==
    /\ Up(s) /\ run[s][t].at = "body"
    /\ Set(s, t, Ended(Release([run[s][t] EXCEPT !.at = "end"], "run")))
    /\ UNCHANGED <<lease, next, disabled, mode, left, stray, fires, spent>>

(* Mutant: a rejection is not swallowed, and its caller does not go on.    *)
ReleaseReturnsOrThrows(s, t) ==
    /\ Up(s) /\ run[s][t].giving = "sent"
    /\ \/ /\ lease' = Deleted(s, t)
          /\ Set(s, t, Ended([run[s][t] EXCEPT !.giving = "done"]))
          /\ UNCHANGED spent
       \/ /\ Spend("fault")
          /\ Set(s, t, [run[s][t] EXCEPT !.giving = "wait"])
          /\ UNCHANGED lease
    /\ UNCHANGED <<next, disabled, mode, left, stray, fires>>

(* store.release answers, or rejects, which release() swallows: either way  *)
(* its caller goes on.                                                     *)
ReleaseReturns(s, t) ==
    /\ Up(s) /\ run[s][t].giving = "sent"
    /\ Set(s, t, Ended([run[s][t] EXCEPT !.giving = "done"]))
    /\ \/ /\ lease' = Deleted(s, t)
          /\ UNCHANGED <<stray, spent>>
       \/ /\ Spend("fault")
          /\ stray' = [stray EXCEPT ![s][t] = @ \cup {"release"}]
          /\ UNCHANGED lease
    /\ UNCHANGED <<next, disabled, mode, left, fires>>

-----------------------------------------------------------------------------
(* Shutdown.                                                               *)

(* onShutdown: no tick launches any more, and #stop waits for the runs.    *)
Shutdown(s) ==
    /\ mode[s] = "open"
    /\ Spend("shutdown")
    /\ mode' = [mode EXCEPT ![s] = "draining"]
    /\ UNCHANGED <<lease, run, next, disabled, left, stray, fires>>

DrainSettles(s) ==
    /\ mode[s] = "draining"
    /\ \A t \in Tasks : run[s][t].at = "idle"
    /\ mode' = [mode EXCEPT ![s] = "resolved"]
    /\ UNCHANGED <<lease, run, next, disabled, left, stray, fires, spent>>

GraceElapses(s) ==
    /\ mode[s] = "draining"
    /\ \E t \in Tasks : run[s][t].at # "idle"
    /\ mode' = [mode EXCEPT ![s] = "releasing"]
    /\ left' = [left EXCEPT ![s] = {t \in Tasks : run[s][t].at # "idle"}]
    /\ UNCHANGED <<lease, run, next, disabled, stray, fires, spent>>

(* Mutant: a loop that ends with its first release.                        *)
StopFirstRun(s, t) ==
    /\ mode[s] = "releasing" /\ t \in left[s]
    /\ \A u \in Tasks : ~Awaited(s, u)
    /\ left' = [left EXCEPT ![s] = {}]
    /\ Set(s, t, Release([run[s][t] EXCEPT !.aborted = TRUE], "stop"))
    /\ UNCHANGED <<lease, next, disabled, mode, stray, fires, spent>>

(* The loop after the grace: one run at a time is aborted and its session   *)
(* released; the order is that of the task list, any order here.           *)
StopRun(s, t) ==
    /\ mode[s] = "releasing" /\ t \in left[s]
    /\ \A u \in Tasks : ~Awaited(s, u)
    /\ left' = [left EXCEPT ![s] = @ \ {t}]
    /\ Set(s, t, IF run[s][t].at = "idle" THEN run[s][t]
                 ELSE Release([run[s][t] EXCEPT !.aborted = TRUE], "stop"))
    /\ UNCHANGED <<lease, next, disabled, mode, stray, fires, spent>>

StopReturns(s) ==
    /\ mode[s] = "releasing" /\ left[s] = {}
    /\ \A u \in Tasks : ~Awaited(s, u)
    /\ mode' = [mode EXCEPT ![s] = "resolved"]
    /\ UNCHANGED <<lease, run, next, disabled, left, stray, fires, spent>>

-----------------------------------------------------------------------------
(* The environment.                                                        *)

(* The requests that are in flight when a process dies may still execute.  *)
InFlight(s, t) ==
    (IF run[s][t].at = "acquire" THEN {"acquire"} ELSE {})
        \cup (IF run[s][t].at = "undo" \/ run[s][t].giving = "sent"
              THEN {"release"} ELSE {})

(* The process dies, before or after onShutdown; a successor draws a holder *)
(* of its own and is another member of Schedulers.                         *)
Crash(s) ==
    /\ Up(s)
    /\ Spend("crash")
    /\ mode' = [mode EXCEPT ![s] = "down"]
    /\ run' = [run EXCEPT ![s] = [t \in Tasks |-> NoRun]]
    /\ left' = [left EXCEPT ![s] = {}]
    /\ stray' = [stray EXCEPT ![s] =
                    [t \in Tasks |-> stray[s][t] \cup InFlight(s, t)]]
    /\ UNCHANGED <<lease, next, disabled, fires>>

(* A request without a caller is executed after all.                       *)
StrayExecutes(s, t, request) ==
    /\ request \in stray[s][t]
    /\ stray' = [stray EXCEPT ![s][t] = @ \ {request}]
    /\ IF request = "acquire"
       THEN lease' = IF Obtainable(s, t) THEN Obtained(s, t) ELSE lease
       ELSE lease' = Deleted(s, t)
    /\ IF run[s][t].at = "idle" THEN UNCHANGED spent ELSE Spend("late")
    /\ UNCHANGED <<run, next, disabled, mode, left, fires>>

(* ... or never.                                                           *)
StrayIsLost(s, t, request) ==
    /\ request \in stray[s][t]
    /\ stray' = [stray EXCEPT ![s][t] = @ \ {request}]
    /\ UNCHANGED <<lease, run, next, disabled, mode, left, fires, spent>>

LeaseExpires(t) ==
    /\ Expired(t)
    /\ IF \E s \in Schedulers : lease[t].holder = s /\ Engaged(s, t)
       THEN Spend("early") ELSE UNCHANGED spent
    /\ UNCHANGED <<run, next, disabled, mode, left, stray, fires>>

-----------------------------------------------------------------------------
StoreAnswers(s, t) ==
    \/ AcquireGranted(s, t) \/ AcquireRefused(s, t) \/ AcquireFails(s, t)
    \/ AcquireReturns(s, t) \/ UndoReturns(s, t)
    \/ RenewReturns(s, t) \/ RenewRefused(s, t) \/ RenewFails(s, t)
    \/ ReleaseReturns(s, t)

StopStep(s) ==
    \/ DrainSettles(s) \/ GraceElapses(s)
    \/ \E t \in Tasks : StopRun(s, t)
    \/ StopReturns(s)

Next ==
    \/ \E s \in Schedulers, t \in Tasks :
          \/ Launch(s, t) \/ Skip(s, t)
          \/ StoreAnswers(s, t) \/ RenewSent(s, t)
          \/ Timeout(s, t) \/ BodySettles(s, t)
          \/ \E request \in {"acquire", "release"} :
                StrayExecutes(s, t, request) \/ StrayIsLost(s, t, request)
    \/ \E s \in Schedulers : Shutdown(s) \/ StopStep(s) \/ Crash(s)
    \/ \E t \in Tasks : LeaseExpires(t)

Spec == Init /\ [][Next]_vars

(* A sleep of the clock ends; a promise that has resolved is continued.    *)
ClockFairness ==
    /\ \A s \in Schedulers : WF_vars(StopStep(s))
    /\ \A s \in Schedulers, t \in Tasks : WF_vars(RenewSent(s, t))

(* The store answers every call, one way or the other.  Methods need not    *)
(* settle, and no tick need come.                                          *)
StoreFairness == \A s \in Schedulers, t \in Tasks : 
    /\ WF_vars(AcquireGranted(s, t) \/ AcquireRefused(s, t) \/ AcquireFails(s, t))
    /\ WF_vars(AcquireReturns(s, t))
    /\ WF_vars(UndoReturns(s, t))
    /\ WF_vars(RenewReturns(s, t) \/ RenewRefused(s, t) \/ RenewFails(s, t))
    /\ WF_vars(ReleaseReturns(s, t))

FairSpec == Spec /\ ClockFairness /\ StoreFairness
=============================================================================
