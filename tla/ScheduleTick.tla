---------------------------- MODULE ScheduleTick ----------------------------
(***************************************************************************)
(* The clockwork of one scheduler of packages/jobs/src/schedule: which     *)
(* instants its loop wakes for, and what a tick does with each task.  What *)
(* a run of a once-per-cluster task does with its lease, and the shutdown, *)
(* are LeaseScheduler's.                                                   *)
(*                                                                         *)
(* Time runs on for ever and every stored instant is read against the      *)
(* clock, so the variables hold offsets from now: due[t] is nextAt - now.  *)
(* The instants of a cron task are CronPlan's; they repeat after Cycle     *)
(* units, and `phase' is now % Cycle.                                      *)
(* The clock may move on while a timer that is due has not been served:    *)
(* the event loop was busy, or the machine slept.                          *)
(***************************************************************************)
EXTENDS CronPlan

CONSTANTS
    Tasks,
    Plan,      \* Plan[t]: the parsed expression of a cron task
    Every,     \* Every[t]: everyMs of an interval task
    Clustered, \* the tasks that ask for a lease first
    MaxTimer,  \* MAX_TIMER_MS, the longest single sleep
    MaxLate,   \* how far the clock may pass an instant before it is ticked
    Never      \* Number.POSITIVE_INFINITY

Crons == DOMAIN Plan
Intervals == DOMAIN Every

ASSUME TickAssumption ==
    /\ MaxTimer \in Nat \ {0} /\ MaxLate \in Nat
    /\ Tasks = Crons \cup Intervals /\ Crons \cap Intervals = {}
    /\ Every \in [Intervals -> Nat \ {0}]
    /\ Clustered \subseteq Tasks
    /\ Never \notin Int

(* Following[t][p]: how far the next instant is from one at phase p.       *)
Following ==
    [t \in Crons |-> [p \in 0 .. Cycle - 1 |-> NextInstant(Plan[t], p) - p]]

(* A plan without instants is refused at the construction.                 *)
ASSUME SearchAssumption == Following \in [Crons -> [0 .. Cycle - 1 -> Nat \ {0}]]

VARIABLES
    phase,    \* the clock
    task,     \* task[t]: a RuntimeTask
    wake,     \* the end of the loop's sleep; Never before start()
    ticked,   \* history: the last tick, or the construction
    reported  \* history: reported[t], the instants of a task that the last tick
              \* gave to onSkipped, as offsets from that tick

vars == <<phase, task, wake, ticked, reported>>

Offset == Int \cup {Never}

RuntimeTask == [due : Offset,         \* nextAt
                initialDue : Offset,
                firstTick : BOOLEAN,
                run : {"idle", "ask", "body"}, \* ask: the lease is being acquired
                disabled : BOOLEAN]

TypeOK ==
    /\ phase \in 0 .. Cycle - 1
    /\ task \in [Tasks -> RuntimeTask]
    /\ wake \in Offset
    /\ wake \in Int => wake <= MaxTimer \* a longer timeout fires at once
    /\ ticked \in Int
    /\ reported \in [Tasks -> SUBSET Int]

(* The next instant of a cron task after an offset, and at or after it.    *)
NextAfter(t, d) == d + Following[t][(phase + d) % Cycle]

NextAtOrAfter(t, d) == NextAfter(t, d - 1)

(* A construction at any time; a plan that fires at that very instant      *)
(* remembers it in initialDue.                                             *)
Init ==
    /\ phase \in 0 .. Cycle - 1
    /\ task = [t \in Tasks |->
          [due |-> IF t \in Crons THEN NextAfter(t, 0) ELSE Every[t],
           initialDue |-> IF t \in Crons /\ NextAtOrAfter(t, 0) = 0 THEN 0 ELSE Never,
           firstTick |-> TRUE, run |-> "idle", disabled |-> FALSE]]
    /\ wake = Never
    /\ ticked = 0
    /\ reported = [t \in Tasks |-> {}]

-----------------------------------------------------------------------------
(* The tick.                                                               *)

(* Mutant: an instant that is just due counts as passed.                   *)
PastOrNow(r) == r.due # Never /\ r.due <= 0

Past(r) == r.due # Never /\ r.due < 0

(* Mutant: an instant that the late tick comes at is passed over.          *)
CaughtUpBeyond(t) ==
    LET r == task[t] IN
    CASE ~Past(r) -> r.due
      [] Past(r) /\ t \in Crons -> NextAfter(t, 0)
      [] OTHER -> IF r.run = "idle" THEN Every[t] ELSE Never

(* Where nextAt stands once a missed instant was reported.                 *)
CaughtUp(t) ==
    LET r == task[t] IN
    CASE ~Past(r) -> r.due
      [] Past(r) /\ t \in Crons -> NextAtOrAfter(t, 0)
      [] OTHER -> IF r.run = "idle" THEN Every[t] ELSE Never

(* The first tick of a task whose plan fired at the construction.          *)
FiresFirst(t) == task[t].firstTick /\ task[t].initialDue = 0

Ignored(t) == task[t].disabled \/ task[t].due = Never

(* #tickTask launches the task at its instant, and never late ...          *)
Launches(t) ==
    /\ ~Ignored(t)
    /\ FiresFirst(t) \/ (CaughtUp(t) = 0 /\ task[t].run = "idle")

(* ... and reports the nextAt it finds passed ('missed', or 'still-running'  *)
(* during a run), and the instant it comes at, reached during a run.  What *)
(* lies between is passed over without a report.                           *)
Skipped(t) ==
    IF Ignored(t) \/ FiresFirst(t) THEN {}
    ELSE {d \in {task[t].due} : Past(task[t])}
             \cup {d \in {0} : CaughtUp(t) = 0 /\ task[t].run # "idle"}

(* A cron task is planned for its next instant at once, an interval when    *)
(* its run has ended.                                                      *)
NextDue(t) ==
    CASE FiresFirst(t) -> task[t].due
      [] ~FiresFirst(t) /\ CaughtUp(t) # 0 -> CaughtUp(t)
      [] OTHER -> IF t \in Crons THEN NextAfter(t, 0) ELSE Never

Ticked(t) ==
    IF Ignored(t) THEN task[t]
    ELSE [task[t] EXCEPT !.firstTick = FALSE, !.initialDue = Never,
                         !.due = NextDue(t),
                         !.run = IF ~Launches(t) THEN @
                                 ELSE IF t \in Clustered THEN "ask" ELSE "body"]

(* Where #runLoop sleeps to, given the tasks it finds.                     *)
Earliest(tasks) ==
    LET dues == {tasks[t].due : t \in {u \in Tasks : ~tasks[u].disabled}} \ {Never}
    IN Min({MaxTimer} \cup {Max({0, d}) : d \in dues})

(* tick(now), now being the clock's.                                       *)
TickAll ==
    /\ task' = [t \in Tasks |-> Ticked(t)]
    /\ ticked' = 0
    /\ reported' = [t \in Tasks |-> Skipped(t)]
    /\ UNCHANGED phase

Start == wake = Never /\ TickAll /\ wake' = Earliest(task')

LoopTick == wake \in Int /\ wake <= 0 /\ TickAll /\ wake' = Earliest(task')

(* Somebody else calls tick(), before start() or beside the loop, which     *)
(* goes on sleeping to where it was.                                       *)
CallerTick == TickAll /\ UNCHANGED wake

-----------------------------------------------------------------------------
(* The runs.                                                               *)

(* #wake aborts the loop's sleep, and the loop computes another.           *)
Woken == wake' = IF wake = Never THEN Never ELSE Earliest(task')

(* Mutant: the loop sleeps on.                                             *)
FinishUnwoken(t) ==
    /\ task' = [task EXCEPT ![t].run = "idle",
                            ![t].due = IF t \in Intervals THEN Every[t] ELSE @]
    /\ UNCHANGED <<phase, wake, ticked, reported>>

(* #finishWithoutRun: an interval begins anew.                             *)
Finish(t) ==
    /\ task' = [task EXCEPT ![t].run = "idle",
                            ![t].due = IF t \in Intervals THEN Every[t] ELSE @]
    /\ Woken
    /\ UNCHANGED <<phase, ticked, reported>>

(* Mutant: the interval is not planned again.                              *)
LeaseNotHeldForgotten(t) ==
    /\ task[t].run = "ask"
    /\ task' = [task EXCEPT ![t].run = "idle"]
    /\ Woken
    /\ UNCHANGED <<phase, ticked, reported>>

LeaseNotHeld(t) == task[t].run = "ask" /\ Finish(t)

LeaseHeld(t) ==
    /\ task[t].run = "ask"
    /\ task' = [task EXCEPT ![t].run = "body"]
    /\ UNCHANGED <<phase, wake, ticked, reported>>

(* The renewal fails: the task is disabled, and its method goes on.        *)
LeaseLost(t) ==
    /\ t \in Clustered /\ task[t].run = "body" /\ ~task[t].disabled
    /\ task' = [task EXCEPT ![t].disabled = TRUE]
    /\ Woken
    /\ UNCHANGED <<phase, ticked, reported>>

(* The method settled and #finishRun has given back the lease; a disabled   *)
(* interval is not planned again.                                          *)
RunEnds(t) ==
    /\ task[t].run = "body"
    /\ IF task[t].disabled
       THEN /\ task' = [task EXCEPT ![t].run = "idle"]
            /\ Woken
            /\ UNCHANGED <<phase, ticked, reported>>
       ELSE Finish(t)

-----------------------------------------------------------------------------
(* The clock.                                                              *)

Moved(offset) == IF offset = Never THEN Never ELSE offset - 1

(* nextAt of a disabled task is not read again, and stands still here.     *)
Later(r) ==
    [r EXCEPT !.initialDue = IF @ = 0 THEN Never ELSE @,
              !.due = IF r.disabled THEN @ ELSE Moved(@)]

Tolerable(offset) == IF offset = Never THEN TRUE ELSE offset > -MaxLate

(* One unit of time; lateness is bounded by MaxLate.                       *)
Advance ==
    /\ Tolerable(wake)
    /\ \A t \in Tasks : task[t].disabled \/ Tolerable(task[t].due)
    /\ phase' = (phase + 1) % Cycle
    /\ task' = [t \in Tasks |-> Later(task[t])]
    /\ wake' = Moved(wake)
    /\ ticked' = ticked - 1
    /\ UNCHANGED reported

Next ==
    \/ Start \/ LoopTick \/ CallerTick \/ Advance
    \/ \E t \in Tasks : LeaseHeld(t) \/ LeaseNotHeld(t) \/ LeaseLost(t) \/ RunEnds(t)

Spec == Init /\ [][Next]_vars

(* The clock runs, a timer that is due is served at last, and the lease     *)
(* store answers.  Methods need not settle.                                *)
FairSpec ==
    /\ Spec
    /\ WF_vars(Advance) /\ WF_vars(LoopTick)
    /\ \A t \in Tasks : WF_vars(LeaseHeld(t) \/ LeaseNotHeld(t))
=============================================================================
