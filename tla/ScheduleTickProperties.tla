----------------------- MODULE ScheduleTickProperties -----------------------
(***************************************************************************)
(* What the scheduler promises about the instants of its tasks, stated     *)
(* over ScheduleTick.                                                      *)
(***************************************************************************)
EXTENDS ScheduleTick

Enabled(t) == ~task[t].disabled

Started == wake # Never

(* The phases at which a cron task fires, by definition.                   *)
Instants == [t \in Crons |-> {p \in 0 .. Cycle - 1 : IsInstant(Plan[t], p)}]

Fires(t, d) == (phase + d) % Cycle \in Instants[t]

(* The search of CronPlan is right for the plans of the tasks.             *)
SearchIsExact ==
    \A t \in Crons, p \in 0 .. Cycle - 1 :
        /\ (p + Following[t][p]) % Cycle \in Instants[t]
        /\ \A e \in 1 .. Following[t][p] - 1 : (p + e) % Cycle \notin Instants[t]

(* The loop never sleeps past the nextAt of a task: whoever plans a task   *)
(* earlier than the loop knew, the end of a run of any task, wakes it.     *)
NoOversleep ==
    wake # Never /\ wake > 0 =>
        \A t \in Tasks :
            Enabled(t) /\ task[t].due # Never => wake <= Max({0, task[t].due})

(* An interval is planned exactly when no run of it is in progress, so     *)
(* that a plan is neither lost with the run nor kept during it             *)
(* (completion-to-start, schedule/SPEC.md section 6).                      *)
IntervalPlannedIffIdle ==
    \A t \in Intervals :
        Enabled(t) => (task[t].due = Never <=> task[t].run # "idle")

(* The instants of a plan since the last tick, up to now.                  *)
Passed(t) == {d \in ticked + 1 .. 0 : Fires(t, d)}

(* However late a tick comes, it answers for the first instant of the plan *)
(* that passed since the last tick, and for the one it comes at: it fires  *)
(* a task that is idle at the latter and reports them to onSkipped         *)
(* otherwise, each once, and nothing else.  So no late tick is silent, but *)
(* the instants between those two are: see EveryPassedInstantReported.     *)
AnswersForPassedInstants ==
    [][\A t \in Crons :
         Enabled(t) /\ ticked < 0 /\ ticked' = 0 =>
            LET fired == {d \in {0} : task[t].run = "idle" /\ task'[t].run # "idle"}
            IN  /\ reported'[t] \cup fired =
                       {d \in Passed(t) : d = 0 \/ \A e \in Passed(t) : d <= e}
                /\ reported'[t] \cap fired = {}]_vars

(* The first tick of all, or the first at its instant.                     *)
Tick == ticked' = 0 /\ (ticked < 0 \/ \E t \in Tasks : task[t].firstTick)

(* An idle cron task is started by the first tick at an instant of its     *)
(* plan, also when that tick finds earlier instants missed, and by nothing *)
(* else: no instant is caught up later (section 8).                        *)
CronStartsAtItsInstants ==
    [][\A t \in Crons :
         Enabled(t) /\ task[t].run = "idle" =>
            (task'[t].run # "idle" <=> Tick /\ Fires(t, 0))]_vars

(* Once started, a scheduler answers for every enabled task again and      *)
(* again, by running it or by reporting a skipped instant: no wake-up is   *)
(* lost and no plan with it, however late the timers are.                  *)
KeepsAnswering ==
    \A t \in Tasks :
        []<>(Started => reported[t] # {} \/ task[t].run # "idle" \/ ~Enabled(t))

(* While every timer is served on time, every enabled interval is run      *)
(* again and again.                                                        *)
PunctualTimersFire ==
    <>[](wake \in Nat) =>
        \A t \in Intervals : []<>(task[t].run # "idle" \/ ~Enabled(t))

-----------------------------------------------------------------------------
(* What the documents say and the code does not do.                        *)

(* docs-site/content/web-task-scheduling.md line 206: an instant passed     *)
(* during a clock jump or event-loop pause is reported.  So a tick of a     *)
(* started scheduler reports every instant it finds passed, not only the   *)
(* first.                                                                  *)
EveryPassedInstantReported ==
    [][\A t \in Crons :
         Started /\ Enabled(t) /\ ticked < 0 /\ ticked' = 0 =>
            Passed(t) \ {0} \subseteq reported'[t]]_vars

(* schedule/SPEC.md line 271: a timer the event loop delays produces a     *)
(* late run.  So an interval is run again and again, on time or not.       *)
DelayedTimersFire ==
    \A t \in Intervals : []<>(Started => task[t].run # "idle" \/ ~Enabled(t))
=============================================================================
