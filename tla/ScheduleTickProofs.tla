------------------------- MODULE ScheduleTickProofs -------------------------
(***************************************************************************)
(* Proofs about the clockwork of a scheduler, for any tasks, plans, zones, *)
(* calendars and bounds.                                                   *)
(***************************************************************************)
EXTENDS ScheduleTickProperties, WellFoundedInduction, TLAPS

-----------------------------------------------------------------------------
(* Residues.                                                               *)

LEMMA ModRange ==
    ASSUME NEW C \in Nat \ {0}, NEW a \in Int
    PROVE  a % C \in 0 .. C - 1
OBVIOUS

LEMMA ModSmall ==
    ASSUME NEW C \in Nat \ {0}, NEW a \in 0 .. C - 1
    PROVE  a % C = a
OBVIOUS

LEMMA Division ==
    ASSUME NEW C \in Nat \ {0}, NEW a \in Int
    PROVE  a \div C \in Int /\ a = C * (a \div C) + (a % C)
OBVIOUS

(* A multiple of C between -C and C is 0.                                  *)
LEMMA SmallMultiple ==
    ASSUME NEW C \in Nat \ {0}, NEW k \in Int, -C < C * k, C * k < C
    PROVE  C * k = 0
<1>1. CASE k >= 1
  <2>1. k - 1 \in Nat /\ C * k = C + C * (k - 1)
    BY <1>1
  <2>2. C * (k - 1) >= 0
    BY <2>1
  <2> QED
    BY <2>1, <2>2
<1>2. CASE k <= -1
  <2>1. -1 - k \in Nat /\ C * k = -C - C * (-1 - k)
    BY <1>2
  <2>2. C * (-1 - k) >= 0
    BY <2>1
  <2> QED
    BY <2>1, <2>2
<1>3. CASE k = 0
  BY <1>3
<1> QED
  BY <1>1, <1>2, <1>3

LEMMA ModOfMod ==
    ASSUME NEW C \in Nat \ {0}, NEW a \in Int, NEW b \in Int
    PROVE  ((a % C) + b) % C = (a + b) % C
<1> DEFINE q == a \div C
           x == (a % C) + b
           m == x \div C
           n == (a + b) \div C
           k == q + m - n
<1>1. a % C \in 0 .. C - 1 /\ x % C \in 0 .. C - 1 /\ (a + b) % C \in 0 .. C - 1
  BY ModRange
<1>2. q \in Int /\ m \in Int /\ n \in Int /\ x \in Int
  BY <1>1, Division
<1>3. a = C * q + (a % C) /\ x = C * m + (x % C) /\ a + b = C * n + ((a + b) % C)
  BY <1>2, Division
<1> HIDE DEF q, m, n
<1>4. C * k = C * q + C * m - C * n
  BY <1>2
<1>5. C * q \in Int /\ C * m \in Int /\ C * n \in Int
  BY <1>2
<1>6. C * k = ((a + b) % C) - (x % C)
  <2> DEFINE s == a % C
             r == x % C
             u == (a + b) % C
             Q == C * q
             M == C * m
             N == C * n
  <2>1. s \in Int /\ r \in Int /\ u \in Int /\ Q \in Int /\ M \in Int /\ N \in Int
    BY <1>1, <1>5
  <2>2. a = Q + s /\ s + b = M + r /\ a + b = N + u /\ C * k = Q + M - N
    BY <1>3, <1>4
  <2> HIDE DEF s, r, u, Q, M, N
  <2>3. Q + M - N = u - r
    BY <2>1, <2>2
  <2> QED
    BY <2>2, <2>3 DEF r, u
<1>7. C * k = 0
  <2>1. k \in Int
    BY <1>2
  <2>2. -C < C * k /\ C * k < C
    BY <1>1, <1>6
  <2> QED
    BY <2>1, <2>2, SmallMultiple
<1> QED
  BY <1>1, <1>6, <1>7

-----------------------------------------------------------------------------
(* Least elements.                                                         *)

LEMMA MinIs ==
    ASSUME NEW S, S \subseteq Nat, S # {}
    PROVE  Min(S) \in S /\ \A y \in S : Min(S) <= y
<1> DEFINE Below == {ss \in Nat \X Nat : ss[1] < ss[2]}
<1>1. IsWellFoundedOn(Below, Nat)
  BY NatLessThanWellFounded, Zenon DEF OpToRel
<1>2. PICK x \in S : \A y \in S : ~(<<y, x>> \in Below)
  <2> HIDE DEF Below
  <2> QED
    BY <1>1, WFMin
<1>3. ASSUME NEW y \in S PROVE x <= y
  <2>1. x \in Nat /\ y \in Nat
    OBVIOUS
  <2>2. <<y, x>> \in Nat \X Nat /\ <<y, x>>[1] = y /\ <<y, x>>[2] = x
    BY <2>1
  <2>3. ~(y < x)
    BY <1>2, <2>2
  <2> QED
    BY <2>1, <2>3
<1> QED
  BY <1>3 DEF Min

LEMMA MaxOfTwo ==
    ASSUME NEW d \in Int
    PROVE  Max({0, d}) = IF d <= 0 THEN 0 ELSE d
<1>1. CASE d <= 0
  <2>1. \A x \in {0, d} : (\A y \in {0, d} : x >= y) <=> x = 0
    BY <1>1
  <2> QED
    BY <1>1, <2>1 DEF Max
<1>2. CASE ~(d <= 0)
  <2>1. \A x \in {0, d} : (\A y \in {0, d} : x >= y) <=> x = d
    BY <1>2
  <2> QED
    BY <1>2, <2>1 DEF Max
<1> QED
  BY <1>1, <1>2

-----------------------------------------------------------------------------
(* Instants and offsets.                                                   *)

LEMMA NextAfterType ==
    ASSUME TypeOK, NEW t \in Crons, NEW d \in Int
    PROVE  NextAfter(t, d) \in Int /\ NextAfter(t, d) > d
<1>1. phase + d \in Int
  BY DEF TypeOK
<1>2. (phase + d) % Cycle \in 0 .. Cycle - 1
  BY <1>1, ModRange, CalendarAssumption
<1>3. Following[t][(phase + d) % Cycle] \in Nat \ {0}
  BY <1>2, SearchAssumption
<1> QED
  BY <1>3 DEF NextAfter

LEMMA NextAtOrAfterType ==
    ASSUME TypeOK, NEW t \in Crons
    PROVE  NextAtOrAfter(t, 0) \in Nat
BY NextAfterType DEF NextAtOrAfter

(* What an exact search says of the next instant.                          *)
LEMMA NextAfterIsNext ==
    ASSUME SearchIsExact, TypeOK, NEW t \in Crons, NEW d \in Int
    PROVE  /\ Fires(t, NextAfter(t, d))
           /\ \A e \in d + 1 .. NextAfter(t, d) - 1 : ~Fires(t, e)
<1> DEFINE p == (phase + d) % Cycle
<1>1. phase \in Int /\ phase + d \in Int
  BY DEF TypeOK
<1>2. p \in 0 .. Cycle - 1
  BY <1>1, ModRange, CalendarAssumption
<1>3. \A e \in Int : (p + e) % Cycle = ((phase + d) + e) % Cycle
  BY <1>1, ModOfMod, CalendarAssumption
<1> DEFINE F == Following[t][p]
<1>4. F \in Nat \ {0} /\ NextAfter(t, d) = d + F
  BY <1>2, SearchAssumption DEF NextAfter
<1>5. (p + F) % Cycle \in Instants[t] /\ \A e \in 1 .. F - 1 : (p + e) % Cycle \notin Instants[t]
  BY <1>2 DEF SearchIsExact
<1> HIDE DEF p, F
<1>6. Fires(t, NextAfter(t, d))
  <2>1. (phase + d) + F = phase + (d + F)
    BY <1>1, <1>4
  <2> QED
    BY <1>3, <1>4, <1>5, <2>1 DEF Fires
<1>7. ASSUME NEW e \in d + 1 .. NextAfter(t, d) - 1 PROVE ~Fires(t, e)
  <2>1. e - d \in 1 .. F - 1 /\ (phase + d) + (e - d) = phase + e
    BY <1>1, <1>4
  <2> QED
    BY <1>3, <1>5, <2>1 DEF Fires
<1> QED
  BY <1>6, <1>7

(* A unit of time later, an instant is a unit nearer.                      *)
LEMMA FiresLater ==
    ASSUME TypeOK, phase' = (phase + 1) % Cycle, NEW t \in Crons, NEW d \in Int
    PROVE  Fires(t, d)' <=> Fires(t, d + 1)
<1>1. phase \in Int /\ phase + 1 \in Int
  BY DEF TypeOK
<1>2. (((phase + 1) % Cycle) + d) % Cycle = ((phase + 1) + d) % Cycle
  BY <1>1, ModOfMod, CalendarAssumption
<1>3. (phase + 1) + d = phase + (d + 1)
  BY <1>1
<1> QED
  BY <1>2, <1>3 DEF Fires

-----------------------------------------------------------------------------
(* The sleep of the loop.                                                  *)

LEMMA EarliestIs ==
    ASSUME NEW tasks \in [Tasks -> RuntimeTask]
    PROVE  /\ Earliest(tasks) \in 0 .. MaxTimer
           /\ \A t \in Tasks : ~tasks[t].disabled /\ tasks[t].due # Never =>
                 Earliest(tasks) <= Max({0, tasks[t].due})
<1> DEFINE dues == {tasks[t].due : t \in {u \in Tasks : ~tasks[u].disabled}} \ {Never}
           S == {MaxTimer} \cup {Max({0, d}) : d \in dues}
<1>1. dues \subseteq Int
  BY DEF RuntimeTask, Offset
<1>2. \A d \in dues : Max({0, d}) \in Nat
  BY <1>1, MaxOfTwo
<1>3. S \subseteq Nat /\ S # {} /\ MaxTimer \in S
  BY <1>2, TickAssumption
<1>4. Earliest(tasks) = Min(S)
  BY DEF Earliest
<1>5. Min(S) \in S /\ \A y \in S : Min(S) <= y
  <2> HIDE DEF S
  <2> QED
    BY <1>3, MinIs
<1>6. \A t \in Tasks : ~tasks[t].disabled /\ tasks[t].due # Never => Max({0, tasks[t].due}) \in S
  OBVIOUS
<1>7. Min(S) \in Nat /\ Min(S) <= MaxTimer
  <2> HIDE DEF S
  <2> QED
    BY <1>3, <1>5
<1> HIDE DEF S
<1> QED
  BY <1>4, <1>5, <1>6, <1>7, TickAssumption

-----------------------------------------------------------------------------
(* The invariant.                                                          *)

(* A cron task always has a next instant.                                  *)
CronIsPlanned == \A t \in Crons : task[t].due \in Int

(* Only a cron task fires first, where it was constructed.                 *)
IntervalFiresLater == \A t \in Intervals : task[t].initialDue = Never

TickIsPast == ticked <= 0

Inv == TypeOK /\ CronIsPlanned /\ IntervalFiresLater /\ TickIsPast

(* A step of one run.                                                      *)
RunStep(t) == LeaseHeld(t) \/ LeaseNotHeld(t) \/ LeaseLost(t) \/ RunEnds(t)

LEMMA TaskKinds ==
    /\ Tasks = Crons \cup Intervals
    /\ \A t \in Tasks : t \in Intervals <=> t \notin Crons
    /\ \A t \in Intervals : Every[t] \in Nat \ {0}
    /\ Never \notin Int
BY TickAssumption

LEMMA CaughtUpType ==
    ASSUME Inv, NEW t \in Tasks
    PROVE  /\ CaughtUp(t) \in Offset
           /\ t \in Crons => CaughtUp(t) \in Nat
           /\ task[t].due # Never /\ task[t].run = "idle" => CaughtUp(t) \in Nat
<1>1. task[t].due \in Int \cup {Never} /\ (t \in Crons => task[t].due \in Int)
  BY DEF Inv, TypeOK, RuntimeTask, Offset, CronIsPlanned
<1>2. CASE ~Past(task[t])
  <2>1. CaughtUp(t) = task[t].due
    BY <1>2 DEF CaughtUp
  <2> QED
    BY <1>1, <1>2, <2>1, TaskKinds DEF Past, Offset
<1>3. CASE Past(task[t]) /\ t \in Crons
  <2>1. CaughtUp(t) = NextAtOrAfter(t, 0)
    BY <1>3 DEF CaughtUp
  <2> QED
    BY <1>3, <2>1, NextAtOrAfterType DEF Offset, Inv
<1>4. CASE Past(task[t]) /\ t \notin Crons
  <2>1. CaughtUp(t) = IF task[t].run = "idle" THEN Every[t] ELSE Never
    BY <1>4 DEF CaughtUp
  <2>2. Every[t] \in Nat
    BY <1>4, TaskKinds
  <2> QED
    BY <1>4, <2>1, <2>2 DEF Offset
<1> QED
  BY <1>2, <1>3, <1>4

LEMMA NextDueType ==
    ASSUME Inv, NEW t \in Tasks
    PROVE  NextDue(t) \in Offset /\ (t \in Crons => NextDue(t) \in Int)
<1>1. task[t].due \in Int \cup {Never} /\ (t \in Crons => task[t].due \in Int)
  BY DEF Inv, TypeOK, RuntimeTask, Offset, CronIsPlanned
<1>2. CASE FiresFirst(t)
  BY <1>1, <1>2 DEF NextDue, Offset
<1>3. CASE ~FiresFirst(t) /\ CaughtUp(t) # 0
  <2>1. NextDue(t) = CaughtUp(t)
    BY <1>3 DEF NextDue
  <2> QED
    BY <2>1, CaughtUpType
<1>4. CASE ~FiresFirst(t) /\ CaughtUp(t) = 0
  <2>1. NextDue(t) = IF t \in Crons THEN NextAfter(t, 0) ELSE Never
    BY <1>4 DEF NextDue
  <2> QED
    BY <2>1, NextAfterType DEF Offset, Inv
<1> QED
  BY <1>2, <1>3, <1>4

(* What a tick leaves of a task that it does not ignore.                   *)
LEMMA TickedIs ==
    ASSUME Inv, NEW t \in Tasks, ~Ignored(t)
    PROVE  /\ Ticked(t) \in RuntimeTask
           /\ Ticked(t).due = NextDue(t)
           /\ Ticked(t).firstTick = FALSE /\ Ticked(t).initialDue = Never
           /\ Ticked(t).disabled = task[t].disabled
           /\ Launches(t) => Ticked(t).run # "idle"
           /\ ~Launches(t) => Ticked(t).run = task[t].run
<1>1. task[t] \in RuntimeTask /\ NextDue(t) \in Offset /\ Never \in Offset
  BY NextDueType DEF Inv, TypeOK, Offset
<1> DEFINE r == IF ~Launches(t) THEN task[t].run
                ELSE IF t \in Clustered THEN "ask" ELSE "body"
<1>2. r \in {"idle", "ask", "body"}
  BY <1>1 DEF RuntimeTask
<1>3. Ticked(t) = [task[t] EXCEPT !.firstTick = FALSE, !.initialDue = Never,
                                  !.due = NextDue(t), !.run = r]
  BY DEF Ticked
<1>4. r # "idle" \/ ~Launches(t)
  OBVIOUS
<1>5. ~Launches(t) => r = task[t].run
  OBVIOUS
<1> HIDE DEF r
<1> QED
  BY <1>1, <1>2, <1>3, <1>4, <1>5 DEF RuntimeTask

LEMMA TickAllIs ==
    ASSUME Inv, TickAll
    PROVE  /\ task' \in [Tasks -> RuntimeTask]
           /\ \A t \in Tasks : task'[t] = Ticked(t)
           /\ phase' = phase /\ ticked' = 0 /\ reported' \in [Tasks -> SUBSET Int]
           /\ \A t \in Tasks : reported'[t] = Skipped(t)
           /\ \A t \in Tasks : task'[t].disabled = task[t].disabled
<1>1. ASSUME NEW t \in Tasks
      PROVE  Ticked(t) \in RuntimeTask /\ Ticked(t).disabled = task[t].disabled
  <2>1. CASE Ignored(t)
    BY <2>1 DEF Ticked, Inv, TypeOK
  <2>2. CASE ~Ignored(t)
    BY <2>2, TickedIs
  <2> QED
    BY <2>1, <2>2
<1>2. ASSUME NEW t \in Tasks
      PROVE  Skipped(t) \in SUBSET Int
  <2>1. CASE Ignored(t) \/ FiresFirst(t)
    BY <2>1 DEF Skipped
  <2>2. CASE ~Ignored(t)
    <3>1. task[t].due \in Int
      BY <2>2, TaskKinds DEF Ignored, Inv, TypeOK, RuntimeTask, Offset
    <3> QED
      BY <3>1 DEF Skipped
  <2> QED
    BY <2>1, <2>2
<1> QED
  BY <1>1, <1>2 DEF TickAll

(* What a step of a run leaves.                                            *)
LEMMA RunStepIs ==
    ASSUME Inv, NEW u \in Tasks, RunStep(u)
    PROVE  /\ phase' = phase /\ ticked' = ticked /\ reported' = reported
           /\ task' \in [Tasks -> RuntimeTask]
           /\ \A t \in Tasks \ {u} : task'[t] = task[t]
           /\ task[u].run # "idle"
           /\ task'[u].firstTick = task[u].firstTick
           /\ task'[u].initialDue = task[u].initialDue
           /\ task[u].disabled => task'[u].disabled
           /\ u \in Crons => task'[u].due = task[u].due
           /\ \/ Woken
              \/ /\ wake' = wake /\ task'[u].due = task[u].due
                 /\ task'[u].disabled = task[u].disabled
<1>1. task \in [Tasks -> RuntimeTask] /\ task[u] \in RuntimeTask
  BY DEF Inv, TypeOK
<1>2. ASSUME Finish(u), task[u].run # "idle"
      PROVE  /\ phase' = phase /\ ticked' = ticked /\ reported' = reported
             /\ task' \in [Tasks -> RuntimeTask]
             /\ \A t \in Tasks \ {u} : task'[t] = task[t]
             /\ task'[u].firstTick = task[u].firstTick
             /\ task'[u].initialDue = task[u].initialDue
             /\ task'[u].disabled = task[u].disabled
             /\ u \in Crons => task'[u].due = task[u].due
             /\ Woken
  <2> DEFINE d == IF u \in Intervals THEN Every[u] ELSE task[u].due
  <2>1. d \in Offset /\ (u \in Crons => d = task[u].due)
    BY <1>1, TaskKinds DEF RuntimeTask, Offset
  <2>2. task' = [task EXCEPT ![u] = [task[u] EXCEPT !.run = "idle", !.due = d]]
    BY <1>1, <1>2 DEF Finish, RuntimeTask
  <2> HIDE DEF d
  <2>3. [task[u] EXCEPT !.run = "idle", !.due = d] \in RuntimeTask
    BY <1>1, <2>1 DEF RuntimeTask
  <2> DEFINE r == [task[u] EXCEPT !.run = "idle", !.due = d]
  <2>4. /\ r.firstTick = task[u].firstTick /\ r.initialDue = task[u].initialDue
        /\ r.disabled = task[u].disabled /\ r.due = d
    BY <1>1 DEF RuntimeTask
  <2>5. r \in RuntimeTask /\ task' = [task EXCEPT ![u] = r]
    BY <2>2, <2>3
  <2> HIDE DEF r
  <2>6. /\ task' \in [Tasks -> RuntimeTask] /\ task'[u] = r
        /\ \A t \in Tasks \ {u} : task'[t] = task[t]
    BY <1>1, <2>5
  <2>7. phase' = phase /\ ticked' = ticked /\ reported' = reported /\ Woken
    BY <1>2 DEF Finish
  <2> QED
    BY <2>1, <2>4, <2>6, <2>7
<1>3. CASE LeaseHeld(u)
  <2>1. [task[u] EXCEPT !.run = "body"] \in RuntimeTask
    BY <1>1 DEF RuntimeTask
  <2> QED
    BY <1>1, <1>3, <2>1 DEF LeaseHeld, RuntimeTask
<1>4. CASE LeaseNotHeld(u)
  BY <1>2, <1>4 DEF LeaseNotHeld
<1>5. CASE LeaseLost(u)
  <2>1. [task[u] EXCEPT !.disabled = TRUE] \in RuntimeTask
    BY <1>1 DEF RuntimeTask
  <2> QED
    BY <1>1, <1>5, <2>1 DEF LeaseLost, RuntimeTask
<1>6. CASE RunEnds(u)
  <2>1. CASE task[u].disabled
    <3>1. [task[u] EXCEPT !.run = "idle"] \in RuntimeTask
      BY <1>1 DEF RuntimeTask
    <3> QED
      BY <1>1, <1>6, <2>1, <3>1 DEF RunEnds, RuntimeTask
  <2>2. CASE ~task[u].disabled
    BY <1>2, <1>6, <2>2 DEF RunEnds
  <2> QED
    BY <2>1, <2>2
<1> QED
  BY <1>3, <1>4, <1>5, <1>6 DEF RunStep

LEMMA AdvanceIs ==
    ASSUME Inv, Advance
    PROVE  /\ task' \in [Tasks -> RuntimeTask]
           /\ phase' = (phase + 1) % Cycle /\ phase' \in 0 .. Cycle - 1
           /\ ticked' = ticked - 1 /\ reported' = reported
           /\ wake' = Moved(wake)
           /\ \A t \in Tasks :
                 /\ task'[t].run = task[t].run /\ task'[t].disabled = task[t].disabled
                 /\ task'[t].firstTick = task[t].firstTick
                 /\ task'[t].initialDue # 0
                 /\ task[t].initialDue = Never => task'[t].initialDue = Never
                 /\ task'[t].due = IF task[t].disabled THEN task[t].due ELSE Moved(task[t].due)
<1>1. phase' \in 0 .. Cycle - 1
  <2>1. phase + 1 \in Int
    BY DEF Inv, TypeOK
  <2> QED
    BY <2>1, ModRange, CalendarAssumption DEF Advance
<1>2. ASSUME NEW t \in Tasks
      PROVE  /\ Later(task[t]) \in RuntimeTask
             /\ Later(task[t]).run = task[t].run /\ Later(task[t]).disabled = task[t].disabled
             /\ Later(task[t]).firstTick = task[t].firstTick
             /\ Later(task[t]).initialDue # 0
             /\ task[t].initialDue = Never => Later(task[t]).initialDue = Never
             /\ Later(task[t]).due = IF task[t].disabled THEN task[t].due ELSE Moved(task[t].due)
  <2>1. task[t] \in RuntimeTask
    BY DEF Inv, TypeOK
  <2> DEFINE i == IF task[t].initialDue = 0 THEN Never ELSE task[t].initialDue
             d == IF task[t].disabled THEN task[t].due ELSE Moved(task[t].due)
  <2>2. i \in Offset /\ i # 0 /\ (task[t].initialDue = Never => i = Never)
    BY <2>1, TaskKinds DEF RuntimeTask, Offset
  <2>3. d \in Offset
    BY <2>1, TaskKinds DEF RuntimeTask, Offset, Moved
  <2>4. Later(task[t]) = [task[t] EXCEPT !.initialDue = i, !.due = d]
    BY <2>1 DEF Later, RuntimeTask
  <2>5. d = IF task[t].disabled THEN task[t].due ELSE Moved(task[t].due)
    OBVIOUS
  <2> HIDE DEF i, d
  <2> QED
    BY <2>1, <2>2, <2>3, <2>4, <2>5 DEF RuntimeTask
<1> QED
  BY <1>1, <1>2 DEF Advance

-----------------------------------------------------------------------------
(* Types.                                                                  *)

LEMMA InvInit == Init => Inv
<1> SUFFICES ASSUME Init PROVE Inv
  OBVIOUS
<1> USE TaskKinds
<1> DEFINE First(t) == [due |-> IF t \in Crons THEN NextAfter(t, 0) ELSE Every[t],
                       initialDue |-> IF t \in Crons /\ NextAtOrAfter(t, 0) = 0 THEN 0 ELSE Never,
                       firstTick |-> TRUE, run |-> "idle", disabled |-> FALSE]
<1>1. phase \in Int /\ phase + 0 = phase
  BY DEF Init
<1>2. ASSUME NEW t \in Crons PROVE NextAfter(t, 0) \in Int
  <2>1. phase % Cycle \in 0 .. Cycle - 1
    BY <1>1, ModRange, CalendarAssumption
  <2>2. Following[t][(phase + 0) % Cycle] \in Nat
    BY <1>1, <2>1, SearchAssumption
  <2> QED
    BY <2>2 DEF NextAfter
<1>3. ASSUME NEW t \in Tasks PROVE First(t) \in RuntimeTask
  BY <1>2 DEF RuntimeTask, Offset
<1>4. task = [t \in Tasks |-> First(t)]
  BY DEF Init
<1>5. TypeOK
  BY <1>3, <1>4 DEF Init, TypeOK, Offset
<1>6. CronIsPlanned /\ IntervalFiresLater
  BY <1>2, <1>4 DEF CronIsPlanned, IntervalFiresLater
<1> QED
  BY <1>5, <1>6 DEF Init, Inv, TickIsPast

LEMMA WokenType ==
    ASSUME Inv, task' \in [Tasks -> RuntimeTask], Woken
    PROVE  wake' \in Offset /\ (wake' \in Int => wake' <= MaxTimer)
<1>1. Earliest(task') \in Nat /\ Earliest(task') <= MaxTimer
  <2>1. Earliest(task') \in 0 .. MaxTimer
    BY EarliestIs
  <2> QED
    BY <2>1, TickAssumption
<1> QED
  BY <1>1, TaskKinds DEF Woken, Offset

LEMMA TickInv ==
    ASSUME Inv, Start \/ LoopTick \/ CallerTick
    PROVE  Inv'
<1>1. TickAll
  BY DEF Start, LoopTick, CallerTick
<1>2. wake' \in Offset /\ (wake' \in Int => wake' <= MaxTimer)
  <2>1. CASE CallerTick
    BY <2>1 DEF CallerTick, Inv, TypeOK
  <2>2. CASE Start \/ LoopTick
    <3>1. Earliest(task') \in 0 .. MaxTimer
      BY <1>1, EarliestIs, TickAllIs
    <3> QED
      BY <2>2, <3>1, TickAssumption DEF Start, LoopTick, Offset
  <2> QED
    BY <2>1, <2>2
<1>3. TypeOK'
  BY <1>1, <1>2, TickAllIs DEF Inv, TypeOK
<1>4. CronIsPlanned'
  <2> SUFFICES ASSUME NEW t \in Crons PROVE task'[t].due \in Int
    BY DEF CronIsPlanned
  <2>1. t \in Tasks /\ task'[t] = Ticked(t)
    BY <1>1, TickAllIs, TaskKinds
  <2>2. CASE Ignored(t)
    BY <2>1, <2>2 DEF Ticked, Inv, CronIsPlanned
  <2>3. CASE ~Ignored(t)
    BY <2>1, <2>3, TickedIs, NextDueType
  <2> QED
    BY <2>2, <2>3
<1>5. IntervalFiresLater'
  <2> SUFFICES ASSUME NEW t \in Intervals PROVE task'[t].initialDue = Never
    BY DEF IntervalFiresLater
  <2>1. t \in Tasks /\ task'[t] = Ticked(t)
    BY <1>1, TickAllIs, TaskKinds
  <2>2. CASE Ignored(t)
    BY <2>1, <2>2 DEF Ticked, Inv, IntervalFiresLater
  <2>3. CASE ~Ignored(t)
    BY <2>1, <2>3, TickedIs
  <2> QED
    BY <2>2, <2>3
<1>6. TickIsPast'
  BY <1>1, TickAllIs DEF TickIsPast
<1> QED
  BY <1>3, <1>4, <1>5, <1>6 DEF Inv

LEMMA RunInv ==
    ASSUME Inv, NEW u \in Tasks, RunStep(u)
    PROVE  Inv'
<1>1. wake' \in Offset /\ (wake' \in Int => wake' <= MaxTimer)
  BY RunStepIs, WokenType DEF Inv, TypeOK
<1>2. TypeOK'
  BY <1>1, RunStepIs DEF Inv, TypeOK
<1>3. CronIsPlanned'
  BY RunStepIs, TaskKinds DEF Inv, CronIsPlanned
<1>4. IntervalFiresLater'
  BY RunStepIs, TaskKinds DEF Inv, IntervalFiresLater
<1> QED
  BY <1>2, <1>3, <1>4, RunStepIs DEF Inv, TickIsPast

LEMMA AdvanceInv ==
    ASSUME Inv, Advance
    PROVE  Inv'
<1>1. wake' \in Offset /\ (wake' \in Int => wake' <= MaxTimer)
  BY AdvanceIs, TaskKinds, TickAssumption DEF Inv, TypeOK, Offset, Moved
<1>2. TypeOK'
  BY <1>1, AdvanceIs DEF Inv, TypeOK
<1>3. CronIsPlanned'
  <2> SUFFICES ASSUME NEW t \in Crons PROVE task'[t].due \in Int
    BY DEF CronIsPlanned
  <2>1. task[t].due \in Int /\ t \in Tasks
    BY TaskKinds DEF Inv, CronIsPlanned
  <2> QED
    BY <2>1, AdvanceIs, TaskKinds DEF Moved
<1>4. IntervalFiresLater'
  BY AdvanceIs, TaskKinds DEF Inv, IntervalFiresLater
<1> QED
  BY <1>2, <1>3, <1>4, AdvanceIs DEF Inv, TypeOK, TickIsPast

LEMMA InvStep == Inv /\ [Next]_vars => Inv'
<1> SUFFICES ASSUME Inv, [Next]_vars PROVE Inv'
  OBVIOUS
<1>1. CASE UNCHANGED vars
  BY <1>1 DEF vars, Inv, TypeOK, CronIsPlanned, IntervalFiresLater, TickIsPast
<1>2. CASE Start \/ LoopTick \/ CallerTick
  BY <1>2, TickInv
<1>3. CASE Advance
  BY <1>3, AdvanceInv
<1>4. ASSUME NEW u \in Tasks, LeaseHeld(u) \/ LeaseNotHeld(u) \/ LeaseLost(u) \/ RunEnds(u)
      PROVE  Inv'
  BY <1>4, RunInv DEF RunStep
<1> QED
  BY <1>1, <1>2, <1>3, <1>4 DEF Next

(* Every variable keeps its type: the loop never asks for a longer timer   *)
(* than the platform has, however far the next instant of a plan is.       *)
THEOREM TypeCorrect == Spec => []TypeOK
<1>1. Inv => TypeOK
  BY DEF Inv
<1> QED
  BY <1>1, InvInit, InvStep, PTL DEF Spec

-----------------------------------------------------------------------------
(* No oversleeping.                                                        *)

LEMMA DueInt ==
    ASSUME Inv, NEW t \in Tasks, task[t].due # Never
    PROVE  task[t].due \in Int
BY DEF Inv, TypeOK, RuntimeTask, Offset

(* While the loop has time left to sleep no task is due, and a tick by     *)
(* somebody else plans nothing anew.                                       *)
LEMMA CallerKeepsDue ==
    ASSUME Inv, NoOversleep, wake # Never, wake > 0, NEW t \in Tasks, ~task[t].disabled
    PROVE  Ticked(t).due = task[t].due
<1>1. CASE Ignored(t)
  BY <1>1 DEF Ticked
<1>2. CASE ~Ignored(t)
  <2>1. task[t].due \in Int
    BY <1>2, DueInt DEF Ignored
  <2>2. wake \in Int /\ wake <= Max({0, task[t].due})
    BY <1>2, TaskKinds DEF Ignored, NoOversleep, Enabled, Inv, TypeOK, Offset
  <2>3. task[t].due > 0
    BY <2>1, <2>2, MaxOfTwo
  <2>4. CaughtUp(t) = task[t].due
    BY <2>1, <2>3 DEF CaughtUp, Past
  <2>5. NextDue(t) = task[t].due
    BY <2>3, <2>4 DEF NextDue
  <2> QED
    BY <1>2, <2>5, TickedIs
<1> QED
  BY <1>1, <1>2

LEMMA EarliestSuffices ==
    ASSUME task' \in [Tasks -> RuntimeTask], wake' = Earliest(task')
    PROVE  NoOversleep'
BY EarliestIs DEF NoOversleep, Enabled

LEMMA NoOversleepStep == Inv /\ NoOversleep /\ [Next]_vars => NoOversleep'
<1> SUFFICES ASSUME Inv, NoOversleep, [Next]_vars PROVE NoOversleep'
  OBVIOUS
<1>1. CASE UNCHANGED vars
  BY <1>1 DEF vars, NoOversleep, Enabled
<1>2. CASE Start \/ LoopTick
  <2>1. TickAll /\ wake' = Earliest(task')
    BY <1>2 DEF Start, LoopTick
  <2> QED
    BY <2>1, TickAllIs, EarliestSuffices
<1>3. CASE CallerTick
  <2>1. TickAll /\ wake' = wake
    BY <1>3 DEF CallerTick
  <2> SUFFICES ASSUME wake # Never, wake > 0, NEW t \in Tasks, ~task'[t].disabled, task'[t].due # Never
               PROVE  wake <= Max({0, task'[t].due})
    BY <2>1 DEF NoOversleep, Enabled
  <2>2. ~task[t].disabled /\ task'[t] = Ticked(t)
    BY <2>1, TickAllIs
  <2>3. task'[t].due = task[t].due
    BY <2>2, CallerKeepsDue
  <2> QED
    BY <2>2, <2>3 DEF NoOversleep, Enabled
<1>4. CASE Advance
  <2>1. wake' = Moved(wake)
    BY <1>4, AdvanceIs
  <2> SUFFICES ASSUME wake' # Never, wake' > 0, NEW t \in Tasks, ~task'[t].disabled, task'[t].due # Never
               PROVE  wake' <= Max({0, task'[t].due})
    BY DEF NoOversleep, Enabled
  <2>2. wake \in Int /\ wake # Never /\ wake' = wake - 1
    BY <2>1, TaskKinds DEF Inv, TypeOK, Offset, Moved
  <2>3. ~task[t].disabled /\ task'[t].due = Moved(task[t].due)
    BY <1>4, AdvanceIs
  <2>4. task[t].due \in Int /\ task'[t].due = task[t].due - 1
    BY <2>3, DueInt DEF Moved
  <2>5. wake <= Max({0, task[t].due})
    BY <2>2, <2>3, <2>4, TaskKinds DEF NoOversleep, Enabled
  <2>6. wake <= task[t].due
    BY <2>2, <2>4, <2>5, MaxOfTwo
  <2>7. Max({0, task'[t].due}) = task'[t].due
    <3>1. task'[t].due \in Int /\ ~(task'[t].due <= 0)
      BY <2>2, <2>4, <2>6
    <3> QED
      BY <3>1, MaxOfTwo
  <2> QED
    BY <2>2, <2>4, <2>6, <2>7
<1>5. ASSUME NEW u \in Tasks, RunStep(u)
      PROVE  NoOversleep'
  <2>1. CASE Woken
    <3>1. CASE wake = Never
      BY <2>1, <3>1 DEF Woken, NoOversleep
    <3>2. CASE wake # Never
      BY <1>5, <2>1, <3>2, RunStepIs, EarliestSuffices DEF Woken
    <3> QED
      BY <3>1, <3>2
  <2>2. CASE wake' = wake /\ task'[u].due = task[u].due /\ task'[u].disabled = task[u].disabled
    <3>1. \A t \in Tasks : task'[t].due = task[t].due /\ task'[t].disabled = task[t].disabled
      BY <1>5, <2>2, RunStepIs
    <3> QED
      BY <2>2, <3>1 DEF NoOversleep, Enabled
  <2> QED
    BY <1>5, <2>1, <2>2, RunStepIs
<1>6. ASSUME NEW u \in Tasks, LeaseHeld(u) \/ LeaseNotHeld(u) \/ LeaseLost(u) \/ RunEnds(u)
      PROVE  NoOversleep'
  BY <1>5, <1>6 DEF RunStep
<1> QED
  BY <1>1, <1>2, <1>3, <1>4, <1>6 DEF Next

(* The loop never sleeps past the next instant of a task: whatever plans a *)
(* task earlier wakes it.                                                  *)
THEOREM NeverOversleeps == Spec => []NoOversleep
<1>1. Init => NoOversleep
  BY DEF Init, NoOversleep
<1> QED
  BY <1>1, InvInit, InvStep, NoOversleepStep, PTL DEF Spec

-----------------------------------------------------------------------------
(* An interval is planned when it is idle, and only then.                  *)

LEMMA IntervalStep == Inv /\ IntervalPlannedIffIdle /\ [Next]_vars => IntervalPlannedIffIdle'
<1> SUFFICES ASSUME Inv, IntervalPlannedIffIdle, [Next]_vars PROVE IntervalPlannedIffIdle'
  OBVIOUS
<1>1. CASE UNCHANGED vars
  BY <1>1 DEF vars, IntervalPlannedIffIdle, Enabled
<1>2. CASE TickAll
  <2> SUFFICES ASSUME NEW t \in Intervals, ~task'[t].disabled
               PROVE  task'[t].due = Never <=> task'[t].run # "idle"
    BY DEF IntervalPlannedIffIdle, Enabled
  <2>1. t \in Tasks /\ t \notin Crons /\ task'[t] = Ticked(t) /\ ~task[t].disabled
    BY <1>2, TickAllIs, TaskKinds
  <2>2. task[t].due = Never <=> task[t].run # "idle"
    BY <2>1 DEF IntervalPlannedIffIdle, Enabled
  <2>3. CASE Ignored(t)
    BY <2>1, <2>2, <2>3 DEF Ticked
  <2>4. CASE ~Ignored(t)
    <3>1. task[t].run = "idle" /\ task[t].due # Never
      BY <2>2, <2>4 DEF Ignored
    <3>2. CaughtUp(t) \in Nat
      BY <2>1, <3>1, CaughtUpType
    <3>3. ~FiresFirst(t)
      BY TaskKinds DEF FiresFirst, Inv, IntervalFiresLater
    <3>4. CASE CaughtUp(t) = 0
      <4>1. NextDue(t) = Never /\ Launches(t)
        BY <2>1, <2>4, <3>1, <3>3, <3>4 DEF NextDue, Launches
      <4> QED
        BY <2>1, <2>4, <4>1, TickedIs
    <3>5. CASE CaughtUp(t) # 0
      <4>1. NextDue(t) = CaughtUp(t) /\ ~Launches(t)
        BY <3>3, <3>5 DEF NextDue, Launches
      <4>2. NextDue(t) # Never
        <5>1. CaughtUp(t) \in Int
          BY <3>2
        <5> QED
          BY <4>1, <5>1, TaskKinds
      <4>3. Ticked(t).due = NextDue(t) /\ Ticked(t).run = task[t].run
        BY <2>1, <2>4, <4>1, TickedIs
      <4> QED
        BY <2>1, <3>1, <4>2, <4>3
    <3> QED
      BY <3>4, <3>5
  <2> QED
    BY <2>3, <2>4
<1>3. CASE Advance
  <2> SUFFICES ASSUME NEW t \in Intervals, ~task'[t].disabled
               PROVE  task'[t].due = Never <=> task'[t].run # "idle"
    BY DEF IntervalPlannedIffIdle, Enabled
  <2>1. t \in Tasks /\ ~task[t].disabled /\ task'[t].run = task[t].run
           /\ task'[t].due = Moved(task[t].due)
    BY <1>3, AdvanceIs, TaskKinds
  <2>2. task'[t].due = Never <=> task[t].due = Never
    BY <2>1, DueInt, TaskKinds DEF Moved
  <2> QED
    BY <2>1, <2>2 DEF IntervalPlannedIffIdle, Enabled
<1>4. ASSUME NEW u \in Tasks, RunStep(u)
      PROVE  IntervalPlannedIffIdle'
  <2> SUFFICES ASSUME NEW t \in Intervals, ~task'[t].disabled
               PROVE  task'[t].due = Never <=> task'[t].run # "idle"
    BY DEF IntervalPlannedIffIdle, Enabled
  <2>1. t \in Tasks /\ task[t] \in RuntimeTask
    BY TaskKinds DEF Inv, TypeOK
  <2>2. CASE t # u
    BY <1>4, <2>1, <2>2, RunStepIs DEF IntervalPlannedIffIdle, Enabled
  <2>3. CASE t = u
    <3>1. ~task[t].disabled
      BY <1>4, <2>1, <2>3, RunStepIs
    <3>2. CASE Finish(t)
      BY <2>1, <3>2, TaskKinds DEF Finish, RuntimeTask, Inv, TypeOK
    <3>3. CASE LeaseHeld(t)
      BY <2>1, <3>1, <3>3 DEF LeaseHeld, RuntimeTask, IntervalPlannedIffIdle, Enabled, Inv, TypeOK
    <3>4. CASE LeaseLost(t)
      BY <2>1, <3>4 DEF LeaseLost, RuntimeTask, Inv, TypeOK
    <3> QED
      BY <1>4, <2>3, <3>1, <3>2, <3>3, <3>4 DEF RunStep, LeaseNotHeld, RunEnds
  <2> QED
    BY <2>2, <2>3
<1>5. ASSUME NEW u \in Tasks, LeaseHeld(u) \/ LeaseNotHeld(u) \/ LeaseLost(u) \/ RunEnds(u)
      PROVE  IntervalPlannedIffIdle'
  BY <1>4, <1>5 DEF RunStep
<1> QED
  BY <1>1, <1>2, <1>3, <1>5 DEF Next, Start, LoopTick, CallerTick

(* A plan of an interval is neither lost with its run nor kept during it.  *)
THEOREM IntervalsPlanned == Spec => []IntervalPlannedIffIdle
<1>1. Init => IntervalPlannedIffIdle
  BY TaskKinds DEF Init, IntervalPlannedIffIdle
<1> QED
  BY <1>1, InvInit, InvStep, IntervalStep, PTL DEF Spec

-----------------------------------------------------------------------------
(* Where a cron task stands, if the search for the next instant is exact.  *)

(* At the first instant of its plan after the last tick.                   *)
PlannedNext ==
    \A t \in Crons :
        Enabled(t) =>
            /\ Fires(t, task[t].due) /\ task[t].due > ticked
            /\ \A d \in ticked + 1 .. task[t].due - 1 : ~Fires(t, d)

(* A cron task is to fire first exactly if its plan fires where the        *)
(* scheduler was constructed.                                              *)
FiresAtConstruction ==
    \A t \in Crons :
        /\ task[t].initialDue = 0 => ticked = 0 /\ Fires(t, 0)
        /\ task[t].firstTick /\ ticked = 0 /\ Fires(t, 0) => task[t].initialDue = 0

(* The first tick is the first of every task.                              *)
FirstTogether ==
    \/ \A t \in Tasks : /\ task[t].firstTick /\ task[t].run = "idle"
                        /\ ~task[t].disabled /\ task[t].due # Never
    \/ \A t \in Tasks : ~task[t].firstTick

CronInv == FiresAtConstruction /\ FirstTogether

LEMMA CronInvInit == Init /\ SearchIsExact => CronInv
<1> SUFFICES ASSUME Init, SearchIsExact PROVE CronInv
  OBVIOUS
<1>1. Inv
  BY InvInit
<1>2. FirstTogether
  <2>1. ASSUME NEW t \in Tasks PROVE task[t].due # Never
    <3>1. CASE t \in Crons
      BY <1>1, <3>1, TaskKinds DEF Inv, CronIsPlanned
    <3>2. CASE t \in Intervals /\ t \notin Crons
      <4>1. task[t].due = Every[t]
        BY <3>2 DEF Init
      <4> QED
        BY <3>2, <4>1, TaskKinds
    <3> QED
      BY <3>1, <3>2, TaskKinds
  <2>2. \A t \in Tasks : task[t].firstTick /\ task[t].run = "idle" /\ ~task[t].disabled
    BY DEF Init
  <2> QED
    BY <2>1, <2>2 DEF FirstTogether
<1>3. ASSUME NEW t \in Crons PROVE NextAtOrAfter(t, 0) = 0 <=> Fires(t, 0)
  <2>1. NextAtOrAfter(t, 0) = NextAfter(t, -1)
    BY DEF NextAtOrAfter
  <2>2. /\ Fires(t, NextAfter(t, -1))
        /\ \A e \in -1 + 1 .. NextAfter(t, -1) - 1 : ~Fires(t, e)
    BY <1>1, NextAfterIsNext DEF Inv
  <2>3. NextAfter(t, -1) \in Nat
    BY <1>1, <2>1, NextAtOrAfterType DEF Inv
  <2>4. CASE NextAfter(t, -1) = 0
    BY <2>1, <2>2, <2>4
  <2>5. CASE NextAfter(t, -1) # 0
    <3>1. 0 \in -1 + 1 .. NextAfter(t, -1) - 1
      BY <2>3, <2>5
    <3> QED
      BY <2>1, <2>2, <2>5, <3>1
  <2> QED
    BY <2>4, <2>5
<1>4. \A t \in Crons : task[t].initialDue = 0 <=> NextAtOrAfter(t, 0) = 0
  BY TaskKinds DEF Init
<1>5. FiresAtConstruction
  BY <1>3, <1>4 DEF Init, FiresAtConstruction
<1> QED
  BY <1>2, <1>5 DEF CronInv

LEMMA FiresSame ==
    ASSUME phase' = phase, NEW t \in Crons, NEW d \in Int
    PROVE  Fires(t, d)' <=> Fires(t, d)
BY DEF Fires

LEMMA CronInvStep == Inv /\ CronInv /\ [Next]_vars => CronInv'
<1> SUFFICES ASSUME Inv, CronInv, [Next]_vars PROVE CronInv'
  OBVIOUS
<1>1. CASE UNCHANGED vars
  BY <1>1 DEF vars, CronInv, FiresAtConstruction, FirstTogether, Fires
<1>2. CASE TickAll
  <2>1. /\ phase' = phase /\ ticked' = 0
        /\ \A t \in Tasks : task'[t] = Ticked(t)
    BY <1>2, TickAllIs
  <2>2. \A t \in Tasks : ~Ignored(t) => ~task'[t].firstTick /\ task'[t].initialDue = Never
    BY <2>1, TickedIs
  <2>3. \A t \in Tasks : Ignored(t) => task'[t] = task[t]
    BY <2>1 DEF Ticked
  <2>4. \A t \in Tasks : ~task'[t].firstTick
    <3>1. CASE \A t \in Tasks : /\ task[t].firstTick /\ task[t].run = "idle"
                                /\ ~task[t].disabled /\ task[t].due # Never
      BY <2>2, <3>1 DEF Ignored
    <3>2. CASE \A t \in Tasks : ~task[t].firstTick
      BY <2>2, <2>3, <3>2
    <3> QED
      BY <3>1, <3>2 DEF CronInv, FirstTogether
  <2>5. ASSUME NEW t \in Crons, task'[t].initialDue = 0
        PROVE  Fires(t, 0)'
    <3>1. t \in Tasks /\ Never # 0
      BY TaskKinds
    <3>2. task[t].initialDue = 0
      BY <2>2, <2>3, <2>5, <3>1
    <3>3. Fires(t, 0)
      BY <3>2 DEF CronInv, FiresAtConstruction
    <3> QED
      BY <2>1, <3>3, FiresSame
  <2> QED
    BY <2>1, <2>4, <2>5, TaskKinds DEF CronInv, FiresAtConstruction, FirstTogether
<1>3. CASE Advance
  <2>1. ticked' # 0
    BY <1>3, AdvanceIs DEF Inv, TypeOK, TickIsPast
  <2>2. FiresAtConstruction'
    BY <1>3, <2>1, AdvanceIs, TaskKinds DEF FiresAtConstruction
  <2>3. ASSUME NEW t \in Tasks, task[t].due # Never, ~task[t].disabled
        PROVE  task'[t].due # Never
    BY <1>3, <2>3, AdvanceIs, DueInt, TaskKinds DEF Moved
  <2>4. FirstTogether'
    BY <1>3, <2>3, AdvanceIs DEF CronInv, FirstTogether
  <2> QED
    BY <2>2, <2>4 DEF CronInv
<1>4. ASSUME NEW u \in Tasks, RunStep(u)
      PROVE  CronInv'
  <2>1. /\ phase' = phase /\ ticked' = ticked
        /\ \A t \in Tasks : /\ task'[t].firstTick = task[t].firstTick
                            /\ task'[t].initialDue = task[t].initialDue
        /\ task[u].run # "idle"
    BY <1>4, RunStepIs
  <2>2. \A t \in Tasks : ~task[t].firstTick
    BY <2>1 DEF CronInv, FirstTogether
  <2>3. FiresAtConstruction'
    <3>1. \A t \in Crons : Fires(t, 0)' <=> Fires(t, 0)
      BY <2>1, FiresSame
    <3> QED
      BY <2>1, <2>2, <3>1, TaskKinds DEF CronInv, FiresAtConstruction
  <2> QED
    BY <2>1, <2>2, <2>3 DEF CronInv, FirstTogether
<1>5. ASSUME NEW u \in Tasks, LeaseHeld(u) \/ LeaseNotHeld(u) \/ LeaseLost(u) \/ RunEnds(u)
      PROVE  CronInv'
  BY <1>4, <1>5 DEF RunStep
<1> QED
  BY <1>1, <1>2, <1>3, <1>5 DEF Next, Start, LoopTick, CallerTick

(* Where a tick leaves a cron task: at the first instant after now.        *)
LEMMA DueAfterTick ==
    ASSUME SearchIsExact, Inv, CronInv, PlannedNext, NEW t \in Crons, ~task[t].disabled
    PROVE  /\ NextDue(t) > 0 /\ Fires(t, NextDue(t))
           /\ \A d \in 1 .. NextDue(t) - 1 : ~Fires(t, d)
<1> DEFINE due == task[t].due
<1>1. due \in Int /\ ticked \in Int /\ ticked <= 0 /\ t \in Tasks
  BY TaskKinds DEF Inv, TypeOK, CronIsPlanned, TickIsPast
<1>2. Fires(t, due) /\ due > ticked /\ \A d \in ticked + 1 .. due - 1 : ~Fires(t, d)
  BY DEF PlannedNext, Enabled
<1>3. \A d \in 1 .. due - 1 : ~Fires(t, d)
  <2>1. \A d \in 1 .. due - 1 : d \in ticked + 1 .. due - 1
    BY <1>1
  <2> QED
    BY <1>2, <2>1
<1>4. CASE FiresFirst(t)
  <2>1. ticked = 0
    BY <1>4 DEF FiresFirst, CronInv, FiresAtConstruction
  <2> QED
    BY <1>2, <1>3, <1>4, <2>1 DEF NextDue
<1>5. CASE ~FiresFirst(t) /\ CaughtUp(t) # 0 /\ ~Past(task[t])
  <2>1. CaughtUp(t) = due /\ due > 0
    BY <1>1, <1>5, TaskKinds DEF CaughtUp, Past
  <2> QED
    BY <1>2, <1>3, <1>5, <2>1 DEF NextDue
<1>6. CASE ~FiresFirst(t) /\ CaughtUp(t) # 0 /\ Past(task[t])
  <2>1. CaughtUp(t) = NextAfter(t, -1)
    BY <1>6 DEF CaughtUp, NextAtOrAfter
  <2>2. NextAfter(t, -1) \in Nat
    BY NextAtOrAfterType DEF NextAtOrAfter, Inv
  <2>3. /\ Fires(t, NextAfter(t, -1))
        /\ \A e \in -1 + 1 .. NextAfter(t, -1) - 1 : ~Fires(t, e)
    BY NextAfterIsNext DEF Inv
  <2>4. \A d \in 1 .. NextAfter(t, -1) - 1 : d \in -1 + 1 .. NextAfter(t, -1) - 1
    BY <2>2
  <2>5. NextDue(t) = NextAfter(t, -1)
    BY <1>6, <2>1 DEF NextDue
  <2> QED
    BY <1>6, <2>1, <2>2, <2>3, <2>4, <2>5
<1>7. CASE ~FiresFirst(t) /\ CaughtUp(t) = 0
  <2>1. NextDue(t) = NextAfter(t, 0)
    BY <1>7 DEF NextDue
  <2>2. NextAfter(t, 0) > 0
    BY NextAfterType DEF Inv
  <2>3. /\ Fires(t, NextAfter(t, 0))
        /\ \A e \in 0 + 1 .. NextAfter(t, 0) - 1 : ~Fires(t, e)
    BY NextAfterIsNext DEF Inv
  <2> QED
    BY <2>1, <2>2, <2>3
<1> QED
  BY <1>4, <1>5, <1>6, <1>7

LEMMA PlannedStep ==
    ASSUME SearchIsExact, Inv, CronInv, PlannedNext, [Next]_vars
    PROVE  PlannedNext'
<1>1. CASE UNCHANGED vars
  BY <1>1 DEF vars, PlannedNext, Enabled, Fires
<1>2. CASE TickAll
  <2> SUFFICES ASSUME NEW t \in Crons, ~task'[t].disabled
               PROVE  /\ Fires(t, task[t].due)' /\ task'[t].due > ticked'
                      /\ \A d \in ticked' + 1 .. task'[t].due - 1 : ~Fires(t, d)'
    BY DEF PlannedNext, Enabled
  <2>1. /\ phase' = phase /\ ticked' = 0
        /\ t \in Tasks /\ task'[t] = Ticked(t) /\ ~task[t].disabled
    BY <1>2, TickAllIs, TaskKinds
  <2>2. ~Ignored(t)
    BY <2>1, TaskKinds DEF Ignored, Inv, CronIsPlanned
  <2>3. task'[t].due = NextDue(t)
    BY <2>1, <2>2, TickedIs
  <2>4. /\ NextDue(t) > 0 /\ Fires(t, NextDue(t))
        /\ \A d \in 1 .. NextDue(t) - 1 : ~Fires(t, d)
    BY <2>1, DueAfterTick
  <2>5. ticked' + 1 .. task'[t].due - 1 = 1 .. NextDue(t) - 1
    BY <2>1, <2>3
  <2> QED
    BY <2>1, <2>3, <2>4, <2>5 DEF Fires
<1>3. CASE Advance
  <2> SUFFICES ASSUME NEW t \in Crons, ~task'[t].disabled
               PROVE  /\ Fires(t, task[t].due)' /\ task'[t].due > ticked'
                      /\ \A d \in ticked' + 1 .. task'[t].due - 1 : ~Fires(t, d)'
    BY DEF PlannedNext, Enabled
  <2>1. t \in Tasks /\ ~task[t].disabled /\ ticked' = ticked - 1
           /\ phase' = (phase + 1) % Cycle /\ task'[t].due = Moved(task[t].due)
    BY <1>3, AdvanceIs, TaskKinds
  <2>2. task[t].due \in Int /\ ticked \in Int
    BY DEF Inv, TypeOK, CronIsPlanned
  <2>3. task'[t].due = task[t].due - 1
    BY <2>1, <2>2, TaskKinds DEF Moved
  <2>4. /\ Fires(t, task[t].due) /\ task[t].due > ticked
        /\ \A d \in ticked + 1 .. task[t].due - 1 : ~Fires(t, d)
    BY <2>1 DEF PlannedNext, Enabled
  <2>5. \A d \in Int : Fires(t, d)' <=> Fires(t, d + 1)
    BY <2>1, FiresLater DEF Inv
  <2>6. Fires(t, task[t].due)'
    <3>1. (phase' + task'[t].due) % Cycle \in Instants[t] <=> Fires(t, task'[t].due + 1)
      BY <2>2, <2>3, <2>5 DEF Fires
    <3>2. task'[t].due + 1 = task[t].due
      BY <2>2, <2>3
    <3> QED
      BY <2>4, <3>1, <3>2 DEF Fires
  <2>7. ASSUME NEW d \in ticked' + 1 .. task'[t].due - 1 PROVE ~Fires(t, d)'
    <3>1. d \in Int /\ d + 1 \in ticked + 1 .. task[t].due - 1
      BY <2>1, <2>2, <2>3
    <3> QED
      BY <2>4, <2>5, <3>1
  <2> QED
    BY <2>1, <2>2, <2>3, <2>4, <2>6, <2>7
<1>4. ASSUME NEW u \in Tasks, RunStep(u)
      PROVE  PlannedNext'
  <2>1. /\ phase' = phase /\ ticked' = ticked
        /\ \A t \in Crons : /\ task'[t].due = task[t].due
                            /\ task[t].disabled => task'[t].disabled
    BY <1>4, RunStepIs, TaskKinds
  <2> QED
    BY <2>1 DEF PlannedNext, Enabled, Fires
<1>5. ASSUME NEW u \in Tasks, LeaseHeld(u) \/ LeaseNotHeld(u) \/ LeaseLost(u) \/ RunEnds(u)
      PROVE  PlannedNext'
  BY <1>4, <1>5 DEF RunStep
<1> QED
  BY <1>1, <1>2, <1>3, <1>5 DEF Next, Start, LoopTick, CallerTick

LEMMA PlannedInit == Init /\ SearchIsExact => PlannedNext
<1> SUFFICES ASSUME Init, SearchIsExact, NEW t \in Crons
             PROVE  /\ Fires(t, task[t].due) /\ task[t].due > ticked
                    /\ \A d \in ticked + 1 .. task[t].due - 1 : ~Fires(t, d)
  BY DEF PlannedNext
<1>1. Inv
  BY InvInit
<1>2. task[t].due = NextAfter(t, 0) /\ ticked = 0
  BY TaskKinds DEF Init
<1>3. NextAfter(t, 0) \in Int /\ NextAfter(t, 0) > 0
  BY <1>1, NextAfterType DEF Inv
<1>4. /\ Fires(t, NextAfter(t, 0))
      /\ \A e \in 0 + 1 .. NextAfter(t, 0) - 1 : ~Fires(t, e)
  BY <1>1, NextAfterIsNext DEF Inv
<1> QED
  BY <1>2, <1>3, <1>4

-----------------------------------------------------------------------------
(* When a cron task starts.                                                *)

(* The tick comes at an instant that it has not seen.                      *)
LEMMA CaughtUpFires ==
    ASSUME SearchIsExact, Inv, PlannedNext, NEW t \in Crons, ~task[t].disabled
    PROVE  CaughtUp(t) = 0 <=> ticked < 0 /\ Fires(t, 0)
<1> DEFINE due == task[t].due
<1>1. due \in Int /\ ticked \in Int /\ ticked <= 0 /\ t \in Tasks /\ Never \notin Int
  BY TaskKinds DEF Inv, TypeOK, CronIsPlanned, TickIsPast
<1>2. Fires(t, due) /\ due > ticked /\ \A d \in ticked + 1 .. due - 1 : ~Fires(t, d)
  BY DEF PlannedNext, Enabled
<1>3. CASE Past(task[t])
  <2>1. CaughtUp(t) = NextAfter(t, -1) /\ due < 0
    BY <1>3 DEF CaughtUp, NextAtOrAfter, Past
  <2>2. /\ Fires(t, NextAfter(t, -1))
        /\ \A e \in -1 + 1 .. NextAfter(t, -1) - 1 : ~Fires(t, e)
    BY NextAfterIsNext DEF Inv
  <2>3. NextAfter(t, -1) \in Nat
    BY NextAtOrAfterType DEF NextAtOrAfter, Inv
  <2>4. NextAfter(t, -1) # 0 => 0 \in -1 + 1 .. NextAfter(t, -1) - 1
    BY <2>3
  <2>5. ticked < 0
    BY <1>1, <1>2, <2>1
  <2> QED
    BY <2>1, <2>2, <2>4, <2>5
<1>4. CASE ~Past(task[t])
  <2>1. CaughtUp(t) = due /\ due >= 0
    BY <1>1, <1>4 DEF CaughtUp, Past
  <2>2. due # 0 /\ ticked < 0 => 0 \in ticked + 1 .. due - 1
    BY <1>1, <2>1
  <2> QED
    BY <1>1, <1>2, <2>1, <2>2
<1> QED
  BY <1>3, <1>4

LEMMA StartsAtTick ==
    ASSUME SearchIsExact, Inv, CronInv, PlannedNext, TickAll,
           NEW t \in Crons, ~task[t].disabled, task[t].run = "idle"
    PROVE  task'[t].run # "idle" <=> Tick /\ Fires(t, 0)
<1> DEFINE due == task[t].due
<1>1. due \in Int /\ ticked \in Int /\ ticked <= 0 /\ t \in Tasks /\ Never \notin Int
  BY TaskKinds DEF Inv, TypeOK, CronIsPlanned, TickIsPast
<1>2. Fires(t, due) /\ due > ticked /\ \A d \in ticked + 1 .. due - 1 : ~Fires(t, d)
  BY DEF PlannedNext, Enabled
<1>3. ticked' = 0 /\ task'[t] = Ticked(t) /\ ~Ignored(t)
  BY <1>1, TickAllIs DEF Ignored
<1>4. task'[t].run # "idle" <=> Launches(t)
  BY <1>1, <1>3, TickedIs
<1>5. Launches(t) <=> FiresFirst(t) \/ CaughtUp(t) = 0
  BY <1>3 DEF Launches
<1>6. FiresFirst(t) <=> task[t].firstTick /\ ticked = 0 /\ Fires(t, 0)
  BY DEF FiresFirst, CronInv, FiresAtConstruction
<1>7. CaughtUp(t) = 0 <=> ticked < 0 /\ Fires(t, 0)
  BY CaughtUpFires
<1>8. Tick <=> ticked < 0 \/ \E u \in Tasks : task[u].firstTick
  BY <1>3 DEF Tick
<1>9. (\E u \in Tasks : task[u].firstTick) <=> task[t].firstTick
  BY <1>1 DEF CronInv, FirstTogether
<1> QED
  BY <1>1, <1>4, <1>5, <1>6, <1>7, <1>8, <1>9

LEMMA StartsStep ==
    ASSUME SearchIsExact, Inv, CronInv, PlannedNext, [Next]_vars
    PROVE  [\A t \in Crons : Enabled(t) /\ task[t].run = "idle" =>
               (task'[t].run # "idle" <=> Tick /\ Fires(t, 0))]_vars
<1> SUFFICES ASSUME vars' # vars, NEW t \in Crons, ~task[t].disabled, task[t].run = "idle"
             PROVE  task'[t].run # "idle" <=> Tick /\ Fires(t, 0)
  BY DEF Enabled
<1>1. CASE TickAll
  BY <1>1, StartsAtTick
<1>2. CASE Advance
  <2>1. task'[t].run = "idle" /\ ticked' # 0
    BY <1>2, AdvanceIs, TaskKinds DEF Inv, TypeOK, TickIsPast
  <2> QED
    BY <2>1 DEF Tick
<1>3. ASSUME NEW u \in Tasks, RunStep(u)
      PROVE  task'[t].run # "idle" <=> Tick /\ Fires(t, 0)
  <2>1. task[u].run # "idle" /\ ticked' = ticked /\ task'[t].run = "idle"
    BY <1>3, RunStepIs, TaskKinds
  <2>2. \A v \in Tasks : ~task[v].firstTick
    BY <2>1 DEF CronInv, FirstTogether
  <2>3. ~Tick
    BY <2>1, <2>2 DEF Tick
  <2> QED
    BY <2>1, <2>3
<1>4. ASSUME NEW u \in Tasks, LeaseHeld(u) \/ LeaseNotHeld(u) \/ LeaseLost(u) \/ RunEnds(u)
      PROVE  task'[t].run # "idle" <=> Tick /\ Fires(t, 0)
  BY <1>3, <1>4 DEF RunStep
<1> QED
  BY <1>1, <1>2, <1>4 DEF Next, Start, LoopTick, CallerTick

(* An idle cron task starts with the first tick at an instant of its plan  *)
(* and at no other time: nothing is caught up later.                       *)
THEOREM CronStarts ==
    ASSUME SearchIsExact
    PROVE  Spec => CronStartsAtItsInstants
<1>1. Init => Inv /\ CronInv /\ PlannedNext
  BY InvInit, CronInvInit, PlannedInit
<1>2. Inv /\ CronInv /\ PlannedNext /\ [Next]_vars
         => (Inv /\ CronInv /\ PlannedNext)'
  BY InvStep, CronInvStep, PlannedStep
<1>3. Inv /\ CronInv /\ PlannedNext /\ [Next]_vars
         => [\A t \in Crons : Enabled(t) /\ task[t].run = "idle" =>
                (task'[t].run # "idle" <=> Tick /\ Fires(t, 0))]_vars
  BY StartsStep
<1> QED
  BY <1>1, <1>2, <1>3, PTL DEF Spec, CronStartsAtItsInstants

-----------------------------------------------------------------------------
(* What a tick answers for.                                                *)

AnswerStep(t) ==
    LET fired == {d \in {0} : task[t].run = "idle" /\ task'[t].run # "idle"}
    IN  /\ reported'[t] \cup fired = {d \in Passed(t) : d = 0 \/ \A e \in Passed(t) : d <= e}
        /\ reported'[t] \cap fired = {}

(* The first instant passed is where the task stood, and the search that   *)
(* catches up finds the instant the tick comes at.                         *)
LEMMA TickAnswers ==
    ASSUME SearchIsExact, Inv, CronInv, PlannedNext, TickAll, ticked < 0,
           NEW t \in Crons, ~task[t].disabled
    PROVE  AnswerStep(t)
<1> DEFINE due == task[t].due
           idle == task[t].run = "idle"
<1>1. due \in Int /\ ticked \in Int /\ t \in Tasks /\ Never \notin Int
  BY TaskKinds DEF Inv, TypeOK, CronIsPlanned
<1>2. Fires(t, due) /\ due > ticked /\ \A d \in ticked + 1 .. due - 1 : ~Fires(t, d)
  BY DEF PlannedNext, Enabled
<1>3. task'[t] = Ticked(t) /\ reported'[t] = Skipped(t) /\ ~Ignored(t)
  BY <1>1, TickAllIs DEF Ignored
<1>4. ~FiresFirst(t)
  BY <1>1 DEF FiresFirst, CronInv, FiresAtConstruction
<1>5. idle => (task'[t].run # "idle" <=> CaughtUp(t) = 0)
  BY <1>1, <1>3, <1>4, TickedIs DEF Launches
<1>6. Skipped(t) = {d \in {due} : due < 0} \cup {d \in {0} : CaughtUp(t) = 0 /\ ~idle}
  BY <1>1, <1>3, <1>4 DEF Skipped, Past
<1>7. CaughtUp(t) = 0 <=> Fires(t, 0)
  BY <1>1, CaughtUpFires
<1> DEFINE fired == {d \in {0} : idle /\ task'[t].run # "idle"}
<1>8. fired = {d \in {0} : idle /\ Fires(t, 0)}
  BY <1>5, <1>7
<1>9. Skipped(t) = {d \in {due} : due < 0} \cup {d \in {0} : ~idle /\ Fires(t, 0)}
  BY <1>6, <1>7
<1>10. \A d \in Passed(t) : due <= d
  BY <1>1, <1>2 DEF Passed
<1>11. due <= 0 => due \in Passed(t)
  BY <1>1, <1>2 DEF Passed
<1>12. 0 \in Passed(t) <=> Fires(t, 0)
  BY <1>1 DEF Passed
<1>13. Passed(t) \subseteq Int
  BY <1>1 DEF Passed
<1>14. {d \in Passed(t) : d = 0 \/ \A e \in Passed(t) : d <= e}
          = {d \in {due} : due < 0} \cup {d \in {0} : Fires(t, 0)}
  <2>1. ASSUME NEW d \in Passed(t), d # 0, \A e \in Passed(t) : d <= e
        PROVE  d = due /\ due < 0
    <3>1. d \in Int /\ d <= 0 /\ due <= d
      BY <1>1, <1>10, <2>1 DEF Passed
    <3> QED
      BY <1>1, <1>11, <2>1, <3>1
  <2>2. \A d \in Passed(t) : d = 0 => Fires(t, 0)
    BY <1>12
  <2>3. due < 0 => due \in Passed(t) /\ \A e \in Passed(t) : due <= e
    BY <1>1, <1>10, <1>11
  <2> QED
    BY <1>12, <2>1, <2>2, <2>3
<1>15. Skipped(t) \cup fired = {d \in {due} : due < 0} \cup {d \in {0} : Fires(t, 0)}
  BY <1>8, <1>9
<1>16. Skipped(t) \cap fired = {}
  BY <1>1, <1>8, <1>9
<1> HIDE DEF due, idle
<1> QED
  BY <1>3, <1>14, <1>15, <1>16 DEF AnswerStep, idle

LEMMA AnswersStep ==
    ASSUME SearchIsExact, Inv, CronInv, PlannedNext, [Next]_vars
    PROVE  [\A t \in Crons : Enabled(t) /\ ticked < 0 /\ ticked' = 0 => AnswerStep(t)]_vars
<1> SUFFICES ASSUME vars' # vars, NEW t \in Crons, ~task[t].disabled, ticked < 0, ticked' = 0
             PROVE  AnswerStep(t)
  BY DEF Enabled
<1>1. CASE TickAll
  BY <1>1, TickAnswers
<1>2. CASE Advance
  BY <1>2, AdvanceIs DEF Inv, TypeOK, TickIsPast
<1>3. ASSUME NEW u \in Tasks, LeaseHeld(u) \/ LeaseNotHeld(u) \/ LeaseLost(u) \/ RunEnds(u)
      PROVE  AnswerStep(t)
  <2>1. ticked' = ticked /\ ticked \in Int
    BY <1>3, RunStepIs DEF RunStep, Inv, TypeOK
  <2> QED
    BY <2>1
<1> QED
  BY <1>1, <1>2, <1>3 DEF Next, Start, LoopTick, CallerTick

(* However late a tick comes, it answers for the first instant that passed *)
(* and for the one it comes at, once each, if the search finds the next.   *)
THEOREM PassedAnswered ==
    ASSUME SearchIsExact
    PROVE  Spec => AnswersForPassedInstants
<1>1. Init => Inv /\ CronInv /\ PlannedNext
  BY InvInit, CronInvInit, PlannedInit
<1>2. Inv /\ CronInv /\ PlannedNext /\ [Next]_vars
         => (Inv /\ CronInv /\ PlannedNext)'
  BY InvStep, CronInvStep, PlannedStep
<1>3. Inv /\ CronInv /\ PlannedNext /\ [Next]_vars
         => [\A t \in Crons : Enabled(t) /\ ticked < 0 /\ ticked' = 0 => AnswerStep(t)]_vars
  BY AnswersStep
<1> QED
  BY <1>1, <1>2, <1>3, PTL DEF Spec, AnswersForPassedInstants, AnswerStep
=============================================================================
