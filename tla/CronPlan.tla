------------------------------ MODULE CronPlan ------------------------------
(***************************************************************************)
(* The instants of a cron expression in a time zone whose wall clock is    *)
(* put forward and back (packages/jobs/src/schedule/cron.ts): the search   *)
(* for the next one, day by day over wall times.                           *)
(*                                                                         *)
(* Instants and wall times are integers of one unit.  The zone and the     *)
(* calendar repeat after Cycle units.  Wall time w is time w % Day of date *)
(* w \div Day.                                                             *)
(***************************************************************************)
EXTENDS Integers, FiniteSets, FiniteSetsExt

CONSTANTS
    Hour, Day,  \* in units; a day has at least one unit in a quarter
    Cycle,
    Zone,       \* Zone[i % Cycle]: what the wall clock is ahead at instant i
    Calendar,   \* Calendar[d % (Cycle \div Day)]: month, day, weekday of date d
    SearchDays  \* MAX_SEARCH_DAYS

Dates == Cycle \div Day

ASSUME CalendarAssumption ==
    /\ Hour \in Nat \ {0} /\ Day \in Nat \ {0} /\ Cycle \in Nat \ {0}
    /\ Day % Hour = 0 /\ Day % 4 = 0 /\ Cycle % Day = 0
    /\ Zone \in [0 .. Cycle - 1 -> Int]
    /\ Calendar \in [0 .. Dates - 1 -> [month : 1 .. 12, day : 1 .. 31, weekday : 0 .. 6]]
    /\ SearchDays \in Nat \ {0}

-----------------------------------------------------------------------------
(* A field of an expression: its segments, "first-last/step", of which a   *)
(* lone "*" makes a wildcard.  "*/2" is none.                              *)
ParseField(segments) ==
    [matches |-> UNION {{v \in s.first .. s.last : (v - s.first) % s.step = 0} : s \in segments},
     wildcard |-> \E s \in segments : segments = {s} /\ s.star]

(* 7 is Sunday, as 0 is.                                                   *)
ParseWeekdays(segments) ==
    [ParseField(segments) EXCEPT !.matches = {v % 7 : v \in @}]

(* Days of the month and of the week: either, when neither is a wildcard.  *)
DateMatches(plan, date) ==
    LET on == Calendar[date % Dates]
        day == on.day \in plan.days.matches
        weekday == on.weekday \in plan.weekdays.matches
    IN  /\ on.month \in plan.months.matches
        /\ IF plan.days.wildcard \/ plan.weekdays.wildcard
           THEN (plan.days.wildcard \/ day) /\ (plan.weekdays.wildcard \/ weekday)
           ELSE day \/ weekday

Times(plan) == {h * Hour + m : h \in plan.hours.matches, m \in plan.minutes.matches}

-----------------------------------------------------------------------------
(* Wall times and instants.                                                *)

OffsetAt(instant) == Zone[instant % Cycle]

Local(instant) == instant + OffsetAt(instant)

(* Sampled from a day and a half before to a day and a half after.         *)
OffsetsNear(wall) == {OffsetAt(wall + k * (Day \div 4)) : k \in -6 .. 6}

(* The earlier instant of a wall time that comes twice; one that a gap     *)
(* leaves out moves forward.                                               *)
ResolveWallTime(wall) ==
    LET exact == {i \in {wall - o : o \in OffsetsNear(wall)} : Local(i) = wall}
    IN  IF exact # {} THEN Min(exact) ELSE wall - Min(OffsetsNear(wall))

(* The times of a date that the clock leaves out, one set for each time it *)
(* is put forward.                                                         *)
GapRanges(date) ==
    LET start == date * Day
        scanned == (start - Day - Day \div 2) + 1 .. start + 2 * Day + Day \div 2
        forward == {i \in scanned : OffsetAt(i) > OffsetAt(i - 1)}
    IN  {{w - start : w \in (Local(i - 1) + 1 .. Local(i) - 1) \cap (start .. start + Day - 1)} :
            i \in forward}

-----------------------------------------------------------------------------
(* The search.                                                             *)

(* The first of some times of a date that lies after an instant.           *)
FirstAfter(times, date, after) ==
    LET later == {s \in times : ResolveWallTime(date * Day + s) > after}
    IN  IF later = {} THEN {} ELSE {ResolveWallTime(date * Day + Min(later))}

(* Times in a gap are looked for apart, because they move past others.     *)
CandidatesOnDate(plan, date, threshold, after) ==
    FirstAfter({s \in Times(plan) : s > threshold}, date, after)
        \cup UNION {FirstAfter(Times(plan) \cap gap, date, after) : gap \in GapRanges(date)}

(* nextAfter: the first date with a candidate decides.                     *)
NextInstant(plan, after) ==
    LET today == Local(after) \div Day
        Candidates(k) ==
            IF DateMatches(plan, today + k)
            THEN CandidatesOnDate(plan, today + k, IF k = 0 THEN Local(after) % Day ELSE -1, after)
            ELSE {}
        found == {k \in 0 .. SearchDays - 1 : Candidates(k) # {}}
    IN  Min(Candidates(Min(found)))

-----------------------------------------------------------------------------
(* What the search is for (schedule/SPEC.md section 5), by definition and  *)
(* not by search.                                                          *)

Owners(wall) ==
    {i \in {wall - Zone[p] : p \in DOMAIN Zone} : Local(i) = wall}

(* Temporal's "compatible" rule: a gap moves forward by its own length.    *)
Compatible(wall) ==
    IF Owners(wall) # {} THEN Min(Owners(wall))
    ELSE LET forward == {i \in wall - Cycle .. wall + Cycle : Local(i - 1) < wall /\ wall < Local(i)}
         IN  wall - OffsetAt(Min(forward) - 1)

IsInstant(plan, instant) ==
    \E wall \in instant - Cycle .. instant + Cycle :
        /\ DateMatches(plan, wall \div Day)
        /\ wall % Day \in Times(plan)
        /\ Compatible(wall) = instant
=============================================================================
