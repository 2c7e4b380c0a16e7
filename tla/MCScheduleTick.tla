--------------------------- MODULE MCScheduleTick ---------------------------
(***************************************************************************)
(* Instances of the scheduler's clockwork for TLC: a cron task, and two    *)
(* intervals of which one asks for a lease.  The zone has two days in      *)
(* which the clock is put forward by an hour and back again: the first     *)
(* hour of date 0 is left out, and that of date 1 comes twice.             *)
(***************************************************************************)
EXTENDS ScheduleTickProperties, TLC

CONSTANTS report, sweep, probe

Periods == (sweep :> 2 @@ probe :> 3)

Summer == [p \in 0 .. 7 |-> IF p < 4 THEN 2 ELSE 0]

TwoDays == [d \in 0 .. 1 |-> [month |-> 1, day |-> d + 1, weekday |-> d]]

Star(least, most) == {[first |-> least, last |-> most, step |-> 1, star |-> TRUE]}

Number(n) == {[first |-> n, last |-> n, step |-> 1, star |-> FALSE]}

Daily(minutes) ==
    [minutes |-> ParseField(minutes), hours |-> ParseField(Number(0)),
     days |-> ParseField(Star(1, 31)), months |-> ParseField(Star(1, 12)),
     weekdays |-> ParseWeekdays(Star(0, 7))]

(* Half past the first hour of the day.                                    *)
HalfPast == (report :> Daily(Number(1)))

(* With an hour of four units: a quarter past it and half past it, where   *)
(* the clock is put forward by half an hour.                               *)
QuarterAndHalf == (report :> Daily(Number(1) \cup Number(2)))
(* Every expression over the fields of this small calendar.                *)
Fields(values) == {[matches |-> m, wildcard |-> FALSE] : m \in SUBSET values \ {{}}}

Plans == [minutes : Fields(0 .. Hour - 1), hours : Fields(0 .. Day \div Hour - 1),
          days : Fields(1 .. 2) \cup {ParseField(Star(1, 31))},
          months : {ParseField(Star(1, 12))},
          weekdays : Fields(0 .. 1) \cup {ParseWeekdays(Star(0, 7))}]

(* The clock is put forward by an hour, on the hour, not over midnight.    *)
ForwardByHours ==
    \A p \in 0 .. Cycle - 1 :
        OffsetAt(p) > OffsetAt(p - 1) =>
            /\ OffsetAt(p) - OffsetAt(p - 1) = Hour
            /\ Local(p) % Hour = 0 /\ Local(p) % Day # 0

(* In such a zone the search finds the next instant, for every expression  *)
(* and from everywhere.                                                    *)
ASSUME SearchFindsTheNext ==
    ForwardByHours =>
        \A plan \in Plans, p \in 0 .. Cycle - 1 :
            LET next == NextInstant(plan, p)
            IN  /\ IsInstant(plan, next)
                /\ \A between \in p + 1 .. next - 1 : ~IsInstant(plan, between)
=============================================================================
