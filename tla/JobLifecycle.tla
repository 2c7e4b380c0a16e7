---------------------------- MODULE JobLifecycle ----------------------------
(***************************************************************************)
(* What the queue promises a caller about one job, with no worker, lease   *)
(* or holder in sight: a submitted job is attempted; every attempt that is *)
(* recorded counts once; it ends done, with its key finished, or dead, when*)
(* its attempts are used up or its payload is refused; a refused job is    *)
(* done only if its work was finished under its key before; and a dead job *)
(* may be brought back with a clean count.  JobWorker implements this.         *)
(***************************************************************************)
EXTENDS Naturals

CONSTANTS
    Jobs, KeyOf,
    Refused, \* the jobs whose payload no handler takes
    Limit

VARIABLES
    life,    \* life[j]: absent, pending, done or dead
    tries,   \* tries[j]: recorded attempts
    finished \* the keys whose work is known to be complete

Init ==
    /\ life = [j \in Jobs |-> "absent"]
    /\ tries = [j \in Jobs |-> 0]
    /\ finished = {}

Submit(j) ==
    /\ life[j] = "absent"
    /\ life' = [life EXCEPT ![j] = "pending"]
    /\ tries' = [tries EXCEPT ![j] = 0]
    /\ UNCHANGED finished

RecordFailure(j) ==
    /\ life[j] = "pending" /\ tries[j] + 1 < Limit
    /\ tries' = [tries EXCEPT ![j] = @ + 1]
    /\ UNCHANGED <<life, finished>>

Bury(j) ==
    /\ life[j] = "pending"
    /\ tries[j] + 1 = Limit \/ j \in Refused
    /\ life' = [life EXCEPT ![j] = "dead"]
    /\ tries' = [tries EXCEPT ![j] = @ + 1]
    /\ UNCHANGED finished

Complete(j) ==
    /\ life[j] = "pending"
    /\ j \in Refused => KeyOf[j] \in finished
    /\ life' = [life EXCEPT ![j] = "done"]
    /\ tries' = [tries EXCEPT ![j] = @ + 1]
    /\ finished' = finished \cup {KeyOf[j]}

(* The handler commits the key in the transaction of its own effect.        *)
CommitEffect(j) ==
    /\ finished' = finished \cup {KeyOf[j]}
    /\ UNCHANGED <<life, tries>>

Revive(j) ==
    /\ life[j] = "dead"
    /\ life' = [life EXCEPT ![j] = "pending"]
    /\ tries' = [tries EXCEPT ![j] = 0]
    /\ UNCHANGED finished

Next == \E j \in Jobs : \/ Submit(j) \/ RecordFailure(j) \/ Bury(j)
                        \/ Complete(j) \/ CommitEffect(j) \/ Revive(j)

Spec == Init /\ [][Next]_<<life, tries, finished>>
=============================================================================
