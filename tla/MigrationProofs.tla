-------------------------- MODULE MigrationProofs --------------------------
(***************************************************************************)
(* Proofs about the migration runner, for any number of processes,         *)
(* versions, commands and edits.                                           *)
(***************************************************************************)
EXTENDS MigrationProperties, FiniteSetTheorems, TLAPS

-----------------------------------------------------------------------------
(* The least and the greatest version of a set.                            *)

HasExtremes(S) ==
    /\ \E v \in S : \A o \in S : v <= o
    /\ \E v \in S : \A o \in S : o <= v

(* A finite set of integers has them: a smallest one without them would    *)
(* have them after any of its elements is taken away.                      *)
LEMMA FiniteExtremes ==
    ASSUME NEW U, U \subseteq Int, IsFiniteSet(U), NEW S, S \subseteq U, S # {}
    PROVE  HasExtremes(S)
<1> DEFINE Bad == {T \in SUBSET U : T # {} /\ ~HasExtremes(T)}
<1> SUFFICES ASSUME Bad # {} PROVE FALSE
  OBVIOUS
<1>1. PICK T \in Bad : \A R \in Bad : ~(<<R, T>> \in StrictSubsetOrdering(U))
  <2>1. IsWellFoundedOn(StrictSubsetOrdering(U), SUBSET U)
    BY FS_StrictSubsetOrderingWellFounded, FS_FiniteSubsetsOfFinite
  <2>2. Bad \subseteq SUBSET U
    OBVIOUS
  <2> QED
    BY <2>1, <2>2, WFMin
<1>2. PICK e \in T : e \in Int
  OBVIOUS
<1> DEFINE R == T \ {e}
<1>3. <<R, T>> \in StrictSubsetOrdering(U)
  BY <1>2 DEF StrictSubsetOrdering
<1>4. R \notin Bad
  BY <1>1, <1>3
<1>5. R = {} \/ HasExtremes(R)
  BY <1>4
<1>6. CASE R = {}
  <2>1. T = {e}
    BY <1>6
  <2>2. HasExtremes(T)
    BY <1>2, <2>1 DEF HasExtremes
  <2> QED
    BY <2>2
<1>7. CASE HasExtremes(R)
  <2>1. PICK l \in R : \A o \in R : l <= o
    BY <1>7 DEF HasExtremes
  <2>2. PICK g \in R : \A o \in R : o <= g
    BY <1>7 DEF HasExtremes
  <2>3. T \subseteq Int
    OBVIOUS
  <2>4. \E v \in T : \A o \in T : v <= o
    <3>1. CASE l <= e
      BY <2>1, <2>3, <3>1
    <3>2. CASE e <= l
      BY <1>2, <2>1, <2>3, <3>2
    <3> QED
      BY <1>2, <2>1, <2>3, <3>1, <3>2
  <2>5. \E v \in T : \A o \in T : o <= v
    <3>1. CASE e <= g
      BY <2>2, <2>3, <3>1
    <3>2. CASE g <= e
      BY <1>2, <2>2, <2>3, <3>2
    <3> QED
      BY <1>2, <2>2, <2>3, <3>1, <3>2
  <2> QED
    BY <2>4, <2>5 DEF HasExtremes
<1> QED
  BY <1>5, <1>6, <1>7

LEMMA LeastIs ==
    ASSUME NEW S, S \subseteq Versions, S # {}
    PROVE  Least(S) \in S /\ \A o \in S : Least(S) <= o
<1>1. HasExtremes(S)
  BY FiniteExtremes, MigrationAssumption
<1> QED
  BY <1>1 DEF HasExtremes, Least

LEMMA GreatestIs ==
    ASSUME NEW S, S \subseteq Versions, S # {}
    PROVE  Greatest(S) \in S /\ \A o \in S : o <= Greatest(S)
<1>1. HasExtremes(S)
  BY FiniteExtremes, MigrationAssumption
<1> QED
  BY <1>1 DEF HasExtremes, Greatest

-----------------------------------------------------------------------------
(* Types.                                                                  *)

(* A step of r that changes its phase only.                                *)
LEMMA PhaseType ==
    ASSUME TypeOK, NEW r \in Runners, NEW at \in Phases
    PROVE  [runner[r] EXCEPT !.at = at] \in Process
BY DEF TypeOK, Process

LEMMA SetType ==
    ASSUME TypeOK, NEW r \in Runners, NEW s \in Process, Set(r, s)
    PROVE  /\ runner' \in [Runners -> Process]
           /\ runner'[r] = s
           /\ \A o \in Runners \ {r} : runner'[o] = runner[o]
BY DEF TypeOK, Set

LEMMA FinishType ==
    ASSUME TypeOK, NEW r \in Runners, Finish(r)
    PROVE  /\ runner' \in [Runners -> Process]
           /\ runner'[r] = [runner[r] EXCEPT !.at = "idle"]
           /\ \A o \in Runners \ {r} : runner'[o] = runner[o]
<1>1. [runner[r] EXCEPT !.at = "idle"] \in Process
  BY PhaseType DEF Phases
<1> QED
  BY <1>1, SetType DEF Finish

(* What up goes on with: the least version that is left.                   *)
NextOf(r) == [runner[r] EXCEPT !.at = "body", !.todo = runner[r].todo \ {runner[r].v},
                             !.v = Least(runner[r].todo \ {runner[r].v})]

LEMMA ContinueType ==
    ASSUME TypeOK, NEW r \in Runners, Continue(r)
    PROVE  /\ runner' \in [Runners -> Process]
           /\ \A o \in Runners \ {r} : runner'[o] = runner[o]
           /\ \/ /\ Applies(r) /\ runner[r].todo \ {runner[r].v} # {}
                 /\ runner'[r] = NextOf(r)
              \/ runner'[r].at \in {"idle", "reading"}
           /\ runner'[r].command = runner[r].command
<1> DEFINE rest == runner[r].todo \ {runner[r].v}
<1>0. runner[r] \in Process
  BY DEF TypeOK
<1>1. CASE Applies(r) /\ rest # {}
  <2>1. rest \subseteq Versions
    BY <1>0 DEF Process
  <2>2. Least(rest) \in Int
    BY <1>1, <2>1, LeastIs, MigrationAssumption
  <2>3. NextOf(r) \in Process
    BY <1>0, <2>1, <2>2 DEF Process, NextOf, Phases
  <2>4. Set(r, NextOf(r))
    BY <1>1 DEF Continue, NextOf, Applies
  <2>5. NextOf(r).command = runner[r].command
    BY <1>0 DEF NextOf, Process
  <2> QED
    BY <1>1, <2>3, <2>4, <2>5, SetType
<1>2. CASE ~(Applies(r) /\ rest # {})
  <2>1. PICK at \in {"idle", "reading"} : Set(r, [runner[r] EXCEPT !.at = at])
    BY <1>2 DEF Continue, Applies, Finish
  <2>2. [runner[r] EXCEPT !.at = at] \in Process
    BY PhaseType DEF Phases
  <2>3. /\ [runner[r] EXCEPT !.at = at].at = at
        /\ [runner[r] EXCEPT !.at = at].command = runner[r].command
    BY <1>0 DEF Process
  <2> QED
    BY <2>1, <2>2, <2>3, SetType
<1> QED
  BY <1>1, <1>2

LEMMA RowsType ==
    ASSUME TypeOK, NEW r \in Runners, runner[r].v \in Versions
    PROVE  Rows(r) \subseteq Versions /\ Sums(r) \in [Versions -> Texts]
BY DEF TypeOK, Process, Rows, Sums

(* A command that is at a version is at one of the files.                  *)
Working(r) == runner[r].at \in {"body", "record", "commit"}

AtVersion == \A r \in Runners : Working(r) => runner[r].v \in Versions

TypeInv == TypeOK /\ AtVersion

LEMMA TypeInit == Init => TypeInv
BY MigrationAssumption DEF Init, TypeInv, TypeOK, AtVersion, Working, Process, Phases,
    Commands, Texts

(* What ReadLedger leaves of a command: over, or asking again, or at the   *)
(* first version it is to work on.                                         *)
FirstOf(r) == [runner[r] EXCEPT !.at = "body", !.todo = Versions \ ledger,
                                !.v = Least(Versions \ ledger)]

LatestOf(r) == [runner[r] EXCEPT !.at = "body", !.v = Greatest(ledger)]

LEMMA ReadOutcomes ==
    ASSUME TypeOK, NEW r \in Runners, ReadLedger(r)
    PROVE  /\ runner' \in [Runners -> Process]
           /\ \A o \in Runners \ {r} : runner'[o] = runner[o]
           /\ runner'[r].command = runner[r].command
           /\ \/ runner'[r].at \in {"idle", "rereading"}
              \/ /\ Applies(r) /\ Versions \ ledger # {}
                 /\ runner'[r] = FirstOf(r)
              \/ /\ ~Applies(r) /\ ledger # {}
                 /\ runner'[r] = LatestOf(r)
<1>0. runner[r] \in Process /\ ledger \subseteq Versions
  BY DEF TypeOK
<1>1. CASE Set(r, FirstOf(r)) /\ Applies(r) /\ Versions \ ledger # {}
  <2>1. Least(Versions \ ledger) \in Int
    BY <1>1, LeastIs, MigrationAssumption
  <2>2. FirstOf(r) \in Process /\ FirstOf(r).command = runner[r].command
    BY <1>0, <2>1 DEF FirstOf, Process, Phases
  <2> QED
    BY <1>1, <2>2, SetType
<1>2. CASE Set(r, LatestOf(r)) /\ ~Applies(r) /\ ledger # {}
  <2>1. Greatest(ledger) \in Int
    BY <1>0, <1>2, GreatestIs, MigrationAssumption
  <2>2. LatestOf(r) \in Process /\ LatestOf(r).command = runner[r].command
    BY <1>0, <2>1 DEF LatestOf, Process, Phases
  <2> QED
    BY <1>2, <2>2, SetType
<1>3. ASSUME NEW at \in {"idle", "rereading"}, Set(r, [runner[r] EXCEPT !.at = at])
      PROVE  /\ runner' \in [Runners -> Process]
             /\ \A o \in Runners \ {r} : runner'[o] = runner[o]
             /\ runner'[r].command = runner[r].command
             /\ runner'[r].at \in {"idle", "rereading"}
  <2>1. [runner[r] EXCEPT !.at = at] \in Process
    BY PhaseType DEF Phases
  <2>2. /\ [runner[r] EXCEPT !.at = at].at = at
        /\ [runner[r] EXCEPT !.at = at].command = runner[r].command
    BY <1>0 DEF Process
  <2> QED
    BY <1>3, <2>1, <2>2, SetType
<1>4. \/ Set(r, FirstOf(r)) /\ Applies(r) /\ Versions \ ledger # {}
      \/ Set(r, LatestOf(r)) /\ ~Applies(r) /\ ledger # {}
      \/ \E at \in {"idle", "rereading"} : Set(r, [runner[r] EXCEPT !.at = at])
  BY DEF ReadLedger, FirstOf, LatestOf, Applies, Finish
<1> QED
  BY <1>1, <1>2, <1>3, <1>4

(* The phase of a process changes, and nothing else in it.                 *)
Moves(r, at) ==
    /\ runner'[r] = [runner[r] EXCEPT !.at = at]
    /\ \A o \in Runners \ {r} : runner'[o] = runner[o]

LEMMA MoveKeeps ==
    ASSUME TypeInv, NEW r \in Runners, NEW at \in Phases, Moves(r, at),
           at \in {"idle", "reading", "rereading"} \/ Working(r)
    PROVE  AtVersion'
<1>0. runner[r] \in Process
  BY DEF TypeInv, TypeOK
<1>1. runner'[r].at = at /\ runner'[r].v = runner[r].v
  BY <1>0 DEF Moves, Process
<1> QED
  BY <1>1 DEF TypeInv, AtVersion, Working, Moves

LEMMA StartType ==
    ASSUME TypeInv, NEW r \in Runners, NEW command \in Commands,
           NEW target \in Versions \cup {0}, Start(r, command, target)
    PROVE  TypeInv'
<1> DEFINE s == [runner[r] EXCEPT !.at = "reading", !.command = command,
                                  !.target = target, !.files = file]
<1>0. runner[r] \in Process /\ file \in [Versions -> Texts] /\ target \in Int
  BY MigrationAssumption DEF TypeInv, TypeOK
<1>1. s \in Process /\ s.at = "reading"
  BY <1>0 DEF Process, Phases
<1>2. Set(r, s)
  BY DEF Start
<1>3. /\ runner' \in [Runners -> Process]
      /\ runner'[r] = s
      /\ \A o \in Runners \ {r} : runner'[o] = runner[o]
  BY <1>1, <1>2, SetType DEF TypeInv
<1>4. TypeOK'
  BY <1>3 DEF TypeInv, TypeOK, Start
<1>5. AtVersion'
  BY <1>1, <1>3 DEF TypeInv, AtVersion, Working
<1> QED
  BY <1>4, <1>5 DEF TypeInv

LEMMA ReadType ==
    ASSUME TypeInv, NEW r \in Runners, ReadLedger(r)
    PROVE  TypeInv'
<1>1. TypeOK'
  BY ReadOutcomes DEF TypeInv, TypeOK, ReadLedger
<1>2. AtVersion'
  <2>0. ledger \subseteq Versions /\ runner[r] \in Process
    BY DEF TypeInv, TypeOK
  <2>1. CASE runner'[r].at \in {"idle", "rereading"}
    BY <2>1, ReadOutcomes DEF TypeInv, AtVersion, Working
  <2>2. CASE Versions \ ledger # {} /\ runner'[r] = FirstOf(r)
    <3>1. FirstOf(r).v \in Versions
      BY <2>0, <2>2, LeastIs DEF FirstOf, Process
    <3> QED
      BY <2>2, <3>1, ReadOutcomes DEF TypeInv, AtVersion, Working
  <2>3. CASE ledger # {} /\ runner'[r] = LatestOf(r)
    <3>1. LatestOf(r).v \in Versions
      BY <2>0, <2>3, GreatestIs DEF LatestOf, Process
    <3> QED
      BY <2>3, <3>1, ReadOutcomes DEF TypeInv, AtVersion, Working
  <2> QED
    BY <2>1, <2>2, <2>3, ReadOutcomes DEF TypeInv
<1> QED
  BY <1>1, <1>2 DEF TypeInv

LEMMA SchemaType ==
    ASSUME TypeInv, NEW v \in Versions, NEW A \in BOOLEAN
    PROVE  [schema EXCEPT ![v] = IF A THEN @ + 1 ELSE @ - 1] \in [Versions -> Int]
BY DEF TypeInv, TypeOK

(* The steps that leave the ledger, the schema and the files alone.        *)
LEMMA QuietType ==
    ASSUME TypeInv, NEW r \in Runners, NEW at \in Phases,
           Set(r, [runner[r] EXCEPT !.at = at]),
           at = "idle" \/ Working(r),
           ledger' \subseteq Versions, checksum' \in [Versions -> Texts],
           schema' \in [Versions -> Int], UNCHANGED <<file, commands, edits>>
    PROVE  TypeInv'
<1>1. [runner[r] EXCEPT !.at = at] \in Process
  BY PhaseType DEF TypeInv
<1>2. runner' \in [Runners -> Process] /\ Moves(r, at)
  BY <1>1, SetType DEF TypeInv, Moves
<1>3. TypeOK'
  BY <1>2 DEF TypeInv, TypeOK
<1>4. AtVersion'
  BY <1>2, MoveKeeps
<1> QED
  BY <1>3, <1>4 DEF TypeInv

(* The ledger is written: the command goes on with the next version.       *)
LEMMA ContinueInv ==
    ASSUME TypeInv, NEW r \in Runners, Continue(r), Working(r),
           ledger' = Rows(r), checksum' = Sums(r),
           schema' \in [Versions -> Int], UNCHANGED <<file, commands, edits>>
    PROVE  TypeInv'
<1>0. runner[r] \in Process /\ runner[r].v \in Versions
  BY DEF TypeInv, TypeOK, AtVersion
<1>1. TypeOK'
  BY <1>0, ContinueType, RowsType DEF TypeInv, TypeOK
<1>2. CASE runner[r].todo \ {runner[r].v} # {} /\ runner'[r] = NextOf(r)
  <2>1. Least(runner[r].todo \ {runner[r].v}) \in Versions
    <3>1. runner[r].todo \ {runner[r].v} \subseteq Versions
      BY <1>0 DEF Process
    <3> QED
      BY <1>2, <3>1, LeastIs
  <2>2. NextOf(r).v \in Versions
    BY <1>0, <2>1 DEF NextOf, Process
  <2> QED
    BY <1>1, <1>2, <2>2, ContinueType DEF TypeInv, AtVersion, Working
<1>3. CASE runner'[r].at \in {"idle", "reading"}
  BY <1>1, <1>3, ContinueType DEF TypeInv, AtVersion, Working
<1> QED
  BY <1>2, <1>3, ContinueType DEF TypeInv

LEMMA BodyType ==
    ASSUME TypeInv, NEW r \in Runners, Body(r)
    PROVE  TypeInv'
<1>0. Working(r) /\ runner[r].v \in Versions /\ Applies(r) \in BOOLEAN
  BY DEF Body, Working, TypeInv, AtVersion, Applies
<1>1. schema' \in [Versions -> Int]
  <2>1. CASE Transactional
    BY <2>1 DEF Body, TypeInv, TypeOK
  <2>2. CASE ~Transactional
    BY <1>0, <2>2, SchemaType DEF Body
  <2> QED
    BY <2>1, <2>2
<1>2. ledger' \subseteq Versions /\ checksum' \in [Versions -> Texts]
  BY DEF Body, TypeInv, TypeOK
<1>3. "record" \in Phases /\ Set(r, [runner[r] EXCEPT !.at = "record"])
  BY DEF Phases, Body
<1>4. UNCHANGED <<file, commands, edits>>
  BY DEF Body
<1> QED
  BY <1>0, <1>1, <1>2, <1>3, <1>4, QuietType

LEMMA RecordType ==
    ASSUME TypeInv, NEW r \in Runners, Record(r)
    PROVE  TypeInv'
<1>0. Working(r) /\ schema' \in [Versions -> Int] /\ UNCHANGED <<file, commands, edits>>
  BY DEF Record, Working, TypeInv, TypeOK
<1>1. CASE Transactional
  <2>1. ledger' \subseteq Versions /\ checksum' \in [Versions -> Texts]
    BY <1>1 DEF Record, TypeInv, TypeOK
  <2>2. "commit" \in Phases /\ Set(r, [runner[r] EXCEPT !.at = "commit"])
    BY <1>1 DEF Phases, Record
  <2> QED
    BY <1>0, <2>1, <2>2, QuietType
<1>2. CASE ~Transactional
  <2>1. Continue(r) /\ ledger' = Rows(r) /\ checksum' = Sums(r)
    BY <1>2 DEF Record
  <2> QED
    BY <1>0, <2>1, ContinueInv
<1> QED
  BY <1>1, <1>2

LEMMA CommitType ==
    ASSUME TypeInv, NEW r \in Runners, Commit(r)
    PROVE  TypeInv'
<1>0. Working(r) /\ runner[r].v \in Versions /\ Applies(r) \in BOOLEAN
  BY DEF Commit, Working, TypeInv, AtVersion, Applies
<1>1. schema' \in [Versions -> Int]
  BY <1>0, SchemaType DEF Commit
<1>2. Continue(r) /\ ledger' = Rows(r) /\ checksum' = Sums(r)
  BY DEF Commit
<1>3. UNCHANGED <<file, commands, edits>>
  BY DEF Commit
<1> QED
  BY <1>0, <1>1, <1>2, <1>3, ContinueInv

(* A command that fails or dies leaves everything but itself alone.        *)
Abandons(r) ==
    /\ Set(r, [runner[r] EXCEPT !.at = "idle"])
    /\ UNCHANGED <<ledger, checksum, schema, file, commands, edits>>

LEMMA FailuresAbandon ==
    ASSUME NEW r \in Runners, BodyRejects(r) \/ RecordRejects(r) \/ Crash(r)
    PROVE  Abandons(r)
BY DEF BodyRejects, RecordRejects, Crash, Finish, Abandons

LEMMA AbandonType ==
    ASSUME TypeInv, NEW r \in Runners, Abandons(r)
    PROVE  TypeInv'
<1>1. /\ ledger' \subseteq Versions /\ checksum' \in [Versions -> Texts]
      /\ schema' \in [Versions -> Int]
  BY DEF Abandons, TypeInv, TypeOK
<1>2. "idle" \in Phases /\ Set(r, [runner[r] EXCEPT !.at = "idle"])
  BY DEF Phases, Abandons
<1>3. UNCHANGED <<file, commands, edits>>
  BY DEF Abandons
<1> QED
  BY <1>1, <1>2, <1>3, QuietType

LEMMA EditType ==
    ASSUME TypeInv, NEW v \in Versions, Edit(v)
    PROVE  TypeInv'
<1>1. edits + 1 \in Texts
  BY MigrationAssumption DEF TypeInv, TypeOK, Edit, Texts
<1>2. TypeOK'
  BY <1>1 DEF TypeInv, TypeOK, Edit
<1> QED
  BY <1>2 DEF TypeInv, AtVersion, Working, Edit

(* What a step may be.                                                     *)
LEMMA StepKinds ==
    ASSUME [Next]_vars
    PROVE  \/ \E r \in Runners :
                 \/ \E command \in Commands, target \in Versions \cup {0} :
                       Start(r, command, target)
                 \/ ReadLedger(r) \/ Body(r) \/ Record(r) \/ Commit(r) \/ Abandons(r)
           \/ \E v \in Versions : Edit(v)
           \/ UNCHANGED vars
<1>1. ASSUME NEW r \in Runners, Step(r)
      PROVE  \/ \E command \in Commands, target \in Versions \cup {0} :
                   Start(r, command, target)
             \/ ReadLedger(r) \/ Body(r) \/ Record(r) \/ Commit(r) \/ Abandons(r)
  <2>1. CASE \E target \in Versions \cup {0} :
                Start(r, "up", 0) \/ Start(r, "down", 0) \/ Start(r, "downTo", target)
    BY <2>1 DEF Commands
  <2>2. CASE BodyRejects(r) \/ RecordRejects(r) \/ Crash(r)
    BY <2>2, FailuresAbandon
  <2> QED
    BY <1>1, <2>1, <2>2 DEF Step
<1> QED
  BY <1>1 DEF Next

LEMMA TypeStep == TypeInv /\ [Next]_vars => TypeInv'
<1> SUFFICES ASSUME TypeInv, [Next]_vars PROVE TypeInv'
  OBVIOUS
<1>1. CASE UNCHANGED vars
  BY <1>1 DEF vars, TypeInv, TypeOK, AtVersion, Working
<1> QED
  BY <1>1, StepKinds, StartType, ReadType, BodyType, RecordType, CommitType, AbandonType,
     EditType

(* Every variable keeps its type, with or without the lock and             *)
(* transactional DDL: a command is always at one of the files.             *)
THEOREM TypeCorrect == Spec => []TypeOK
<1>1. TypeInv => TypeOK
  BY DEF TypeInv
<1> QED
  BY <1>1, TypeInit, TypeStep, PTL DEF Spec

-----------------------------------------------------------------------------
(* Order.  A working up has every version in the ledger that it has not    *)
(* still to apply, and is at the least of those; a working down is at the  *)
(* greatest of the ledger.  Under the lock nobody takes rows away from the *)
(* former, and nobody adds any to the latter.                              *)
UpWork(r) ==
    Working(r) /\ Applies(r) =>
        /\ runner[r].v \in runner[r].todo
        /\ Versions \ runner[r].todo \subseteq ledger
        /\ \A w \in runner[r].todo : runner[r].v <= w

DownWork(r) ==
    Working(r) /\ ~Applies(r) =>
        runner[r].v \in ledger /\ \A w \in ledger : w <= runner[r].v

Alone ==
    \A r, o \in Runners :
        \/ r = o \/ IsIdle(r) \/ IsIdle(o)
        \/ Applies(r) /\ Applies(o)

OrderInv ==
    /\ Alone
    /\ \A r \in Runners : UpWork(r) /\ DownWork(r)
    /\ AppliedInOrder

LEMMA OrderInit == Init => OrderInv
BY DEF Init, OrderInv, Alone, UpWork, DownWork, Working, IsIdle, AppliedInOrder

LEMMA OrderStart ==
    ASSUME TypeInv, OrderInv, Exclusive, NEW r \in Runners, NEW command \in Commands,
           NEW target \in Versions \cup {0}, Start(r, command, target)
    PROVE  OrderInv'
<1> DEFINE s == [runner[r] EXCEPT !.at = "reading", !.command = command,
                                  !.target = target, !.files = file]
<1>0. runner[r] \in Process /\ file \in [Versions -> Texts] /\ target \in Int
  BY MigrationAssumption DEF TypeInv, TypeOK
<1>1. s \in Process /\ s.at = "reading" /\ s.command = command
  BY <1>0 DEF Process, Phases
<1>2. /\ runner'[r] = s
      /\ \A o \in Runners \ {r} : runner'[o] = runner[o]
  BY <1>1, SetType DEF TypeInv, Start
<1>3. ledger' = ledger
  BY DEF Start
<1>4. Alone'
  <2>1. \A o \in Runners : IsIdle(o) \/ (command = "up" /\ runner[o].command = "up")
    BY DEF Start
  <2> SUFFICES ASSUME NEW p \in Runners, NEW o \in Runners, p # o
               PROVE  \/ IsIdle(p)' \/ IsIdle(o)'
                      \/ Applies(p)' /\ Applies(o)'
    BY DEF Alone
  <2>2. Applies(r)' <=> command = "up"
    BY <1>1, <1>2 DEF Applies
  <2>3. \A q \in {p, o} \ {r} : (Applies(q)' <=> Applies(q)) /\ (IsIdle(q)' <=> IsIdle(q))
    BY <1>2 DEF IsIdle, Applies
  <2>4. CASE p # r /\ o # r
    BY <2>3, <2>4 DEF OrderInv, Alone
  <2>5. CASE p = r
    BY <2>1, <2>2, <2>3, <2>5 DEF Applies
  <2>6. CASE o = r
    BY <2>1, <2>2, <2>3, <2>6 DEF Applies
  <2> QED
    BY <2>4, <2>5, <2>6
<1>5. \A o \in Runners : UpWork(o)' /\ DownWork(o)'
  BY <1>1, <1>2, <1>3 DEF OrderInv, UpWork, DownWork, Working, Applies
<1> QED
  BY <1>3, <1>4, <1>5 DEF OrderInv, AppliedInOrder

LEMMA OrderRead ==
    ASSUME TypeInv, OrderInv, NEW r \in Runners, ReadLedger(r)
    PROVE  OrderInv'
<1>0. runner[r] \in Process /\ ledger \subseteq Versions /\ ledger' = ledger
  BY DEF TypeInv, TypeOK, ReadLedger
<1>1. /\ \A o \in Runners \ {r} : runner'[o] = runner[o]
      /\ runner'[r].command = runner[r].command
      /\ \/ runner'[r].at \in {"idle", "rereading"}
         \/ Applies(r) /\ Versions \ ledger # {} /\ runner'[r] = FirstOf(r)
         \/ ~Applies(r) /\ ledger # {} /\ runner'[r] = LatestOf(r)
  BY ReadOutcomes DEF TypeInv
<1>2. ~IsIdle(r)
  BY DEF ReadLedger, IsIdle
<1>3. Alone'
  BY <1>1, <1>2 DEF OrderInv, Alone, IsIdle, Applies
<1>4. \A o \in Runners \ {r} : UpWork(o)' /\ DownWork(o)'
  BY <1>0, <1>1 DEF OrderInv, UpWork, DownWork, Working, Applies
<1>5. UpWork(r)' /\ DownWork(r)'
  <2>1. CASE runner'[r].at \in {"idle", "rereading"}
    BY <2>1 DEF UpWork, DownWork, Working
  <2>2. CASE Applies(r) /\ Versions \ ledger # {} /\ runner'[r] = FirstOf(r)
    <3>1. /\ FirstOf(r).todo = Versions \ ledger
          /\ FirstOf(r).v = Least(Versions \ ledger)
      BY <1>0 DEF FirstOf, Process
    <3>2. /\ Least(Versions \ ledger) \in Versions \ ledger
          /\ \A w \in Versions \ ledger : Least(Versions \ ledger) <= w
      BY <2>2, LeastIs
    <3> QED
      BY <1>0, <1>1, <2>2, <3>1, <3>2 DEF UpWork, DownWork, Applies
  <2>3. CASE ~Applies(r) /\ ledger # {} /\ runner'[r] = LatestOf(r)
    <3>1. LatestOf(r).v = Greatest(ledger)
      BY <1>0 DEF LatestOf, Process
    <3>2. Greatest(ledger) \in ledger /\ \A w \in ledger : w <= Greatest(ledger)
      BY <1>0, <2>3, GreatestIs
    <3> QED
      BY <1>0, <1>1, <2>3, <3>1, <3>2 DEF UpWork, DownWork, Applies
  <2> QED
    BY <1>1, <2>1, <2>2, <2>3
<1> QED
  BY <1>0, <1>3, <1>4, <1>5 DEF OrderInv, AppliedInOrder

(* A command that goes on to its next statement, or ends.                  *)
LEMMA OrderMove ==
    ASSUME TypeInv, OrderInv, NEW r \in Runners, NEW at \in Phases, Moves(r, at),
           at = "idle" \/ Working(r), ledger' = ledger
    PROVE  OrderInv'
<1>0. runner[r] \in Process
  BY DEF TypeInv, TypeOK
<1>1. /\ \A o \in Runners \ {r} : runner'[o] = runner[o]
      /\ runner'[r].at = at /\ runner'[r].command = runner[r].command
      /\ runner'[r].v = runner[r].v /\ runner'[r].todo = runner[r].todo
  BY <1>0 DEF Moves, Process
<1>2. at = "idle" \/ ~IsIdle(r)
  BY DEF IsIdle, Working
<1>3. Alone'
  <2> SUFFICES ASSUME NEW p \in Runners, NEW o \in Runners
               PROVE  \/ p = o \/ IsIdle(p)' \/ IsIdle(o)'
                      \/ Applies(p)' /\ Applies(o)'
    BY DEF Alone
  <2>1. \A q \in {p, o} : (Applies(q)' <=> Applies(q)) /\ (IsIdle(q) => IsIdle(q)')
    BY <1>1, <1>2 DEF IsIdle, Applies
  <2> QED
    BY <2>1 DEF OrderInv, Alone
<1>4. \A o \in Runners \ {r} : UpWork(o)' /\ DownWork(o)'
  BY <1>1 DEF OrderInv, UpWork, DownWork, Working, Applies
<1>5. UpWork(r)' /\ DownWork(r)'
  BY <1>1 DEF OrderInv, UpWork, DownWork, Working, Applies
<1> QED
  BY <1>3, <1>4, <1>5 DEF OrderInv, AppliedInOrder

(* The ledger is written.  What up adds has all below it there already,    *)
(* and what down takes has nothing above it.                               *)
LEMMA OrderContinue ==
    ASSUME TypeInv, OrderInv, NEW r \in Runners, Working(r), Continue(r), ledger' = Rows(r)
    PROVE  OrderInv'
<1>0. /\ runner[r] \in Process /\ ledger \subseteq Versions /\ Versions \subseteq Int
      /\ runner[r].v \in Versions /\ runner[r].todo \subseteq Versions /\ ~IsIdle(r)
  BY MigrationAssumption DEF TypeInv, TypeOK, AtVersion, Process, IsIdle, Working
<1>1. /\ \A o \in Runners \ {r} : runner'[o] = runner[o]
      /\ runner'[r].command = runner[r].command
      /\ \/ /\ Applies(r) /\ runner[r].todo \ {runner[r].v} # {}
            /\ runner'[r] = NextOf(r)
         \/ runner'[r].at \in {"idle", "reading"}
  BY ContinueType DEF TypeInv
<1>2. Alone'
  <2> SUFFICES ASSUME NEW p \in Runners, NEW o \in Runners
               PROVE  \/ p = o \/ IsIdle(p)' \/ IsIdle(o)'
                      \/ Applies(p)' /\ Applies(o)'
    BY DEF Alone
  <2>1. \A q \in {p, o} : (Applies(q)' <=> Applies(q)) /\ (IsIdle(q) => IsIdle(q)')
    BY <1>0, <1>1 DEF IsIdle, Applies
  <2> QED
    BY <2>1 DEF OrderInv, Alone
<1>3. CASE Applies(r)
  <2>1. ledger' = ledger \cup {runner[r].v}
    BY <1>3 DEF Rows
  <2>2. /\ runner[r].v \in runner[r].todo
        /\ Versions \ runner[r].todo \subseteq ledger
        /\ \A w \in runner[r].todo : runner[r].v <= w
    BY <1>3 DEF OrderInv, UpWork
  <2>3. AppliedInOrder'
    <3> SUFFICES ASSUME NEW v \in ledger', NEW w \in Versions, w < v PROVE w \in ledger'
      BY DEF AppliedInOrder
    <3>1. CASE v \in ledger
      BY <2>1, <3>1 DEF OrderInv, AppliedInOrder
    <3>2. CASE v = runner[r].v
      <4>1. w \notin runner[r].todo
        <5>1. v \in Int /\ w \in Int
          BY <1>0, <3>2
        <5>2. w \in runner[r].todo => v <= w
          BY <2>2, <3>2
        <5> QED
          BY <5>1, <5>2
      <4> QED
        BY <2>1, <2>2, <4>1
    <3> QED
      BY <2>1, <3>1, <3>2
  <2>4. UpWork(r)' /\ DownWork(r)'
    <3>1. CASE runner[r].todo \ {runner[r].v} # {} /\ runner'[r] = NextOf(r)
      <4> DEFINE rest == runner[r].todo \ {runner[r].v}
      <4>1. NextOf(r).todo = rest /\ NextOf(r).v = Least(rest)
        BY <1>0 DEF NextOf, Process
      <4>2. rest \subseteq Versions
        BY <1>0
      <4>3. Least(rest) \in rest /\ \A w \in rest : Least(rest) <= w
        BY <3>1, <4>2, LeastIs
      <4>4. Versions \ rest \subseteq ledger'
        BY <2>1, <2>2
      <4>5. Applies(r)'
        BY <1>1, <1>3 DEF Applies
      <4> QED
        BY <3>1, <4>1, <4>3, <4>4, <4>5 DEF UpWork, DownWork
    <3>2. CASE runner'[r].at \in {"idle", "reading"}
      BY <3>2 DEF UpWork, DownWork, Working
    <3> QED
      BY <1>1, <3>1, <3>2
  <2>5. ASSUME NEW o \in Runners \ {r} PROVE UpWork(o)' /\ DownWork(o)'
    <3>1. runner'[o] = runner[o]
      BY <1>1
    <3>2. ~Working(o) \/ Applies(o)
      BY <1>0 DEF OrderInv, Alone, IsIdle, Working
    <3>3. UpWork(o)
      BY DEF OrderInv
    <3> QED
      BY <2>1, <3>1, <3>2, <3>3 DEF UpWork, DownWork, Working, Applies
  <2> QED
    BY <1>2, <2>3, <2>4, <2>5 DEF OrderInv
<1>4. CASE ~Applies(r)
  <2>1. ledger' = ledger \ {runner[r].v}
    BY <1>4 DEF Rows
  <2>2. runner[r].v \in ledger /\ \A w \in ledger : w <= runner[r].v
    BY <1>4 DEF OrderInv, DownWork
  <2>3. AppliedInOrder'
    BY <1>0, <2>1, <2>2 DEF OrderInv, AppliedInOrder
  <2>4. UpWork(r)' /\ DownWork(r)'
    BY <1>1, <1>4 DEF UpWork, DownWork, Working
  <2>5. ASSUME NEW o \in Runners \ {r} PROVE UpWork(o)' /\ DownWork(o)'
    <3>1. IsIdle(o) /\ runner'[o] = runner[o]
      BY <1>0, <1>1, <1>4 DEF OrderInv, Alone
    <3> QED
      BY <3>1 DEF UpWork, DownWork, Working, IsIdle
  <2> QED
    BY <1>2, <2>3, <2>4, <2>5 DEF OrderInv
<1> QED
  BY <1>3, <1>4

LEMMA SetMoves ==
    ASSUME TypeInv, NEW r \in Runners, NEW at \in Phases,
           Set(r, [runner[r] EXCEPT !.at = at])
    PROVE  Moves(r, at) /\ runner'[r].at = at
<1>0. runner[r] \in Process
  BY DEF TypeInv, TypeOK
<1>1. [runner[r] EXCEPT !.at = at] \in Process /\ [runner[r] EXCEPT !.at = at].at = at
  BY <1>0, PhaseType DEF TypeInv, Process
<1> QED
  BY <1>1, SetType DEF Moves, TypeInv

LEMMA OrderStep ==
    ASSUME Exclusive, TypeInv, OrderInv, [Next]_vars
    PROVE  OrderInv'
<1>1. CASE UNCHANGED vars
  BY <1>1 DEF vars, OrderInv, Alone, UpWork, DownWork, Working, IsIdle, Applies, AppliedInOrder
<1>2. CASE \E v \in Versions : Edit(v)
  BY <1>2 DEF Edit, OrderInv, Alone, UpWork, DownWork, Working, IsIdle, Applies, AppliedInOrder
<1>3. ASSUME NEW r \in Runners, Body(r) PROVE OrderInv'
  <2>1. Working(r) /\ ledger' = ledger /\ Set(r, [runner[r] EXCEPT !.at = "record"])
    BY <1>3 DEF Body, Working
  <2>2. "record" \in Phases
    BY DEF Phases
  <2> QED
    BY <2>1, <2>2, SetMoves, OrderMove
<1>4. ASSUME NEW r \in Runners, Record(r) PROVE OrderInv'
  <2>1. Working(r)
    BY <1>4 DEF Record, Working
  <2>2. CASE Transactional
    <3>1. ledger' = ledger /\ Set(r, [runner[r] EXCEPT !.at = "commit"])
      BY <1>4, <2>2 DEF Record
    <3>2. "commit" \in Phases
      BY DEF Phases
    <3> QED
      BY <2>1, <3>1, <3>2, SetMoves, OrderMove
  <2>3. CASE ~Transactional
    <3>1. Continue(r) /\ ledger' = Rows(r)
      BY <1>4, <2>3 DEF Record
    <3> QED
      BY <2>1, <3>1, OrderContinue
  <2> QED
    BY <2>2, <2>3
<1>5. ASSUME NEW r \in Runners, Commit(r) PROVE OrderInv'
  <2>1. Working(r) /\ Continue(r) /\ ledger' = Rows(r)
    BY <1>5 DEF Commit, Working
  <2> QED
    BY <2>1, OrderContinue
<1>6. ASSUME NEW r \in Runners, Abandons(r) PROVE OrderInv'
  <2>1. ledger' = ledger /\ Set(r, [runner[r] EXCEPT !.at = "idle"])
    BY <1>6 DEF Abandons
  <2>2. "idle" \in Phases
    BY DEF Phases
  <2> QED
    BY <2>1, <2>2, SetMoves, OrderMove
<1> QED
  BY <1>1, <1>2, <1>3, <1>4, <1>5, <1>6, StepKinds, OrderStart, OrderRead

(* Where a command that reverts runs alone, migrations are in force in     *)
(* order, whoever fails or dies in the middle of a run, and whether DDL is *)
(* transactional or not.                                                   *)
THEOREM OrderHolds == ASSUME Exclusive PROVE Spec => []AppliedInOrder
<1>1. Init => TypeInv /\ OrderInv
  BY TypeInit, OrderInit
<1>2. TypeInv /\ OrderInv /\ [Next]_vars => (TypeInv /\ OrderInv)'
  BY TypeStep, OrderStep
<1>3. OrderInv => AppliedInOrder
  BY DEF OrderInv
<1> QED
  BY <1>1, <1>2, <1>3, PTL DEF Spec

-----------------------------------------------------------------------------
(* The ledger and the schema.  A transaction that is about to commit an up *)
(* is the only one for its version, and the version has no row yet.        *)
CommitFresh(r) == runner[r].at = "commit" /\ Applies(r) => runner[r].v \notin ledger

CommitsApart ==
    \A r, o \in Runners :
        runner[r].at = "commit" /\ runner[o].at = "commit" /\ r # o
        => runner[r].v # runner[o].v

SchemaInv ==
    /\ \A r \in Runners : CommitFresh(r)
    /\ CommitsApart
    /\ \A v \in Versions : schema[v] = IF v \in ledger THEN 1 ELSE 0

LEMMA SchemaInit == Init => SchemaInv
BY DEF Init, SchemaInv, CommitFresh, CommitsApart

(* A step of r that neither writes nor is about to commit.                 *)
LEMMA SchemaQuiet ==
    ASSUME SchemaInv, NEW r \in Runners, runner'[r].at # "commit",
           \A o \in Runners \ {r} : runner'[o] = runner[o],
           UNCHANGED <<ledger, schema>>
    PROVE  SchemaInv'
<1>1. \A o \in Runners : CommitFresh(o)'
  BY DEF SchemaInv, CommitFresh, Applies
<1>2. CommitsApart'
  BY DEF SchemaInv, CommitsApart
<1> QED
  BY <1>1, <1>2 DEF SchemaInv

LEMMA SchemaRecord ==
    ASSUME Transactional, TypeInv, SchemaInv, NEW r \in Runners, Record(r)
    PROVE  SchemaInv'
<1>0. "commit" \in Phases /\ Set(r, [runner[r] EXCEPT !.at = "commit"])
  BY DEF Phases, Record
<1>1. /\ \A o \in Runners \ {r} : runner'[o] = runner[o]
      /\ runner'[r] = [runner[r] EXCEPT !.at = "commit"]
  BY <1>0, SetMoves DEF Moves
<1>2. runner'[r].command = runner[r].command /\ runner'[r].v = runner[r].v
  BY <1>1 DEF TypeInv, TypeOK, Process
<1>3. UNCHANGED <<ledger, schema>> /\ Acceptable(r) /\ ~Waits(r)
  BY DEF Record
<1>4. \A o \in Runners : CommitFresh(o)'
  BY <1>1, <1>2, <1>3 DEF SchemaInv, CommitFresh, Applies, Acceptable
<1>5. CommitsApart'
  <2> SUFFICES ASSUME NEW p \in Runners, NEW o \in Runners, p # o,
                      runner'[p].at = "commit", runner'[o].at = "commit"
               PROVE  runner'[p].v # runner'[o].v
    BY DEF CommitsApart
  <2>1. CASE p # r /\ o # r
    BY <1>1, <2>1 DEF SchemaInv, CommitsApart
  <2>2. CASE p = r
    BY <1>1, <1>2, <1>3, <2>2 DEF Waits
  <2>3. CASE o = r
    BY <1>1, <1>2, <1>3, <2>3 DEF Waits
  <2> QED
    BY <2>1, <2>2, <2>3
<1> QED
  BY <1>3, <1>4, <1>5 DEF SchemaInv

LEMMA SchemaCommit ==
    ASSUME TypeInv, OrderInv, SchemaInv, NEW r \in Runners, Commit(r)
    PROVE  SchemaInv'
<1> DEFINE v == runner[r].v
<1>0. /\ runner[r].at = "commit" /\ Continue(r) /\ ledger' = Rows(r) /\ v \in Versions
      /\ schema' = [schema EXCEPT ![v] = IF Applies(r) THEN @ + 1 ELSE @ - 1]
  BY DEF Commit, TypeInv, AtVersion, Working
<1>1. /\ \A o \in Runners \ {r} : runner'[o] = runner[o]
      /\ runner'[r].at # "commit"
  <2>1. NextOf(r).at = "body"
    BY DEF NextOf, TypeInv, TypeOK, Process
  <2> QED
    BY <1>0, <2>1, ContinueType DEF TypeInv
<1>2. ASSUME NEW o \in Runners PROVE CommitFresh(o)'
  <2>1. CASE o = r
    BY <1>1, <2>1 DEF CommitFresh
  <2>2. CASE o # r /\ runner[o].at = "commit" /\ Applies(o)
    <3>1. runner[o].v \notin ledger /\ runner[o].v # v
      BY <1>0, <2>2 DEF SchemaInv, CommitFresh, CommitsApart
    <3> QED
      BY <1>0, <1>1, <2>2, <3>1 DEF Rows, CommitFresh
  <2>3. CASE o # r /\ ~(runner[o].at = "commit" /\ Applies(o))
    BY <1>1, <2>3 DEF CommitFresh, Applies
  <2> QED
    BY <2>1, <2>2, <2>3
<1>3. CommitsApart'
  BY <1>1 DEF SchemaInv, CommitsApart
<1>4. ASSUME NEW w \in Versions PROVE schema'[w] = IF w \in ledger' THEN 1 ELSE 0
  <2>0. schema \in [Versions -> Int] /\ schema[w] = IF w \in ledger THEN 1 ELSE 0
    BY DEF TypeInv, TypeOK, SchemaInv
  <2>1. CASE w # v
    BY <1>0, <2>0, <2>1 DEF Rows
  <2>2. CASE w = v /\ Applies(r)
    <3>1. v \notin ledger
      BY <1>0, <2>2 DEF SchemaInv, CommitFresh
    <3> QED
      BY <1>0, <2>0, <2>2, <3>1 DEF Rows
  <2>3. CASE w = v /\ ~Applies(r)
    <3>1. v \in ledger
      BY <1>0, <2>3 DEF OrderInv, DownWork, Working
    <3> QED
      BY <1>0, <2>0, <2>3, <3>1 DEF Rows
  <2> QED
    BY <2>1, <2>2, <2>3
<1> QED
  BY <1>2, <1>3, <1>4 DEF SchemaInv

LEMMA SchemaStep ==
    ASSUME Transactional, TypeInv, OrderInv, SchemaInv, [Next]_vars
    PROVE  SchemaInv'
<1>1. CASE UNCHANGED vars
  BY <1>1 DEF vars, SchemaInv, CommitFresh, CommitsApart, Applies
<1>2. CASE \E v \in Versions : Edit(v)
  BY <1>2 DEF Edit, SchemaInv, CommitFresh, CommitsApart, Applies
<1>3. ASSUME NEW r \in Runners, NEW command \in Commands,
             NEW target \in Versions \cup {0}, Start(r, command, target)
      PROVE  SchemaInv'
  <2> DEFINE s == [runner[r] EXCEPT !.at = "reading", !.command = command,
                                    !.target = target, !.files = file]
  <2>0. runner[r] \in Process /\ file \in [Versions -> Texts] /\ target \in Int
    BY MigrationAssumption DEF TypeInv, TypeOK
  <2>1. s \in Process /\ s.at = "reading"
    BY <2>0 DEF Process, Phases
  <2>2. /\ runner'[r].at # "commit"
        /\ \A o \in Runners \ {r} : runner'[o] = runner[o]
    BY <1>3, <2>1, SetType DEF TypeInv, Start
  <2>3. UNCHANGED <<ledger, schema>>
    BY <1>3 DEF Start
  <2> QED
    BY <2>2, <2>3, SchemaQuiet
<1>4. ASSUME NEW r \in Runners, ReadLedger(r) PROVE SchemaInv'
  <2>1. FirstOf(r).at = "body" /\ LatestOf(r).at = "body"
    BY DEF FirstOf, LatestOf, TypeInv, TypeOK, Process
  <2>2. /\ runner'[r].at # "commit"
        /\ \A o \in Runners \ {r} : runner'[o] = runner[o]
    BY <1>4, <2>1, ReadOutcomes DEF TypeInv
  <2>3. UNCHANGED <<ledger, schema>>
    BY <1>4 DEF ReadLedger
  <2> QED
    BY <2>2, <2>3, SchemaQuiet
<1>5. ASSUME NEW r \in Runners, Body(r) \/ Abandons(r) PROVE SchemaInv'
  <2>1. /\ UNCHANGED <<ledger, schema>>
        /\ \E at \in {"idle", "record"} : Set(r, [runner[r] EXCEPT !.at = at])
    BY <1>5 DEF Body, Abandons
  <2>2. PICK at \in {"idle", "record"} : Set(r, [runner[r] EXCEPT !.at = at])
    BY <2>1
  <2>3. at \in Phases /\ at # "commit"
    BY DEF Phases
  <2>4. Moves(r, at) /\ runner'[r].at # "commit"
    BY <2>2, <2>3, SetMoves
  <2> QED
    BY <2>1, <2>4, SchemaQuiet DEF Moves
<1> QED
  BY <1>1, <1>2, <1>3, <1>4, <1>5, StepKinds, SchemaRecord, SchemaCommit

(* Where a command that reverts runs alone and DDL is transactional, a     *)
(* migration is in force once if the ledger has it and not at all          *)
(* otherwise, with any number of processes that race for it.               *)
THEOREM LedgerHolds == ASSUME Exclusive PROVE Spec => []LedgerIsSchema
<1>1. CASE Transactional
  <2>1. Init => TypeInv /\ OrderInv /\ SchemaInv
    BY TypeInit, OrderInit, SchemaInit
  <2>2. TypeInv /\ OrderInv /\ SchemaInv /\ [Next]_vars => (TypeInv /\ OrderInv /\ SchemaInv)'
    BY <1>1, TypeStep, OrderStep, SchemaStep
  <2>3. SchemaInv => LedgerIsSchema
    BY DEF SchemaInv, LedgerIsSchema
  <2> QED
    BY <2>1, <2>2, <2>3, PTL DEF Spec
<1>2. CASE ~Transactional
  <2>1. LedgerIsSchema
    BY <1>2 DEF LedgerIsSchema
  <2> QED
    BY <2>1, PTL
<1> QED
  BY <1>1, <1>2
-----------------------------------------------------------------------------
(* Reverting.  A command that reverts is at a version whose row has the    *)
(* text of its file: it has verified the ledger, and nobody applies a      *)
(* migration beside it.                                                    *)
Faithful(r) ==
    Working(r) /\ ~Applies(r) => checksum[runner[r].v] = runner[r].files[runner[r].v]

RevertInv == \A r \in Runners : Faithful(r)

(* A step of r that leaves the checksums alone, or applies a migration.    *)
LEMMA FaithfulOthers ==
    ASSUME OrderInv, RevertInv, NEW r \in Runners, ~IsIdle(r),
           checksum' = checksum \/ Applies(r),
           \A o \in Runners \ {r} : runner'[o] = runner[o]
    PROVE  \A o \in Runners \ {r} : Faithful(o)'
<1> SUFFICES ASSUME NEW o \in Runners \ {r} PROVE Faithful(o)'
  OBVIOUS
<1>1. CASE checksum' = checksum
  BY <1>1 DEF RevertInv, Faithful, Working, Applies
<1>2. CASE Applies(r)
  <2>1. IsIdle(o) \/ Applies(o)
    BY <1>2 DEF OrderInv, Alone
  <2> QED
    BY <2>1 DEF Faithful, Working, Applies, IsIdle
<1> QED
  BY <1>1, <1>2

LEMMA FaithfulMove ==
    ASSUME TypeInv, RevertInv, NEW r \in Runners, NEW at \in Phases, Moves(r, at),
           at = "idle" \/ Working(r), checksum' = checksum
    PROVE  RevertInv'
<1>0. runner[r] \in Process
  BY DEF TypeInv, TypeOK
<1>1. /\ \A o \in Runners \ {r} : runner'[o] = runner[o]
      /\ runner'[r].at = at /\ runner'[r].command = runner[r].command
      /\ runner'[r].v = runner[r].v /\ runner'[r].files = runner[r].files
  BY <1>0 DEF Moves, Process
<1>2. Faithful(r)'
  BY <1>1 DEF RevertInv, Faithful, Working, Applies
<1>3. \A o \in Runners \ {r} : Faithful(o)'
  BY <1>1 DEF RevertInv, Faithful, Working, Applies
<1> QED
  BY <1>2, <1>3 DEF RevertInv

(* The latest version, once the ledger is verified.                        *)
LEMMA FaithfulRead ==
    ASSUME TypeInv, OrderInv, RevertInv, NEW r \in Runners, ReadLedger(r)
    PROVE  RevertInv'
<1>0. runner[r] \in Process /\ ledger \subseteq Versions /\ checksum' = checksum /\ ~IsIdle(r)
  BY DEF TypeInv, TypeOK, ReadLedger, IsIdle
<1>1. /\ \A o \in Runners \ {r} : runner'[o] = runner[o]
      /\ runner'[r].command = runner[r].command
      /\ \/ runner'[r].at \in {"idle", "rereading"}
         \/ Applies(r) /\ Versions \ ledger # {} /\ runner'[r] = FirstOf(r)
         \/ ~Applies(r) /\ ledger # {} /\ runner'[r] = LatestOf(r)
  BY ReadOutcomes DEF TypeInv
<1>2. Faithful(r)'
  <2>1. CASE Applies(r)
    BY <1>1, <2>1 DEF Faithful, Applies
  <2>2. CASE runner'[r].at \in {"idle", "rereading"}
    BY <2>2 DEF Faithful, Working
  <2>3. CASE ~Applies(r) /\ ledger # {} /\ runner'[r] = LatestOf(r)
    <3>1. LatestOf(r).v = Greatest(ledger) /\ LatestOf(r).files = runner[r].files
          /\ LatestOf(r).at = "body"
      BY <1>0 DEF LatestOf, Process
    <3>2. Greatest(ledger) \in ledger
      BY <1>0, <2>3, GreatestIs
    <3>3. Verified(r)
      <4> SUFFICES ASSUME ~Verified(r) PROVE FALSE
        OBVIOUS
      <4>1. Set(r, [runner[r] EXCEPT !.at = "idle"])
        BY DEF ReadLedger, Finish
      <4>2. "idle" \in Phases
        BY DEF Phases
      <4>3. runner'[r].at = "idle"
        BY <4>1, <4>2, SetMoves
      <4> QED
        BY <2>3, <3>1, <4>3
    <3>4. checksum[Greatest(ledger)] = runner[r].files[Greatest(ledger)]
      BY <3>2, <3>3 DEF Verified
    <3> QED
      BY <1>0, <2>3, <3>1, <3>4 DEF Faithful
  <2> QED
    BY <1>1, <2>1, <2>2, <2>3
<1> QED
  BY <1>0, <1>1, <1>2, FaithfulOthers DEF RevertInv

(* The ledger is written: a row's checksum changes only when it is applied.*)
LEMMA FaithfulContinue ==
    ASSUME TypeInv, OrderInv, RevertInv, NEW r \in Runners, Working(r), Continue(r),
           checksum' = Sums(r)
    PROVE  RevertInv'
<1>1. /\ \A o \in Runners \ {r} : runner'[o] = runner[o]
      /\ runner'[r].command = runner[r].command
      /\ Applies(r) \/ runner'[r].at \in {"idle", "reading"}
  BY ContinueType DEF TypeInv
<1>2. Faithful(r)'
  BY <1>1 DEF Faithful, Working, Applies
<1>3. ~IsIdle(r) /\ (checksum' = checksum \/ Applies(r))
  BY DEF IsIdle, Working, Sums
<1> QED
  BY <1>1, <1>2, <1>3, FaithfulOthers DEF RevertInv

LEMMA FaithfulStart ==
    ASSUME TypeInv, RevertInv, NEW r \in Runners, NEW command \in Commands,
           NEW target \in Versions \cup {0}, Start(r, command, target)
    PROVE  RevertInv'
<1> DEFINE s == [runner[r] EXCEPT !.at = "reading", !.command = command,
                                  !.target = target, !.files = file]
<1>0. runner[r] \in Process /\ file \in [Versions -> Texts] /\ target \in Int
  BY MigrationAssumption DEF TypeInv, TypeOK
<1>1. s \in Process /\ s.at = "reading"
  BY <1>0 DEF Process, Phases
<1>2. /\ runner'[r].at = "reading"
      /\ \A o \in Runners \ {r} : runner'[o] = runner[o]
  BY <1>1, SetType DEF TypeInv, Start
<1>3. checksum' = checksum
  BY DEF Start
<1> QED
  BY <1>2, <1>3 DEF RevertInv, Faithful, Working, Applies

LEMMA RevertStep ==
    ASSUME Exclusive, TypeInv, OrderInv, RevertInv, [Next]_vars
    PROVE  RevertInv'
<1>1. CASE UNCHANGED vars
  BY <1>1 DEF vars, RevertInv, Faithful, Working, Applies
<1>2. CASE \E v \in Versions : Edit(v)
  BY <1>2 DEF Edit, RevertInv, Faithful, Working, Applies
<1>3. ASSUME NEW r \in Runners, NEW at \in {"record", "commit", "idle"},
             Set(r, [runner[r] EXCEPT !.at = at]), at = "idle" \/ Working(r),
             checksum' = checksum
      PROVE  RevertInv'
  <2>1. at \in Phases
    BY DEF Phases
  <2> QED
    BY <1>3, <2>1, SetMoves, FaithfulMove
<1>4. ASSUME NEW r \in Runners, Body(r) \/ Abandons(r) PROVE RevertInv'
  BY <1>3, <1>4 DEF Body, Abandons, Working
<1>5. ASSUME NEW r \in Runners, Record(r) PROVE RevertInv'
  <2>1. Working(r)
    BY <1>5 DEF Record, Working
  <2>2. CASE Transactional
    BY <1>3, <1>5, <2>1, <2>2 DEF Record
  <2>3. CASE ~Transactional
    BY <1>5, <2>1, <2>3, FaithfulContinue DEF Record
  <2> QED
    BY <2>2, <2>3
<1>6. ASSUME NEW r \in Runners, Commit(r) PROVE RevertInv'
  BY <1>6, FaithfulContinue DEF Commit, Working
<1> QED
  BY <1>1, <1>2, <1>4, <1>5, <1>6, StepKinds, FaithfulStart, FaithfulRead

(* Where a command that reverts runs alone, it reverts a migration by the  *)
(* down section of the file that was applied, although files are edited at *)
(* any time.                                                               *)
THEOREM RevertsFaithfully == ASSUME Exclusive PROVE Spec => []RevertsWhatWasApplied
<1>1. Init => TypeInv /\ OrderInv /\ RevertInv
  <2>1. Init => RevertInv
    BY DEF Init, RevertInv, Faithful, Working
  <2> QED
    BY <2>1, TypeInit, OrderInit
<1>2. TypeInv /\ OrderInv /\ RevertInv /\ [Next]_vars => (TypeInv /\ OrderInv /\ RevertInv)'
  BY TypeStep, OrderStep, RevertStep
<1>3. TypeInv /\ RevertInv => RevertsWhatWasApplied
  <2> SUFFICES ASSUME RevertInv, NEW r \in Runners,
                      runner[r].at \in {"body", "record", "commit"},
                      runner[r].command # "up", runner[r].v \in ledger
               PROVE  checksum[runner[r].v] = runner[r].files[runner[r].v]
    BY DEF RevertsWhatWasApplied
  <2> QED
    BY DEF RevertInv, Faithful, Working, Applies
<1> QED
  BY <1>1, <1>2, <1>3, PTL DEF Spec
=============================================================================
