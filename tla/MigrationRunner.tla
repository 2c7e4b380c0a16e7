-------------------------- MODULE MigrationRunner --------------------------
(***************************************************************************)
(* up, down and downTo (packages/migrations/src/runner.ts) by several      *)
(* processes over one database.  Nothing is locked by the runner: between  *)
(* its reading of the ledger and each of its statements the others run.    *)
(*                                                                         *)
(* A command reads and verifies the ledger (reading), and then, for one    *)
(* version after the other, runs the migration (body), writes the ledger   *)
(* (record) and, where DDL is transactional, commits (commit).             *)
(***************************************************************************)
EXTENDS Integers, FiniteSets

CONSTANTS
    Runners,
    Versions,      \* the versions of the migration files, the same for all
    Transactional, \* DDL takes part in transactions
    Exclusive,     \* external: a command that reverts runs alone, under the
                   \* lock that docs-site cli-migrate.md asks for
    MaxCommands,   \* bound: commands started
    MaxEdits       \* bound: files edited

ASSUME MigrationAssumption ==
    /\ Versions \subseteq Int /\ IsFiniteSet(Versions)
    /\ Transactional \in BOOLEAN /\ Exclusive \in BOOLEAN
    /\ MaxCommands \in Nat /\ MaxEdits \in Nat

Commands == {"up", "down", "downTo"}

VARIABLES
    runner,   \* runner[r]: what it does
    ledger,   \* the versions that have a row
    checksum, \* checksum[v]: of its row, or of the last that it had
    schema,   \* external: schema[v], how often the body of v took effect
              \* without having been reverted
    file,     \* external: file[v], which text the migration file has
    commands, edits

vars == <<runner, ledger, checksum, schema, file, commands, edits>>

Phases == {"idle", "reading", "rereading", "body", "record", "commit"}

Texts == 0 .. MaxEdits

(* files: the texts that a command was started with; todo: the pending     *)
(* versions that up has still to apply; v: the one it is at.               *)
Process == [at : Phases, command : Commands, target : Int,
            files : [Versions -> Texts], todo : SUBSET Versions, v : Int]

TypeOK ==
    /\ runner \in [Runners -> Process]
    /\ ledger \subseteq Versions
    /\ checksum \in [Versions -> Texts]
    /\ schema \in [Versions -> Int]
    /\ file \in [Versions -> Texts]
    /\ commands \in Nat /\ edits \in Nat

Init ==
    /\ file = [v \in Versions |-> 0]
    /\ runner = [r \in Runners |-> [at |-> "idle", command |-> "up", target |-> 0,
                                    files |-> file, todo |-> {}, v |-> 0]]
    /\ ledger = {} /\ checksum = file
    /\ schema = [v \in Versions |-> 0]
    /\ commands = 0 /\ edits = 0

Set(r, s) == runner' = [runner EXCEPT ![r] = s]

Finish(r) == Set(r, [runner[r] EXCEPT !.at = "idle"])

IsIdle(r) == runner[r].at = "idle"

-----------------------------------------------------------------------------
Start(r, command, target) ==
    /\ IsIdle(r) /\ commands < MaxCommands
    /\ Exclusive => \A o \in Runners :
           IsIdle(o) \/ (command = "up" /\ runner[o].command = "up")
    /\ commands' = commands + 1
    /\ Set(r, [runner[r] EXCEPT !.at = "reading", !.command = command, !.target = target,
                                !.files = file])
    /\ UNCHANGED <<ledger, checksum, schema, file, edits>>

(* verifiedLedger: no applied migration was edited.                        *)
Verified(r) == \A v \in ledger : checksum[v] = runner[r].files[v]

Least(S) == CHOOSE v \in S : \A o \in S : v <= o

Greatest(S) == CHOOSE v \in S : \A o \in S : o <= v

(* The pending migrations in ascending order; or the latest one, of which  *)
(* downTo asks status() first whether it is above the target.              *)
ReadLedger(r) ==
    LET s == runner[r]
    IN  /\ s.at \in {"reading", "rereading"}
        /\ CASE s.command = "up" /\ Verified(r) /\ Versions \ ledger # {} ->
                  Set(r, [s EXCEPT !.at = "body", !.todo = Versions \ ledger,
                                   !.v = Least(Versions \ ledger)])
             [] /\ s.command = "downTo" /\ s.at = "reading" /\ Verified(r)
                /\ \E v \in ledger : v > s.target ->
                  Set(r, [s EXCEPT !.at = "rereading"])
             [] /\ s.command = "down" \/ (s.command = "downTo" /\ s.at = "rereading")
                /\ Verified(r) /\ ledger # {} ->
                  Set(r, [s EXCEPT !.at = "body", !.v = Greatest(ledger)])
             [] OTHER -> Finish(r)
        /\ UNCHANGED <<ledger, checksum, schema, file, commands, edits>>

Applies(r) == runner[r].command = "up"

(* exec of the up or down section; without transactional DDL it is         *)
(* durable at once.                                                        *)
Body(r) ==
    /\ runner[r].at = "body"
    /\ Set(r, [runner[r] EXCEPT !.at = "record"])
    /\ schema' = IF Transactional THEN schema
                 ELSE [schema EXCEPT ![runner[r].v] = IF Applies(r) THEN @ + 1 ELSE @ - 1]
    /\ UNCHANGED <<ledger, checksum, file, commands, edits>>

(* It fails: a statement is refused, or what it makes is already there.    *)
BodyRejects(r) ==
    /\ runner[r].at = "body"
    /\ Finish(r)
    /\ UNCHANGED <<ledger, checksum, schema, file, commands, edits>>

Rows(r) == IF Applies(r) THEN ledger \cup {runner[r].v} ELSE ledger \ {runner[r].v}

Sums(r) == IF Applies(r) THEN [checksum EXCEPT ![runner[r].v] = runner[r].files[runner[r].v]]
           ELSE checksum

(* The primary key of the ledger; a row that is not there may be deleted.  *)
Acceptable(r) == Applies(r) => runner[r].v \notin ledger

(* A row that another transaction has written is waited for.               *)
Waits(r) ==
    \E o \in Runners \ {r} : runner[o].at = "commit" /\ runner[o].v = runner[r].v

(* What comes after one migration: up takes the next, downTo asks again.   *)
Continue(r) ==
    LET s == runner[r]
        rest == s.todo \ {s.v}
    IN  CASE s.command = "up" /\ rest # {} ->
               Set(r, [s EXCEPT !.at = "body", !.todo = rest, !.v = Least(rest)])
          [] s.command = "downTo" -> Set(r, [s EXCEPT !.at = "reading"])
          [] OTHER -> Finish(r)

(* Mutant: the ledger is written on the connection, not in the             *)
(* transaction.                                                            *)
RecordOutside(r) ==
    /\ runner[r].at = "record" /\ Acceptable(r)
    /\ ledger' = Rows(r) /\ checksum' = Sums(r)
    /\ Set(r, [runner[r] EXCEPT !.at = "commit"])
    /\ UNCHANGED <<schema, file, commands, edits>>

Record(r) ==
    /\ runner[r].at = "record" /\ Acceptable(r)
    /\ IF Transactional
       THEN /\ ~Waits(r)
            /\ Set(r, [runner[r] EXCEPT !.at = "commit"])
            /\ UNCHANGED <<ledger, checksum>>
       ELSE ledger' = Rows(r) /\ checksum' = Sums(r) /\ Continue(r)
    /\ UNCHANGED <<schema, file, commands, edits>>

(* Mutant: a migration that failed is skipped.                             *)
RecordRejectsSkipping(r) ==
    /\ runner[r].at = "record"
    /\ Continue(r)
    /\ UNCHANGED <<ledger, checksum, schema, file, commands, edits>>

RecordRejects(r) ==
    /\ runner[r].at = "record"
    /\ Finish(r)
    /\ UNCHANGED <<ledger, checksum, schema, file, commands, edits>>

Commit(r) ==
    /\ runner[r].at = "commit"
    /\ schema' = [schema EXCEPT ![runner[r].v] = IF Applies(r) THEN @ + 1 ELSE @ - 1]
    /\ ledger' = Rows(r) /\ checksum' = Sums(r)
    /\ Continue(r)
    /\ UNCHANGED <<file, commands, edits>>

(* The process dies, or the commit is refused: nothing is left of the      *)
(* transaction.                                                            *)
Crash(r) ==
    /\ ~IsIdle(r)
    /\ Finish(r)
    /\ UNCHANGED <<ledger, checksum, schema, file, commands, edits>>

Edit(v) ==
    /\ edits < MaxEdits
    /\ edits' = edits + 1
    /\ file' = [file EXCEPT ![v] = edits + 1]
    /\ UNCHANGED <<runner, ledger, checksum, schema, commands>>

-----------------------------------------------------------------------------
Step(r) ==
    \/ \E target \in Versions \cup {0} :
          Start(r, "up", 0) \/ Start(r, "down", 0) \/ Start(r, "downTo", target)
    \/ ReadLedger(r) \/ Body(r) \/ BodyRejects(r) \/ Record(r) \/ RecordRejects(r)
    \/ Commit(r) \/ Crash(r)

Next == (\E r \in Runners : Step(r)) \/ \E v \in Versions : Edit(v)

Spec == Init /\ [][Next]_vars
=============================================================================
