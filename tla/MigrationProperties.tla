------------------------ MODULE MigrationProperties ------------------------
(***************************************************************************)
(* What the migration runner promises where DDL is transactional.          *)
(***************************************************************************)
EXTENDS MigrationRunner

(* "Each migration body and its ledger insert run in one driver-pinned     *)
(* transaction" (docs-site cli-migrate.md): whoever races, fails or        *)
(* crashes, a migration is in force once if the ledger has it, and not at  *)
(* all otherwise.                                                          *)
LedgerIsSchema ==
    Transactional => \A v \in Versions : schema[v] = IF v \in ledger THEN 1 ELSE 0

(* Migrations are in force in order: none without those before it, though  *)
(* one fails or is recorded by another process in the middle of a run.     *)
AppliedInOrder ==
    \A v \in ledger, w \in Versions : w < v => w \in ledger

(* A migration is reverted by the down section of the file that was        *)
(* applied, never by one that was edited since.                            *)
RevertsWhatWasApplied ==
    \A r \in Runners :
        LET s == runner[r]
        IN  s.at \in {"body", "record", "commit"} /\ s.command # "up" /\ s.v \in ledger
            => checksum[s.v] = s.files[s.v]
=============================================================================
