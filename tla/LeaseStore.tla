----------------------------- MODULE LeaseStore -----------------------------
(***************************************************************************)
(* The table zmdb_job_lease behind a LeaseStore port, one row per task     *)
(* name, and the one SQL statement each port call runs.  The lines mapped  *)
(* are those of packages/jobs-sqlite; packages/jobs-postgres runs the same *)
(* statements.                                                             *)
(*                                                                         *)
(* expires_at matters only through the test expires_at <= now, so a row is *)
(* `live' while it lies ahead; LeaseExpires(t) is the clock reaching it.   *)
(* A missing row and an expired one of a holder that never comes back are  *)
(* told apart only by the holder, which DELETE removes.                    *)
(***************************************************************************)
EXTENDS Naturals, FiniteSets

CONSTANTS
    Tasks,      \* task names, the keys of the lease rows
    Schedulers, \* scheduler instances; each draws one holder id of its own
    Nobody      \* the holder of a row that is not there

ASSUME LeaseAssumption == Nobody \notin Schedulers

VARIABLE lease \* lease[t]: the row of key t

Lease == [holder : Schedulers \cup {Nobody}, live : BOOLEAN]

NoLease == [holder |-> Nobody, live |-> FALSE]

LeaseInit == lease = [t \in Tasks |-> NoLease]

Owns(s, t) == lease[t].holder = s /\ lease[t].live

(* acquire: INSERT .. ON CONFLICT(key) DO UPDATE .. WHERE holder =          *)
(* excluded.holder OR expires_at <= now.                                   *)
ObtainableByAnyone(s, t) == s \in Schedulers /\ t \in Tasks \* mutant: no WHERE clause

Obtainable(s, t) == lease[t].holder = s \/ ~lease[t].live

Obtained(s, t) == [lease EXCEPT ![t] = [holder |-> s, live |-> TRUE]]

(* renew: UPDATE .. WHERE holder = ? AND expires_at > now.                 *)
Renewable(s, t) == lease[t].holder = s /\ lease[t].live

(* release: DELETE .. WHERE key = ? AND holder = ?, expired or not.        *)
DeletedByKey(s, t) == [lease EXCEPT ![t] = NoLease] \* mutant: no holder in it

Deleted(s, t) ==
    IF lease[t].holder = s THEN [lease EXCEPT ![t] = NoLease] ELSE lease

Expired(t) == lease[t].live /\ lease' = [lease EXCEPT ![t].live = FALSE]
=============================================================================
