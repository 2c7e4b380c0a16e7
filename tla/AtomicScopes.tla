---------------------------- MODULE AtomicScopes ----------------------------
(***************************************************************************)
(* What nested transaction scopes promise, with no connection, statement   *)
(* or savepoint in sight: a scope gathers what is written in it; kept, it  *)
(* hands its gain to the scope around it, and the outermost one makes it   *)
(* durable at once; undone, it takes its gain with it.  Transactions       *)
(* implements this.                                                        *)
(***************************************************************************)
EXTENDS Naturals

CONSTANT Scopes  \* <<round, n>>: n = 0 is the transaction, the others are
                 \* opened in it in the order of n

VARIABLES
    status,   \* status[s]: none, open, kept or undone
    around,   \* around[s]: the scope s was opened in
    gain,     \* gain[s]: what would become durable through s, named by the
              \* scope that wrote it
    durable

IsTransaction(s) == s[2] = 0

OpenFrom(s) == {c \in Scopes : c[1] = s[1] /\ c[2] >= s[2] /\ status[c] = "open"}

Init ==
    /\ status = [s \in Scopes |-> "none"]
    /\ around = [s \in Scopes |-> s]
    /\ gain = [s \in Scopes |-> {}]
    /\ durable = {}

(* s is opened in the innermost scope, or cannot be.                       *)
Open(s, p, outcome) ==
    /\ status[s] = "none"
    /\ IF IsTransaction(s) THEN p = s
       ELSE outcome = "open" => OpenFrom(p) = {p} /\ p[2] < s[2]
    /\ status' = [status EXCEPT ![s] = outcome]
    /\ around' = [around EXCEPT ![s] = p]
    /\ UNCHANGED <<gain, durable>>

Write(s) ==
    /\ status[s] = "open"
    /\ gain' = [gain EXCEPT ![s] = @ \cup {s}]
    /\ UNCHANGED <<status, around, durable>>

Keep(s) ==
    /\ OpenFrom(s) = {s}
    /\ status' = [status EXCEPT ![s] = "kept"]
    /\ IF IsTransaction(s)
       THEN durable' = durable \cup gain[s] /\ gain' = [gain EXCEPT ![s] = {}]
       ELSE /\ gain' = [gain EXCEPT ![s] = {}, ![around[s]] = @ \cup gain[s]]
            /\ UNCHANGED durable
    /\ UNCHANGED around

(* A scope is undone with those open in it.                                *)
Undo(s) ==
    /\ status[s] = "open"
    /\ status' = [c \in Scopes |-> IF c \in OpenFrom(s) THEN "undone" ELSE status[c]]
    /\ gain' = [c \in Scopes |-> IF c \in OpenFrom(s) THEN {} ELSE gain[c]]
    /\ UNCHANGED <<around, durable>>

Next ==
    \E s \in Scopes :
        \/ Write(s) \/ Keep(s) \/ Undo(s)
        \/ \E p \in {q \in Scopes : q[1] = s[1]}, outcome \in {"open", "undone"} :
              Open(s, p, outcome)

Spec == Init /\ [][Next]_<<status, around, gain, durable>>
=============================================================================
