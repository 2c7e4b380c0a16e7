----------------------- MODULE TransactionsProperties -----------------------
(***************************************************************************)
(* What transaction() promises, stated over Transactions.                  *)
(***************************************************************************)
EXTENDS Transactions

Resolved(r) == {c \in Scopes : c[1] = r /\ ~IsTransaction(c) /\ scope[c].at = "kept"}

(* The writes of a scope count when it, and each scope around it below the *)
(* transaction, resolved.                                                  *)
Counts(r) ==
    LET outermost == {<<r, 0>>}
    IN  {s \in Scopes :
            /\ s[1] = r /\ scope[s].did = "wrote"
            /\ \E outward \in SUBSET Resolved(r) :
                  /\ s \in outward \cup outermost
                  /\ \A c \in outward : scope[c].around \in outward \cup outermost}

DurableOf(r) == {s \in committed : s[1] = r}

(* What transaction() answers is the truth.  A call that resolved made     *)
(* durable what its callback wrote, and what each savepoint wrote that     *)
(* resolved, and nothing else: "Outer writes survive an inner savepoint    *)
(* rollback" (transactions/SPEC.md, section 3).  An attempt whose rollback *)
(* was answered left nothing, whether its call was retried or rejected:    *)
(* "throw -> ROLLBACK (nothing persists)" (docs-site transactions.md).     *)
AnswerIsHonest ==
    \A r \in Rounds :
        /\ scope[<<r, 0>>].at = "kept" => DurableOf(r) = Counts(r)
        /\ scope[<<r, 0>>].at = "undone" => DurableOf(r) = {}

-----------------------------------------------------------------------------
(* Refinement: the savepoint stack of the connection implements scopes     *)
(* that hand their gain outwards.  The gain of an open scope is what was   *)
(* written since its savepoint and before that of the scope opened in it.  *)
Status(s) ==
    CASE scope[s].at = "none" -> "none"
      [] scope[s].kept -> "kept"
      [] ~scope[s].kept /\ scope[s].at # "none" ->
            IF \/ session.dead
               \/ scope[s].at \in {"undone", "lost"}
               \/ scope[s].at = "undoing" /\ scope[s].ok
               \/ scope[s].at = "opening" /\ ~scope[s].ok
               \/ scope[s].at = "ending" /\ ~scope[s].ok /\ IsTransaction(s)
            THEN "undone" ELSE "open"

Base(s) == IF IsTransaction(s) THEN {} ELSE session.stack[Saved(s[2])].work

Inside(s) == {c \in Scopes \ {s} : scope[c].around = s /\ Status(c) = "open"}

Gain(s) ==
    IF Status(s) # "open" THEN {}
    ELSE (IF Inside(s) = {} THEN session.work ELSE Base(CHOOSE c \in Inside(s) : TRUE))
            \ Base(s)

Promise == INSTANCE AtomicScopes WITH
    status <- [s \in Scopes |-> Status(s)],
    around <- [s \in Scopes |-> scope[s].around],
    gain <- [s \in Scopes |-> Gain(s)],
    durable <- committed

ImplementsAtomicScopes == Promise!Spec

=============================================================================
