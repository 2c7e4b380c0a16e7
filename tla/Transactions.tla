---------------------------- MODULE Transactions ----------------------------
(***************************************************************************)
(* createTransactionalDb (packages/orm/src/transactions): transaction()    *)
(* and the savepoints of its contexts, over one pinned connection.  The    *)
(* connection executes statements in the order they are sent, so a         *)
(* statement takes effect with the step that sends it; its answer is a     *)
(* step of its own, and other scopes may use the connection in between.    *)
(*                                                                         *)
(* A scope is <<round, n>>: a round is one BEGIN, n = 0 the transaction    *)
(* and n > 0 the savepoint named s<n>.  Its life:                          *)
(*   opening  BEGIN or SAVEPOINT was sent                                  *)
(*   body     the callback runs: its context is open                       *)
(*   closing  the callback resolved, the scope's streams are being closed  *)
(*   ending   COMMIT or RELEASE was sent                                   *)
(*   undoing  ROLLBACK or ROLLBACK TO was sent                             *)
(*   kept, undone: resolved, or rejected with its work rolled back; lost:  *)
(*   rejected because a statement outside the try, or the rollback, failed *)
(***************************************************************************)
EXTENDS Naturals, Sequences

CONSTANTS
    Calls,      \* how often transaction() is called, one call after another
    MaxRetries, \* retry.maxRetries
    Saves,      \* how many savepoints a round may open
    Careful,    \* a callback awaits each promise before its next step, and
                \* lets a statement that was rejected reject it
    Bound       \* how often each disturbance may happen

(* statement: a query is rejected, which breaks the transaction until a    *)
(* rollback.  commit: COMMIT is refused (a deferred constraint, a          *)
(* serialization failure).  connection: it is lost.                        *)
Disturbances == {"statement", "commit", "connection"}

Rounds == 1 .. Calls * (MaxRetries + 1)
Scopes == Rounds \X (0 .. Saves)

ASSUME TransactionsAssumption ==
    /\ Calls \in Nat /\ MaxRetries \in Nat /\ Saves \in Nat
    /\ Careful \in BOOLEAN
    /\ Bound \in [Disturbances -> Nat]

VARIABLES
    scope,     \* scope[s]: at, the scope around it, whether its last
               \* statement succeeded, what its callback did, and (history)
               \* whether its COMMIT or RELEASE took effect
    round,     \* the rounds begun
    calls,     \* the calls made
    retries,   \* retries of the current call
    seq,       \* savepointSeq
    session,   \* external: the connection's transaction at the database
    committed, \* external: the writes that are durable, each named by the
               \* scope that made it
    spent      \* how many disturbances of each kind have happened

vars == <<scope, round, calls, retries, seq, session, committed, spent>>

Phases == {"none", "opening", "body", "closing", "ending", "undoing",
           "kept", "undone", "lost"}

Ended == {"kept", "undone", "lost"}

TypeOK ==
    /\ scope \in [Scopes -> [at : Phases, around : Scopes, ok : BOOLEAN,
                             did : {"nothing", "wrote", "failed"}, kept : BOOLEAN]]
    /\ round \in {0} \cup Rounds
    /\ calls \in 0 .. Calls /\ retries \in 0 .. MaxRetries /\ seq \in 0 .. Saves
    /\ session \in [open : BOOLEAN, broken : BOOLEAN, dead : BOOLEAN,
                    work : SUBSET Scopes,
                    stack : Seq([name : 1 .. Saves, work : SUBSET Scopes])]
    /\ committed \subseteq Scopes
    /\ spent \in [Disturbances -> Nat]

Closed == [open |-> FALSE, broken |-> FALSE, dead |-> FALSE, work |-> {}, stack |-> <<>>]

Init ==
    /\ scope = [s \in Scopes |-> [at |-> "none", around |-> s, ok |-> TRUE,
                                  did |-> "nothing", kept |-> FALSE]]
    /\ round = 0 /\ calls = 0 /\ retries = 0 /\ seq = 0
    /\ session = Closed
    /\ committed = {}
    /\ spent = [d \in Disturbances |-> 0]

Spend(d) == spent[d] < Bound[d] /\ spent' = [spent EXCEPT ![d] = @ + 1]

-----------------------------------------------------------------------------
(* The database.  Each statement of a session answers ok or rejects.       *)

Reject(ok) == ok = FALSE /\ UNCHANGED <<session, committed, spent>>

(* An error inside a transaction breaks it.                                *)
Fail(ok) ==
    /\ ok = FALSE
    /\ session' = [session EXCEPT !.broken = session.open]
    /\ UNCHANGED committed

Usable == ~session.dead /\ ~session.broken

(* The position of the latest savepoint of a name; 0 if there is none.     *)
Saved(name) ==
    LET found == {i \in DOMAIN session.stack : session.stack[i].name = name}
    IN IF found = {} THEN 0 ELSE CHOOSE i \in found : \A k \in found : k <= i

SendBegin(ok) ==
    IF session.dead THEN Reject(ok)
    ELSE /\ ok = TRUE
         /\ session' = [session EXCEPT !.open = TRUE]
         /\ UNCHANGED <<committed, spent>>

(* Outside a transaction a write commits by itself.                        *)
SendWrite(s, ok) ==
    \/ ~Usable /\ Reject(ok)
    \/ /\ Usable /\ ok = TRUE
       /\ IF session.open
          THEN session' = [session EXCEPT !.work = @ \cup {s}] /\ UNCHANGED committed
          ELSE committed' = committed \cup {s} /\ UNCHANGED session
       /\ UNCHANGED spent
    \/ Usable /\ Spend("statement") /\ Fail(ok)

SendSavepoint(name, ok) ==
    IF Usable /\ session.open
    THEN /\ ok = TRUE
         /\ session' = [session EXCEPT !.stack =
                            Append(@, [name |-> name, work |-> session.work])]
         /\ UNCHANGED <<committed, spent>>
    ELSE Reject(ok)

SendRelease(name, ok) ==
    IF Usable /\ Saved(name) # 0
    THEN /\ ok = TRUE
         /\ session' = [session EXCEPT !.stack = SubSeq(@, 1, Saved(name) - 1)]
         /\ UNCHANGED <<committed, spent>>
    ELSE Fail(ok) /\ UNCHANGED spent

(* The savepoint itself stays.                                             *)
SendRollbackTo(name, ok) ==
    IF ~session.dead /\ Saved(name) # 0
    THEN /\ ok = TRUE
         /\ session' = [session EXCEPT !.broken = FALSE,
                            !.work = session.stack[Saved(name)].work,
                            !.stack = SubSeq(@, 1, Saved(name))]
         /\ UNCHANGED <<committed, spent>>
    ELSE Fail(ok) /\ UNCHANGED spent

(* COMMIT of a broken transaction rolls it back, and is no error; neither  *)
(* is COMMIT or ROLLBACK outside a transaction.                            *)
SendCommit(ok) ==
    \/ session.dead /\ Reject(ok)
    \/ /\ ~session.dead /\ ok = TRUE
       /\ session' = Closed
       /\ committed' = IF session.broken THEN committed ELSE committed \cup session.work
       /\ UNCHANGED spent
    \/ /\ Usable /\ session.open /\ ok = FALSE
       /\ Spend("commit")
       /\ session' = Closed
       /\ UNCHANGED committed

SendRollback(ok) ==
    IF session.dead THEN Reject(ok)
    ELSE ok = TRUE /\ session' = Closed /\ UNCHANGED <<committed, spent>>

-----------------------------------------------------------------------------
(* What the two kinds of scope send.                                       *)

IsTransaction(s) == s[2] = 0

SendEnd(s, ok) == IF IsTransaction(s) THEN SendCommit(ok) ELSE SendRelease(s[2], ok)

(* Mutant: a scope that failed is ended as one that resolved.           *)
SendUndoReleasing(s, ok) == SendEnd(s, ok)

SendUndo(s, ok) == IF IsTransaction(s) THEN SendRollback(ok) ELSE SendRollbackTo(s[2], ok)

Set(s, at, ok) == scope' = [scope EXCEPT ![s].at = at, ![s].ok = ok]

Answered(s) == scope[s].ok /\ ~session.dead

(* What a callback may do: anything its context allows, at any moment, or, *)
(* when it awaits what it calls, one thing at a time.                      *)
Running(s) ==
    /\ scope[s].at = "body"
    /\ Careful => \A c \in Scopes \ {s} :
                      scope[c].around = s => scope[c].at \in {"none"} \cup Ended

Sound(s) == Careful => scope[s].did # "failed"

-----------------------------------------------------------------------------
(* transaction().                                                          *)

BeginRound ==
    LET s == <<round + 1, 0>>
    IN  /\ round' = round + 1
        /\ seq' = 0
        /\ \E ok \in BOOLEAN :
              /\ SendBegin(ok)
              /\ Set(s, "opening", ok)

LastEnded == \A r \in Rounds : round = r => scope[<<r, 0>>].at \in Ended

Call ==
    /\ LastEnded /\ calls < Calls
    /\ calls' = calls + 1 /\ retries' = 0
    /\ BeginRound

(* The rollback was answered and the failure is one of the dialect's       *)
(* retryable codes: BEGIN again after the backoff.                         *)
Retry ==
    /\ retries < MaxRetries
    /\ \E r \in Rounds : round = r /\ scope[<<r, 0>>].at = "undone"
    /\ retries' = retries + 1
    /\ BeginRound
    /\ UNCHANGED calls

-----------------------------------------------------------------------------
(* A callback.                                                             *)

(* context.execute of a write.                                             *)
Execute(s) ==
    /\ Running(s) /\ scope[s].did = "nothing"
    /\ \E ok \in BOOLEAN :
          /\ SendWrite(s, ok)
          /\ scope' = [scope EXCEPT ![s].did = IF ok THEN "wrote" ELSE "failed"]
    /\ UNCHANGED <<round, calls, retries, seq>>

(* context.savepoint.                                                      *)
Savepoint(s) ==
    LET c == <<s[1], seq + 1>>
    IN  /\ Running(s) /\ Sound(s)
        /\ seq < Saves /\ scope[c].at = "none"
        /\ seq' = seq + 1
        /\ \E ok \in BOOLEAN :
              /\ SendSavepoint(c[2], ok)
              /\ scope' = [scope EXCEPT ![c].at = "opening", ![c].ok = ok, ![c].around = s]
        /\ UNCHANGED <<round, calls, retries>>

BodyReturns(s) ==
    /\ Running(s) /\ Sound(s)
    /\ Set(s, "closing", TRUE)
    /\ UNCHANGED <<round, calls, retries, seq, session, committed, spent>>

(* close() then has nothing to wait for that changes what is sent.         *)
BodyThrows(s) ==
    /\ Running(s)
    /\ \E ok \in BOOLEAN : SendUndo(s, ok) /\ Set(s, "undoing", ok)
    /\ UNCHANGED <<round, calls, retries, seq>>

-----------------------------------------------------------------------------
(* The end of a scope.                                                     *)

OpenAnswers(s) ==
    /\ scope[s].at = "opening"
    /\ Set(s, IF Answered(s) THEN "body" ELSE "lost", TRUE)
    /\ UNCHANGED <<round, calls, retries, seq, session, committed, spent>>

(* Every stream of the scope is closed, or one of them rejects.            *)
CloseSettles(s) ==
    /\ scope[s].at = "closing"
    /\ \E ok \in BOOLEAN :
          /\ SendEnd(s, ok)
          /\ scope' = [scope EXCEPT ![s].at = "ending", ![s].ok = ok, ![s].kept = ok]
    /\ UNCHANGED <<round, calls, retries, seq>>

CloseFails(s) ==
    /\ scope[s].at = "closing"
    /\ \E ok \in BOOLEAN : SendUndo(s, ok) /\ Set(s, "undoing", ok)
    /\ UNCHANGED <<round, calls, retries, seq>>

(* Mutant: a rejected COMMIT or RELEASE passes for success.             *)
EndAnswersUnchecked(s) ==
    /\ scope[s].at = "ending"
    /\ Set(s, "kept", TRUE) /\ UNCHANGED <<session, committed, spent>>
    /\ UNCHANGED <<round, calls, retries, seq>>

EndAnswers(s) ==
    /\ scope[s].at = "ending"
    /\ IF Answered(s)
       THEN Set(s, "kept", TRUE) /\ UNCHANGED <<session, committed, spent>>
       ELSE \E ok \in BOOLEAN : SendUndo(s, ok) /\ Set(s, "undoing", ok)
    /\ UNCHANGED <<round, calls, retries, seq>>

UndoAnswers(s) ==
    /\ scope[s].at = "undoing"
    /\ Set(s, IF Answered(s) THEN "undone" ELSE "lost", TRUE)
    /\ UNCHANGED <<round, calls, retries, seq, session, committed, spent>>

-----------------------------------------------------------------------------
(* The connection is lost: the database rolls back, and every statement    *)
(* and every answer that is still on its way rejects.                      *)
Disconnect ==
    /\ ~session.dead /\ round > 0
    /\ Spend("connection")
    /\ session' = [Closed EXCEPT !.dead = TRUE]
    /\ UNCHANGED <<scope, round, calls, retries, seq, committed>>

Callback(s) == Execute(s) \/ Savepoint(s) \/ BodyReturns(s) \/ BodyThrows(s)

Ending(s) ==
    OpenAnswers(s) \/ CloseSettles(s) \/ CloseFails(s) \/ EndAnswers(s) \/ UndoAnswers(s)

Next ==
    \/ Call \/ Retry \/ Disconnect
    \/ \E s \in Scopes : Callback(s) \/ Ending(s)

Spec == Init /\ [][Next]_vars
=============================================================================
