-------------------------- MODULE OutboxDispatcher --------------------------
(***************************************************************************)
(* The transactional outbox of packages/orm/src/outbox: the table          *)
(* zmdb_outbox and the dispatchers that publish its rows.  Any number of   *)
(* dispatchers share the table, and each may run several passes at once:   *)
(* the one of its polling loop and those of callers of runOnce().          *)
(*                                                                         *)
(* A pass is three statements, then a publish and a mark for each row:     *)
(*   off      no pass (in a loop: its timer runs)                          *)
(*   list     the candidates query was sent                                *)
(*   claim    the claim, an UPDATE of the candidates, was sent             *)
(*   read     the read-back by the pass's token was sent                   *)
(*   publish  options.publish of the first row left is in progress         *)
(*   mark     the UPDATE that records its outcome was sent                 *)
(*   notify   onDead is in progress                                        *)
(* A statement that rejects ends the pass, whether or not it was applied.  *)
(*                                                                         *)
(* Rows are numbered by created_at.  lease_until is read only in the test  *)
(* lease_until < now, so a row is `hidden' until LeaseEnds; backoff and    *)
(* lease are that one column.  Tokens are drawn per pass: the owner of a   *)
(* row is the pass whose current token it bears, and Past once no pass     *)
(* has that token.  Date.now() of the test is read when a pass begins; the *)
(* claim is allowed here what a fresh reading would allow.                 *)
(***************************************************************************)
EXTENDS Naturals, FiniteSets, FiniteSetsExt, Functions

CONSTANTS
    Rows,        \* 1 .. N in the order of created_at
    Malformed,   \* the rows claimedRow() refuses, their id and attempts intact
    MaxAttempts,
    Batch,
    Dispatchers,
    Passes,      \* slots for passes
    Of,          \* Of[p]: the dispatcher p belongs to
    Looped,      \* the slots of the polling loops
    Reasons,     \* what publish may reject with: "error", or "none" for undefined
    Past,        \* the owner of a row whose token no pass has
    Bound,       \* how often each disturbance may happen
    Limit        \* ... and how many there may be in all

(* fault: a statement or onDead rejects.  crash: a process dies.  early: a  *)
(* lease ends while the pass that holds the row is still to mark it.       *)
Disturbances == {"fault", "crash", "early", "shutdown"}

ASSUME OutboxAssumption ==
    /\ Rows \subseteq Nat /\ Malformed \subseteq Rows
    /\ MaxAttempts \in Nat \ {0} /\ Batch \in Nat \ {0}
    /\ Of \in [Passes -> Dispatchers] /\ Looped \subseteq Passes
    /\ Reasons \subseteq {"error", "none"} /\ Past \notin Passes
    /\ Bound \in [Disturbances -> Nat] /\ Limit \in Nat

VARIABLES
    status, attempts, \* columns of zmdb_outbox
    owner,            \* lease_owner
    hidden,           \* lease_until >= now
    pass,             \* pass[p]: where the pass stands
    mode,             \* mode[d]: open, draining, resolved, down
    rejected,         \* history: failed publications of a row, up to MaxAttempts
    published,        \* history: the rows some publish resolved for
    told,             \* history: the rows onDead was called for
    spent             \* how many disturbances of each kind have happened

table == <<status, attempts, owner, hidden>>
vars == <<table, pass, mode, rejected, published, told, spent>>

Pass == [at : {"off", "list", "claim", "read", "publish", "mark", "notify"},
         rows : SUBSET Rows,                  \* candidates, then the rows left
         seen : [Rows -> 0 .. MaxAttempts],   \* attempts as read back
         mark : {"delivered", "pending", "dead"}]

NoPass == [at |-> "off", rows |-> {}, seen |-> [r \in Rows |-> 0], mark |-> "pending"]

TypeOK ==
    /\ status \in [Rows -> {"none", "pending", "delivered", "dead"}]
    /\ attempts \in [Rows -> 0 .. MaxAttempts]
    /\ owner \in [Rows -> Passes \cup {Past}]
    /\ hidden \in [Rows -> BOOLEAN]
    /\ pass \in [Passes -> Pass]
    /\ mode \in [Dispatchers -> {"open", "draining", "resolved", "down"}]
    /\ rejected \in [Rows -> 0 .. MaxAttempts]
    /\ published \subseteq Rows /\ told \subseteq Rows
    /\ spent \in [Disturbances -> Nat]

Init ==
    /\ status = [r \in Rows |-> "none"]
    /\ attempts = [r \in Rows |-> 0]
    /\ owner = [r \in Rows |-> Past]
    /\ hidden = [r \in Rows |-> FALSE]
    /\ pass = [p \in Passes |-> NoPass]
    /\ mode = [d \in Dispatchers |-> "open"]
    /\ rejected = [r \in Rows |-> 0]
    /\ published = {} /\ told = {}
    /\ spent = [d \in Disturbances |-> 0]

Spend(d) ==
    /\ spent[d] < Bound[d] /\ FoldFunction(+, 0, spent) < Limit
    /\ spent' = [spent EXCEPT ![d] = @ + 1]

Up(p) == mode[Of[p]] # "down"

(* outboxWriter(tx).write: the row is there once its transaction commits;  *)
(* of one that rolls back nothing was ever there.                          *)
Commit(r) ==
    /\ status[r] = "none"
    /\ status' = [status EXCEPT ![r] = "pending"]
    /\ UNCHANGED <<attempts, owner, hidden, pass, mode, rejected, published, told, spent>>

-----------------------------------------------------------------------------
(* The statements.                                                         *)

Claimable(r) == status[r] = "pending" /\ ~hidden[r]

(* Mutant: a row that was tried before is no candidate.                    *)
CandidatesUntried ==
    {r \in Rows : Claimable(r) /\ attempts[r] = 0
                    /\ Cardinality({q \in Rows : Claimable(q) /\ q < r}) < Batch}

(* ORDER BY created_at LIMIT batch.                                        *)
Candidates ==
    {r \in Rows : Claimable(r) /\ Cardinality({q \in Rows : Claimable(q) /\ q < r}) < Batch}

(* Mutant: the token is the dispatcher's, not the pass's.                  *)
ClaimWithOldToken(p) ==
    LET won == {r \in pass[p].rows : Claimable(r)} IN
    /\ owner' = [r \in Rows |-> IF r \in won THEN p ELSE owner[r]]
    /\ hidden' = [r \in Rows |-> r \in won \/ hidden[r]]
    /\ UNCHANGED <<status, attempts>>

(* UPDATE .. WHERE pending AND lease_until < now AND id IN candidates, with *)
(* a token drawn for this pass.                                            *)
Claimed(p) ==
    LET won == {r \in pass[p].rows : Claimable(r)} IN
    /\ owner' = [r \in Rows |-> IF r \in won THEN p ELSE IF owner[r] = p THEN Past ELSE owner[r]]
    /\ hidden' = [r \in Rows |-> r \in won \/ hidden[r]]
    /\ UNCHANGED <<status, attempts>>

(* Mutant: the mark is not fenced by the token.                            *)
MarkedUnfenced(p, r) ==
    /\ status' = [status EXCEPT ![r] = pass[p].mark]
    /\ attempts' = [attempts EXCEPT ![r] = pass[p].seen[r] + 1]
    /\ hidden' = [hidden EXCEPT ![r] = @ \/ pass[p].mark = "pending"]
    /\ UNCHANGED owner

(* The three marks, UPDATE .. WHERE id AND lease_owner = token; a retry is  *)
(* hidden for its backoff.                                                 *)
Marked(p, r) ==
    IF owner[r] # p THEN UNCHANGED table
    ELSE /\ status' = [status EXCEPT ![r] = pass[p].mark]
         /\ attempts' = [attempts EXCEPT ![r] = pass[p].seen[r] + 1]
         /\ hidden' = [hidden EXCEPT ![r] = @ \/ pass[p].mark = "pending"]
         /\ UNCHANGED owner

-----------------------------------------------------------------------------
(* A pass.                                                                 *)

First(p) == Min(pass[p].rows)

(* Publishing goes on with the next row; one that claimedRow refuses is     *)
(* marked dead unpublished.  Without a row left the pass is over.          *)
WithRows(s, rows) ==
    IF rows = {} THEN NoPass
    ELSE IF Min(rows) \in Malformed
         THEN [s EXCEPT !.rows = rows, !.at = "mark", !.mark = "dead"]
         ELSE [s EXCEPT !.rows = rows, !.at = "publish"]

Goto(p, s) == pass' = [pass EXCEPT ![p] = s]

(* The timer of a loop fires, or runOnce() is called.                      *)
Begin(p) ==
    /\ mode[Of[p]] = "open" /\ pass[p].at = "off"
    /\ Goto(p, [NoPass EXCEPT !.at = "list"])
    /\ UNCHANGED <<table, mode, rejected, published, told, spent>>

Listed(p) ==
    /\ Up(p) /\ pass[p].at = "list"
    /\ Goto(p, IF Candidates = {} THEN NoPass
               ELSE [NoPass EXCEPT !.at = "claim", !.rows = Candidates])
    /\ UNCHANGED <<table, mode, rejected, published, told, spent>>

ClaimReturns(p) ==
    /\ Up(p) /\ pass[p].at = "claim"
    /\ Claimed(p)
    /\ Goto(p, [NoPass EXCEPT !.at = "read"])
    /\ UNCHANGED <<mode, rejected, published, told, spent>>

(* What the token owns, and how often it was tried before.                 *)
ReadBack(p) ==
    /\ Up(p) /\ pass[p].at = "read"
    /\ LET mine == {r \in Rows : owner[r] = p}
           read == [r \in Rows |-> IF r \in mine THEN attempts[r] ELSE 0]
       IN Goto(p, WithRows([NoPass EXCEPT !.seen = read], mine))
    /\ UNCHANGED <<table, mode, rejected, published, told, spent>>

PublishResolves(p) ==
    /\ Up(p) /\ pass[p].at = "publish"
    /\ published' = published \cup {First(p)}
    /\ Goto(p, [pass[p] EXCEPT !.at = "mark", !.mark = "delivered"])
    /\ UNCHANGED <<table, mode, rejected, told, spent>>

AfterError(s, r) == IF s.seen[r] + 1 >= MaxAttempts THEN "dead" ELSE "pending"

(* Mutant: onDead is called before the row is marked.                      *)
PublishRejectsTelling(p) ==
    /\ Up(p) /\ pass[p].at = "publish"
    /\ rejected' = [rejected EXCEPT ![First(p)] = Min({@ + 1, MaxAttempts})]
    /\ Goto(p, [pass[p] EXCEPT !.at = "mark", !.mark = AfterError(pass[p], First(p))])
    /\ told' = IF AfterError(pass[p], First(p)) = "dead" THEN told \cup {First(p)} ELSE told
    /\ UNCHANGED <<table, mode, published, spent>>

(* A rejection is recognised by publishError # undefined, so that one       *)
(* without a reason is taken for a success.                                *)
PublishRejects(p) ==
    /\ Up(p) /\ pass[p].at = "publish"
    /\ rejected' = [rejected EXCEPT ![First(p)] = Min({@ + 1, MaxAttempts})]
    /\ \E reason \in Reasons :
          Goto(p, [pass[p] EXCEPT !.at = "mark",
                      !.mark = IF reason = "none" THEN "delivered"
                               ELSE AfterError(pass[p], First(p))])
    /\ UNCHANGED <<table, mode, published, told, spent>>

(* Dead rows are shown to onDead, whatever the fence made of the mark.     *)
MarkReturns(p) ==
    /\ Up(p) /\ pass[p].at = "mark"
    /\ Marked(p, First(p))
    /\ IF pass[p].mark = "dead"
       THEN /\ Goto(p, [pass[p] EXCEPT !.at = "notify"])
            /\ told' = told \cup {First(p)}
       ELSE /\ Goto(p, WithRows(pass[p], pass[p].rows \ {First(p)}))
            /\ UNCHANGED told
    /\ UNCHANGED <<mode, rejected, published, spent>>

Notified(p) ==
    /\ Up(p) /\ pass[p].at = "notify"
    /\ Goto(p, WithRows(pass[p], pass[p].rows \ {First(p)}))
    /\ UNCHANGED <<table, mode, rejected, published, told, spent>>

(* A statement, applied or not, or onDead rejects: so does the pass, and a  *)
(* loop sets its timer again.                                              *)
PassFails(p) ==
    /\ Up(p) /\ pass[p].at \in {"list", "claim", "read", "mark", "notify"}
    /\ Spend("fault")
    /\ \/ UNCHANGED table
       \/ pass[p].at = "claim" /\ Claimed(p)
       \/ pass[p].at = "mark" /\ Marked(p, First(p))
    /\ Goto(p, NoPass)
    /\ UNCHANGED <<mode, rejected, published, told>>

-----------------------------------------------------------------------------
(* The life of a dispatcher, and time.                                     *)

Shutdown(d) ==
    /\ mode[d] = "open"
    /\ Spend("shutdown")
    /\ mode' = [mode EXCEPT ![d] = "draining"]
    /\ UNCHANGED <<table, pass, rejected, published, told>>

(* Mutant: only the loop's own pass is waited for.                         *)
DrainedOfLoop(d) ==
    /\ mode[d] = "draining"
    /\ \A p \in Looped : Of[p] = d => pass[p].at = "off"
    /\ mode' = [mode EXCEPT ![d] = "resolved"]
    /\ UNCHANGED <<table, pass, rejected, published, told, spent>>

(* onShutdown resolves when the active passes have settled.                *)
Drained(d) ==
    /\ mode[d] = "draining"
    /\ \A p \in Passes : Of[p] = d => pass[p].at = "off"
    /\ mode' = [mode EXCEPT ![d] = "resolved"]
    /\ UNCHANGED <<table, pass, rejected, published, told, spent>>

Crash(d) ==
    /\ mode[d] \in {"open", "draining"}
    /\ Spend("crash")
    /\ mode' = [mode EXCEPT ![d] = "down"]
    /\ pass' = [p \in Passes |-> IF Of[p] = d THEN NoPass ELSE pass[p]]
    /\ UNCHANGED <<table, rejected, published, told>>

Restart(d) ==
    /\ mode[d] = "down"
    /\ mode' = [mode EXCEPT ![d] = "open"]
    /\ UNCHANGED <<table, pass, rejected, published, told, spent>>

(* Some pass still has to mark the row.                                    *)
Held(r) ==
    \E p \in Passes : owner[r] = p /\ (pass[p].at = "read" \/ r \in pass[p].rows)

LeaseEnds(r) ==
    /\ hidden[r]
    /\ hidden' = [hidden EXCEPT ![r] = FALSE]
    /\ IF Held(r) THEN Spend("early") ELSE UNCHANGED spent
    /\ UNCHANGED <<status, attempts, owner, pass, mode, rejected, published, told>>

PassStep(p) ==
    \/ Listed(p) \/ ClaimReturns(p) \/ ReadBack(p)
    \/ PublishResolves(p) \/ PublishRejects(p)
    \/ MarkReturns(p) \/ Notified(p) \/ PassFails(p)

Next ==
    \/ \E r \in Rows : Commit(r) \/ LeaseEnds(r)
    \/ \E p \in Passes : Begin(p) \/ PassStep(p)
    \/ \E d \in Dispatchers : Shutdown(d) \/ Drained(d) \/ Crash(d) \/ Restart(d)

Spec == Init /\ [][Next]_vars

(* Statements are answered, publish and onDead settle, timers fire, leases  *)
(* run out and a process that died is started again.  Nobody need call     *)
(* runOnce().                                                              *)
FairSpec ==
    /\ Spec
    /\ \A p \in Passes : WF_vars(PassStep(p))
    /\ \A p \in Looped : WF_vars(Begin(p))
    /\ \A r \in Rows : WF_vars(LeaseEnds(r))
    /\ \A d \in Dispatchers : WF_vars(Drained(d)) /\ WF_vars(Restart(d))
=============================================================================
