------------------------- MODULE TransactionsProofs -------------------------
(***************************************************************************)
(* Proofs about transactions and savepoints, for any number of calls,      *)
(* retries, savepoints and disturbances.                                   *)
(***************************************************************************)
EXTENDS TransactionsProperties, Integers, TLAPS

-----------------------------------------------------------------------------
(* The savepoint stack of the connection.                                  *)

Savepoints == [name : 1 .. Saves, work : SUBSET Scopes]

SavedIn(stack, name) ==
    LET found == {i \in DOMAIN stack : stack[i].name = name}
    IN IF found = {} THEN 0 ELSE CHOOSE i \in found : \A k \in found : k <= i

(* Names are never used twice in a transaction, as savepointSeq only grows *)
(* while it lasts.                                                         *)
Increasing(stack) ==
    \A i, k \in DOMAIN stack : i < k => stack[i].name < stack[k].name

LEMMA SavedHere == \A n : Saved(n) = SavedIn(session.stack, n) /\ Saved(n)' = SavedIn(session'.stack, n)
  BY DEF Saved, SavedIn

LEMMA SavedFound ==
    ASSUME NEW st \in Seq(Savepoints), Increasing(st), NEW i \in DOMAIN st
    PROVE  SavedIn(st, st[i].name) = i
<1>1. \A k \in DOMAIN st : st[k].name = st[i].name => k = i
  <2> SUFFICES ASSUME NEW k \in DOMAIN st, st[k].name = st[i].name, k # i PROVE FALSE
    OBVIOUS
  <2>1. i \in Nat /\ k \in Nat
    OBVIOUS
  <2>2. st[i] \in Savepoints
    OBVIOUS
  <2>3. st[i].name \in Nat
    BY <2>2, TransactionsAssumption DEF Savepoints
  <2> QED
    BY <2>1, <2>3 DEF Increasing
<1>2. {k \in DOMAIN st : st[k].name = st[i].name} = {i}
  BY <1>1
<1>3. i <= i
  OBVIOUS
<1> QED
  BY <1>2, <1>3 DEF SavedIn

LEMMA SavedWhere ==
    ASSUME NEW st \in Seq(Savepoints), Increasing(st), NEW n, SavedIn(st, n) # 0
    PROVE  /\ SavedIn(st, n) \in DOMAIN st /\ SavedIn(st, n) \in 1 .. Len(st)
           /\ st[SavedIn(st, n)].name = n
<1>1. PICK i \in DOMAIN st : st[i].name = n
  BY DEF SavedIn
<1> QED
  BY <1>1, SavedFound

LEMMA SavedAppend ==
    ASSUME NEW st \in Seq(Savepoints), Increasing(st), NEW e \in Savepoints,
           \A i \in DOMAIN st : st[i].name < e.name
    PROVE  /\ Append(st, e) \in Seq(Savepoints) /\ Increasing(Append(st, e))
           /\ SavedIn(Append(st, e), e.name) = Len(st) + 1
           /\ Append(st, e)[Len(st) + 1] = e
           /\ \A n : SavedIn(st, n) # 0 => /\ SavedIn(Append(st, e), n) = SavedIn(st, n)
                                           /\ Append(st, e)[SavedIn(st, n)] = st[SavedIn(st, n)]
<1> DEFINE new == Append(st, e)
<1>1. /\ new \in Seq(Savepoints) /\ Len(new) = Len(st) + 1
      /\ new[Len(st) + 1] = e /\ \A i \in 1 .. Len(st) : new[i] = st[i]
      /\ DOMAIN new = 1 .. Len(st) + 1 /\ DOMAIN st = 1 .. Len(st) /\ Len(st) \in Nat
  OBVIOUS
<1> HIDE DEF new
<1>2. Increasing(new)
  BY <1>1 DEF Increasing
<1>3. SavedIn(new, e.name) = Len(st) + 1
  BY <1>1, <1>2, SavedFound
<1>4. ASSUME NEW n, SavedIn(st, n) # 0
      PROVE  SavedIn(new, n) = SavedIn(st, n) /\ new[SavedIn(st, n)] = st[SavedIn(st, n)]
  <2>1. SavedIn(st, n) \in 1 .. Len(st) /\ st[SavedIn(st, n)].name = n
    BY <1>4, SavedWhere
  <2>2. SavedIn(st, n) \in DOMAIN new /\ new[SavedIn(st, n)].name = n
    BY <1>1, <2>1
  <2> QED
    BY <1>1, <1>2, <2>1, <2>2, SavedFound
<1> QED
  BY <1>1, <1>2, <1>3, <1>4 DEF new

(* What RELEASE and ROLLBACK TO leave.                                     *)
LEMMA SavedSubSeq ==
    ASSUME NEW st \in Seq(Savepoints), Increasing(st), NEW m \in 0 .. Len(st)
    PROVE  LET left == SubSeq(st, 1, m)
           IN  /\ left \in Seq(Savepoints) /\ Increasing(left)
               /\ \A i \in DOMAIN left : i \in DOMAIN st /\ left[i] = st[i]
               /\ \A n : SavedIn(st, n) # 0 /\ SavedIn(st, n) <= m =>
                     /\ SavedIn(left, n) = SavedIn(st, n)
                     /\ left[SavedIn(st, n)] = st[SavedIn(st, n)]
<1> DEFINE left == SubSeq(st, 1, m)
<1>1. /\ left \in Seq(Savepoints) /\ Len(left) = m /\ Len(st) \in Nat
      /\ DOMAIN left = 1 .. m /\ DOMAIN st = 1 .. Len(st)
      /\ \A i \in 1 .. m : left[i] = st[i]
  OBVIOUS
<1> HIDE DEF left
<1>2. Increasing(left)
  BY <1>1 DEF Increasing
<1>3. ASSUME NEW n, SavedIn(st, n) # 0, SavedIn(st, n) <= m
      PROVE  SavedIn(left, n) = SavedIn(st, n) /\ left[SavedIn(st, n)] = st[SavedIn(st, n)]
  <2>1. SavedIn(st, n) \in 1 .. m /\ st[SavedIn(st, n)].name = n
    BY <1>1, <1>3, SavedWhere
  <2>2. SavedIn(st, n) \in DOMAIN left /\ left[SavedIn(st, n)].name = n
    BY <1>1, <2>1
  <2> QED
    BY <1>1, <1>2, <2>1, <2>2, SavedFound
<1>4. \A i \in DOMAIN left : i \in DOMAIN st /\ left[i] = st[i]
  BY <1>1
<1>5. left \in Seq(Savepoints)
  BY <1>1
<1> QED
  BY <1>2, <1>3, <1>4, <1>5, Zenon DEF left

-----------------------------------------------------------------------------
(* Types.                                                                  *)

Sessions == [open : BOOLEAN, broken : BOOLEAN, dead : BOOLEAN, work : SUBSET Scopes,
             stack : Seq(Savepoints)]

States == [at : Phases, around : Scopes, ok : BOOLEAN, did : {"nothing", "wrote", "failed"},
           kept : BOOLEAN]

(* The stack holds the savepoints of one transaction.                      *)
DatabaseSound ==
    /\ session \in Sessions
    /\ committed \subseteq Scopes
    /\ spent \in [Disturbances -> Nat]
    /\ Increasing(session.stack)
    /\ \A i \in DOMAIN session.stack : session.stack[i].name <= seq
    /\ ~session.open => session.stack = <<>> /\ session.work = {} /\ ~session.broken
    /\ session.open => ~session.dead

CountersSound ==
    /\ round \in {0} \cup Rounds
    /\ calls \in 0 .. Calls /\ retries \in 0 .. MaxRetries /\ seq \in 0 .. Saves
    /\ calls = 0 => round = 0
    /\ calls # 0 => round <= (calls - 1) * (MaxRetries + 1) + retries + 1

(* The transaction of the connection is the one that is under way.         *)
OpenUnderWay ==
    /\ session.open => /\ round \in Rounds
                       /\ scope[<<round, 0>>].at \in {"opening", "body", "closing"}
    /\ \A r \in Rounds :
          scope[<<r, 0>>].at = "opening" /\ ~scope[<<r, 0>>].ok => session.dead

Sane == scope \in [Scopes -> States] /\ CountersSound /\ DatabaseSound /\ OpenUnderWay

LEMMA SaneTypes == Sane => TypeOK
  BY DEF Sane, TypeOK, States, CountersSound, DatabaseSound, Sessions, Savepoints

LEMMA ClosedIsSession ==
    /\ Closed \in Sessions /\ [Closed EXCEPT !.dead = TRUE] \in Sessions
    /\ ~Closed.open /\ ~Closed.broken /\ ~Closed.dead /\ Closed.work = {} /\ Closed.stack = <<>>
    /\ [Closed EXCEPT !.dead = TRUE] =
          [open |-> FALSE, broken |-> FALSE, dead |-> TRUE, work |-> {}, stack |-> <<>>]
<1>1. <<>> \in Seq(Savepoints) /\ {} \in SUBSET Scopes
  OBVIOUS
<1>2. Closed \in Sessions
  BY <1>1 DEF Closed, Sessions
<1>3. ASSUME NEW c \in Sessions, NEW b \in BOOLEAN
      PROVE  [c EXCEPT !.dead = b] = [open |-> c.open, broken |-> c.broken, dead |-> b,
                                      work |-> c.work, stack |-> c.stack]
  BY DEF Sessions
<1>4. /\ ~Closed.open /\ ~Closed.broken /\ ~Closed.dead
      /\ Closed.work = {} /\ Closed.stack = <<>>
  BY DEF Closed
<1>5. Closed.open = FALSE /\ Closed.broken = FALSE
  BY DEF Closed
<1>6. [Closed EXCEPT !.dead = TRUE] =
          [open |-> FALSE, broken |-> FALSE, dead |-> TRUE, work |-> {}, stack |-> <<>>]
  BY <1>2, <1>3, <1>4, <1>5, Zenon
<1>7. [Closed EXCEPT !.dead = TRUE] \in Sessions
  BY <1>1, <1>6 DEF Sessions
<1> QED
  BY <1>2, <1>4, <1>6, <1>7

LEMMA NamesAreNumbers ==
    ASSUME NEW st \in Seq(Savepoints), NEW i \in DOMAIN st
    PROVE  st[i].name \in Nat
<1>1. st[i] \in Savepoints
  OBVIOUS
<1> QED
  BY <1>1, TransactionsAssumption DEF Savepoints

LEMMA EmptyStack == Increasing(<<>>) /\ DOMAIN <<>> = {}
  BY DEF Increasing

(* What each statement leaves behind.                                      *)
LEMMA DatabaseClosed ==
    ASSUME session' \in {Closed, [Closed EXCEPT !.dead = TRUE]},
           committed' \subseteq Scopes, spent' \in [Disturbances -> Nat]
    PROVE  DatabaseSound' /\ ~session'.open
  BY ClosedIsSession, EmptyStack DEF DatabaseSound

LEMMA DatabaseSame ==
    ASSUME DatabaseSound, UNCHANGED <<session, committed, spent>>,
           seq' = seq \/ session.stack = <<>>
    PROVE  DatabaseSound' /\ session'.open = session.open /\ session'.dead = session.dead
  BY EmptyStack DEF DatabaseSound

LEMMA SpendTyped ==
    ASSUME spent \in [Disturbances -> Nat], NEW d \in Disturbances, Spend(d)
    PROVE  spent' \in [Disturbances -> Nat]
  BY DEF Spend

LEMMA SessionParts ==
    ASSUME session \in Sessions
    PROVE  /\ session = [open |-> session.open, broken |-> session.broken, dead |-> session.dead,
                         work |-> session.work, stack |-> session.stack]
           /\ session.open \in BOOLEAN /\ session.broken \in BOOLEAN /\ session.dead \in BOOLEAN
           /\ session.work \subseteq Scopes /\ session.stack \in Seq(Savepoints)
  BY DEF Sessions

LEMMA FailSound ==
    ASSUME DatabaseSound, NEW ok, Fail(ok), spent' \in [Disturbances -> Nat], seq' = seq
    PROVE  /\ DatabaseSound' /\ ok = FALSE /\ committed' = committed
           /\ session' = [session EXCEPT !.broken = session.open]
           /\ session'.open = session.open /\ session'.dead = session.dead
           /\ session'.stack = session.stack /\ session'.work = session.work
<1>1. session' = [open |-> session.open, broken |-> session.open, dead |-> session.dead,
                  work |-> session.work, stack |-> session.stack]
  BY SessionParts DEF Fail, DatabaseSound
<1>2. session' \in Sessions
  BY <1>1, SessionParts DEF Sessions, DatabaseSound
<1> QED
  BY <1>1, <1>2 DEF Fail, DatabaseSound

LEMMA BeginSound ==
    ASSUME DatabaseSound, NEW ok \in BOOLEAN, SendBegin(ok), ~session.open, seq' = 0
    PROVE  /\ DatabaseSound' /\ session'.dead = session.dead
           /\ session'.open <=> ok
           /\ ok <=> ~session.dead
<1>1. session.stack = <<>>
  BY DEF DatabaseSound
<1>2. CASE session.dead
  BY <1>1, <1>2, DatabaseSame DEF SendBegin, Reject
<1>3. CASE ~session.dead
  <2>1. session' = [open |-> TRUE, broken |-> session.broken, dead |-> session.dead,
                    work |-> session.work, stack |-> session.stack]
    BY <1>3, SessionParts DEF SendBegin, DatabaseSound
  <2>2. session' \in Sessions
    BY <2>1, SessionParts DEF Sessions, DatabaseSound
  <2> QED
    BY <1>1, <1>3, <2>1, <2>2, EmptyStack DEF SendBegin, DatabaseSound
<1> QED
  BY <1>2, <1>3 DEF DatabaseSound, Sessions

LEMMA WriteSound ==
    ASSUME DatabaseSound, NEW ok \in BOOLEAN, NEW s \in Scopes, SendWrite(s, ok), seq' = seq
    PROVE  DatabaseSound' /\ session'.open = session.open /\ session'.dead = session.dead
<1>1. CASE ~Usable /\ Reject(ok)
  BY <1>1, DatabaseSame DEF Reject
<1>2. CASE Usable /\ Spend("statement") /\ Fail(ok)
  <2>1. spent' \in [Disturbances -> Nat]
    BY <1>2, SpendTyped DEF DatabaseSound, Disturbances
  <2> QED
    BY <1>2, <2>1, FailSound
<1>3. CASE /\ Usable /\ ok = TRUE /\ UNCHANGED spent
           /\ session.open /\ session' = [session EXCEPT !.work = @ \cup {s}]
           /\ UNCHANGED committed
  <2>1. session' = [open |-> session.open, broken |-> session.broken, dead |-> session.dead,
                    work |-> session.work \cup {s}, stack |-> session.stack]
    BY <1>3, SessionParts DEF DatabaseSound
  <2>2. session' \in Sessions
    BY <2>1, SessionParts DEF Sessions, DatabaseSound
  <2> QED
    BY <1>3, <2>1, <2>2 DEF DatabaseSound
<1>4. CASE /\ Usable /\ ok = TRUE /\ UNCHANGED spent
           /\ ~session.open /\ committed' = committed \cup {s} /\ UNCHANGED session
  BY <1>4 DEF DatabaseSound
<1> QED
  BY <1>1, <1>2, <1>3, <1>4 DEF SendWrite

LEMMA SavepointSound ==
    ASSUME DatabaseSound, NEW ok \in BOOLEAN, seq \in Nat, seq + 1 \in 1 .. Saves,
           SendSavepoint(seq + 1, ok), seq' = seq + 1
    PROVE  DatabaseSound' /\ session'.open = session.open /\ session'.dead = session.dead
<1>1. CASE Usable /\ session.open
  <2> DEFINE e == [name |-> seq + 1, work |-> session.work]
  <2>1. session' = [open |-> session.open, broken |-> session.broken, dead |-> session.dead,
                    work |-> session.work, stack |-> Append(session.stack, e)]
    BY <1>1, SessionParts DEF SendSavepoint, DatabaseSound
  <2>2. e \in Savepoints /\ session.stack \in Seq(Savepoints)
    BY SessionParts DEF DatabaseSound, Savepoints
  <2>3. \A i \in DOMAIN session.stack : session.stack[i].name \in Nat
    BY <2>2, NamesAreNumbers
  <2>4. \A i \in DOMAIN session.stack : session.stack[i].name < e.name
    BY <2>3 DEF DatabaseSound
  <2>5. Append(session.stack, e) \in Seq(Savepoints) /\ Increasing(Append(session.stack, e))
    BY <2>2, <2>4, SavedAppend DEF DatabaseSound
  <2>6. \A i \in DOMAIN Append(session.stack, e) : Append(session.stack, e)[i].name <= seq + 1
    BY <2>2, <2>3 DEF DatabaseSound
  <2>7. session' \in Sessions
    BY <2>1, <2>5, SessionParts DEF Sessions, DatabaseSound
  <2>8. /\ session'.stack = Append(session.stack, e) /\ session'.open = session.open
        /\ session'.dead = session.dead
    BY <2>1
  <2> HIDE DEF e
  <2> QED
    BY <1>1, <2>5, <2>6, <2>7, <2>8 DEF SendSavepoint, DatabaseSound
<1>2. CASE ~(Usable /\ session.open)
  <2>1. UNCHANGED <<session, committed, spent>>
    BY <1>2 DEF SendSavepoint, Reject
  <2>2. \A i \in DOMAIN session.stack : session.stack[i].name \in Nat
    BY SessionParts, NamesAreNumbers DEF DatabaseSound
  <2> QED
    BY <2>1, <2>2 DEF DatabaseSound
<1> QED
  BY <1>1, <1>2

(* The stack is cut.                                                       *)
LEMMA CutSound ==
    ASSUME DatabaseSound, NEW m \in 0 .. Len(session.stack), NEW w \in SUBSET Scopes,
           NEW b \in BOOLEAN, NEW left, left = SubSeq(session.stack, 1, m),
           session' = [session EXCEPT !.broken = b, !.work = w, !.stack = left],
           session.open, UNCHANGED <<committed, spent, seq>>
    PROVE  DatabaseSound' /\ session'.open = session.open /\ session'.dead = session.dead
<1>1. left \in Seq(Savepoints) /\ Increasing(left)
      /\ \A i \in DOMAIN left : i \in DOMAIN session.stack /\ left[i] = session.stack[i]
  BY SavedSubSeq, SessionParts DEF DatabaseSound
<1>3. session' = [open |-> session.open, broken |-> b, dead |-> session.dead,
                  work |-> w, stack |-> left]
  BY SessionParts DEF DatabaseSound
<1>4. session.open \in BOOLEAN /\ session.dead \in BOOLEAN
  BY SessionParts DEF DatabaseSound
<1>5. session' \in Sessions
  BY <1>1, <1>3, <1>4 DEF Sessions
<1>6. /\ session'.stack = left /\ session'.open = session.open /\ session'.dead = session.dead
  BY <1>3
<1>7. committed' \subseteq Scopes /\ spent' \in [Disturbances -> Nat] /\ seq' = seq
  BY DEF DatabaseSound
<1>8. \A i \in DOMAIN left : left[i].name <= seq
  BY <1>1 DEF DatabaseSound
<1>9. session'.open /\ ~session'.dead
  BY <1>6 DEF DatabaseSound
<1> QED
  BY <1>1, <1>5, <1>6, <1>7, <1>8, <1>9, Zenon DEF DatabaseSound

LEMMA SavedMeansOpen ==
    ASSUME DatabaseSound, NEW n, Saved(n) # 0
    PROVE  /\ session.open /\ Saved(n) \in 1 .. Len(session.stack)
           /\ session.stack[Saved(n)] \in Savepoints /\ session.stack[Saved(n)].name = n
<1>1. /\ Saved(n) \in 1 .. Len(session.stack) /\ Saved(n) \in DOMAIN session.stack
      /\ session.stack[Saved(n)].name = n
  BY SavedHere, SavedWhere, SessionParts DEF DatabaseSound
<1>2. session.open
  BY <1>1, EmptyStack DEF DatabaseSound
<1> QED
  BY <1>1, <1>2, SessionParts DEF DatabaseSound

LEMMA ReleaseSound ==
    ASSUME DatabaseSound, NEW ok \in BOOLEAN, NEW n, SendRelease(n, ok), seq' = seq
    PROVE  DatabaseSound' /\ session'.open = session.open /\ session'.dead = session.dead
<1>1. CASE Usable /\ Saved(n) # 0
  <2>1. session.open /\ Saved(n) \in 1 .. Len(session.stack)
    BY <1>1, SavedMeansOpen
  <2> DEFINE m == Saved(n) - 1
  <2>2. m \in 0 .. Len(session.stack)
    BY <2>1, SessionParts DEF DatabaseSound
  <2>3. session' = [session EXCEPT !.broken = session.broken, !.work = session.work,
                                   !.stack = SubSeq(@, 1, m)]
    BY <1>1, SessionParts DEF SendRelease, DatabaseSound
  <2>4. UNCHANGED <<committed, spent>>
    BY <1>1 DEF SendRelease
  <2>5. session.work \in SUBSET Scopes /\ session.broken \in BOOLEAN
    BY SessionParts DEF DatabaseSound
  <2> HIDE DEF m
  <2> QED
    BY <2>1, <2>2, <2>3, <2>4, <2>5, CutSound
<1>2. CASE ~(Usable /\ Saved(n) # 0)
  BY <1>2, FailSound DEF SendRelease, DatabaseSound
<1> QED
  BY <1>1, <1>2

LEMMA RollbackToSound ==
    ASSUME DatabaseSound, NEW ok \in BOOLEAN, NEW n, SendRollbackTo(n, ok), seq' = seq
    PROVE  DatabaseSound' /\ session'.open = session.open /\ session'.dead = session.dead
<1>1. CASE ~session.dead /\ Saved(n) # 0
  <2> DEFINE m == Saved(n)
             w == session.stack[m].work
  <2>1. session.open /\ m \in 1 .. Len(session.stack) /\ w \in SUBSET Scopes
    BY <1>1, SavedMeansOpen DEF Savepoints
  <2>2. m \in 0 .. Len(session.stack)
    BY <2>1, SessionParts DEF DatabaseSound
  <2>3. /\ session' = [session EXCEPT !.broken = FALSE, !.work = w, !.stack = SubSeq(@, 1, m)]
        /\ UNCHANGED <<committed, spent>>
    BY <1>1 DEF SendRollbackTo
  <2> HIDE DEF m, w
  <2> QED
    BY <2>1, <2>2, <2>3, CutSound
<1>2. CASE ~(~session.dead /\ Saved(n) # 0)
  BY <1>2, FailSound DEF SendRollbackTo, DatabaseSound
<1> QED
  BY <1>1, <1>2

LEMMA CommitSound ==
    ASSUME DatabaseSound, NEW ok \in BOOLEAN, SendCommit(ok), seq' = seq
    PROVE  DatabaseSound' /\ ~session'.open /\ (session'.dead <=> session.dead)
<1>1. CASE session.dead /\ Reject(ok)
  BY <1>1, DatabaseSame DEF Reject, DatabaseSound
<1>2. CASE ~(session.dead /\ Reject(ok))
  <2>1. session' = Closed /\ ~session.dead
    BY <1>2 DEF SendCommit, Usable
  <2>2. committed' \subseteq Scopes /\ spent' \in [Disturbances -> Nat]
    BY <1>2, SessionParts, SpendTyped DEF SendCommit, DatabaseSound, Disturbances
  <2> QED
    BY <2>1, <2>2, DatabaseClosed, ClosedIsSession
<1> QED
  BY <1>1, <1>2

LEMMA RollbackSound ==
    ASSUME DatabaseSound, NEW ok \in BOOLEAN, SendRollback(ok), seq' = seq
    PROVE  /\ DatabaseSound' /\ ~session'.open
           /\ session'.dead <=> session.dead
           /\ ok <=> ~session.dead
<1>1. CASE session.dead
  BY <1>1, DatabaseSame DEF SendRollback, Reject, DatabaseSound
<1>2. CASE ~session.dead
  <2>1. session' = Closed /\ ok = TRUE /\ UNCHANGED <<committed, spent>>
    BY <1>2 DEF SendRollback
  <2>2. committed' \subseteq Scopes /\ spent' \in [Disturbances -> Nat]
    BY <2>1 DEF DatabaseSound
  <2> QED
    BY <1>2, <2>1, <2>2, DatabaseClosed, ClosedIsSession
<1> QED
  BY <1>1, <1>2

LEMMA EndSound ==
    ASSUME DatabaseSound, NEW s, NEW ok \in BOOLEAN, SendEnd(s, ok) \/ SendUndo(s, ok), seq' = seq
    PROVE  /\ DatabaseSound'
           /\ session'.dead <=> session.dead
           /\ session'.open => session.open /\ ~IsTransaction(s)
<1>1. CASE IsTransaction(s)
  BY <1>1, CommitSound, RollbackSound DEF SendEnd, SendUndo
<1>2. CASE ~IsTransaction(s)
  BY <1>2, ReleaseSound, RollbackToSound DEF SendEnd, SendUndo
<1> QED
  BY <1>1, <1>2

(* No call has more rounds than its retries allow.                         *)
LEMMA RoundsLeft ==
    ASSUME CountersSound
    PROVE  /\ calls < Calls => /\ round + 1 \in Rounds
                               /\ round + 1 <= calls * (MaxRetries + 1) + 0 + 1
           /\ round \in Rounds /\ retries < MaxRetries =>
                 /\ round + 1 \in Rounds
                 /\ round + 1 <= (calls - 1) * (MaxRetries + 1) + (retries + 1) + 1
           /\ round \in Nat
<1> DEFINE R == MaxRetries + 1
<1>1. /\ Calls \in Nat /\ MaxRetries \in Nat /\ R \in Nat /\ R >= 1
      /\ calls \in Nat /\ calls <= Calls /\ retries \in Nat /\ retries <= MaxRetries
      /\ round \in Nat /\ (calls = 0 => round = 0)
      /\ calls # 0 => round <= (calls - 1) * R + retries + 1
  <2>1. Calls \in Nat /\ MaxRetries \in Nat
    BY TransactionsAssumption
  <2> QED
    BY <2>1 DEF CountersSound, Rounds
<1>2. Rounds = 1 .. Calls * R
  BY DEF Rounds
<1> HIDE DEF R
<1>3. (calls - 1) * R + R = calls * R
  BY <1>1
<1>4. round <= calls * R
  <2>1. retries + 1 <= R
    BY <1>1 DEF R
  <2>2. (calls - 1) * R \in Int /\ calls * R \in Int
    BY <1>1
  <2>3. CASE calls = 0
    BY <1>1, <2>2, <2>3
  <2>4. CASE calls # 0
    BY <1>1, <1>3, <2>1, <2>2, <2>4
  <2> QED
    BY <2>3, <2>4
<1>5. \A k \in Nat : k <= Calls => k * R <= Calls * R /\ k * R \in Nat /\ Calls * R \in Nat
  <2> SUFFICES ASSUME NEW k \in Nat, k <= Calls
               PROVE  k * R <= Calls * R /\ k * R \in Nat /\ Calls * R \in Nat
    OBVIOUS
  <2>1. /\ Calls - k \in Nat /\ k * R \in Nat /\ Calls * R \in Nat
        /\ (Calls - k) * R \in Nat /\ Calls * R = k * R + (Calls - k) * R
    BY <1>1
  <2> QED
    BY <2>1
<1>6. ASSUME calls < Calls
      PROVE  round + 1 \in Rounds /\ round + 1 <= calls * R + 0 + 1
  <2>1. calls + 1 \in Nat /\ calls + 1 <= Calls
    BY <1>1, <1>6
  <2>2. (calls + 1) * R = calls * R + R
    BY <1>1
  <2>3. calls * R \in Nat /\ (calls + 1) * R <= Calls * R /\ Calls * R \in Nat
    BY <1>1, <1>5, <2>1
  <2>4. round + 1 <= Calls * R
    BY <1>1, <1>4, <2>2, <2>3
  <2> QED
    BY <1>1, <1>2, <1>4, <2>1, <2>3, <2>4
<1>7. ASSUME round \in Rounds, retries < MaxRetries
      PROVE  round + 1 \in Rounds /\ round + 1 <= (calls - 1) * R + (retries + 1) + 1
  <2>1. retries + 2 <= R
    BY <1>1, <1>7 DEF R
  <2>2. (calls - 1) * R \in Int /\ calls * R \in Int /\ calls * R <= Calls * R /\ Calls * R \in Nat
    BY <1>1, <1>5
  <2>0. calls # 0
    BY <1>1, <1>2, <1>7
  <2>3. round + 1 <= (calls - 1) * R + (retries + 1) + 1
    BY <1>1, <2>0, <2>2
  <2>4. round + 1 <= calls * R
    BY <1>1, <1>3, <2>1, <2>2, <2>3
  <2> QED
    BY <1>1, <1>2, <2>2, <2>3, <2>4
<1> QED
  BY <1>1, <1>6, <1>7 DEF R

LEMMA ScopeParts ==
    /\ \A s \in Scopes : s[1] \in Rounds /\ s[2] \in 0 .. Saves /\ s = <<s[1], s[2]>>
    /\ \A r \in Rounds, n \in 0 .. Saves : <<r, n>> \in Scopes
    /\ \A r \in Rounds : <<r, 0>> \in Scopes
    /\ Saves \in Nat
<1>1. Saves \in Nat
  BY TransactionsAssumption
<1> QED
  BY <1>1 DEF Scopes

LEMMA SetTyped ==
    ASSUME scope \in [Scopes -> States], NEW s \in Scopes, NEW at \in Phases, NEW ok \in BOOLEAN,
           Set(s, at, ok)
    PROVE  /\ scope' \in [Scopes -> States]
           /\ scope'[s].at = at /\ (scope'[s].ok <=> ok)
           /\ scope'[s].around = scope[s].around /\ scope'[s].did = scope[s].did
           /\ (scope'[s].kept <=> scope[s].kept)
           /\ \A c \in Scopes \ {s} : scope'[c] = scope[c]
<1> DEFINE new == [scope[s] EXCEPT !.at = at, !.ok = ok]
<1>1. scope[s] \in States
  OBVIOUS
<1>2. scope' = [scope EXCEPT ![s] = new]
  BY <1>1 DEF Set, States
<1>3. new \in States
  BY <1>1 DEF States
<1>4. /\ new.at = at /\ (new.ok <=> ok) /\ (new.kept <=> scope[s].kept)
      /\ new.around = scope[s].around /\ new.did = scope[s].did
  BY <1>1 DEF States
<1> HIDE DEF new
<1> QED
  BY <1>2, <1>3, <1>4

LEMMA EndTyped ==
    ASSUME scope \in [Scopes -> States], NEW s \in Scopes, NEW ok \in BOOLEAN,
           scope' = [scope EXCEPT ![s].at = "ending", ![s].ok = ok, ![s].kept = ok]
    PROVE  /\ scope' \in [Scopes -> States]
           /\ scope'[s].at = "ending" /\ (scope'[s].ok <=> ok) /\ (scope'[s].kept <=> ok)
           /\ scope'[s].around = scope[s].around /\ scope'[s].did = scope[s].did
           /\ \A c \in Scopes \ {s} : scope'[c] = scope[c]
<1> DEFINE new == [scope[s] EXCEPT !.at = "ending", !.ok = ok, !.kept = ok]
<1>1. scope[s] \in States
  OBVIOUS
<1>2. scope' = [scope EXCEPT ![s] = new]
  BY <1>1 DEF States
<1>3. new \in States
  BY <1>1 DEF States, Phases
<1>4. /\ new.at = "ending" /\ (new.ok <=> ok) /\ (new.kept <=> ok)
      /\ new.around = scope[s].around /\ new.did = scope[s].did
  BY <1>1 DEF States
<1> HIDE DEF new
<1>5. scope' \in [Scopes -> States] /\ scope'[s] = new /\ \A c \in Scopes \ {s} : scope'[c] = scope[c]
  BY <1>2, <1>3
<1> QED
  BY <1>4, <1>5

LEMMA InitSane == Init => Sane
<1> SUFFICES ASSUME Init PROVE Sane
  OBVIOUS
<1>1. scope \in [Scopes -> States]
  BY DEF Init, States, Phases
<1>2. CountersSound
  <2>1. Calls \in Nat /\ MaxRetries \in Nat /\ Saves \in Nat
    BY TransactionsAssumption
  <2> QED
    BY <2>1 DEF Init, CountersSound
<1>3. DatabaseSound
  BY ClosedIsSession, EmptyStack DEF Init, DatabaseSound
<1>4. OpenUnderWay
  BY ScopeParts, ClosedIsSession DEF Init, OpenUnderWay
<1> QED
  BY <1>1, <1>2, <1>3, <1>4 DEF Sane

(* A round begins when no transaction is open.                             *)
LEMMA BeginRoundSane ==
    ASSUME Sane, BeginRound, round + 1 \in Rounds, ~session.open,
           calls' \in 0 .. Calls /\ retries' \in 0 .. MaxRetries /\ calls' # 0,
           round + 1 <= (calls' - 1) * (MaxRetries + 1) + retries' + 1
    PROVE  Sane'
<1> DEFINE s == <<round + 1, 0>>
<1>1. s \in Scopes
  BY ScopeParts
<1>2. PICK ok \in BOOLEAN : SendBegin(ok) /\ Set(s, "opening", ok)
  BY DEF BeginRound
<1>3. round' = round + 1 /\ seq' = 0
  BY DEF BeginRound
<1>4. /\ scope' \in [Scopes -> States] /\ scope'[s].at = "opening" /\ (scope'[s].ok <=> ok)
      /\ \A c \in Scopes \ {s} : scope'[c] = scope[c]
  BY <1>1, <1>2, SetTyped DEF Sane, Phases
<1>5. /\ DatabaseSound' /\ session'.dead = session.dead
      /\ session'.open <=> ok
      /\ ok <=> ~session.dead
  BY <1>2, <1>3, BeginSound DEF Sane
<1>6. CountersSound'
  BY <1>3, ScopeParts DEF CountersSound, Rounds
<1>7. OpenUnderWay'
  <2>1. session'.open => round' \in Rounds /\ scope'[<<round', 0>>].at = "opening"
    BY <1>3, <1>4
  <2>2. ASSUME NEW r \in Rounds, scope'[<<r, 0>>].at = "opening", ~scope'[<<r, 0>>].ok
        PROVE  session'.dead
    <3>1. CASE r = round + 1
      BY <1>4, <1>5, <2>2, <3>1
    <3>2. CASE r # round + 1
      <4>1. scope'[<<r, 0>>] = scope[<<r, 0>>]
        BY <1>4, <3>2, ScopeParts
      <4> QED
        BY <1>5, <2>2, <4>1 DEF Sane, OpenUnderWay
    <3> QED
      BY <3>1, <3>2
  <2> QED
    BY <2>1, <2>2 DEF OpenUnderWay, Rounds
<1> QED
  BY <1>4, <1>5, <1>6, <1>7 DEF Sane

(* The connection of a transaction that is over is in no transaction.      *)
LEMMA OverMeansClosed ==
    ASSUME Sane, NEW r \in {0} \cup Rounds, round = r, r \in Rounds => scope[<<r, 0>>].at \in Ended
    PROVE  ~session.open
  BY DEF Sane, OpenUnderWay, Ended

(* Any other step: scopes other than s keep their places, and the          *)
(* transaction of an open session is only where it may be.                 *)
LEMMA MoveSane ==
    ASSUME Sane, NEW s \in Scopes, scope' \in [Scopes -> States], DatabaseSound',
           UNCHANGED <<round, calls, retries>>, seq' \in 0 .. Saves,
           session.dead => session'.dead,
           session'.open => session.open,
           \A c \in Scopes \ {s} : IsTransaction(c) => scope'[c].at = scope[c].at /\ scope'[c].ok = scope[c].ok,
           IsTransaction(s) =>
               /\ scope'[s].at = "opening" => scope[s].at = "opening" /\ scope'[s].ok = scope[s].ok
               /\ session'.open /\ scope[s].at \in {"opening", "body", "closing"} =>
                      scope'[s].at \in {"opening", "body", "closing"}
    PROVE  Sane'
<1>1. CountersSound'
  BY DEF Sane, CountersSound, Rounds
<1>2. OpenUnderWay'
  <2>1. ASSUME session'.open
        PROVE  round' \in Rounds /\ scope'[<<round', 0>>].at \in {"opening", "body", "closing"}
    <3>1. session.open /\ round \in Rounds /\ scope[<<round, 0>>].at \in {"opening", "body", "closing"}
      BY <2>1 DEF Sane, OpenUnderWay
    <3>2. <<round, 0>> \in Scopes /\ IsTransaction(<<round, 0>>)
      BY <3>1, ScopeParts DEF IsTransaction
    <3> QED
      BY <2>1, <3>1, <3>2
  <2>2. ASSUME NEW r \in Rounds, scope'[<<r, 0>>].at = "opening", ~scope'[<<r, 0>>].ok
        PROVE  session'.dead
    <3>1. <<r, 0>> \in Scopes /\ IsTransaction(<<r, 0>>)
      BY ScopeParts DEF IsTransaction
    <3>2. scope[<<r, 0>>].at = "opening" /\ ~scope[<<r, 0>>].ok
      BY <2>2, <3>1
    <3> QED
      BY <3>2 DEF Sane, OpenUnderWay
  <2> QED
    BY <2>1, <2>2 DEF OpenUnderWay, Rounds
<1> QED
  BY <1>1, <1>2 DEF Sane

LEMMA StepSane ==
    ASSUME Sane, [Next]_vars
    PROVE  Sane'
<1> USE DEF Sane
<1>1. CASE Call
  <2>1. LastEnded /\ calls < Calls /\ calls' = calls + 1 /\ retries' = 0 /\ BeginRound
    BY <1>1 DEF Call
  <2>2. round + 1 \in Rounds /\ round + 1 <= calls * (MaxRetries + 1) + 0 + 1
    BY <2>1, RoundsLeft
  <2>3. ~session.open
    BY <2>1, OverMeansClosed DEF LastEnded, CountersSound
  <2>4. calls' \in 0 .. Calls /\ retries' \in 0 .. MaxRetries /\ calls' # 0
    BY <2>1, TransactionsAssumption DEF CountersSound
  <2>5. round + 1 <= (calls' - 1) * (MaxRetries + 1) + retries' + 1
    <3>1. calls' = calls + 1 /\ retries' = 0
      BY <2>1
    <3>2. calls' - 1 = calls
      BY <3>1 DEF CountersSound
    <3>3. (calls' - 1) * (MaxRetries + 1) + retries' + 1 = calls * (MaxRetries + 1) + 0 + 1
      BY <3>1, <3>2
    <3> QED
      BY <2>2, <3>3
  <2> QED
    BY <2>1, <2>2, <2>3, <2>4, <2>5, BeginRoundSane
<1>2. CASE Retry
  <2>1. retries < MaxRetries /\ retries' = retries + 1 /\ BeginRound /\ UNCHANGED calls
    BY <1>2 DEF Retry
  <2>2. PICK r \in Rounds : round = r /\ scope[<<r, 0>>].at = "undone"
    BY <1>2 DEF Retry
  <2>3. round + 1 \in Rounds /\ round + 1 <= (calls - 1) * (MaxRetries + 1) + (retries + 1) + 1
    BY <2>1, <2>2, RoundsLeft
  <2>4. ~session.open
    BY <2>2, OverMeansClosed DEF Ended
  <2>5. calls' \in 0 .. Calls /\ retries' \in 0 .. MaxRetries /\ calls' # 0
    BY <2>1, <2>2, TransactionsAssumption DEF CountersSound, Rounds
  <2> QED
    BY <2>1, <2>3, <2>4, <2>5, BeginRoundSane
<1>3. CASE Disconnect
  <2>1. session' = [Closed EXCEPT !.dead = TRUE]
        /\ UNCHANGED <<scope, round, calls, retries, seq, committed>>
    BY <1>3 DEF Disconnect
  <2>2. spent' \in [Disturbances -> Nat]
    BY <1>3, SpendTyped DEF Disconnect, DatabaseSound, Disturbances
  <2>3. DatabaseSound' /\ ~session'.open /\ session'.dead
    BY <2>1, <2>2, DatabaseClosed, ClosedIsSession DEF DatabaseSound
  <2>4. CountersSound'
    BY <2>1 DEF CountersSound
  <2>5. OpenUnderWay'
    BY <2>1, <2>3 DEF OpenUnderWay
  <2> QED
    BY <2>1, <2>3, <2>4, <2>5
<1>4. ASSUME NEW s \in Scopes, Execute(s) PROVE Sane'
  <2>1. PICK ok \in BOOLEAN :
            /\ SendWrite(s, ok)
            /\ scope' = [scope EXCEPT ![s].did = IF ok THEN "wrote" ELSE "failed"]
    BY <1>4 DEF Execute
  <2>2. UNCHANGED <<round, calls, retries, seq>>
    BY <1>4 DEF Execute
  <2>3. DatabaseSound' /\ session'.open = session.open /\ session'.dead = session.dead
    BY <2>1, <2>2, WriteSound
  <2>4. /\ scope' \in [Scopes -> States]
        /\ \A c \in Scopes : scope'[c].at = scope[c].at /\ scope'[c].ok = scope[c].ok
    BY <2>1 DEF States
  <2> QED
    BY <2>2, <2>3, <2>4, MoveSane DEF CountersSound
<1>5. ASSUME NEW s \in Scopes, Savepoint(s) PROVE Sane'
  <2> DEFINE c == <<s[1], seq + 1>>
  <2>1. PICK ok \in BOOLEAN :
            /\ SendSavepoint(seq + 1, ok)
            /\ scope' = [scope EXCEPT ![c].at = "opening", ![c].ok = ok, ![c].around = s]
    BY <1>5 DEF Savepoint
  <2>2. seq < Saves /\ seq' = seq + 1 /\ UNCHANGED <<round, calls, retries>>
    BY <1>5 DEF Savepoint
  <2>3. seq \in Nat /\ seq + 1 \in 1 .. Saves
    BY <2>2, ScopeParts DEF CountersSound
  <2>4. DatabaseSound' /\ session'.open = session.open /\ session'.dead = session.dead
    BY <2>1, <2>2, <2>3, SavepointSound
  <2>5. c \in Scopes /\ ~IsTransaction(c)
    BY <2>3, ScopeParts DEF IsTransaction
  <2>6. scope' \in [Scopes -> States] /\ \A d \in Scopes \ {c} : scope'[d] = scope[d]
    <3> DEFINE new == [scope[c] EXCEPT !.at = "opening", !.ok = ok, !.around = s]
    <3> HIDE DEF c
    <3>1. scope[c] \in States
      BY <2>5
    <3>2. scope' = [scope EXCEPT ![c] = new]
      BY <2>1, <2>5, <3>1 DEF States
    <3>3. new \in States
      BY <3>1 DEF States, Phases
    <3> HIDE DEF new
    <3> QED
      BY <2>5, <3>2, <3>3
  <2>7. seq' \in 0 .. Saves
    BY <2>2, <2>3
  <2> HIDE DEF c
  <2> QED
    BY <2>2, <2>4, <2>5, <2>6, <2>7, MoveSane
<1>6. ASSUME NEW s \in Scopes, BodyReturns(s) PROVE Sane'
  <2>1. Set(s, "closing", TRUE) /\ UNCHANGED <<round, calls, retries, seq, session, committed, spent>>
    BY <1>6 DEF BodyReturns
  <2>2. /\ scope' \in [Scopes -> States] /\ scope'[s].at = "closing"
        /\ \A c \in Scopes \ {s} : scope'[c] = scope[c]
    BY <2>1, SetTyped DEF Phases
  <2>3. DatabaseSound' /\ session'.open = session.open /\ session'.dead = session.dead
    BY <2>1, DatabaseSame
  <2> QED
    BY <2>1, <2>2, <2>3, MoveSane DEF CountersSound
<1>7. ASSUME NEW s \in Scopes, NEW ok \in BOOLEAN, SendUndo(s, ok), Set(s, "undoing", ok),
             UNCHANGED <<round, calls, retries, seq>>
      PROVE  Sane'
  <2>1. /\ scope' \in [Scopes -> States] /\ scope'[s].at = "undoing"
        /\ \A c \in Scopes \ {s} : scope'[c] = scope[c]
    BY <1>7, SetTyped DEF Phases
  <2>2. /\ DatabaseSound' /\ (session'.dead <=> session.dead)
        /\ session'.open => session.open /\ ~IsTransaction(s)
    BY <1>7, EndSound
  <2> QED
    BY <1>7, <2>1, <2>2, MoveSane DEF CountersSound
<1>8. ASSUME NEW s \in Scopes, OpenAnswers(s) PROVE Sane'
  <2> DEFINE at == IF Answered(s) THEN "body" ELSE "lost"
  <2>1. /\ scope[s].at = "opening" /\ Set(s, at, TRUE)
        /\ UNCHANGED <<round, calls, retries, seq, session, committed, spent>>
    BY <1>8 DEF OpenAnswers
  <2>2. at \in Phases
    BY DEF Phases
  <2>3. /\ scope' \in [Scopes -> States] /\ scope'[s].at = at
        /\ \A c \in Scopes \ {s} : scope'[c] = scope[c]
    BY <2>1, <2>2, SetTyped
  <2>4. DatabaseSound' /\ session'.open = session.open /\ session'.dead = session.dead
    BY <2>1, DatabaseSame
  <2>5. IsTransaction(s) /\ session'.open => at = "body"
    <3> SUFFICES ASSUME IsTransaction(s), session.open PROVE Answered(s)
      BY <2>4
    <3>1. s = <<s[1], 0>> /\ s[1] \in Rounds
      BY ScopeParts DEF IsTransaction
    <3>2. ~session.dead
      BY DEF DatabaseSound
    <3>3. scope[s].ok
      BY <2>1, <3>1, <3>2 DEF OpenUnderWay
    <3> QED
      BY <3>2, <3>3 DEF Answered
  <2>6. at # "opening"
    OBVIOUS
  <2> HIDE DEF at
  <2> QED
    BY <2>1, <2>3, <2>4, <2>5, <2>6, MoveSane DEF CountersSound
<1>9. ASSUME NEW s \in Scopes, CloseSettles(s) PROVE Sane'
  <2>1. PICK ok \in BOOLEAN :
            /\ SendEnd(s, ok)
            /\ scope' = [scope EXCEPT ![s].at = "ending", ![s].ok = ok, ![s].kept = ok]
    BY <1>9 DEF CloseSettles
  <2>2. UNCHANGED <<round, calls, retries, seq>>
    BY <1>9 DEF CloseSettles
  <2>3. /\ scope' \in [Scopes -> States] /\ scope'[s].at = "ending"
        /\ \A c \in Scopes \ {s} : scope'[c] = scope[c]
    BY <2>1, EndTyped
  <2>4. /\ DatabaseSound' /\ (session'.dead <=> session.dead)
        /\ session'.open => session.open /\ ~IsTransaction(s)
    BY <2>1, <2>2, EndSound
  <2> QED
    BY <2>2, <2>3, <2>4, MoveSane DEF CountersSound
<1>10. ASSUME NEW s \in Scopes, EndAnswers(s) PROVE Sane'
  <2>1. CASE Answered(s)
    <3>1. Set(s, "kept", TRUE) /\ UNCHANGED <<session, committed, spent, round, calls, retries, seq>>
      BY <1>10, <2>1 DEF EndAnswers
    <3>2. /\ scope' \in [Scopes -> States] /\ scope'[s].at = "kept"
          /\ \A c \in Scopes \ {s} : scope'[c] = scope[c]
      BY <3>1, SetTyped DEF Phases
    <3>3. DatabaseSound' /\ session'.open = session.open /\ session'.dead = session.dead
      BY <3>1, DatabaseSame
    <3>4. scope[s].at = "ending"
      BY <1>10 DEF EndAnswers
    <3> QED
      BY <3>1, <3>2, <3>3, <3>4, MoveSane DEF CountersSound
  <2>2. CASE ~Answered(s)
    BY <1>7, <1>10, <2>2 DEF EndAnswers
  <2> QED
    BY <2>1, <2>2
<1>11. ASSUME NEW s \in Scopes, UndoAnswers(s) PROVE Sane'
  <2> DEFINE at == IF Answered(s) THEN "undone" ELSE "lost"
  <2>1. /\ scope[s].at = "undoing" /\ Set(s, at, TRUE)
        /\ UNCHANGED <<round, calls, retries, seq, session, committed, spent>>
    BY <1>11 DEF UndoAnswers
  <2>2. at \in Phases /\ at # "opening"
    BY DEF Phases
  <2>3. /\ scope' \in [Scopes -> States] /\ scope'[s].at = at
        /\ \A c \in Scopes \ {s} : scope'[c] = scope[c]
    BY <2>1, <2>2, SetTyped
  <2>4. DatabaseSound' /\ session'.open = session.open /\ session'.dead = session.dead
    BY <2>1, DatabaseSame
  <2> HIDE DEF at
  <2> QED
    BY <2>1, <2>2, <2>3, <2>4, MoveSane DEF CountersSound
<1>12. CASE UNCHANGED vars
  BY <1>12 DEF vars, CountersSound, DatabaseSound, OpenUnderWay
<1>13. ASSUME NEW s \in Scopes, BodyThrows(s) \/ CloseFails(s) PROVE Sane'
  BY <1>7, <1>13 DEF BodyThrows, CloseFails
<1> QED
  BY <1>1, <1>2, <1>3, <1>4, <1>5, <1>6, <1>8, <1>9, <1>10, <1>11, <1>12, <1>13
     DEF Next, Callback, Ending

LEMMA AlwaysSane == Spec => []Sane
<1>1. Init => Sane
  BY InitSane
<1>2. Sane /\ [Next]_vars => Sane'
  BY StepSane
<1> QED
  BY <1>1, <1>2, PTL DEF Spec

(* Every variable keeps its type, whether callbacks are careful or not: no *)
(* call begins more rounds than its retries, and each savepoint's name is  *)
(* new to its transaction.                                                 *)
THEOREM TypeCorrect == Spec => []TypeOK
  BY AlwaysSane, SaneTypes, PTL

-----------------------------------------------------------------------------
(* The scopes of careful callbacks: each is in the body of the one around  *)
(* it, so that those under way form a chain, and only the last moves.      *)

Active(s) == scope[s].at \in {"opening", "body", "closing", "ending", "undoing"}

Innermost(s) == \A c \in Scopes \ {s} : Active(c) => scope[c].around # s

Blank(s) == scope[s].around = s /\ scope[s].did = "nothing" /\ ~scope[s].kept

Placed(s) ==
    /\ scope[s].at = "none" => Blank(s)
    /\ s[1] > round \/ (s[1] = round /\ s[2] > seq) => scope[s].at = "none"
    /\ IsTransaction(s) => scope[s].around = s
    /\ scope[s].at # "none" /\ ~IsTransaction(s)
          => scope[s].around[1] = s[1] /\ scope[s].around[2] < s[2]

Inner(s) ==
    Active(s) =>
        /\ s[1] = round /\ Active(<<round, 0>>)
        /\ ~IsTransaction(s) => /\ scope[scope[s].around].at = "body"
                                /\ scope[scope[s].around].did # "failed"

(* Between a scope and the one around it there is none.                    *)
Follows(s, c) ==
    Active(s) /\ Active(c) /\ s[2] < c[2] => s[2] <= scope[c].around[2] /\ ~Innermost(s)

Nested ==
    /\ \A s \in Scopes : Placed(s) /\ Inner(s)
    /\ \A s, c \in Scopes : Follows(s, c)

LEMMA ActiveRounds ==
    ASSUME Sane, Nested, NEW s \in Scopes, Active(s)
    PROVE  /\ round \in Rounds /\ s = <<round, s[2]>> /\ s[2] \in 0 .. seq
           /\ <<round, 0>> \in Scopes /\ seq \in Nat
<1>1. s[1] \in Rounds /\ s[2] \in 0 .. Saves /\ s = <<s[1], s[2]>> /\ Saves \in Nat
  BY ScopeParts
<1>2. s[1] = round /\ scope[s].at # "none"
  BY DEF Nested, Inner, Active
<1>3. seq \in Nat
  BY <1>1 DEF Sane, CountersSound
<1>4. s[2] <= seq
  BY <1>1, <1>2, <1>3 DEF Nested, Placed
<1> QED
  BY <1>1, <1>2, <1>3, <1>4, ScopeParts

LEMMA Greatest ==
    ASSUME Sane, Nested, NEW s \in Scopes, Active(s), Innermost(s), NEW c \in Scopes, Active(c), c # s
    PROVE  c[2] < s[2] /\ ~Innermost(c)
<1>1. s = <<round, s[2]>> /\ c = <<round, c[2]>> /\ s[2] \in Nat /\ c[2] \in Nat
  BY ActiveRounds
<1>2. ~(s[2] < c[2])
  BY DEF Nested, Follows
<1>3. c[2] < s[2]
  BY <1>1, <1>2
<1> QED
  BY <1>3 DEF Nested, Follows

(* Outside of its body a scope has none in it.                             *)
LEMMA OthersAreInnermost ==
    ASSUME Sane, Nested, NEW s \in Scopes, scope[s].at # "body"
    PROVE  Innermost(s)
<1> SUFFICES ASSUME NEW c \in Scopes \ {s}, Active(c), scope[c].around = s PROVE FALSE
  BY DEF Innermost
<1>1. IsTransaction(c) => scope[c].around = c
  BY DEF Nested, Placed
<1> QED
  BY <1>1 DEF Nested, Inner

LEMMA RunningInnermost ==
    ASSUME Sane, Careful, NEW s \in Scopes, Running(s)
    PROVE  Active(s) /\ Innermost(s) /\ scope[s].at = "body"
  BY DEF Running, Active, Innermost, Ended

LEMMA InnermostMoves ==
    ASSUME Sane, Nested, NEW s \in Scopes, Active(s), Innermost(s),
           \A c \in Scopes \ {s} : scope'[c] = scope[c],
           scope'[s].around = scope[s].around, scope'[s].at # "none",
           UNCHANGED <<round, seq>>
    PROVE  Nested'
<1>1. ASSUME NEW c \in Scopes PROVE Active(c)' => Active(c)
  BY <1>1 DEF Active
<1>2. ASSUME NEW c \in Scopes PROVE Placed(c)'
  <2>1. Placed(c)
    BY DEF Nested
  <2>2. CASE c = s
    <3>1. scope[s].at # "none"
      BY DEF Active
    <3> QED
      BY <2>1, <2>2, <3>1 DEF Placed, Blank, IsTransaction
  <2>3. CASE c # s
    BY <2>1, <2>3 DEF Placed, Blank, IsTransaction
  <2> QED
    BY <2>2, <2>3
<1>3. ASSUME NEW c \in Scopes, Active(c)' PROVE Inner(c)'
  <2>1. Active(c) /\ Inner(c) /\ Placed(c) /\ c \in Scopes
    BY <1>1, <1>3 DEF Nested
  <2>2. <<round, 0>> \in Scopes /\ Active(<<round, 0>>)
    BY <2>1, ActiveRounds DEF Inner
  <2>3. c # s => c[2] < s[2]
    BY <2>1, Greatest
  <2>4. Active(<<round, 0>>)'
    <3>1. CASE <<round, 0>> = s
      <4>1. c = s
        BY <2>1, <2>3, <3>1, ActiveRounds
      <4> QED
        BY <1>3, <3>1, <4>1
    <3>2. CASE <<round, 0>> # s
      BY <2>2, <3>2 DEF Active
    <3> QED
      BY <3>1, <3>2
  <2>5. ASSUME ~IsTransaction(c)
        PROVE  /\ scope'[scope'[c].around].at = "body"
               /\ scope'[scope'[c].around].did # "failed"
    <3>1. scope'[c].around = scope[c].around
      BY <2>1
    <3>2. scope[c].around # s
      <4>1. CASE c = s
        <5>1. scope[c].around[2] < c[2] /\ c[2] \in Nat
          BY <2>1, <2>5, ScopeParts DEF Placed, Active
        <5> QED
          BY <4>1, <5>1
      <4>2. CASE c # s
        BY <2>1, <4>2 DEF Innermost
      <4> QED
        BY <4>1, <4>2
    <3>3. scope[c].around \in Scopes
      BY DEF Sane, States
    <3> QED
      BY <2>1, <2>5, <3>1, <3>2, <3>3 DEF Inner
  <2> QED
    BY <2>1, <2>4, <2>5 DEF Inner, IsTransaction
<1>4. ASSUME NEW a \in Scopes, NEW b \in Scopes, Active(a)', Active(b)', a[2] < b[2]
      PROVE  a[2] <= scope'[b].around[2] /\ ~Innermost(a)'
  <2>1. Active(a) /\ Active(b) /\ a[2] <= scope[b].around[2] /\ ~Innermost(a)
    BY <1>1, <1>4 DEF Nested, Follows
  <2>2. scope'[b].around = scope[b].around
    OBVIOUS
  <2>3. PICK d \in Scopes \ {a} : Active(d) /\ scope[d].around = a
    BY <2>1 DEF Innermost
  <2>4. CASE Active(d)'
    <3>1. scope'[d].around = a
      BY <2>3
    <3> QED
      BY <2>1, <2>2, <2>3, <2>4, <3>1 DEF Innermost
  <2>5. CASE ~Active(d)'
    <3>1. d = s
      BY <2>3, <2>5 DEF Active
    <3>2. b # s
      BY <1>4, <2>5, <3>1
    <3>3. b[2] < s[2]
      BY <2>1, <3>2, Greatest
    <3>4. b[2] <= scope[s].around[2]
      BY <2>1, <3>3 DEF Nested, Follows
    <3>5. a[2] \in Nat /\ b[2] \in Nat
      BY ScopeParts
    <3> QED
      BY <1>4, <2>3, <3>1, <3>4, <3>5
  <2> QED
    BY <2>4, <2>5
<1>5. ASSUME NEW a \in Scopes, NEW b \in Scopes PROVE Follows(a, b)'
  BY <1>4, <1>5 DEF Follows
<1>6. ASSUME NEW c \in Scopes PROVE Inner(c)'
  BY <1>3, <1>6 DEF Inner
<1> QED
  BY <1>2, <1>5, <1>6 DEF Nested

(* A savepoint is opened in the innermost scope.                           *)
LEMMA SavepointNests ==
    ASSUME Sane, Nested, NEW s \in Scopes, Active(s), Innermost(s),
           scope[s].at = "body", scope[s].did # "failed", NEW c \in Scopes,
           c = <<s[1], seq + 1>>, scope[c].at = "none", seq' = seq + 1, round' = round,
           scope'[c].at = "opening", scope'[c].around = s,
           \A d \in Scopes \ {c} : scope'[d] = scope[d]
    PROVE  Nested'
<1>1. s[1] = round /\ s[2] \in 0 .. seq /\ seq \in Nat /\ c[1] = s[1] /\ c[2] = seq + 1
  BY ActiveRounds
<1>2. c # s /\ ~Active(c) /\ ~IsTransaction(c) /\ s \in Scopes \ {c} /\ scope'[s] = scope[s]
  BY <1>1 DEF Active, IsTransaction
<1>3. \A d \in Scopes : (Active(d)' <=> Active(d) \/ d = c)
  BY <1>2 DEF Active
<1>4. \A d \in Scopes : Active(d) => d[2] <= s[2] /\ d[2] \in Nat /\ d # c
  <2> SUFFICES ASSUME NEW d \in Scopes, Active(d) PROVE d[2] <= s[2] /\ d[2] \in Nat /\ d # c
    OBVIOUS
  <2>1. d[2] \in Nat /\ d # c
    BY <1>2, ScopeParts
  <2>2. d # s => d[2] < s[2]
    BY Greatest
  <2> QED
    BY <1>1, <2>1, <2>2
<1>5. ASSUME NEW d \in Scopes PROVE Placed(d)'
  <2>1. CASE d = c
    <3>1. /\ ~(c[1] > round') /\ ~(c[2] > seq') /\ s[1] = c[1] /\ s[2] < c[2]
          /\ round \in Nat
      BY <1>1, RoundsLeft DEF Sane
    <3> QED
      BY <1>2, <2>1, <3>1 DEF Placed, IsTransaction
  <2>2. CASE d # c
    <3>1. Placed(d) /\ scope'[d] = scope[d]
      BY <2>2 DEF Nested
    <3>2. d[2] \in Nat
      BY ScopeParts
    <3>3. d[1] = round /\ d[2] > seq + 1 => d[2] > seq
      BY <1>1, <3>2
    <3> QED
      BY <3>1, <3>3 DEF Placed, Blank, IsTransaction
  <2> QED
    BY <2>1, <2>2
<1>6. ASSUME NEW d \in Scopes, Active(d)' PROVE Inner(d)'
  <2>1. <<round, 0>> \in Scopes /\ Active(<<round, 0>>)'
    <3>1. <<round, 0>> \in Scopes /\ Active(<<round, 0>>)
      BY ActiveRounds DEF Nested, Inner
    <3> QED
      BY <1>3, <3>1
  <2>2. CASE d = c
    BY <1>1, <1>2, <2>1, <2>2 DEF Inner, IsTransaction
  <2>3. CASE d # c
    <3>1. Active(d) /\ Inner(d) /\ scope'[d] = scope[d]
      BY <1>3, <1>6, <2>3 DEF Nested
    <3>2. scope[d].around \in Scopes
      BY DEF Sane, States
    <3>3. ~IsTransaction(d) => scope[d].around # c
      BY <3>1 DEF Inner
    <3> QED
      BY <2>1, <3>1, <3>2, <3>3 DEF Inner, IsTransaction
  <2> QED
    BY <2>2, <2>3
<1>7. ASSUME NEW a \in Scopes, NEW b \in Scopes, Active(a)', Active(b)', a[2] < b[2]
      PROVE  a[2] <= scope'[b].around[2] /\ ~Innermost(a)'
  <2>1. a # c
    <3>1. b[2] <= seq + 1
      BY <1>1, <1>3, <1>4, <1>7
    <3>2. b[2] \in Nat
      BY ScopeParts
    <3> QED
      BY <1>1, <1>7, <3>1, <3>2
  <2>2. Active(a)
    BY <1>3, <1>7, <2>1
  <2>3. a[2] <= scope'[b].around[2]
    <3>1. CASE b = c
      BY <1>4, <2>2, <3>1
    <3>2. CASE b # c
      BY <1>3, <1>7, <2>2, <3>2 DEF Nested, Follows
    <3> QED
      BY <3>1, <3>2
  <2>4. ~Innermost(a)'
    <3>1. CASE a = s
      BY <1>2, <1>3, <3>1 DEF Innermost
    <3>2. CASE a # s
      <4>1. ~Innermost(a)
        BY <2>2, <3>2, Greatest
      <4>2. PICK d \in Scopes \ {a} : Active(d) /\ scope[d].around = a
        BY <4>1 DEF Innermost
      <4>3. d # c /\ Active(d)' /\ scope'[d].around = a
        BY <1>3, <1>4, <4>2
      <4> QED
        BY <4>2, <4>3 DEF Innermost
    <3> QED
      BY <3>1, <3>2
  <2> QED
    BY <2>3, <2>4
<1>8. ASSUME NEW a \in Scopes, NEW b \in Scopes PROVE Follows(a, b)'
  BY <1>7, <1>8 DEF Follows
<1>9. ASSUME NEW d \in Scopes PROVE Inner(d)'
  BY <1>6, <1>9 DEF Inner
<1> QED
  BY <1>5, <1>8, <1>9 DEF Nested

(* Between two rounds no scope is under way.                               *)
LEMMA NoneActive ==
    ASSUME Sane, Nested, \A r \in Rounds : round = r => scope[<<r, 0>>].at \in Ended
    PROVE  \A s \in Scopes : ~Active(s)
<1> SUFFICES ASSUME NEW s \in Scopes, Active(s) PROVE FALSE
  OBVIOUS
<1>1. round \in Rounds /\ Active(<<round, 0>>)
  BY ActiveRounds DEF Nested, Inner
<1> QED
  BY <1>1 DEF Active, Ended

LEMMA BeginNests ==
    ASSUME Sane, Nested, \A s \in Scopes : ~Active(s), NEW t \in Scopes,
           t = <<round + 1, 0>>, round' = round + 1, seq' = 0,
           scope'[t].at = "opening", scope'[t].around = scope[t].around,
           \A d \in Scopes \ {t} : scope'[d] = scope[d]
    PROVE  Nested'
<1>1. round \in Nat /\ t[1] = round + 1 /\ t[2] = 0 /\ IsTransaction(t)
  BY RoundsLeft DEF IsTransaction, Sane
<1>2. \A d \in Scopes : (Active(d)' <=> d = t)
  BY DEF Active
<1>3. ASSUME NEW d \in Scopes PROVE Placed(d)'
  <2>0. Placed(d) /\ d[1] \in Nat /\ d[2] \in Nat /\ d = <<d[1], d[2]>>
    BY ScopeParts DEF Nested, Rounds
  <2>1. CASE d = t
    BY <1>1, <2>0, <2>1 DEF Placed, IsTransaction
  <2>2. CASE d # t
    <3>1. scope'[d] = scope[d]
      BY <2>2
    <3>2. d[1] > round + 1 \/ (d[1] = round + 1 /\ d[2] > 0) => d[1] > round
      BY <1>1, <2>0
    <3> QED
      BY <2>0, <3>1, <3>2 DEF Placed, Blank, IsTransaction
  <2> QED
    BY <2>1, <2>2
<1>4. ASSUME NEW d \in Scopes PROVE Inner(d)'
  BY <1>1, <1>2 DEF Inner, IsTransaction
<1>5. ASSUME NEW a \in Scopes, NEW b \in Scopes PROVE Follows(a, b)'
  <2>1. t[2] \in Nat
    BY <1>1
  <2> QED
    BY <1>2, <2>1 DEF Follows
<1> QED
  BY <1>3, <1>4, <1>5 DEF Nested


LEMMA InitNested == Init => Nested
<1> SUFFICES ASSUME Init PROVE Nested
  OBVIOUS
<1>1. \A s \in Scopes : scope[s].at = "none" /\ Blank(s)
  BY DEF Init, Blank
<1> QED
  BY <1>1, Zenon DEF Nested, Placed, Inner, Follows, Active, Blank

LEMMA StepNested ==
    ASSUME Careful, Sane, Nested, [Next]_vars
    PROVE  Nested'
<1> USE DEF Sane
<1>1. ASSUME BeginRound, \A s \in Scopes : ~Active(s), round + 1 \in Rounds PROVE Nested'
  <2> DEFINE t == <<round + 1, 0>>
  <2>1. t \in Scopes
    BY <1>1, ScopeParts
  <2>2. PICK ok \in BOOLEAN : Set(t, "opening", ok)
    BY <1>1 DEF BeginRound
  <2>3. /\ scope'[t].at = "opening" /\ scope'[t].around = scope[t].around
        /\ \A d \in Scopes \ {t} : scope'[d] = scope[d]
    BY <2>1, <2>2, SetTyped DEF Phases
  <2>5. round' = round + 1 /\ seq' = 0
    BY <1>1 DEF BeginRound
  <2> HIDE DEF t
  <2> QED
    BY <1>1, <2>1, <2>3, <2>5, BeginNests DEF t
<1>2. CASE Call
  <2>1. \A s \in Scopes : ~Active(s)
    BY <1>2, NoneActive DEF Call, LastEnded
  <2> QED
    BY <1>1, <1>2, <2>1, RoundsLeft DEF Call
<1>3. CASE Retry
  <2>1. PICK r \in Rounds : round = r /\ scope[<<r, 0>>].at = "undone"
    BY <1>3 DEF Retry
  <2>2. \A s \in Scopes : ~Active(s)
    BY <2>1, NoneActive DEF Ended
  <2> QED
    BY <1>1, <1>3, <2>1, <2>2, RoundsLeft DEF Retry
<1>4. CASE Disconnect \/ UNCHANGED vars
  <2>1. UNCHANGED <<scope, round, seq>>
    BY <1>4 DEF Disconnect, vars
  <2> QED
    BY <2>1 DEF Nested, Placed, Inner, Follows, Active, Innermost, Blank
<1>5. ASSUME NEW s \in Scopes, Execute(s) PROVE Nested'
  <2>1. PICK ok \in BOOLEAN : scope' = [scope EXCEPT ![s].did = IF ok THEN "wrote" ELSE "failed"]
    BY <1>5 DEF Execute
  <2>2. /\ \A c \in Scopes \ {s} : scope'[c] = scope[c]
        /\ scope'[s].around = scope[s].around /\ scope'[s].at = "body"
    BY <1>5, <2>1 DEF Execute, Running, States
  <2>3. UNCHANGED <<round, seq>> /\ Active(s) /\ Innermost(s)
    BY <1>5, RunningInnermost DEF Execute
  <2> QED
    BY <2>2, <2>3, InnermostMoves
<1>6. ASSUME NEW s \in Scopes, Savepoint(s) PROVE Nested'
  <2> DEFINE c == <<s[1], seq + 1>>
  <2>1. PICK ok \in BOOLEAN :
            scope' = [scope EXCEPT ![c].at = "opening", ![c].ok = ok, ![c].around = s]
    BY <1>6 DEF Savepoint
  <2>2. /\ Running(s) /\ scope[s].did # "failed" /\ scope[c].at = "none"
        /\ seq < Saves /\ seq' = seq + 1 /\ round' = round
    BY <1>6 DEF Savepoint, Sound
  <2>3. c \in Scopes
    BY <2>2, ScopeParts DEF CountersSound
  <2>4. /\ scope'[c].at = "opening" /\ scope'[c].around = s
        /\ \A d \in Scopes \ {c} : scope'[d] = scope[d]
    BY <2>1, <2>3 DEF States
  <2>5. Active(s) /\ Innermost(s) /\ scope[s].at = "body"
    BY <2>2, RunningInnermost
  <2> HIDE DEF c
  <2> QED
    BY <2>2, <2>3, <2>4, <2>5, SavepointNests DEF c
<1>7. ASSUME NEW s \in Scopes, Active(s), Innermost(s), UNCHANGED <<round, seq>>,
             NEW at \in Phases \ {"none"}, NEW ok \in BOOLEAN, Set(s, at, ok)
      PROVE  Nested'
  <2>0. at \in Phases /\ at # "none" /\ scope \in [Scopes -> States]
    OBVIOUS
  <2>1. /\ scope'[s].at = at /\ scope'[s].around = scope[s].around
        /\ \A c \in Scopes \ {s} : scope'[c] = scope[c]
    BY <1>7, <2>0, SetTyped
  <2> QED
    BY <1>7, <2>0, <2>1, InnermostMoves
<1>8. ASSUME NEW s \in Scopes, BodyReturns(s) \/ BodyThrows(s) PROVE Nested'
  <2>1. Active(s) /\ Innermost(s)
    BY <1>8, RunningInnermost DEF BodyReturns, BodyThrows
  <2> QED
    BY <1>7, <1>8, <2>1 DEF BodyReturns, BodyThrows, Phases
<1>9. ASSUME NEW s \in Scopes, Ending(s) PROVE Nested'
  <2>1. scope[s].at \in {"opening", "closing", "ending", "undoing"}
    BY <1>9 DEF Ending, OpenAnswers, CloseSettles, CloseFails, EndAnswers, UndoAnswers
  <2>2. Active(s) /\ Innermost(s)
    BY <2>1, OthersAreInnermost DEF Active
  <2>3. CASE OpenAnswers(s) \/ CloseFails(s) \/ EndAnswers(s) \/ UndoAnswers(s)
    BY <1>7, <2>2, <2>3 DEF OpenAnswers, CloseFails, EndAnswers, UndoAnswers, Phases
  <2>4. CASE CloseSettles(s)
    <3>1. PICK ok \in BOOLEAN :
              scope' = [scope EXCEPT ![s].at = "ending", ![s].ok = ok, ![s].kept = ok]
      BY <2>4 DEF CloseSettles
    <3>2. /\ scope'[s].at = "ending" /\ \A c \in Scopes \ {s} : scope'[c] = scope[c]
          /\ scope'[s].around = scope[s].around
      BY <3>1 DEF States
    <3> QED
      BY <2>2, <2>4, <3>2, InnermostMoves DEF CloseSettles
  <2> QED
    BY <1>9, <2>3, <2>4 DEF Ending
<1> QED
  BY <1>2, <1>3, <1>4, <1>5, <1>6, <1>8, <1>9 DEF Next, Callback

-----------------------------------------------------------------------------
(* What reaches a set of open scopes: A writes and, outwards through the   *)
(* scopes that handed theirs on, each write that ends up in A.             *)
Reaches(handed, around, A) ==
    {s \in Scopes : \E K \in SUBSET handed :
        s \in K \cup A /\ \A c \in K : around[c] \in K \cup A}

LEMMA ReachesMore ==
    ASSUME NEW h, NEW ar, NEW A, NEW B, A \subseteq B
    PROVE  Reaches(h, ar, A) \subseteq Reaches(h, ar, B)
  BY DEF Reaches

LEMMA ReachesOnly ==
    ASSUME NEW h, NEW ar, NEW A
    PROVE  /\ \A s \in Scopes : s \in A => s \in Reaches(h, ar, A)
           /\ \A s \in Scopes : s \notin A /\ s \notin h => s \notin Reaches(h, ar, A)
<1>1. {} \in SUBSET h
  OBVIOUS
<1> QED
  BY <1>1 DEF Reaches

LEMMA ReachesSame ==
    ASSUME NEW h, NEW ar, NEW new, NEW A, \A c \in h : new[c] = ar[c]
    PROVE  Reaches(h, new, A) = Reaches(h, ar, A)
  BY DEF Reaches

(* A scope that is opened reaches nobody new.                              *)
LEMMA ReachesOpened ==
    ASSUME NEW h, NEW ar, NEW A, NEW c \in Scopes, c \notin h, \A d \in h : ar[d] # c
    PROVE  Reaches(h, ar, A \cup {c}) = Reaches(h, ar, A) \cup {c}
<1>1. c \in Reaches(h, ar, A \cup {c})
  BY ReachesOnly
<1>2. Reaches(h, ar, A) \subseteq Reaches(h, ar, A \cup {c})
  BY ReachesMore
<1>3. ASSUME NEW s \in Reaches(h, ar, A \cup {c}) PROVE s \in Reaches(h, ar, A) \cup {c}
  <2>1. PICK K \in SUBSET h : s \in K \cup (A \cup {c}) /\ \A d \in K : ar[d] \in K \cup (A \cup {c})
    BY DEF Reaches
  <2>2. \A d \in K : ar[d] \in K \cup A
    BY <2>1
  <2>3. s \in Scopes
    BY DEF Reaches
  <2> QED
    BY <2>1, <2>2, <2>3 DEF Reaches
<1> QED
  BY <1>1, <1>2, <1>3

(* A scope that is kept hands on what reached it.                          *)
LEMMA ReachesKept ==
    ASSUME NEW h, NEW ar, NEW A, NEW s, ar[s] \in A
    PROVE  Reaches(h \cup {s}, ar, A) = Reaches(h, ar, A \cup {s})
<1>1. ASSUME NEW x \in Reaches(h \cup {s}, ar, A) PROVE x \in Reaches(h, ar, A \cup {s})
  <2>1. PICK K \in SUBSET (h \cup {s}) : x \in K \cup A /\ \A d \in K : ar[d] \in K \cup A
    BY DEF Reaches
  <2>2. /\ K \ {s} \in SUBSET h /\ x \in (K \ {s}) \cup (A \cup {s})
        /\ \A d \in K \ {s} : ar[d] \in (K \ {s}) \cup (A \cup {s})
    BY <2>1
  <2>3. x \in Scopes
    BY DEF Reaches
  <2> QED
    BY <2>2, <2>3 DEF Reaches
<1>2. ASSUME NEW x \in Reaches(h, ar, A \cup {s}) PROVE x \in Reaches(h \cup {s}, ar, A)
  <2>1. PICK K \in SUBSET h : x \in K \cup (A \cup {s}) /\ \A d \in K : ar[d] \in K \cup (A \cup {s})
    BY DEF Reaches
  <2>2. /\ K \cup {s} \in SUBSET (h \cup {s}) /\ x \in (K \cup {s}) \cup A
        /\ \A d \in K \cup {s} : ar[d] \in (K \cup {s}) \cup A
    BY <2>1
  <2>3. x \in Scopes
    BY DEF Reaches
  <2> QED
    BY <2>2, <2>3 DEF Reaches
<1> QED
  BY <1>1, <1>2

(* To the scopes further out it hands nothing.                             *)
LEMMA ReachesElsewhere ==
    ASSUME NEW h, NEW ar, NEW A, NEW s, ar[s] \notin h, ar[s] \notin A, ar[s] # s
    PROVE  Reaches(h \cup {s}, ar, A) = Reaches(h, ar, A)
<1>1. ASSUME NEW x \in Reaches(h \cup {s}, ar, A) PROVE x \in Reaches(h, ar, A)
  <2>1. PICK K \in SUBSET (h \cup {s}) : x \in K \cup A /\ \A d \in K : ar[d] \in K \cup A
    BY DEF Reaches
  <2>2. K \in SUBSET h
    BY <2>1
  <2>3. x \in Scopes
    BY DEF Reaches
  <2> QED
    BY <2>1, <2>2, <2>3 DEF Reaches
<1>2. ASSUME NEW x \in Reaches(h, ar, A) PROVE x \in Reaches(h \cup {s}, ar, A)
  <2>1. PICK K \in SUBSET h : x \in K \cup A /\ \A d \in K : ar[d] \in K \cup A
    BY DEF Reaches
  <2>2. K \in SUBSET (h \cup {s}) /\ x \in Scopes
    BY DEF Reaches
  <2> QED
    BY <2>1, <2>2 DEF Reaches
<1> QED
  BY <1>1, <1>2

-----------------------------------------------------------------------------
(* What the connection holds for each scope that is open.                  *)

IsOpen(s) == ~session.dead /\ scope[s].at \in {"opening", "body", "closing"}

Opened == {s \in Scopes : IsOpen(s)}

OpenBelow(n) == {s \in Opened : s[2] < n}

Handed(r) == {c \in Scopes : c[1] = r /\ ~IsTransaction(c) /\ scope[c].kept}

Around == [s \in Scopes |-> scope[s].around]

Writers(r) == {s \in Scopes : s[1] = r /\ scope[s].did = "wrote"}

CountedTo(A) == Writers(round) \cap Reaches(Handed(round), Around, A)

(* The answers a scope has had.                                            *)
Told(s) ==
    /\ scope[s].kept => \/ scope[s].at \in {"ending", "kept"}
                        \/ session.dead /\ scope[s].at \in {"undoing", "lost"}
    /\ scope[s].at = "kept" => scope[s].kept
    /\ scope[s].at = "ending" => (scope[s].ok <=> scope[s].kept)
    /\ scope[s].at \in {"opening", "undoing"} /\ ~scope[s].ok => session.dead
    /\ scope[s].at = "ending" /\ ~scope[s].ok /\ ~IsTransaction(s) => session.dead
    /\ scope[s].at = "closing" => scope[s].did # "failed"

Backed ==
    /\ \A s \in Opened : session.open /\ (~IsTransaction(s) => Saved(s[2]) # 0)
    /\ session.broken => \E s \in Scopes : scope[s].at = "body" /\ scope[s].did = "failed"

Weighed ==
    /\ session.open => session.work = CountedTo(Opened)
    /\ \A s \in Opened : ~IsTransaction(s) => Base(s) = CountedTo(OpenBelow(s[2]))

(* Only the COMMIT of a round made anything of it durable, all at once.    *)
Durable(r) ==
    /\ ~scope[<<r, 0>>].kept => DurableOf(r) = {}
    /\ scope[<<r, 0>>].kept =>
          /\ DurableOf(r) = Writers(r) \cap Reaches(Handed(r), Around, {<<r, 0>>})
          /\ Handed(r) \subseteq Resolved(r)

Accounted ==
    /\ \A s \in Scopes : Told(s)
    /\ Backed /\ Weighed
    /\ \A r \in Rounds : Durable(r)

Honest == Sane /\ Nested /\ Accounted

(* An open scope is under way, and neither it nor the scope it is in has   *)
(* been kept.                                                              *)
LEMMA OpenedAre ==
    ASSUME Honest, NEW s \in Opened
    PROVE  /\ s \in Scopes /\ Active(s) /\ session.open /\ ~session.dead /\ ~scope[s].kept
           /\ s[1] = round
           /\ ~IsTransaction(s) => /\ scope[s].around \in Opened
                                   /\ scope[s].around[2] < s[2] /\ scope[s].around # s
<1>1. s \in Scopes /\ Active(s) /\ ~session.dead
  BY DEF Opened, IsOpen, Active
<1>2. session.open /\ ~scope[s].kept
  BY <1>1 DEF Honest, Accounted, Backed, Told, Opened, IsOpen
<1>3. Inner(s) /\ Placed(s)
  BY <1>1 DEF Honest, Nested
<1>4. ASSUME ~IsTransaction(s)
      PROVE  /\ scope[s].around \in Opened /\ scope[s].around[2] < s[2] /\ scope[s].around # s
  <2>1. scope[s].around \in Scopes
    BY <1>1 DEF Honest, Sane, States
  <2>2. scope[s].around[2] < s[2]
    BY <1>1, <1>3, <1>4 DEF Placed, Active
  <2>3. scope[scope[s].around].at = "body"
    BY <1>1, <1>3, <1>4 DEF Inner
  <2>4. s[2] \in Nat
    BY <1>1, ScopeParts
  <2> QED
    BY <1>1, <2>1, <2>2, <2>3, <2>4 DEF Opened, IsOpen
<1> QED
  BY <1>1, <1>2, <1>3, <1>4 DEF Inner

(* Under way and not broken by a statement that failed: the connection     *)
(* answers the innermost scope.                                            *)
LEMMA InnermostIsUsable ==
    ASSUME Honest, NEW s \in Opened, Innermost(s), scope[s].did # "failed" \/ scope[s].at # "body"
    PROVE  Usable
<1> SUFFICES ASSUME session.broken PROVE FALSE
  BY OpenedAre DEF Usable
<1>1. PICK c \in Scopes : scope[c].at = "body" /\ scope[c].did = "failed"
  BY DEF Honest, Accounted, Backed
<1>2. Active(c) /\ c # s
  BY <1>1 DEF Active
<1>3. s \in Scopes /\ Active(s)
  BY OpenedAre
<1>4. ~Innermost(c)
  BY <1>2, <1>3, Greatest DEF Honest
<1>5. PICK d \in Scopes \ {c} : Active(d) /\ scope[d].around = c
  BY <1>4 DEF Innermost
<1>6. ~IsTransaction(d) /\ Inner(d)
  BY <1>5 DEF Honest, Nested, Placed
<1> QED
  BY <1>1, <1>5, <1>6 DEF Inner

(* What is open besides the innermost scope was opened before it.          *)
LEMMA OpenedBesides ==
    ASSUME Honest, NEW s \in Scopes, Active(s), Innermost(s)
    PROVE  Opened \ {s} = OpenBelow(s[2])
<1>1. ASSUME NEW c \in Opened, c # s PROVE c[2] < s[2]
  BY <1>1, OpenedAre, Greatest DEF Honest
<1>2. ~(s[2] < s[2])
  <2>1. s[2] \in Nat
    BY ScopeParts
  <2> QED
    BY <2>1
<1> QED
  BY <1>1, <1>2 DEF OpenBelow

LEMMA OverMeansClosedNone ==
    ASSUME Sane, \A c \in Scopes : ~Active(c)
    PROVE  ~session.open
<1>1. \A r \in Rounds : <<r, 0>> \in Scopes
  BY ScopeParts
<1> QED
  BY <1>1 DEF Sane, OpenUnderWay, Active

-----------------------------------------------------------------------------
(* What each kind of step does to the account.                             *)

(* The open scopes below and including s.                                  *)
OpenUpTo(s) == OpenBelow(s[2]) \cup {s}

(* A step that leaves an open scope its savepoint.                         *)
Keeps(c) == OpenBelow(c[2])' = OpenBelow(c[2]) /\ Base(c)' = Base(c)

(* Once a transaction is kept none of its savepoints is under way.         *)
LEMMA KeptRests ==
    ASSUME Honest, NEW s \in Scopes, Active(s), scope[<<round, 0>>].kept
    PROVE  s = <<round, 0>>
<1>1. <<round, 0>> \in Scopes /\ Active(<<round, 0>>) /\ s = <<round, s[2]>> /\ s[2] \in Nat
  BY ActiveRounds DEF Honest, Nested, Inner
<1>2. scope[<<round, 0>>].at # "body"
  BY <1>1 DEF Honest, Accounted, Told
<1>3. Innermost(<<round, 0>>)
  BY <1>1, <1>2, OthersAreInnermost DEF Honest
<1>4. s # <<round, 0>> => s[2] < 0
  BY <1>1, <1>3, Greatest DEF Honest
<1> QED
  BY <1>1, <1>4

LEMMA DurableStays ==
    ASSUME Honest, NEW s \in Scopes, \A c \in Scopes \ {s} : scope'[c] = scope[c],
           NEW r \in Rounds, DurableOf(r)' = DurableOf(r),
           \/ s[1] # r
           \/ ~scope[<<s[1], 0>>].kept /\ ~scope'[<<s[1], 0>>].kept
           \/ /\ s = <<s[1], 0>> /\ scope'[s].did = scope[s].did
              /\ scope'[s].kept <=> scope[s].kept
    PROVE  Durable(r)'
<1>1. Durable(r) /\ <<r, 0>> \in Scopes /\ IsTransaction(<<r, 0>>)
  BY ScopeParts DEF Honest, Accounted, IsTransaction
<1>3. s = <<s[1], s[2]>>
  BY ScopeParts
<1>4. CASE /\ s[1] # r \/ (s = <<r, 0>> /\ scope'[s].did = scope[s].did)
           /\ scope'[<<r, 0>>].kept <=> scope[<<r, 0>>].kept
  <2>1. \A c \in Scopes : c[1] = r => scope'[c].did = scope[c].did
    BY <1>1, <1>4
  <2>2. \A c \in Scopes : c[1] = r /\ ~IsTransaction(c) => scope'[c] = scope[c]
    BY <1>4 DEF IsTransaction
  <2>3. Writers(r)' = Writers(r)
    BY <2>1 DEF Writers
  <2>4. Handed(r)' = Handed(r) /\ Resolved(r)' = Resolved(r)
    BY <2>2 DEF Handed, Resolved, IsTransaction
  <2>5. \A c \in Handed(r) : Around'[c] = Around[c]
    BY <2>2 DEF Handed, Around
  <2>6. \A A : Reaches(Handed(r), Around', A) = Reaches(Handed(r), Around, A)
    BY <2>5, ReachesSame
  <2> QED
    BY <1>1, <1>4, <2>3, <2>4, <2>6 DEF Durable
<1>5. CASE s[1] = r /\ ~scope[<<r, 0>>].kept /\ ~scope'[<<r, 0>>].kept
  BY <1>1, <1>5 DEF Durable
<1>6. s[1] # r => scope'[<<r, 0>>] = scope[<<r, 0>>]
  BY <1>1
<1> QED
  BY <1>4, <1>5, <1>6

LEMMA AllDurableStay ==
    ASSUME Honest, NEW s \in Scopes, \A c \in Scopes \ {s} : scope'[c] = scope[c],
           committed' = committed,
           \/ ~scope[<<s[1], 0>>].kept /\ ~scope'[<<s[1], 0>>].kept
           \/ /\ s = <<s[1], 0>> /\ scope'[s].did = scope[s].did
              /\ scope'[s].kept <=> scope[s].kept
    PROVE  \A r \in Rounds : Durable(r)'
<1> SUFFICES ASSUME NEW r \in Rounds PROVE Durable(r)'
  OBVIOUS
<1>1. DurableOf(r)' = DurableOf(r)
  BY DEF DurableOf
<1> QED
  BY <1>1, DurableStays

(* No transaction is open: nothing is owed.                                *)
LEMMA ClosedAccounts ==
    ASSUME DatabaseSound', ~session'.open, \A c \in Scopes : ~IsOpen(c)'
    PROVE  Backed' /\ Weighed'
<1>1. Opened' = {}
  BY DEF Opened
<1> QED
  BY <1>1 DEF Backed, Weighed, DatabaseSound

LEMMA Unmoved ==
    ASSUME NEW s \in Scopes, \A c \in Scopes \ {s} : scope'[c] = scope[c],
           scope'[s].around = scope[s].around, scope'[s].did = scope[s].did,
           scope'[s].kept <=> scope[s].kept
    PROVE  /\ Around' = Around
           /\ \A r : Writers(r)' = Writers(r) /\ Handed(r)' = Handed(r)
  BY DEF Around, Writers, Handed, IsTransaction

(* The others are told nothing.                                            *)
LEMMA OthersTold ==
    ASSUME Honest, NEW s \in Scopes, \A c \in Scopes \ {s} : scope'[c] = scope[c],
           session.dead => session'.dead, Told(s)'
    PROVE  \A c \in Scopes : Told(c)'
<1> SUFFICES ASSUME NEW c \in Scopes, c # s PROVE Told(c)'
  OBVIOUS
<1>1. Told(c) /\ scope'[c] = scope[c]
  BY DEF Honest, Accounted
<1> QED
  BY <1>1 DEF Told, IsTransaction

(* A step that does not reach the database and opens or ends nothing       *)
(* there.                                                                  *)
LEMMA IdleAccounts ==
    ASSUME Honest, NEW s \in Scopes, Active(s), UNCHANGED <<session, committed, round>>,
           \A c \in Scopes \ {s} : scope'[c] = scope[c],
           scope'[s].around = scope[s].around, scope'[s].did = scope[s].did,
           scope'[s].kept <=> scope[s].kept,
           IsOpen(s)' <=> IsOpen(s), Told(s)',
           session.broken => scope[s].at # "body" \/ scope[s].did # "failed"
    PROVE  Accounted'
<1>1. Around' = Around /\ \A r : Writers(r)' = Writers(r) /\ Handed(r)' = Handed(r)
  BY Unmoved
<1>2. Opened' = Opened
  BY DEF Opened, IsOpen
<1>3. \A n : OpenBelow(n)' = OpenBelow(n)
  BY <1>2 DEF OpenBelow
<1>4. \A n : Saved(n)' = Saved(n) /\ session'.stack[Saved(n)] = session.stack[Saved(n)]
  BY SavedHere
<1>5. Backed'
  <2>1. ASSUME session.broken PROVE \E c \in Scopes : scope'[c].at = "body" /\ scope'[c].did = "failed"
    <3>1. PICK c \in Scopes : scope[c].at = "body" /\ scope[c].did = "failed"
      BY <2>1 DEF Honest, Accounted, Backed
    <3>2. c # s
      BY <2>1, <3>1
    <3> QED
      BY <3>1, <3>2
  <2>2. \A c \in Opened : session.open /\ (~IsTransaction(c) => Saved(c[2]) # 0)
    BY DEF Honest, Accounted, Backed
  <2> QED
    BY <1>2, <1>4, <2>1, <2>2 DEF Backed, IsTransaction
<1>6. Weighed'
  <2>1. Weighed
    BY DEF Honest, Accounted
  <2>3. session'.open => session'.work = CountedTo(Opened)'
    BY <1>1, <1>2, <2>1 DEF Weighed, CountedTo
  <2>4. ASSUME NEW c \in Opened, ~IsTransaction(c) PROVE Base(c)' = CountedTo(OpenBelow(c[2]))'
    <3>1. Base(c)' = Base(c)
      BY <1>4, <2>4 DEF Base, IsTransaction
    <3>2. CountedTo(OpenBelow(c[2]))' = CountedTo(OpenBelow(c[2]))
      BY <1>1, <1>3 DEF CountedTo
    <3> QED
      BY <2>1, <2>4, <3>1, <3>2 DEF Weighed
  <2> QED
    BY <1>2, <2>3, <2>4 DEF Weighed, IsTransaction
<1>7. \A r \in Rounds : Durable(r)'
  <2>1. s[1] = round /\ <<round, 0>> \in Scopes /\ round \in Rounds
    BY ActiveRounds DEF Honest, Nested, Inner
  <2>2. CASE scope[<<round, 0>>].kept
    BY <2>1, <2>2, KeptRests, AllDurableStay
  <2>3. CASE ~scope[<<round, 0>>].kept
    <3>1. ~scope'[<<round, 0>>].kept
      BY <2>1, <2>3
    <3> QED
      BY <2>1, <2>3, <3>1, AllDurableStay
  <2> QED
    BY <2>2, <2>3
<1>8. \A c \in Scopes : Told(c)'
  BY OthersTold
<1> QED
  BY <1>5, <1>6, <1>7, <1>8 DEF Accounted

LEMMA Unkept ==
    ASSUME Honest, NEW s \in Scopes, scope[s].at \in {"opening", "body", "closing"}
    PROVE  /\ Active(s) /\ ~scope[s].kept /\ s[1] = round
           /\ <<round, 0>> \in Scopes /\ ~scope[<<round, 0>>].kept
<1>1. Active(s) /\ ~scope[s].kept
  BY DEF Honest, Accounted, Told, Active
<1>2. s[1] = round /\ <<round, 0>> \in Scopes
  BY <1>1, ActiveRounds DEF Honest, Nested, Inner
<1> QED
  BY <1>1, <1>2, KeptRests

(* The innermost scope writes, or fails to.                                *)
LEMMA ExecuteAccounts ==
    ASSUME Careful, Honest, Sane', NEW s \in Scopes, Execute(s)
    PROVE  /\ Accounted' /\ committed' = committed /\ round' = round
           /\ \A c \in Scopes : /\ scope'[c].at = scope[c].at /\ scope'[c].around = scope[c].around
                                /\ scope'[c].kept <=> scope[c].kept
           /\ session'.dead <=> session.dead
           /\ ~session.dead =>
                 /\ s \in Opened /\ Opened' = Opened /\ Innermost(s) /\ Around' = Around
                 /\ Handed(round)' = Handed(round) /\ s \notin Handed(round)
                 /\ s \notin Writers(round)
                 /\ Writers(round)' \in {Writers(round), Writers(round) \cup {s}}
                 /\ \A c \in Opened : Keeps(c)
<1>1. PICK ok \in BOOLEAN :
          /\ SendWrite(s, ok)
          /\ scope' = [scope EXCEPT ![s].did = IF ok THEN "wrote" ELSE "failed"]
  BY DEF Execute
<1>2. /\ Active(s) /\ Innermost(s) /\ scope[s].at = "body" /\ scope[s].did = "nothing"
      /\ UNCHANGED <<round, calls, retries, seq>>
  BY RunningInnermost DEF Execute, Honest
<1>3. /\ s[1] = round /\ ~scope[s].kept /\ <<round, 0>> \in Scopes /\ ~scope[<<round, 0>>].kept
  BY <1>2, Unkept
<1>4. scope \in [Scopes -> States] /\ session \in Sessions /\ DatabaseSound
  BY DEF Honest, Sane, DatabaseSound
<1>5. /\ \A c \in Scopes \ {s} : scope'[c] = scope[c]
      /\ scope'[s].at = "body" /\ scope'[s].around = scope[s].around
      /\ scope'[s].kept <=> scope[s].kept
      /\ scope'[s].did = IF ok THEN "wrote" ELSE "failed"
  <2>1. scope[s] \in States
    BY <1>4
  <2> QED
    BY <1>1, <1>2, <1>4, <2>1 DEF States
<1>16. \A c \in Scopes : /\ scope'[c].at = scope[c].at /\ scope'[c].around = scope[c].around
                         /\ scope'[c].kept <=> scope[c].kept
  BY <1>2, <1>5
<1>6. Around' = Around /\ Handed(round)' = Handed(round)
  BY <1>2, <1>5 DEF Around, Handed, IsTransaction
<1>7. ~scope'[<<round, 0>>].kept
  BY <1>3, <1>5
<1>8. ASSUME committed' = committed PROVE \A r \in Rounds : Durable(r)'
  BY <1>3, <1>5, <1>7, <1>8, AllDurableStay
<1>9. Told(s)'
  BY <1>3, <1>5 DEF Told
<1>10. CASE session.dead
  <2>1. UNCHANGED <<session, committed>> /\ ~session.open
    BY <1>1, <1>4, <1>10 DEF SendWrite, Usable, Reject, DatabaseSound
  <2>2. \A c \in Scopes : ~IsOpen(c)'
    BY <1>10, <2>1 DEF IsOpen
  <2>3. Backed' /\ Weighed'
    BY <2>1, <2>2, ClosedAccounts DEF Sane
  <2> QED
    BY <1>2, <1>5, <1>8, <1>9, <1>10, <1>16, <2>1, <2>3, OthersTold DEF Accounted
<1>11. CASE ~session.dead
  <2>1. s \in Opened /\ session.open
    BY <1>2, <1>11, OpenedAre DEF Opened, IsOpen
  <2>2. Usable
    BY <1>2, <2>1, InnermostIsUsable
  <2>3. /\ session'.open /\ ~session'.dead /\ session'.stack = session.stack
        /\ session'.work = IF ok THEN session.work \cup {s} ELSE session.work
        /\ session'.broken => ~ok
        /\ committed' = committed
    <3>1. CASE ok = TRUE
      <4>1. session' = [session EXCEPT !.work = @ \cup {s}] /\ committed' = committed
        BY <1>1, <2>1, <2>2, <3>1 DEF SendWrite, Reject, Fail
      <4> QED
        BY <1>4, <1>11, <2>1, <2>2, <3>1, <4>1 DEF Sessions, Usable
    <3>2. CASE ok = FALSE
      <4>1. session' = [session EXCEPT !.broken = session.open] /\ committed' = committed
        BY <1>1, <2>2, <3>2 DEF SendWrite, Fail
      <4> QED
        BY <1>4, <1>11, <2>1, <3>2, <4>1 DEF Sessions
    <3> QED
      BY <3>1, <3>2
  <2>4. Opened' = Opened
    BY <1>2, <1>5, <1>11, <2>3 DEF Opened, IsOpen
  <2>5. \A n : OpenBelow(n)' = OpenBelow(n)
    BY <2>4 DEF OpenBelow
  <2>6. \A n : Saved(n)' = Saved(n)
    BY <2>3, SavedHere
  <2>8. Writers(round)' = IF ok THEN Writers(round) \cup {s} ELSE Writers(round)
    BY <1>2, <1>3, <1>5 DEF Writers
  <2>9. s \notin Handed(round)
    BY <1>3 DEF Handed
  <2>10. session'.work = CountedTo(Opened)'
    <3>1. session.work = CountedTo(Opened)
      BY <2>1 DEF Honest, Accounted, Weighed
    <3>2. s \in Reaches(Handed(round), Around, Opened)
      BY <2>1, ReachesOnly
    <3> QED
      BY <1>2, <1>6, <2>3, <2>4, <2>8, <3>1, <3>2 DEF CountedTo
  <2>11. ASSUME NEW c \in Opened, ~IsTransaction(c)
         PROVE  Base(c)' = CountedTo(OpenBelow(c[2]))'
    <3>1. Base(c)' = Base(c)
      BY <2>3, <2>6, <2>11 DEF Base, IsTransaction
    <3>2. s \notin OpenBelow(c[2])
      <4>1. c = s \/ c[2] < s[2]
        BY <1>2, OpenedAre, Greatest DEF Honest
      <4>2. c[2] \in Nat /\ s[2] \in Nat
        BY OpenedAre, ScopeParts
      <4> QED
        BY <4>1, <4>2 DEF OpenBelow
    <3>3. s \notin Reaches(Handed(round), Around, OpenBelow(c[2]))
      BY <2>9, <3>2, ReachesOnly
    <3>4. CountedTo(OpenBelow(c[2]))' = CountedTo(OpenBelow(c[2]))
      BY <1>2, <1>6, <2>5, <2>8, <3>3 DEF CountedTo
    <3> QED
      BY <2>11, <3>1, <3>4 DEF Honest, Accounted, Weighed
  <2>12. Weighed'
    BY <2>4, <2>10, <2>11 DEF Weighed, IsTransaction
  <2>13. Backed'
    <3>1. \A c \in Opened : ~IsTransaction(c) => Saved(c[2]) # 0
      BY DEF Honest, Accounted, Backed
    <3> QED
      BY <1>5, <2>3, <2>4, <2>6, <3>1 DEF Backed, IsTransaction
  <2>14. \A c \in Opened : Keeps(c)
    BY <2>3, <2>5, <2>6 DEF Keeps, Base, IsTransaction
  <2>15. Accounted'
    BY <1>5, <1>8, <1>9, <1>11, <2>3, <2>12, <2>13, OthersTold DEF Accounted
  <2>16. s \notin Writers(round)
    BY <1>2 DEF Writers
  <2> QED
    BY <1>2, <1>6, <1>11, <1>16, <2>1, <2>3, <2>4, <2>8, <2>9, <2>14, <2>15, <2>16
<1> QED
  BY <1>10, <1>11

(* A savepoint notes what is counted so far, and opens the innermost       *)
(* scope.                                                                  *)
LEMMA SavepointAccounts ==
    ASSUME Careful, Honest, Sane', NEW s \in Scopes, Savepoint(s)
    PROVE  /\ Accounted' /\ committed' = committed
           /\ session'.dead <=> session.dead
           /\ \E c \in Scopes :
                 /\ c[1] = s[1] /\ ~IsTransaction(c) /\ scope[c].at = "none"
                 /\ scope'[c].at = "opening" /\ ~scope'[c].kept /\ scope'[c].around = s
                 /\ \A d \in Scopes \ {c} : scope'[d] = scope[d]
                 /\ ~session.dead =>
                       /\ s \in Opened /\ s[2] < c[2] /\ Innermost(s)
                       /\ Opened' = Opened \cup {c} /\ c \notin Opened
                       /\ \A d \in Opened :
                             Keeps(d) /\ CountedTo(OpenUpTo(d))' = CountedTo(OpenUpTo(d))
                       /\ CountedTo(OpenUpTo(c))' \subseteq Base(c)'
<1> DEFINE e == [name |-> seq + 1, work |-> session.work]
<1>2. /\ Active(s) /\ Innermost(s) /\ scope[s].at = "body" /\ scope[s].did # "failed"
      /\ seq < Saves /\ seq' = seq + 1 /\ scope[<<s[1], seq + 1>>].at = "none" /\ round' = round
  BY RunningInnermost DEF Savepoint, Honest, Sound
<1>3. /\ s[1] = round /\ <<round, 0>> \in Scopes /\ ~scope[<<round, 0>>].kept
  BY <1>2, Unkept
<1>4. scope \in [Scopes -> States] /\ session \in Sessions /\ DatabaseSound
  BY DEF Honest, Sane, DatabaseSound
<1>0. seq \in Nat /\ seq + 1 \in 1 .. Saves /\ <<s[1], seq + 1>> \in Scopes
  BY <1>2, <1>3, ScopeParts DEF Honest, Sane, CountersSound
<1>5. PICK c \in Scopes : c = <<s[1], seq + 1>> /\ c[1] = round /\ c[2] = seq + 1
  BY <1>0, <1>3
<1>1. PICK ok \in BOOLEAN :
          /\ SendSavepoint(seq + 1, ok)
          /\ scope' = [scope EXCEPT ![c].at = "opening", ![c].ok = ok, ![c].around = s]
  BY <1>0, <1>5 DEF Savepoint
<1>6. c # s /\ c # <<round, 0>> /\ ~IsTransaction(c) /\ s # c
  BY <1>0, <1>2, <1>0, <1>5 DEF IsTransaction
<1>7. ~scope[c].kept /\ scope[c].did = "nothing"
  BY <1>2, <1>0, <1>5 DEF Honest, Nested, Placed, Blank
<1>8. /\ \A d \in Scopes \ {c} : scope'[d] = scope[d]
      /\ scope'[c].at = "opening" /\ scope'[c].around = s /\ (scope'[c].ok <=> ok)
      /\ ~scope'[c].kept /\ scope'[c].did = "nothing"
  <2>1. scope[c] \in States
    BY <1>4, <1>0, <1>5
  <2> QED
    BY <1>1, <1>4, <1>0, <1>5, <1>7, <2>1 DEF States
<1>9. committed' = committed
  BY <1>1 DEF SendSavepoint, Reject
<1>10. \A r \in Rounds : Durable(r)'
  BY <1>3, <1>0, <1>5, <1>6, <1>8, <1>9, AllDurableStay
<1>11. CASE session.dead
  <2>1. UNCHANGED session /\ ok = FALSE /\ ~session.open
    BY <1>1, <1>4, <1>11 DEF SendSavepoint, Usable, Reject, DatabaseSound
  <2>2. Backed' /\ Weighed'
    BY <1>11, <2>1, ClosedAccounts DEF Sane, IsOpen
  <2>3. Told(c)'
    BY <1>8, <1>11, <2>1 DEF Told
  <2>4. Accounted'
    BY <1>0, <1>5, <1>8, <1>10, <2>1, <2>2, <2>3, OthersTold DEF Accounted
  <2> QED
    BY <1>2, <1>3, <1>5, <1>6, <1>8, <1>9, <1>11, <2>1, <2>4
<1>12. CASE ~session.dead
  <2>1. s \in Opened /\ session.open /\ Usable
    BY <1>2, <1>12, OpenedAre, InnermostIsUsable DEF Opened, IsOpen
  <2>2. /\ session'.open /\ ~session'.dead /\ session'.broken = session.broken
        /\ session'.work = session.work /\ session'.stack = Append(session.stack, e)
        /\ ok = TRUE
    <3>1. session' = [session EXCEPT !.stack = Append(@, e)] /\ ok = TRUE
      BY <1>1, <2>1 DEF SendSavepoint
    <3> QED
      BY <1>4, <1>12, <2>1, <3>1 DEF Sessions
  <2>3. /\ Saved(c[2])' = Len(session.stack) + 1 /\ Len(session.stack) \in Nat
        /\ session'.stack[Saved(c[2])'] = e
        /\ \A n : Saved(n) # 0 => /\ Saved(n)' = Saved(n)
                                  /\ session'.stack[Saved(n)] = session.stack[Saved(n)]
    <3>1. e \in Savepoints /\ session.stack \in Seq(Savepoints) /\ e.name = c[2]
      BY <1>4, <1>0, <1>5, SessionParts DEF Savepoints
    <3>2. \A i \in DOMAIN session.stack : session.stack[i].name \in Nat
      BY <3>1, NamesAreNumbers
    <3>3. \A i \in DOMAIN session.stack : session.stack[i].name < e.name
      BY <1>4, <1>0, <1>5, <3>2 DEF DatabaseSound
    <3> HIDE DEF e
    <3>4. /\ SavedIn(Append(session.stack, e), e.name) = Len(session.stack) + 1
          /\ Append(session.stack, e)[Len(session.stack) + 1] = e
          /\ \A n : SavedIn(session.stack, n) # 0 =>
                /\ SavedIn(Append(session.stack, e), n) = SavedIn(session.stack, n)
                /\ Append(session.stack, e)[SavedIn(session.stack, n)]
                      = session.stack[SavedIn(session.stack, n)]
      BY <1>4, <3>1, <3>3, SavedAppend DEF DatabaseSound
    <3>5. session'.stack = Append(session.stack, e) /\ Len(session.stack) \in Nat
      BY <2>2, <3>1
    <3>6. \A n : Saved(n) = SavedIn(session.stack, n) /\ Saved(n)' = SavedIn(session'.stack, n)
      BY SavedHere
    <3>7. Saved(c[2])' = Len(session.stack) + 1
      BY <3>1, <3>4, <3>5, <3>6
    <3> QED
      BY <3>4, <3>5, <3>6, <3>7
  <2>4. Opened' = Opened \cup {c} /\ c \notin Opened
    BY <1>2, <1>0, <1>5, <1>8, <1>12, <2>2 DEF Opened, IsOpen
  <2>5. ASSUME NEW d \in Opened PROVE d[2] < c[2] /\ c # d /\ d[2] \in Nat
    <3>1. d \in Scopes /\ Active(d)
      BY OpenedAre
    <3>2. d[2] \in 0 .. seq
      BY <3>1, ActiveRounds DEF Honest
    <3> QED
      BY <1>0, <1>5, <3>2
  <2>6. OpenBelow(c[2])' = Opened
    <3>1. ~(c[2] < c[2])
      BY <1>0, <1>5
    <3> QED
      BY <2>4, <2>5, <3>1 DEF OpenBelow
  <2>7. \A d \in Opened : OpenBelow(d[2])' = OpenBelow(d[2])
    <3>1. \A d \in Opened : ~(c[2] < d[2])
      BY <1>0, <1>5, <2>5
    <3> QED
      BY <2>4, <3>1 DEF OpenBelow
  <2>8. Handed(round)' = Handed(round) /\ c \notin Handed(round) /\ Writers(round)' = Writers(round)
        /\ c \notin Writers(round)
    BY <1>2, <1>0, <1>5, <1>7, <1>8 DEF Handed, Writers, IsTransaction
  <2>9. \A d \in Handed(round) : Around'[d] = Around[d] /\ Around[d] # c
    <3> SUFFICES ASSUME NEW d \in Handed(round) PROVE Around'[d] = Around[d] /\ Around[d] # c
      OBVIOUS
    <3>1. d \in Scopes /\ d # c /\ scope'[d] = scope[d] /\ d[1] = round /\ ~IsTransaction(d)
      BY <1>8, <2>8 DEF Handed
    <3>2. scope[d].at # "none"
      BY <3>1 DEF Handed, Honest, Nested, Placed, Blank
    <3>3. ~(d[2] > seq) /\ scope[d].around[2] < d[2]
      BY <3>1, <3>2 DEF Honest, Nested, Placed
    <3>4. d[2] \in Nat /\ scope[d].around \in Scopes /\ scope[d].around[2] \in Nat
      BY <1>4, <3>1, ScopeParts DEF States
    <3> QED
      BY <1>0, <1>5, <3>1, <3>3, <3>4 DEF Around
  <2>10. \A A : Reaches(Handed(round), Around', A) = Reaches(Handed(round), Around, A)
    BY <2>9, ReachesSame
  <2>11. Weighed'
    <3>1. CountedTo(Opened)' = CountedTo(Opened)
      BY <1>2, <1>0, <1>5, <2>4, <2>8, <2>9, <2>10, ReachesOpened DEF CountedTo
    <3>2. session.work = CountedTo(Opened)
      BY <2>1 DEF Honest, Accounted, Weighed
    <3>3. Base(c)' = CountedTo(OpenBelow(c[2]))'
      <4>1. Base(c)' = session.work
        BY <1>6, <2>3 DEF Base, IsTransaction
      <4> QED
        BY <1>2, <2>6, <2>8, <2>10, <3>2, <4>1 DEF CountedTo
    <3>4. ASSUME NEW d \in Opened, ~IsTransaction(d) PROVE Base(d)' = CountedTo(OpenBelow(d[2]))'
      <4>1. Saved(d[2]) # 0 /\ Base(d) = CountedTo(OpenBelow(d[2]))
        BY <3>4 DEF Honest, Accounted, Backed, Weighed
      <4>2. Base(d)' = Base(d)
        BY <2>3, <3>4, <4>1 DEF Base, IsTransaction
      <4> QED
        BY <1>2, <2>7, <2>8, <2>10, <4>1, <4>2 DEF CountedTo
    <3> QED
      BY <2>2, <2>4, <3>1, <3>2, <3>3, <3>4 DEF Weighed, IsTransaction
  <2>12. Backed'
    <3>1. \A d \in Opened : ~IsTransaction(d) => Saved(d[2])' # 0
      BY <2>3 DEF Honest, Accounted, Backed
    <3>2. Saved(c[2])' # 0
      BY <2>3
    <3>3. ~session'.broken
      BY <2>1, <2>2 DEF Usable
    <3> QED
      BY <2>2, <2>4, <3>1, <3>2, <3>3 DEF Backed, IsTransaction
  <2>13. Told(c)'
    BY <1>8, <2>2 DEF Told
  <2>14. Accounted'
    BY <1>0, <1>5, <1>8, <1>10, <1>12, <2>2, <2>11, <2>12, <2>13, OthersTold DEF Accounted
  <2>15. ASSUME NEW d \in Opened
         PROVE  Keeps(d) /\ CountedTo(OpenUpTo(d))' = CountedTo(OpenUpTo(d))
    <3>1. ~IsTransaction(d) => Saved(d[2]) # 0
      BY DEF Honest, Accounted, Backed
    <3>2. Keeps(d)
      BY <2>3, <2>7, <3>1 DEF Keeps, Base, IsTransaction
    <3>3. OpenUpTo(d)' = OpenUpTo(d)
      BY <2>7 DEF OpenUpTo
    <3> QED
      BY <1>2, <2>8, <2>10, <3>2, <3>3 DEF CountedTo
  <2>16. CountedTo(OpenUpTo(c))' \subseteq Base(c)'
    <3>1. OpenUpTo(c)' = Opened \cup {c}
      BY <2>6 DEF OpenUpTo
    <3>2. Reaches(Handed(round), Around, Opened \cup {c})
            = Reaches(Handed(round), Around, Opened) \cup {c}
      BY <2>8, <2>9, ReachesOpened
    <3>3. CountedTo(OpenUpTo(c))' = CountedTo(Opened)
      BY <1>2, <2>8, <2>10, <3>1, <3>2 DEF CountedTo
    <3>4. Base(c)' = CountedTo(Opened)
      <4>1. session.work = CountedTo(Opened)
        BY <2>1 DEF Honest, Accounted, Weighed
      <4> QED
        BY <1>6, <2>3, <4>1 DEF Base, IsTransaction
    <3> QED
      BY <3>3, <3>4
  <2>17. s[2] < c[2]
    BY <2>1, <2>5
  <2> QED
    BY <1>2, <1>3, <1>5, <1>6, <1>8, <1>9, <1>12, <2>1, <2>2, <2>4, <2>14, <2>15, <2>16, <2>17
<1> QED
  BY <1>11, <1>12

(* ROLLBACK TO and RELEASE of the innermost scope leave the others their   *)
(* savepoints.                                                             *)
LEMMA SavedBelow ==
    ASSUME Honest, NEW s \in Opened, ~IsTransaction(s), NEW c \in Opened, ~IsTransaction(c), c[2] < s[2]
    PROVE  /\ Saved(c[2]) \in Nat /\ Saved(s[2]) \in Nat /\ Saved(c[2]) < Saved(s[2])
           /\ Saved(s[2]) \in 1 .. Len(session.stack) /\ Len(session.stack) \in Nat
<1>1. Saved(c[2]) # 0 /\ Saved(s[2]) # 0 /\ DatabaseSound
  BY DEF Honest, Accounted, Backed, Sane
<1>2. /\ Saved(c[2]) \in 1 .. Len(session.stack) /\ session.stack[Saved(c[2])].name = c[2]
      /\ Saved(s[2]) \in 1 .. Len(session.stack) /\ session.stack[Saved(s[2])].name = s[2]
  BY <1>1, SavedMeansOpen
<1>3. session.stack \in Seq(Savepoints)
  BY <1>1, SessionParts DEF DatabaseSound
<1>4. DOMAIN session.stack = 1 .. Len(session.stack) /\ Len(session.stack) \in Nat
  BY <1>3
<1>5. c[2] \in Nat /\ s[2] \in Nat
  BY OpenedAre, ScopeParts
<1>6. ~(Saved(s[2]) < Saved(c[2])) /\ Saved(s[2]) # Saved(c[2])
  BY <1>1, <1>2, <1>4, <1>5 DEF DatabaseSound, Increasing
<1> QED
  BY <1>2, <1>4, <1>6

LEMMA CutLeaves ==
    ASSUME Honest, NEW s \in Opened, Innermost(s), ~IsTransaction(s),
           NEW m \in {Saved(s[2]) - 1, Saved(s[2])},
           session'.stack = SubSeq(session.stack, 1, m), ~session'.dead,
           \A c \in Scopes \ {s} : scope'[c] = scope[c], ~IsOpen(s)'
    PROVE  /\ Opened' = Opened \ {s} /\ Opened \ {s} = OpenBelow(s[2])
           /\ \A c \in Opened \ {s} :
                 /\ OpenBelow(c[2])' = OpenBelow(c[2])
                 /\ ~IsTransaction(c) => Saved(c[2])' # 0 /\ Base(c)' = Base(c)
<1>1. s \in Scopes /\ Active(s) /\ ~session.dead
  BY OpenedAre
<1>2. Opened' = Opened \ {s}
  BY <1>1 DEF Opened, IsOpen
<1>3. Opened \ {s} = OpenBelow(s[2])
  BY <1>1, OpenedBesides
<1>4. ASSUME NEW c \in Opened, c # s
      PROVE  /\ OpenBelow(c[2])' = OpenBelow(c[2])
             /\ ~IsTransaction(c) => Saved(c[2])' # 0 /\ Base(c)' = Base(c)
  <2>1. c[2] < s[2] /\ c \in Scopes /\ c[2] \in Nat /\ s[2] \in Nat
    BY <1>1, <1>4, OpenedAre, Greatest, ScopeParts DEF Honest
  <2>2. OpenBelow(c[2])' = OpenBelow(c[2])
    BY <1>2, <2>1 DEF OpenBelow
  <2>3. ASSUME ~IsTransaction(c) PROVE Saved(c[2])' # 0 /\ Base(c)' = Base(c)
    <3>1. /\ Saved(c[2]) \in Nat /\ Saved(s[2]) \in Nat /\ Saved(c[2]) < Saved(s[2])
          /\ Saved(s[2]) \in 1 .. Len(session.stack) /\ Len(session.stack) \in Nat
      BY <1>4, <2>1, <2>3, SavedBelow
    <3>2. m \in 0 .. Len(session.stack) /\ Saved(c[2]) <= m
      BY <3>1
    <3>3. session.stack \in Seq(Savepoints) /\ Increasing(session.stack) /\ Saved(c[2]) # 0
      BY <1>4, <2>3, SessionParts DEF Honest, Sane, DatabaseSound, Accounted, Backed
    <3>4. SavedIn(session.stack, c[2]) # 0 /\ SavedIn(session.stack, c[2]) <= m
      BY <3>2, <3>3, SavedHere
    <3>5. /\ SavedIn(SubSeq(session.stack, 1, m), c[2]) = SavedIn(session.stack, c[2])
          /\ SubSeq(session.stack, 1, m)[SavedIn(session.stack, c[2])]
                = session.stack[SavedIn(session.stack, c[2])]
      <4> DEFINE st == session.stack
      <4>1. st \in Seq(Savepoints) /\ Increasing(st) /\ m \in 0 .. Len(st)
        BY <3>2, <3>3
      <4>2. SavedIn(st, c[2]) # 0 /\ SavedIn(st, c[2]) <= m
        BY <3>4
      <4> HIDE DEF st
      <4>3. /\ SavedIn(SubSeq(st, 1, m), c[2]) = SavedIn(st, c[2])
            /\ SubSeq(st, 1, m)[SavedIn(st, c[2])] = st[SavedIn(st, c[2])]
        BY <4>1, <4>2, SavedSubSeq
      <4> QED
        BY <4>3 DEF st
    <3>6. Saved(c[2]) = SavedIn(session.stack, c[2]) /\ Saved(c[2])' = SavedIn(session'.stack, c[2])
      BY SavedHere
    <3>7. Saved(c[2])' = Saved(c[2]) /\ session'.stack[Saved(c[2])] = session.stack[Saved(c[2])]
      BY <3>5, <3>6
    <3> QED
      BY <2>3, <3>3, <3>7 DEF Base, IsTransaction
  <2> QED
    BY <2>2, <2>3
<1> QED
  BY <1>2, <1>3, <1>4

(* ROLLBACK or ROLLBACK TO.                                                *)
LEMMA UndoAccounts ==
    ASSUME Honest, Sane', NEW s \in Scopes, Active(s), Innermost(s),
           \/ scope[s].at \in {"body", "closing"}
           \/ scope[s].at = "ending" /\ ~Answered(s),
           NEW ok \in BOOLEAN, SendUndo(s, ok), Set(s, "undoing", ok),
           UNCHANGED <<round, calls, retries, seq>>
    PROVE  /\ Accounted' /\ committed' = committed
           /\ session'.dead <=> session.dead
           /\ s \notin Opened => Opened = {} /\ Opened' = {}
           /\ s \in Opened =>
                 /\ Opened' = Opened \ {s}
                 /\ \A c \in Opened \ {s} :
                       Keeps(c) /\ CountedTo(OpenUpTo(c))' = CountedTo(OpenUpTo(c))
<1>1. scope \in [Scopes -> States] /\ session \in Sessions /\ DatabaseSound
  BY DEF Honest, Sane, DatabaseSound
<1>2. /\ scope'[s].at = "undoing" /\ (scope'[s].ok <=> ok)
      /\ scope'[s].around = scope[s].around /\ scope'[s].did = scope[s].did
      /\ (scope'[s].kept <=> scope[s].kept)
      /\ \A c \in Scopes \ {s} : scope'[c] = scope[c]
  BY <1>1, SetTyped DEF Phases
<1>3. session'.dead <=> session.dead
  BY <1>1, EndSound
<1>4. committed' = committed
  BY DEF SendUndo, SendRollback, SendRollbackTo, Reject, Fail
<1>5. \A r \in Rounds : Durable(r)'
  <2>1. s[1] = round /\ <<round, 0>> \in Scopes
    BY ActiveRounds DEF Honest, Nested, Inner
  <2>2. scope[<<round, 0>>].kept => s = <<round, 0>>
    BY KeptRests
  <2>3. ~scope[<<round, 0>>].kept => ~scope'[<<round, 0>>].kept
    BY <1>2, <2>1
  <2> QED
    BY <1>2, <1>4, <2>1, <2>2, <2>3, AllDurableStay
<1>6. Told(s) /\ (scope[s].kept => session.dead)
  BY <1>3 DEF Honest, Accounted, Told, Answered
<1>7. CASE session.dead
  <2>1. Told(s)'
    BY <1>2, <1>3, <1>7 DEF Told
  <2>2. ~session'.open /\ \A c \in Scopes : ~IsOpen(c)'
    BY <1>3, <1>7 DEF IsOpen, Sane, DatabaseSound
  <2>3. Backed' /\ Weighed'
    BY <2>2, ClosedAccounts DEF Sane
  <2>4. Accounted'
    BY <1>2, <1>3, <1>5, <2>1, <2>3, OthersTold DEF Accounted
  <2>5. Opened = {} /\ Opened' = {}
    BY <1>7, <2>2 DEF Opened, IsOpen
  <2> QED
    BY <1>3, <1>4, <2>4, <2>5
<1>8. CASE ~session.dead /\ IsTransaction(s)
  <2>1. ok = TRUE /\ session' = Closed
    BY <1>8 DEF SendUndo, SendRollback
  <2>2. \A c \in Scopes \ {s} : ~Active(c)
    <3>1. s[2] = 0 /\ \A c \in Scopes : c[2] \in Nat
      BY <1>8, ScopeParts DEF IsTransaction
    <3> QED
      BY <3>1, Greatest DEF Honest
  <2>3. \A c \in Scopes : ~IsOpen(c)'
    BY <1>2, <2>2 DEF IsOpen, Active
  <2>4. Backed' /\ Weighed'
    BY <2>1, <2>3, ClosedAccounts, ClosedIsSession DEF Sane
  <2>5. Told(s)'
    BY <1>2, <1>6, <1>8, <2>1 DEF Told
  <2>6. Accounted'
    BY <1>2, <1>3, <1>5, <2>4, <2>5, OthersTold DEF Accounted
  <2>7. Opened \subseteq {s} /\ Opened' = {}
    BY <2>2, <2>3 DEF Opened, IsOpen, Active
  <2> QED
    BY <1>3, <1>4, <2>6, <2>7
<1>9. CASE ~session.dead /\ ~IsTransaction(s)
  <2>1. scope[s].at \in {"body", "closing"}
    BY <1>6, <1>9 DEF Told, Answered
  <2>2. s \in Opened /\ session.open /\ Saved(s[2]) # 0
    BY <1>9, <2>1 DEF Opened, IsOpen, Honest, Accounted, Backed
  <2>3. /\ ok = TRUE
        /\ session' = [session EXCEPT !.broken = FALSE,
                            !.work = session.stack[Saved(s[2])].work,
                            !.stack = SubSeq(@, 1, Saved(s[2]))]
    BY <1>9, <2>2 DEF SendUndo, SendRollbackTo
  <2>4. /\ session'.open /\ ~session'.dead /\ ~session'.broken
        /\ session'.work = Base(s) /\ session'.stack = SubSeq(session.stack, 1, Saved(s[2]))
    BY <1>1, <1>9, <2>2, <2>3 DEF Sessions, Base
  <2>5. ~IsOpen(s)'
    BY <1>2 DEF IsOpen
  <2>6. /\ Opened' = Opened \ {s} /\ Opened \ {s} = OpenBelow(s[2])
        /\ \A c \in Opened \ {s} :
              /\ OpenBelow(c[2])' = OpenBelow(c[2])
              /\ ~IsTransaction(c) => Saved(c[2])' # 0 /\ Base(c)' = Base(c)
    BY <1>2, <1>9, <2>2, <2>4, <2>5, CutLeaves
  <2>7. Around' = Around /\ \A r : Writers(r)' = Writers(r) /\ Handed(r)' = Handed(r)
    BY <1>2, Unmoved
  <2>8. Weighed'
    <3>1. session'.work = CountedTo(Opened)'
      <4>1. Base(s) = CountedTo(OpenBelow(s[2]))
        BY <1>9, <2>2 DEF Honest, Accounted, Weighed
      <4> QED
        BY <2>4, <2>6, <2>7, <4>1 DEF CountedTo
    <3>2. ASSUME NEW c \in Opened \ {s}, ~IsTransaction(c)
          PROVE  Base(c)' = CountedTo(OpenBelow(c[2]))'
      <4>1. Base(c) = CountedTo(OpenBelow(c[2]))
        BY <3>2 DEF Honest, Accounted, Weighed
      <4> QED
        BY <2>6, <2>7, <3>2, <4>1 DEF CountedTo
    <3> QED
      BY <2>6, <3>1, <3>2 DEF Weighed, IsTransaction
  <2>9. Backed'
    BY <2>4, <2>6 DEF Backed, IsTransaction
  <2>10. Told(s)'
    BY <1>2, <1>6, <1>9, <2>3 DEF Told
  <2>11. Accounted'
    BY <1>2, <1>3, <1>5, <2>8, <2>9, <2>10, OthersTold DEF Accounted
  <2>12. ASSUME NEW c \in Opened \ {s}
         PROVE  Keeps(c) /\ CountedTo(OpenUpTo(c))' = CountedTo(OpenUpTo(c))
    <3>1. Keeps(c) /\ OpenUpTo(c)' = OpenUpTo(c)
      BY <2>6 DEF Keeps, OpenUpTo, Base, IsTransaction
    <3> QED
      BY <2>7, <3>1 DEF CountedTo
  <2> QED
    BY <1>3, <1>4, <2>2, <2>6, <2>11, <2>12
<1> QED
  BY <1>7, <1>8, <1>9

(* RELEASE hands what the scope counted to the scope around it.            *)
LEMMA ReleaseAccounts ==
    ASSUME Honest, NEW s \in Opened, Innermost(s), ~IsTransaction(s), scope[s].at = "closing",
           NEW ok \in BOOLEAN, SendRelease(s[2], ok),
           scope' = [scope EXCEPT ![s].at = "ending", ![s].ok = ok, ![s].kept = ok],
           UNCHANGED <<round, calls, retries, seq>>
    PROVE  /\ ok = TRUE /\ Accounted' /\ committed' = committed /\ ~session'.dead
           /\ Opened' = Opened \ {s} /\ OpenUpTo(scope[s].around) = OpenBelow(s[2])
           /\ \A c \in Opened \ {s} :
                 /\ Keeps(c)
                 /\ CountedTo(OpenUpTo(c))' = IF c = scope[s].around THEN CountedTo(OpenUpTo(s))
                                              ELSE CountedTo(OpenUpTo(c))
<1>1. scope \in [Scopes -> States] /\ session \in Sessions /\ s \in Scopes
  BY DEF Honest, Sane, DatabaseSound, Opened
<1>2. /\ scope'[s].at = "ending" /\ (scope'[s].ok <=> ok) /\ (scope'[s].kept <=> ok)
      /\ scope'[s].around = scope[s].around /\ scope'[s].did = scope[s].did
      /\ \A c \in Scopes \ {s} : scope'[c] = scope[c]
  BY <1>1, EndTyped
<1>3. /\ Active(s) /\ session.open /\ ~session.dead /\ ~scope[s].kept /\ s[1] = round
      /\ scope[s].around \in Opened /\ scope[s].around # s
  BY OpenedAre
<1>4. Usable
  BY InnermostIsUsable
<1>5. Saved(s[2]) # 0
  BY DEF Honest, Accounted, Backed
<1>6. /\ ok = TRUE /\ committed' = committed
      /\ session' = [session EXCEPT !.stack = SubSeq(@, 1, Saved(s[2]) - 1)]
  BY <1>4, <1>5 DEF SendRelease
<1>7. /\ session'.open /\ ~session'.dead /\ ~session'.broken /\ session'.work = session.work
      /\ session'.stack = SubSeq(session.stack, 1, Saved(s[2]) - 1)
  BY <1>1, <1>3, <1>4, <1>6 DEF Sessions, Usable
<1>8. ~IsOpen(s)'
  BY <1>2 DEF IsOpen
<1>9. /\ Opened' = Opened \ {s} /\ Opened \ {s} = OpenBelow(s[2])
      /\ \A c \in Opened \ {s} :
            /\ OpenBelow(c[2])' = OpenBelow(c[2])
            /\ ~IsTransaction(c) => Saved(c[2])' # 0 /\ Base(c)' = Base(c)
  BY <1>2, <1>7, <1>8, CutLeaves
<1>10. Around' = Around /\ Writers(round)' = Writers(round)
  BY <1>1, <1>2 DEF Around, Writers
<1>11. Handed(round)' = Handed(round) \cup {s} /\ s \notin Handed(round)
  BY <1>1, <1>2, <1>3, <1>6 DEF Handed, IsTransaction
<1>12. Around[s] = scope[s].around
  BY <1>1 DEF Around
<1>13. Weighed'
  <2>1. session'.work = CountedTo(Opened)'
    <3>1. Reaches(Handed(round) \cup {s}, Around, Opened \ {s})
            = Reaches(Handed(round), Around, (Opened \ {s}) \cup {s})
      BY <1>3, <1>12, ReachesKept
    <3>2. (Opened \ {s}) \cup {s} = Opened
      OBVIOUS
    <3>3. session.work = CountedTo(Opened)
      BY <1>3 DEF Honest, Accounted, Weighed
    <3> QED
      BY <1>7, <1>9, <1>10, <1>11, <3>1, <3>2, <3>3 DEF CountedTo
  <2>2. ASSUME NEW c \in Opened \ {s}, ~IsTransaction(c)
        PROVE  Base(c)' = CountedTo(OpenBelow(c[2]))'
    <3>1. c \in Scopes /\ Active(c) /\ c[2] < s[2]
      BY <1>1, <1>3, OpenedAre, Greatest DEF Honest
    <3>2. c[2] <= scope[s].around[2]
      BY <1>1, <1>3, <3>1 DEF Honest, Nested, Follows
    <3>3. ~(scope[s].around[2] < c[2])
      <4>1. scope[s].around \in Scopes
        BY <1>3, OpenedAre
      <4>2. c[2] \in Nat /\ scope[s].around[2] \in Nat
        BY <3>1, <4>1, ScopeParts
      <4> QED
        BY <3>2, <4>2
    <3>4. scope[s].around \notin OpenBelow(c[2])
      BY <3>3 DEF OpenBelow
    <3>5. scope[s].around \notin Handed(round)
      BY <1>3, OpenedAre DEF Handed
    <3>6. Around[s] \notin OpenBelow(c[2]) /\ Around[s] \notin Handed(round) /\ Around[s] # s
      BY <1>3, <1>12, <3>4, <3>5
    <3>7. Reaches(Handed(round) \cup {s}, Around, OpenBelow(c[2]))
            = Reaches(Handed(round), Around, OpenBelow(c[2]))
      BY <3>6, ReachesElsewhere
    <3>8. Base(c) = CountedTo(OpenBelow(c[2]))
      BY <2>2 DEF Honest, Accounted, Weighed
    <3> QED
      BY <1>9, <1>10, <1>11, <2>2, <3>7, <3>8 DEF CountedTo
  <2> QED
    BY <1>9, <2>1, <2>2 DEF Weighed, IsTransaction
<1>14. Backed'
  BY <1>7, <1>9 DEF Backed, IsTransaction
<1>15. \A r \in Rounds : Durable(r)'
  <2>1. <<round, 0>> \in Scopes /\ ~scope[<<round, 0>>].kept
    BY <1>1, Unkept
  <2>2. <<round, 0>> # s
    BY DEF IsTransaction
  <2>3. ~scope'[<<round, 0>>].kept
    BY <1>2, <2>1, <2>2
  <2> QED
    BY <1>1, <1>2, <1>3, <1>6, <2>1, <2>3, AllDurableStay
<1>16. Told(s)'
  BY <1>2, <1>6 DEF Told
<1>17. Accounted'
  BY <1>1, <1>2, <1>3, <1>6, <1>13, <1>14, <1>15, <1>16, OthersTold DEF Accounted
<1>18. \A c \in Opened \ {s} :
          /\ c[2] <= scope[s].around[2] /\ c[2] < s[2] /\ c[1] = round /\ c[2] \in Nat
          /\ c = <<c[1], c[2]>>
  <2> SUFFICES ASSUME NEW c \in Opened \ {s}
               PROVE  /\ c[2] <= scope[s].around[2] /\ c[2] < s[2] /\ c[1] = round /\ c[2] \in Nat
                      /\ c = <<c[1], c[2]>>
    OBVIOUS
  <2>1. c \in Scopes /\ Active(c) /\ c[2] < s[2]
    BY <1>1, <1>3, OpenedAre, Greatest DEF Honest
  <2>2. c[2] <= scope[s].around[2]
    BY <1>1, <1>3, <2>1 DEF Honest, Nested, Follows
  <2> QED
    BY <2>1, <2>2, OpenedAre, ScopeParts
<1>19. OpenUpTo(scope[s].around) = OpenBelow(s[2])
  <2> DEFINE a == scope[s].around
  <2>1. a \in Opened \ {s}
    BY <1>3
  <2> HIDE DEF a
  <2>2. \A c \in Opened \ {s} : c = a \/ c[2] < a[2]
    <3> SUFFICES ASSUME NEW c \in Opened \ {s} PROVE c = a \/ c[2] < a[2]
      OBVIOUS
    <3>1. c[2] <= a[2]
      BY <1>18 DEF a
    <3> QED
      BY <1>18, <2>1, <3>1
  <2>3. OpenBelow(a[2]) \subseteq Opened \ {s}
    <3>1. a[2] < s[2] /\ a[2] \in Nat /\ s[2] \in Nat
      BY <1>1, <1>18, <2>1, ScopeParts
    <3> QED
      BY <3>1 DEF OpenBelow
  <2>4. OpenUpTo(a) = Opened \ {s}
    BY <2>1, <2>2, <2>3 DEF OpenUpTo, OpenBelow
  <2> QED
    BY <1>9, <2>4 DEF a
<1>20. ASSUME NEW c \in Opened \ {s}
       PROVE  /\ Keeps(c)
              /\ CountedTo(OpenUpTo(c))' = IF c = scope[s].around THEN CountedTo(OpenUpTo(s))
                                           ELSE CountedTo(OpenUpTo(c))
  <2>1. Keeps(c) /\ OpenUpTo(c)' = OpenUpTo(c)
    BY <1>9 DEF Keeps, OpenUpTo, Base, IsTransaction
  <2>2. CASE c = scope[s].around
    <3>1. OpenUpTo(c) \cup {s} = OpenUpTo(s)
      BY <1>19, <2>2 DEF OpenUpTo
    <3>2. Around[s] \in OpenUpTo(c)
      BY <1>12, <2>2 DEF OpenUpTo
    <3>3. Reaches(Handed(round) \cup {s}, Around, OpenUpTo(c))
            = Reaches(Handed(round), Around, OpenUpTo(c) \cup {s})
      BY <3>2, ReachesKept
    <3> QED
      BY <1>10, <1>11, <2>1, <2>2, <3>1, <3>3 DEF CountedTo
  <2>3. CASE c # scope[s].around
    <3>1. scope[s].around \notin OpenUpTo(c)
      <4>1. scope[s].around \in Opened \ {s}
        BY <1>3
      <4>2. ~(scope[s].around[2] < c[2])
        BY <1>18, <4>1
      <4> QED
        BY <2>3, <4>2 DEF OpenUpTo, OpenBelow
    <3>2. scope[s].around \notin Handed(round)
      BY <1>3, OpenedAre DEF Handed
    <3>3. Around[s] \notin OpenUpTo(c) /\ Around[s] \notin Handed(round) /\ Around[s] # s
      BY <1>3, <1>12, <3>1, <3>2
    <3>4. Reaches(Handed(round) \cup {s}, Around, OpenUpTo(c))
            = Reaches(Handed(round), Around, OpenUpTo(c))
      BY <3>3, ReachesElsewhere
    <3> QED
      BY <1>10, <1>11, <2>1, <2>3, <3>4 DEF CountedTo
  <2> QED
    BY <2>1, <2>2, <2>3
<1>21. \A c \in Opened \ {s} :
          /\ Keeps(c)
          /\ CountedTo(OpenUpTo(c))' = IF c = scope[s].around THEN CountedTo(OpenUpTo(s))
                                       ELSE CountedTo(OpenUpTo(c))
  BY <1>20
<1>22. ok = TRUE /\ committed' = committed /\ ~session'.dead /\ Opened' = Opened \ {s}
  BY <1>6, <1>7, <1>9
<1> QED
  BY <1>17, <1>19, <1>21, <1>22

(* COMMIT makes durable what was counted to the transaction, when it is    *)
(* the only scope left.                                                    *)
LEMMA CommitAccounts ==
    ASSUME Honest, Sane', NEW s \in Opened, Innermost(s), IsTransaction(s), scope[s].at = "closing",
           NEW ok \in BOOLEAN, SendCommit(ok),
           scope' = [scope EXCEPT ![s].at = "ending", ![s].ok = ok, ![s].kept = ok],
           UNCHANGED <<round, calls, retries, seq>>
    PROVE  /\ Accounted' /\ Opened = {s} /\ session' = Closed
           /\ committed' = IF ok THEN committed \cup session.work ELSE committed
<1>1. scope \in [Scopes -> States] /\ session \in Sessions /\ s \in Scopes
  BY DEF Honest, Sane, DatabaseSound, Opened
<1>2. /\ scope'[s].at = "ending" /\ (scope'[s].ok <=> ok) /\ (scope'[s].kept <=> ok)
      /\ scope'[s].around = scope[s].around /\ scope'[s].did = scope[s].did
      /\ \A c \in Scopes \ {s} : scope'[c] = scope[c]
  BY <1>1, EndTyped
<1>3. Active(s) /\ session.open /\ ~session.dead /\ ~scope[s].kept /\ s[1] = round
  BY OpenedAre
<1>4. Usable /\ ~session.broken
  BY InnermostIsUsable DEF Usable
<1>5. s = <<round, 0>> /\ round \in Rounds
  BY <1>1, <1>3, ScopeParts DEF IsTransaction
<1>6. \A c \in Scopes \ {s} : ~Active(c)
  <2>1. s[2] = 0 /\ \A c \in Scopes : c[2] \in Nat
    BY ScopeParts DEF IsTransaction
  <2> QED
    BY <1>1, <1>3, <2>1, Greatest DEF Honest
<1>7. Opened = {s}
  BY <1>6, OpenedAre
<1>8. session' = Closed /\ committed' = IF ok THEN committed \cup session.work ELSE committed
  BY <1>3, <1>4 DEF SendCommit
<1>9. Backed' /\ Weighed'
  <2>1. \A c \in Scopes : scope'[c].at \notin {"opening", "body", "closing"}
    <3> SUFFICES ASSUME NEW c \in Scopes PROVE scope'[c].at \notin {"opening", "body", "closing"}
      OBVIOUS
    <3>1. CASE c = s
      BY <1>2, <3>1
    <3>2. CASE c # s
      <4>1. ~Active(c) /\ scope'[c] = scope[c]
        BY <1>2, <1>6, <3>2
      <4> QED
        BY <4>1, Zenon DEF Active
    <3> QED
      BY <3>1, <3>2
  <2>2. \A c \in Scopes : ~IsOpen(c)'
    BY <2>1 DEF IsOpen
  <2> QED
    BY <1>8, <2>2, ClosedAccounts, ClosedIsSession DEF Sane
<1>10. Told(s)'
  BY <1>2, <1>5 DEF Told, IsTransaction
<1>11. session.work = Writers(round) \cap Reaches(Handed(round), Around, {<<round, 0>>})
  BY <1>3, <1>5, <1>7 DEF Honest, Accounted, Weighed, CountedTo
<1>12. ASSUME NEW r \in Rounds PROVE Durable(r)'
  <2>1. CASE r # round
    <3>1. DurableOf(r)' = DurableOf(r)
      <4>1. \A c \in session.work : c[1] # r
        BY <1>11, <2>1 DEF Writers
      <4> QED
        BY <1>8, <4>1 DEF DurableOf
    <3> QED
      BY <1>1, <1>2, <1>3, <2>1, <3>1, DurableStays
  <2>2. CASE r = round
    <3>1. DurableOf(round) = {}
      BY <1>3, <1>5 DEF Honest, Accounted, Durable
    <3>2. CASE ok = FALSE
      BY <1>2, <1>5, <1>8, <2>2, <3>1, <3>2 DEF Durable, DurableOf
    <3>3. CASE ok = TRUE
      <4>1. DurableOf(round)' = session.work
        <5>1. \A c \in session.work : c[1] = round
          BY <1>11 DEF Writers
        <5>2. committed' = committed \cup session.work
          BY <1>8, <3>3
        <5> QED
          BY <3>1, <5>1, <5>2 DEF DurableOf
      <4>2. Around' = Around /\ Writers(round)' = Writers(round)
        BY <1>1, <1>2 DEF Around, Writers
      <4>3. Handed(round)' = Handed(round)
        BY <1>1, <1>2 DEF Handed, IsTransaction
      <4>4. ASSUME NEW c \in Handed(round) PROVE c \in Resolved(round)'
        <5>1. c \in Scopes /\ c # s /\ scope[c].kept /\ ~IsTransaction(c) /\ c[1] = round
          BY DEF Handed
        <5>2. scope[c].at = "kept"
          BY <1>3, <1>6, <5>1 DEF Honest, Accounted, Told, Active
        <5> QED
          BY <1>2, <5>1, <5>2 DEF Resolved, IsTransaction
      <4>5. round' = round
        OBVIOUS
      <4> QED
        BY <1>2, <1>5, <1>11, <2>2, <3>3, <4>1, <4>2, <4>3, <4>4 DEF Durable
    <3> QED
      BY <3>2, <3>3
  <2> QED
    BY <2>1, <2>2
<1>13. Accounted'
  <2>1. \A c \in Scopes : Told(c)'
    BY <1>1, <1>2, <1>3, <1>10, OthersTold
  <2> QED
    BY <1>9, <1>12, <2>1 DEF Accounted
<1> QED
  BY <1>7, <1>8, <1>13

LEMMA SettleAccounts ==
    ASSUME Honest, Sane', NEW s \in Scopes, CloseSettles(s)
    PROVE  Accounted'
<1>1. PICK ok \in BOOLEAN :
          /\ SendEnd(s, ok)
          /\ scope' = [scope EXCEPT ![s].at = "ending", ![s].ok = ok, ![s].kept = ok]
  BY DEF CloseSettles
<1>2. scope[s].at = "closing" /\ UNCHANGED <<round, calls, retries, seq>>
  BY DEF CloseSettles
<1>3. Active(s) /\ Innermost(s)
  BY <1>2, OthersAreInnermost DEF Honest, Active
<1>4. CASE ~session.dead
  <2>1. s \in Opened
    BY <1>2, <1>4 DEF Opened, IsOpen
  <2> QED
    BY <1>1, <1>2, <1>3, <2>1, CommitAccounts, ReleaseAccounts DEF SendEnd
<1>5. CASE session.dead
  <2>1. ok = FALSE /\ committed' = committed
    BY <1>1, <1>5 DEF SendEnd, SendCommit, SendRelease, Usable, Reject, Fail
  <2>2. /\ scope'[s].at = "ending" /\ ~scope'[s].ok /\ ~scope'[s].kept
        /\ \A c \in Scopes \ {s} : scope'[c] = scope[c]
    BY <1>1, <2>1, EndTyped DEF Honest, Sane
  <2>3. session'.dead /\ ~session'.open
    BY <1>1, <1>2, <1>5, EndSound DEF Honest, Sane, DatabaseSound
  <2>4. Backed' /\ Weighed'
    BY <2>3, ClosedAccounts DEF Sane, IsOpen
  <2>5. \A r \in Rounds : Durable(r)'
    <3>1. s[1] = round /\ <<round, 0>> \in Scopes /\ ~scope[<<round, 0>>].kept
      BY <1>2, Unkept
    <3>2. ~scope'[<<round, 0>>].kept
      BY <2>2, <3>1
    <3> QED
      BY <2>1, <2>2, <3>1, <3>2, AllDurableStay
  <2>6. Told(s)'
    BY <2>2, <2>3 DEF Told
  <2> QED
    BY <2>2, <2>3, <2>4, <2>5, <2>6, OthersTold DEF Accounted
<1> QED
  BY <1>4, <1>5

(* A new round owes nothing yet.                                           *)
LEMMA BeginAccounts ==
    ASSUME Honest, Sane', BeginRound, \A c \in Scopes : ~Active(c), round + 1 \in Rounds
    PROVE  Accounted'
<1>1. round' = round + 1 /\ seq' = 0 /\ round \in Nat
  BY RoundsLeft DEF BeginRound, Honest, Sane
<1>2. PICK s \in Scopes : s = <<round + 1, 0>> /\ s[1] = round + 1
  BY ScopeParts
<1>3. PICK ok \in BOOLEAN : SendBegin(ok) /\ Set(s, "opening", ok)
  BY <1>2 DEF BeginRound
<1>4. scope \in [Scopes -> States] /\ session \in Sessions /\ DatabaseSound /\ DatabaseSound'
  BY DEF Honest, Sane, DatabaseSound
<1>5. /\ scope'[s].at = "opening" /\ (scope'[s].ok <=> ok)
      /\ scope'[s].around = scope[s].around /\ scope'[s].did = scope[s].did
      /\ (scope'[s].kept <=> scope[s].kept)
      /\ \A c \in Scopes \ {s} : scope'[c] = scope[c]
  BY <1>3, <1>4, SetTyped DEF Phases
<1>6. \A c \in Scopes : c[1] = round + 1 => ~scope[c].kept /\ scope[c].did = "nothing"
  <2> SUFFICES ASSUME NEW c \in Scopes, c[1] = round + 1
               PROVE  ~scope[c].kept /\ scope[c].did = "nothing"
    OBVIOUS
  <2>1. c[1] > round
    BY <1>1
  <2> QED
    BY <2>1 DEF Honest, Nested, Placed, Blank
<1>7. \A c \in Scopes : ~IsOpen(c)
  BY DEF IsOpen, Active
<1>8. /\ IsTransaction(s) /\ ~scope[s].kept /\ committed' = committed
      /\ session.dead <=> session'.dead
      /\ ok <=> ~session.dead
      /\ session'.open <=> ok
  <2>1. IsTransaction(s) /\ ~scope[s].kept /\ committed' = committed
    BY <1>2, <1>3, <1>6 DEF IsTransaction, SendBegin, Reject
  <2>2. ~session.open
    BY <1>1, OverMeansClosedNone DEF Honest
  <2> QED
    BY <1>1, <1>3, <1>4, <2>1, <2>2, BeginSound
<1>9. \A r \in Rounds : Durable(r)'
  <2>1. <<s[1], 0>> = s
    BY <1>2
  <2> QED
    BY <1>5, <1>8, <2>1, AllDurableStay
<1>10. Told(s)'
  BY <1>5, <1>8 DEF Told
<1>11. CASE session.dead
  <2>1. Backed' /\ Weighed'
    BY <1>4, <1>8, <1>11, ClosedAccounts DEF IsOpen
  <2> QED
    BY <1>5, <1>8, <1>9, <1>10, <2>1, OthersTold DEF Accounted
<1>12. CASE ~session.dead
  <2>1. session' = [session EXCEPT !.open = TRUE]
    BY <1>3, <1>12 DEF SendBegin
  <2>2. session'.work = {} /\ ~session'.broken
    <3>1. ~session.open
      BY <1>1, OverMeansClosedNone DEF Honest
    <3> QED
      BY <1>4, <2>1, <3>1 DEF Sessions, DatabaseSound
  <2>3. Opened' = {s}
    BY <1>5, <1>7, <1>8, <1>12 DEF Opened, IsOpen
  <2>4. Writers(round)' = {}
    BY <1>1, <1>5, <1>6 DEF Writers
  <2>5. Weighed'
    BY <1>8, <2>2, <2>3, <2>4 DEF Weighed, CountedTo, IsTransaction
  <2>6. Backed'
    BY <1>8, <1>12, <2>2, <2>3 DEF Backed, IsTransaction
  <2> QED
    BY <1>5, <1>8, <1>9, <1>10, <2>5, <2>6, OthersTold DEF Accounted
<1> QED
  BY <1>11, <1>12

LEMMA InitHonest == Init => Honest
<1> SUFFICES ASSUME Init PROVE Honest
  OBVIOUS
<1>1. Sane /\ Nested
  BY InitSane, InitNested
<1>2. \A c \in Scopes : scope[c].at = "none" /\ ~scope[c].kept
  BY DEF Init
<1>3. \A c \in Scopes : Told(c)
  BY <1>2 DEF Told
<1>4. Opened = {}
  BY <1>2 DEF Opened, IsOpen
<1>5. ~session.open /\ ~session.broken /\ committed = {}
  BY ClosedIsSession DEF Init
<1>6. \A r \in Rounds : Durable(r)
  <2>1. \A r \in Rounds : ~scope[<<r, 0>>].kept
    BY <1>2, ScopeParts
  <2> QED
    BY <1>5, <2>1 DEF Durable, DurableOf
<1> QED
  BY <1>1, <1>3, <1>4, <1>5, <1>6 DEF Honest, Accounted, Backed, Weighed

LEMMA StepHonest ==
    ASSUME Careful, Honest, [Next]_vars
    PROVE  Honest'
<1>1. Sane' /\ Nested'
  BY StepSane, StepNested DEF Honest
<1> SUFFICES Accounted'
  BY <1>1 DEF Honest
<1>2. scope \in [Scopes -> States] /\ session \in Sessions /\ DatabaseSound
  BY DEF Honest, Sane, DatabaseSound
<1>3. CASE Call
  <2>1. \A s \in Scopes : ~Active(s)
    BY <1>3, NoneActive DEF Call, LastEnded, Honest
  <2> QED
    BY <1>1, <1>3, <2>1, RoundsLeft, BeginAccounts DEF Call, Honest, Sane
<1>4. CASE Retry
  <2>1. PICK r \in Rounds : round = r /\ scope[<<r, 0>>].at = "undone"
    BY <1>4 DEF Retry
  <2>2. \A s \in Scopes : ~Active(s)
    BY <2>1, NoneActive DEF Ended, Honest
  <2> QED
    BY <1>1, <1>4, <2>1, <2>2, RoundsLeft, BeginAccounts DEF Retry, Honest, Sane
<1>5. CASE Disconnect
  <2>1. /\ session' = [Closed EXCEPT !.dead = TRUE] /\ ~session.dead /\ round > 0
        /\ UNCHANGED <<scope, round, calls, retries, seq, committed>>
    BY <1>5 DEF Disconnect
  <2>2. session'.dead /\ ~session'.open
    BY <2>1, ClosedIsSession
  <2>3. Backed' /\ Weighed'
    BY <1>1, <2>2, ClosedAccounts DEF IsOpen, Sane
  <2>4. PICK s \in Scopes : s = <<round, 0>> /\ s[1] = round
    <3>1. round \in Rounds
      BY <2>1 DEF Honest, Sane, CountersSound
    <3> QED
      BY <3>1, ScopeParts
  <2>5. \A c \in Scopes \ {s} : scope'[c] = scope[c]
    BY <2>1
  <2>6. \A r \in Rounds : Durable(r)'
    BY <2>1, <2>4, <2>5, AllDurableStay
  <2>7. Told(s)'
    BY <2>1, <2>2 DEF Honest, Accounted, Told
  <2> QED
    BY <2>1, <2>2, <2>3, <2>5, <2>6, <2>7, OthersTold DEF Accounted
<1>6. ASSUME NEW s \in Scopes, BodyReturns(s) PROVE Accounted'
  <2>1. /\ Active(s) /\ Innermost(s) /\ scope[s].at = "body" /\ scope[s].did # "failed"
        /\ Set(s, "closing", TRUE)
        /\ UNCHANGED <<round, calls, retries, seq, session, committed, spent>>
    BY <1>6, RunningInnermost DEF BodyReturns, Sound, Honest
  <2>2. /\ scope'[s].at = "closing" /\ scope'[s].ok
        /\ scope'[s].around = scope[s].around /\ scope'[s].did = scope[s].did
        /\ (scope'[s].kept <=> scope[s].kept)
        /\ \A c \in Scopes \ {s} : scope'[c] = scope[c]
    BY <1>2, <2>1, SetTyped DEF Phases
  <2>3. ~scope[s].kept
    BY <2>1, Unkept
  <2>4. Told(s)'
    BY <2>1, <2>2, <2>3 DEF Told
  <2>5. IsOpen(s)' <=> IsOpen(s)
    BY <2>1, <2>2 DEF IsOpen
  <2> QED
    BY <2>1, <2>2, <2>4, <2>5, IdleAccounts
<1>7. ASSUME NEW s \in Scopes, OpenAnswers(s) PROVE Accounted'
  <2>1. PICK at \in {"body", "lost"} :
            /\ at = IF Answered(s) THEN "body" ELSE "lost"
            /\ Set(s, at, TRUE)
    BY <1>7 DEF OpenAnswers
  <2>2. /\ scope[s].at = "opening"
        /\ UNCHANGED <<round, calls, retries, seq, session, committed, spent>>
    BY <1>7 DEF OpenAnswers
  <2>3. /\ scope'[s].at = at /\ scope'[s].ok
        /\ scope'[s].around = scope[s].around /\ scope'[s].did = scope[s].did
        /\ (scope'[s].kept <=> scope[s].kept)
        /\ \A c \in Scopes \ {s} : scope'[c] = scope[c]
    <3>1. at \in Phases
      BY DEF Phases
    <3> QED
      BY <1>2, <2>1, <3>1, SetTyped
  <2>4. Active(s) /\ ~scope[s].kept
    BY <2>2, Unkept
  <2>5. at = "lost" => session.dead
    BY <2>1, <2>2 DEF Answered, Honest, Accounted, Told
  <2>6. Told(s)' /\ (IsOpen(s)' <=> IsOpen(s))
    BY <2>1, <2>2, <2>3, <2>4, <2>5 DEF Told, IsOpen
  <2> QED
    BY <2>2, <2>3, <2>4, <2>6, IdleAccounts
<1>8. ASSUME NEW s \in Scopes, BodyThrows(s) PROVE Accounted'
  <2>1. /\ Active(s) /\ Innermost(s) /\ scope[s].at = "body"
        /\ UNCHANGED <<round, calls, retries, seq>>
    BY <1>8, RunningInnermost DEF BodyThrows, Honest
  <2>2. PICK ok \in BOOLEAN : SendUndo(s, ok) /\ Set(s, "undoing", ok)
    BY <1>8 DEF BodyThrows
  <2> QED
    BY <1>1, <2>1, <2>2, UndoAccounts
<1>9. ASSUME NEW s \in Scopes, CloseFails(s) PROVE Accounted'
  <2>1. scope[s].at = "closing" /\ UNCHANGED <<round, calls, retries, seq>>
    BY <1>9 DEF CloseFails
  <2>2. Active(s) /\ Innermost(s)
    BY <2>1, OthersAreInnermost DEF Active, Honest
  <2>3. PICK ok \in BOOLEAN : SendUndo(s, ok) /\ Set(s, "undoing", ok)
    BY <1>9 DEF CloseFails
  <2> QED
    BY <1>1, <2>1, <2>2, <2>3, UndoAccounts
<1>10. ASSUME NEW s \in Scopes, EndAnswers(s) PROVE Accounted'
  <2>1. scope[s].at = "ending" /\ UNCHANGED <<round, calls, retries, seq>>
    BY <1>10 DEF EndAnswers
  <2>2. Active(s) /\ Innermost(s)
    BY <2>1, OthersAreInnermost DEF Active, Honest
  <2>3. CASE ~Answered(s)
    <3>1. PICK ok \in BOOLEAN : SendUndo(s, ok) /\ Set(s, "undoing", ok)
      BY <1>10, <2>3 DEF EndAnswers
    <3> QED
      BY <1>1, <2>1, <2>2, <2>3, <3>1, UndoAccounts
  <2>4. CASE Answered(s)
    <3>1. Set(s, "kept", TRUE) /\ UNCHANGED <<session, committed, spent>>
      BY <1>10, <2>4 DEF EndAnswers
    <3>2. /\ scope'[s].at = "kept" /\ scope'[s].ok
          /\ scope'[s].around = scope[s].around /\ scope'[s].did = scope[s].did
          /\ (scope'[s].kept <=> scope[s].kept)
          /\ \A c \in Scopes \ {s} : scope'[c] = scope[c]
      BY <1>2, <3>1, SetTyped DEF Phases
    <3>3. scope[s].kept
      BY <2>1, <2>4 DEF Answered, Honest, Accounted, Told
    <3>4. Told(s)' /\ (IsOpen(s)' <=> IsOpen(s))
      BY <2>1, <3>2, <3>3 DEF Told, IsOpen
    <3> QED
      BY <2>1, <2>2, <3>1, <3>2, <3>4, IdleAccounts
  <2> QED
    BY <2>3, <2>4
<1>11. ASSUME NEW s \in Scopes, UndoAnswers(s) PROVE Accounted'
  <2>1. PICK at \in {"undone", "lost"} :
            /\ at = IF Answered(s) THEN "undone" ELSE "lost"
            /\ Set(s, at, TRUE)
    BY <1>11 DEF UndoAnswers
  <2>2. /\ scope[s].at = "undoing" /\ Active(s)
        /\ UNCHANGED <<round, calls, retries, seq, session, committed, spent>>
    BY <1>11 DEF UndoAnswers, Active
  <2>3. /\ scope'[s].at = at /\ scope'[s].ok
        /\ scope'[s].around = scope[s].around /\ scope'[s].did = scope[s].did
        /\ (scope'[s].kept <=> scope[s].kept)
        /\ \A c \in Scopes \ {s} : scope'[c] = scope[c]
    <3>1. at \in Phases
      BY DEF Phases
    <3> QED
      BY <1>2, <2>1, <3>1, SetTyped
  <2>4. scope[s].kept => session.dead
    BY <2>2 DEF Honest, Accounted, Told
  <2>5. at = "undone" => ~session.dead
    BY <2>1 DEF Answered
  <2>6. Told(s)' /\ (IsOpen(s)' <=> IsOpen(s))
    BY <2>1, <2>2, <2>3, <2>4, <2>5 DEF Told, IsOpen
  <2> QED
    BY <2>2, <2>3, <2>6, IdleAccounts
<1>12. CASE UNCHANGED vars
  <2>1. UNCHANGED <<scope, session, committed, round>>
    BY <1>12 DEF vars
  <2>2. Opened' = Opened /\ \A n : OpenBelow(n)' = OpenBelow(n) /\ Saved(n)' = Saved(n)
    BY <2>1 DEF Opened, OpenBelow, IsOpen, Saved
  <2>3. /\ Around' = Around
        /\ \A r : /\ Writers(r)' = Writers(r) /\ Handed(r)' = Handed(r)
                  /\ Resolved(r)' = Resolved(r) /\ DurableOf(r)' = DurableOf(r)
    BY <2>1 DEF Around, Writers, Handed, Resolved, DurableOf, IsTransaction
  <2>4. \A c : Base(c)' = Base(c)
    BY <2>1, <2>2 DEF Base, IsTransaction
  <2>6. Backed'
    BY <2>1, <2>2 DEF Honest, Accounted, Backed, IsTransaction
  <2>7. Weighed'
    <3>1. CountedTo(Opened)' = CountedTo(Opened)
          /\ \A n : CountedTo(OpenBelow(n))' = CountedTo(OpenBelow(n))
      BY <2>1, <2>2, <2>3 DEF CountedTo
    <3> QED
      BY <2>1, <2>2, <2>4, <3>1 DEF Honest, Accounted, Weighed, IsTransaction
  <2>8. \A r \in Rounds : Durable(r)'
    BY <2>1, <2>3 DEF Honest, Accounted, Durable
  <2>9. \A c \in Scopes : Told(c)'
    BY <2>1 DEF Honest, Accounted, Told, IsTransaction
  <2> QED
    BY <2>6, <2>7, <2>8, <2>9 DEF Accounted
<1> QED
  BY <1>1, <1>3, <1>4, <1>5, <1>6, <1>7, <1>8, <1>9, <1>10, <1>11, <1>12,
     ExecuteAccounts, SavepointAccounts, SettleAccounts DEF Next, Callback, Ending

(* A call that resolved is one whose savepoints have all been answered.    *)
LEMMA HonestAnswers == Honest => AnswerIsHonest
<1> SUFFICES ASSUME Honest, NEW r \in Rounds
             PROVE  /\ scope[<<r, 0>>].at = "kept" => DurableOf(r) = Counts(r)
                    /\ scope[<<r, 0>>].at = "undone" => DurableOf(r) = {}
  BY DEF AnswerIsHonest
<1>1. <<r, 0>> \in Scopes /\ Durable(r) /\ Told(<<r, 0>>)
  BY ScopeParts DEF Honest, Accounted
<1>2. ASSUME scope[<<r, 0>>].at = "kept" PROVE DurableOf(r) = Counts(r)
  <2>1. /\ DurableOf(r) = Writers(r) \cap Reaches(Handed(r), Around, {<<r, 0>>})
        /\ Handed(r) \subseteq Resolved(r)
    BY <1>1, <1>2 DEF Durable, Told
  <2>2. Resolved(r) \subseteq Handed(r)
    BY DEF Resolved, Handed, Honest, Accounted, Told
  <2>3. Handed(r) = Resolved(r)
    BY <2>1, <2>2
  <2>4. \A c \in Resolved(r) : Around[c] = scope[c].around
    BY DEF Resolved, Around
  <2>5. Counts(r) = Writers(r) \cap Reaches(Resolved(r), Around, {<<r, 0>>})
    BY <2>4 DEF Counts, Writers, Reaches
  <2> QED
    BY <2>1, <2>3, <2>5
<1>3. ASSUME scope[<<r, 0>>].at = "undone" PROVE DurableOf(r) = {}
  BY <1>1, <1>3 DEF Durable, Told
<1> QED
  BY <1>2, <1>3

LEMMA AlwaysHonest ==
    ASSUME Careful
    PROVE  Spec => []Honest
<1>1. Init => Honest
  BY InitHonest
<1>2. Honest /\ [Next]_vars => Honest'
  BY StepHonest
<1> QED
  BY <1>1, <1>2, PTL DEF Spec

(* When callbacks await what they call, the answer of transaction() is the *)
(* truth: resolved, what the callback and its resolved savepoints wrote is *)
(* durable and nothing else; rejected after an answered rollback, nothing. *)
THEOREM Honesty ==
    ASSUME Careful
    PROVE  Spec => []AnswerIsHonest
  BY AlwaysHonest, HonestAnswers, PTL

-----------------------------------------------------------------------------
(* The refinement: what the abstract scopes see of each step.              *)

LEMMA StatusIs ==
    ASSUME Honest, NEW s \in Scopes
    PROVE  Status(s) = IF scope[s].at = "none" THEN "none"
                       ELSE IF scope[s].kept THEN "kept"
                       ELSE IF IsOpen(s) THEN "open" ELSE "undone"
<1>1. Told(s) /\ (scope[s].at = "none" => ~scope[s].kept)
  BY DEF Honest, Accounted, Nested, Placed, Blank
<1>2. scope[s].at \in Phases /\ scope[s].kept \in BOOLEAN /\ scope[s].ok \in BOOLEAN
  BY DEF Honest, Sane, States
<1>3. CASE scope[s].at = "none"
  BY <1>1, <1>3 DEF Status
<1>4. CASE scope[s].at # "none" /\ scope[s].kept
  BY <1>4 DEF Status
<1>5. CASE scope[s].at # "none" /\ ~scope[s].kept
  <2> DEFINE over == \/ session.dead
                     \/ scope[s].at \in {"undone", "lost"}
                     \/ scope[s].at = "undoing" /\ scope[s].ok
                     \/ scope[s].at = "opening" /\ ~scope[s].ok
                     \/ scope[s].at = "ending" /\ ~scope[s].ok /\ IsTransaction(s)
  <2>1. over <=> ~IsOpen(s)
    <3>1. CASE session.dead
      BY <3>1 DEF IsOpen
    <3>2. CASE ~session.dead
      BY <1>1, <1>2, <1>5, <3>2 DEF Told, IsOpen, Phases
    <3> QED
      BY <3>1, <3>2
  <2>2. Status(s) = IF over THEN "undone" ELSE "open"
    BY <1>5 DEF Status
  <2> HIDE DEF over
  <2> QED
    BY <1>5, <2>1, <2>2
<1> QED
  BY <1>3, <1>4, <1>5

LEMMA OpenStatus ==
    ASSUME Honest, NEW s \in Scopes
    PROVE  Status(s) = "open" <=> s \in Opened
<1>1. s \in Opened => scope[s].at # "none" /\ ~scope[s].kept
  BY OpenedAre DEF Active
<1> QED
  BY <1>1, StatusIs DEF Opened

(* Inside an open scope that is not the last one, there is one that is     *)
(* open, and none between the two.                                         *)
LEMMA InsideOf ==
    ASSUME Honest, NEW s \in Opened
    PROVE  /\ \A c \in Opened : s[2] < c[2] => Inside(s) # {}
           /\ \A d \in Inside(s) : /\ d \in Opened /\ ~IsTransaction(d)
                                   /\ OpenBelow(d[2]) = OpenUpTo(s)
<1>1. /\ s \in Scopes /\ Active(s) /\ s[1] = round /\ s[2] \in Nat /\ ~session.dead
      /\ s = <<s[1], s[2]>>
  BY OpenedAre, ScopeParts
<1>2. Inside(s) = {d \in Opened \ {s} : scope[d].around = s}
  <2>1. Opened \subseteq Scopes
    BY DEF Opened
  <2> QED
    BY <2>1, OpenStatus DEF Inside
<1>3. ASSUME NEW c \in Opened, s[2] < c[2] PROVE Inside(s) # {}
  <2>1. c \in Scopes /\ Active(c) /\ c[2] \in Nat
    BY OpenedAre, ScopeParts
  <2>2. ~Innermost(s)
    BY <1>1, <1>3, <2>1 DEF Honest, Nested, Follows
  <2>3. PICK d \in Scopes \ {s} : Active(d) /\ scope[d].around = s
    BY <2>2 DEF Innermost
  <2>4. CASE d \in Opened
    BY <1>2, <2>3, <2>4
  <2>5. CASE d \notin Opened
    <3>1. scope[d].at # "body"
      BY <1>1, <2>5 DEF Opened, IsOpen
    <3>2. Innermost(d)
      BY <3>1, OthersAreInnermost DEF Honest
    <3>3. c # d
      BY <1>3, <2>5
    <3>4. c[2] < d[2]
      BY <2>1, <2>3, <3>2, <3>3, Greatest DEF Honest
    <3>5. c[2] <= s[2]
      BY <2>1, <2>3, <3>4 DEF Honest, Nested, Follows
    <3> QED
      BY <1>1, <1>3, <2>1, <3>5
  <2> QED
    BY <2>4, <2>5
<1>4. ASSUME NEW d \in Inside(s)
      PROVE  d \in Opened /\ ~IsTransaction(d) /\ OpenBelow(d[2]) = OpenUpTo(s)
  <2>1. d \in Opened /\ d # s /\ scope[d].around = s
    BY <1>2
  <2>2. d \in Scopes /\ Active(d) /\ d[2] \in Nat
    BY <2>1, OpenedAre, ScopeParts
  <2>3. ~IsTransaction(d)
    BY <2>1, <2>2 DEF Honest, Nested, Placed
  <2>4. s[2] < d[2]
    BY <2>1, <2>3, OpenedAre
  <2>5. ASSUME NEW e \in Opened, e[2] < d[2] PROVE e = s \/ e[2] < s[2]
    <3>1. e \in Scopes /\ Active(e) /\ e[1] = round /\ e[2] \in Nat /\ e = <<e[1], e[2]>>
      BY OpenedAre, ScopeParts
    <3>2. e[2] <= s[2]
      BY <2>1, <2>2, <2>5, <3>1 DEF Honest, Nested, Follows
    <3> QED
      BY <1>1, <3>1, <3>2
  <2>6. \A e \in Opened : e[2] < s[2] => e[2] < d[2]
    <3>1. \A e \in Opened : e[2] \in Nat
      BY OpenedAre, ScopeParts
    <3> QED
      BY <1>1, <2>2, <2>4, <3>1
  <2> QED
    BY <2>1, <2>3, <2>4, <2>5, <2>6 DEF OpenBelow, OpenUpTo
<1> QED
  BY <1>3, <1>4

(* The gain of an open scope is what is counted to it, and was not when it *)
(* was opened.                                                             *)
LEMMA GainIs ==
    ASSUME Honest, NEW s \in Scopes
    PROVE  /\ s \notin Opened => Gain(s) = {}
           /\ s \in Opened => Gain(s) = CountedTo(OpenUpTo(s)) \ Base(s)
<1>1. CASE s \notin Opened
  BY <1>1, OpenStatus DEF Gain
<1>2. CASE s \in Opened
  <2>1. session.open /\ Status(s) = "open"
    BY <1>2, OpenedAre, OpenStatus
  <2>2. CASE Inside(s) = {}
    <3>1. Opened = OpenUpTo(s)
      <4>1. \A c \in Opened : c = s \/ c[2] < s[2]
        <5> SUFFICES ASSUME NEW c \in Opened PROVE c = s \/ c[2] < s[2]
          OBVIOUS
        <5>1. ~(s[2] < c[2])
          BY <1>2, <2>2, InsideOf
        <5>2. c[1] = round /\ s[1] = round /\ c \in Scopes
          BY <1>2, OpenedAre
        <5>3. c = <<c[1], c[2]>> /\ s = <<s[1], s[2]>> /\ c[2] \in Nat /\ s[2] \in Nat
          BY <5>2, ScopeParts
        <5> QED
          BY <5>1, <5>2, <5>3
      <4> QED
        BY <1>2, <4>1 DEF OpenUpTo, OpenBelow
    <3>2. session.work = CountedTo(Opened)
      BY <2>1 DEF Honest, Accounted, Weighed
    <3> QED
      BY <1>2, <2>1, <2>2, <3>1, <3>2 DEF Gain
  <2>3. CASE Inside(s) # {}
    <3> DEFINE d == CHOOSE c \in Inside(s) : TRUE
    <3>1. d \in Inside(s)
      BY <2>3
    <3>2. Gain(s) = Base(d) \ Base(s)
      BY <2>1, <2>3 DEF Gain
    <3> HIDE DEF d
    <3>3. d \in Opened /\ ~IsTransaction(d) /\ OpenBelow(d[2]) = OpenUpTo(s)
      BY <1>2, <3>1, InsideOf
    <3>4. Base(d) = CountedTo(OpenBelow(d[2]))
      BY <3>3 DEF Honest, Accounted, Weighed
    <3> QED
      BY <1>2, <3>2, <3>3, <3>4
  <2> QED
    BY <2>2, <2>3
<1> QED
  BY <1>1, <1>2

GainsAre ==
    \A s \in Scopes : /\ s \notin Opened => Gain(s) = {}
                      /\ s \in Opened => Gain(s) = CountedTo(OpenUpTo(s)) \ Base(s)

StatusesAre ==
    \A s \in Scopes : Status(s) = IF scope[s].at = "none" THEN "none"
                                  ELSE IF scope[s].kept THEN "kept"
                                  ELSE IF IsOpen(s) THEN "open" ELSE "undone"

LEMMA ViewsAre == Honest => GainsAre /\ StatusesAre
  BY GainIs, StatusIs DEF GainsAre, StatusesAre

LEMMA ViewsNext == Honest' => GainsAre' /\ StatusesAre'
  BY ViewsAre, PTL

(* The steps of the abstract scopes, from what becomes of each of them.    *)
Views == <<[s \in Scopes |-> Status(s)], [s \in Scopes |-> scope[s].around],
           [s \in Scopes |-> Gain(s)], committed>>

LEMMA PromiseStutters ==
    ASSUME \A c \in Scopes : /\ Status(c)' = Status(c) /\ Gain(c)' = Gain(c)
                             /\ scope'[c].around = scope[c].around,
           committed' = committed
    PROVE  UNCHANGED Views
<1>1. [s \in Scopes |-> Status(s)]' = [s \in Scopes |-> Status(s)]
  OBVIOUS
<1>2. [s \in Scopes |-> Gain(s)]' = [s \in Scopes |-> Gain(s)]
  OBVIOUS
<1>3. [s \in Scopes |-> scope[s].around]' = [s \in Scopes |-> scope[s].around]
  OBVIOUS
<1> QED
  BY <1>1, <1>2, <1>3 DEF Views

LEMMA PromiseWrites ==
    ASSUME NEW s \in Scopes, Status(s) = "open",
           \A c \in Scopes : /\ Status(c)' = Status(c)
                             /\ Gain(c)' = IF c = s THEN Gain(s) \cup {s} ELSE Gain(c)
                             /\ scope'[c].around = scope[c].around,
           committed' = committed
    PROVE  Promise!Write(s)
<1>1. [c \in Scopes |-> Status(c)]' = [c \in Scopes |-> Status(c)]
  OBVIOUS
<1>2. [c \in Scopes |-> scope[c].around]' = [c \in Scopes |-> scope[c].around]
  OBVIOUS
<1>3. [c \in Scopes |-> Gain(c)]' = [[c \in Scopes |-> Gain(c)] EXCEPT ![s] = @ \cup {s}]
  OBVIOUS
<1> QED
  BY <1>1, <1>2, <1>3 DEF Promise!Write

LEMMA PromiseOpens ==
    ASSUME NEW s \in Scopes, NEW p \in Scopes, NEW outcome \in {"open", "undone"},
           Status(s) = "none", p[1] = s[1],
           IsTransaction(s) => p = s,
           ~IsTransaction(s) /\ outcome = "open" =>
               /\ p[2] < s[2]
               /\ \A c \in Scopes : c[1] = p[1] /\ c[2] >= p[2] /\ Status(c) = "open" <=> c = p,
           \A c \in Scopes : /\ Status(c)' = IF c = s THEN outcome ELSE Status(c)
                             /\ Gain(c)' = Gain(c)
                             /\ scope'[c].around = IF c = s THEN p ELSE scope[c].around,
           committed' = committed
    PROVE  Promise!Next
<1>1. [c \in Scopes |-> Status(c)]' = [[c \in Scopes |-> Status(c)] EXCEPT ![s] = outcome]
  OBVIOUS
<1>2. [c \in Scopes |-> scope[c].around]' = [[c \in Scopes |-> scope[c].around] EXCEPT ![s] = p]
  OBVIOUS
<1>3. [c \in Scopes |-> Gain(c)]' = [c \in Scopes |-> Gain(c)]
  OBVIOUS
<1>4. ~IsTransaction(s) /\ outcome = "open" => Promise!OpenFrom(p) = {p}
  BY DEF Promise!OpenFrom
<1>5. Promise!IsTransaction(s) <=> IsTransaction(s)
  BY DEF Promise!IsTransaction, IsTransaction
<1>6. Promise!Open(s, p, outcome)
  BY <1>1, <1>2, <1>3, <1>4, <1>5 DEF Promise!Open
<1>7. p \in {q \in Scopes : q[1] = s[1]}
  OBVIOUS
<1> QED
  BY <1>6, <1>7 DEF Promise!Next

LEMMA PromiseKeeps ==
    ASSUME NEW s \in Scopes,
           \A c \in Scopes : c[1] = s[1] /\ c[2] >= s[2] /\ Status(c) = "open" <=> c = s,
           ~IsTransaction(s) => scope[s].around \in Scopes \ {s},
           \A c \in Scopes :
               /\ Status(c)' = IF c = s THEN "kept" ELSE Status(c)
               /\ Gain(c)' = IF c = s THEN {}
                             ELSE IF ~IsTransaction(s) /\ c = scope[s].around
                                  THEN Gain(c) \cup Gain(s) ELSE Gain(c)
               /\ scope'[c].around = scope[c].around,
           committed' = IF IsTransaction(s) THEN committed \cup Gain(s) ELSE committed
    PROVE  Promise!Keep(s)
<1>1. [c \in Scopes |-> Status(c)]' = [[c \in Scopes |-> Status(c)] EXCEPT ![s] = "kept"]
  OBVIOUS
<1>2. [c \in Scopes |-> scope[c].around]' = [c \in Scopes |-> scope[c].around]
  OBVIOUS
<1>3. Promise!OpenFrom(s) = {s}
  BY DEF Promise!OpenFrom
<1>4. Promise!IsTransaction(s) <=> IsTransaction(s)
  BY DEF Promise!IsTransaction, IsTransaction
<1>5. CASE IsTransaction(s)
  <2>1. [c \in Scopes |-> Gain(c)]' = [[c \in Scopes |-> Gain(c)] EXCEPT ![s] = {}]
    BY <1>5
  <2> QED
    BY <1>1, <1>2, <1>3, <1>4, <1>5, <2>1 DEF Promise!Keep
<1>6. CASE ~IsTransaction(s)
  <2> DEFINE a == scope[s].around
             g == [c \in Scopes |-> Gain(c)]
  <2>1. a \in Scopes /\ a # s
    BY <1>6
  <2>2. g' = [g EXCEPT ![s] = {}, ![a] = @ \cup g[s]]
    BY <1>6, <2>1
  <2>3. [c \in Scopes |-> scope[c].around][s] = a
    OBVIOUS
  <2> QED
    BY <1>1, <1>2, <1>3, <1>4, <1>6, <2>2, <2>3 DEF Promise!Keep
<1> QED
  BY <1>5, <1>6

LEMMA PromiseUndoes ==
    ASSUME NEW s \in Scopes, Status(s) = "open", NEW A \in SUBSET Scopes,
           \A c \in Scopes : c[1] = s[1] /\ c[2] >= s[2] /\ Status(c) = "open" <=> c \in A,
           \A c \in Scopes : /\ Status(c)' = IF c \in A THEN "undone" ELSE Status(c)
                             /\ Gain(c)' = IF c \in A THEN {} ELSE Gain(c)
                             /\ scope'[c].around = scope[c].around,
           committed' = committed
    PROVE  Promise!Undo(s)
<1>1. Promise!OpenFrom(s) = A
  BY DEF Promise!OpenFrom
<1>2. [c \in Scopes |-> Status(c)]'
          = [c \in Scopes |-> IF c \in A THEN "undone" ELSE [b \in Scopes |-> Status(b)][c]]
  OBVIOUS
<1>3. [c \in Scopes |-> Gain(c)]' = [c \in Scopes |-> IF c \in A THEN {} ELSE [b \in Scopes |-> Gain(b)][c]]
  OBVIOUS
<1>4. [c \in Scopes |-> scope[c].around]' = [c \in Scopes |-> scope[c].around]
  OBVIOUS
<1> QED
  BY <1>1, <1>2, <1>3, <1>4 DEF Promise!Undo

LEMMA GainKept ==
    ASSUME Honest, Honest', NEW c \in Opened, c \in Opened', Keeps(c)
    PROVE  /\ Gain(c) = CountedTo(OpenUpTo(c)) \ Base(c)
           /\ Gain(c)' = CountedTo(OpenUpTo(c))' \ Base(c)
<1>1. c \in Scopes
  BY OpenedAre
<1>2. Gain(c)' = (CountedTo(OpenUpTo(c)) \ Base(c))'
  BY <1>1, ViewsNext DEF GainsAre
<1> QED
  BY <1>1, <1>2, GainIs DEF Keeps

(* Nothing that the abstract scopes see.                                   *)
LEMMA UnseenImplements ==
    ASSUME Honest, Honest', committed' = committed, Opened' = Opened,
           \A c \in Scopes : /\ scope'[c].at = "none" <=> scope[c].at = "none"
                             /\ scope'[c].kept <=> scope[c].kept
                             /\ scope'[c].around = scope[c].around,
           \A c \in Opened : Gain(c)' = Gain(c)
    PROVE  UNCHANGED Views
<1>1. \A c \in Scopes : IsOpen(c)' <=> IsOpen(c)
  BY DEF Opened
<1>2. GainsAre /\ StatusesAre /\ GainsAre' /\ StatusesAre'
  BY ViewsAre, ViewsNext
<1>3. \A c \in Scopes : Status(c)' = Status(c)
  BY <1>1, <1>2 DEF StatusesAre
<1>4. \A c \in Scopes : Gain(c)' = Gain(c)
  BY <1>2 DEF GainsAre
<1> QED
  BY <1>3, <1>4, PromiseStutters

LEMMA ExecuteImplements ==
    ASSUME Careful, Honest, Honest', NEW s \in Scopes, Execute(s)
    PROVE  Promise!Next \/ UNCHANGED Views
<1>1. /\ committed' = committed /\ round' = round
      /\ \A c \in Scopes : /\ scope'[c].at = scope[c].at /\ scope'[c].around = scope[c].around
                           /\ scope'[c].kept <=> scope[c].kept
      /\ session'.dead <=> session.dead
      /\ ~session.dead =>
            /\ s \in Opened /\ Opened' = Opened /\ Innermost(s) /\ Around' = Around
            /\ Handed(round)' = Handed(round) /\ s \notin Handed(round)
            /\ s \notin Writers(round)
            /\ Writers(round)' \in {Writers(round), Writers(round) \cup {s}}
            /\ \A c \in Opened : Keeps(c)
  BY ExecuteAccounts DEF Honest
<1>2. CASE session.dead
  <2>1. Opened = {} /\ Opened' = {}
    BY <1>1, <1>2 DEF Opened, IsOpen
  <2> QED
    BY <1>1, <2>1, UnseenImplements
<1>3. CASE ~session.dead
  <2>1. ASSUME NEW c \in Opened
        PROVE  /\ Gain(c) = CountedTo(OpenUpTo(c)) \ Base(c)
               /\ Gain(c)' = CountedTo(OpenUpTo(c))' \ Base(c)
               /\ OpenUpTo(c)' = OpenUpTo(c)
    BY <1>1, <1>3, <2>1, GainKept DEF Keeps, OpenUpTo
  <2>2. CASE Writers(round)' = Writers(round)
    <3>1. \A c \in Opened : Gain(c)' = Gain(c)
      BY <1>1, <1>3, <2>1, <2>2 DEF CountedTo
    <3> QED
      BY <1>1, <1>3, <3>1, UnseenImplements
  <2>3. CASE Writers(round)' = Writers(round) \cup {s}
    <3>1. ASSUME NEW c \in Opened, c # s PROVE Gain(c)' = Gain(c)
      <4>1. c[2] < s[2]
        BY <1>1, <1>3, <3>1, OpenedAre, Greatest DEF Honest
      <4>2. c[2] \in Nat /\ s[2] \in Nat
        BY OpenedAre, ScopeParts
      <4>3. s \notin OpenUpTo(c)
        BY <3>1, <4>1, <4>2 DEF OpenUpTo, OpenBelow
      <4>4. s \notin Reaches(Handed(round), Around, OpenUpTo(c))
        BY <1>1, <1>3, <4>3, ReachesOnly
      <4>5. OpenUpTo(c)' = OpenUpTo(c)
        BY <2>1
      <4>6. CountedTo(OpenUpTo(c))'
              = (Writers(round) \cup {s}) \cap Reaches(Handed(round), Around, OpenUpTo(c))
        BY <1>1, <1>3, <2>3, <4>5 DEF CountedTo
      <4>7. CountedTo(OpenUpTo(c))' = CountedTo(OpenUpTo(c))
        BY <4>4, <4>6 DEF CountedTo
      <4> QED
        BY <2>1, <4>7
    <3>2. Gain(s)' = Gain(s) \cup {s}
      <4>1. s \in Reaches(Handed(round), Around, OpenUpTo(s))
        BY ReachesOnly DEF OpenUpTo
      <4>2. s \notin Base(s)
        <5>1. CASE IsTransaction(s)
          BY <5>1 DEF Base
        <5>2. CASE ~IsTransaction(s)
          <6>1. Base(s) = CountedTo(OpenBelow(s[2]))
            BY <1>1, <1>3, <5>2 DEF Honest, Accounted, Weighed
          <6> QED
            BY <1>1, <1>3, <6>1 DEF CountedTo
        <5> QED
          BY <5>1, <5>2
      <4> QED
        BY <1>1, <1>3, <2>1, <2>3, <4>1, <4>2 DEF CountedTo
    <3>3. GainsAre /\ StatusesAre /\ GainsAre' /\ StatusesAre'
      BY ViewsAre, ViewsNext
    <3>4. \A c \in Scopes : IsOpen(c)' <=> IsOpen(c)
      BY <1>1, <1>3 DEF Opened
    <3>5. \A c \in Scopes : Status(c)' = Status(c)
      BY <1>1, <3>3, <3>4 DEF StatusesAre
    <3>6. \A c \in Scopes : Gain(c)' = IF c = s THEN Gain(s) \cup {s} ELSE Gain(c)
      BY <1>1, <1>3, <3>1, <3>2, <3>3 DEF GainsAre
    <3>7. Status(s) = "open"
      BY <1>1, <1>3, OpenStatus
    <3>8. Promise!Write(s)
      BY <1>1, <3>5, <3>6, <3>7, PromiseWrites
    <3> QED
      BY <3>8 DEF Promise!Next
  <2> QED
    BY <1>1, <1>3, <2>2, <2>3
<1> QED
  BY <1>2, <1>3

LEMMA SavepointImplements ==
    ASSUME Careful, Honest, Honest', NEW s \in Scopes, Savepoint(s)
    PROVE  Promise!Next
<1>1. PICK c \in Scopes :
          /\ c[1] = s[1] /\ ~IsTransaction(c) /\ scope[c].at = "none"
          /\ scope'[c].at = "opening" /\ ~scope'[c].kept /\ scope'[c].around = s
          /\ \A d \in Scopes \ {c} : scope'[d] = scope[d]
          /\ ~session.dead =>
                /\ s \in Opened /\ s[2] < c[2] /\ Innermost(s)
                /\ Opened' = Opened \cup {c} /\ c \notin Opened
                /\ \A d \in Opened :
                      Keeps(d) /\ CountedTo(OpenUpTo(d))' = CountedTo(OpenUpTo(d))
                /\ CountedTo(OpenUpTo(c))' \subseteq Base(c)'
  BY SavepointAccounts DEF Honest
<1>2. committed' = committed /\ (session'.dead <=> session.dead)
  BY SavepointAccounts DEF Honest
<1>3. GainsAre /\ StatusesAre /\ GainsAre' /\ StatusesAre'
  BY ViewsAre, ViewsNext
<1>4. Status(c) = "none" /\ c \notin Opened
  BY <1>1, <1>3 DEF StatusesAre, Opened, IsOpen
<1>5. \A d \in Scopes : scope'[d].around = IF d = c THEN s ELSE scope[d].around
  BY <1>1
<1>6. \A d \in Scopes \ {c} : IsOpen(d)' <=> IsOpen(d)
  BY <1>1, <1>2 DEF IsOpen
<1>7. \A d \in Scopes \ {c} : Status(d)' = Status(d)
  BY <1>1, <1>3, <1>6 DEF StatusesAre
<1>8. CASE session.dead
  <2>1. Opened = {} /\ Opened' = {}
    BY <1>2, <1>8 DEF Opened, IsOpen
  <2>2. \A d \in Scopes : Gain(d)' = Gain(d)
    BY <1>3, <2>1 DEF GainsAre
  <2>3. Status(c)' = "undone"
    BY <1>1, <1>2, <1>3, <1>8 DEF StatusesAre, IsOpen
  <2>4. \A d \in Scopes : Status(d)' = IF d = c THEN "undone" ELSE Status(d)
    BY <1>7, <2>3
  <2> QED
    BY <1>1, <1>2, <1>4, <1>5, <2>2, <2>4, PromiseOpens
<1>9. CASE ~session.dead
  <2>1. ASSUME NEW d \in Opened PROVE Gain(d)' = Gain(d)
    BY <1>1, <1>9, <2>1, GainKept
  <2>2. Gain(c)' = {}
    <3>1. Gain(c)' = (CountedTo(OpenUpTo(c)) \ Base(c))'
      BY <1>1, <1>3, <1>9 DEF GainsAre
    <3> QED
      BY <1>1, <1>9, <3>1
  <2>3. \A d \in Scopes : Gain(d)' = Gain(d)
    BY <1>1, <1>3, <1>4, <1>9, <2>1, <2>2 DEF GainsAre
  <2>4. c \in Opened'
    BY <1>1, <1>9
  <2>5. Status(c)' = "open"
    BY <1>1, <1>3, <2>4 DEF StatusesAre, Opened
  <2>6. \A d \in Scopes : Status(d)' = IF d = c THEN "open" ELSE Status(d)
    BY <1>7, <2>5
  <2>7. \A d \in Scopes : d[1] = s[1] /\ d[2] >= s[2] /\ Status(d) = "open" <=> d = s
    <3> SUFFICES ASSUME NEW d \in Scopes
                 PROVE  d[1] = s[1] /\ d[2] >= s[2] /\ Status(d) = "open" <=> d = s
      OBVIOUS
    <3>1. d[2] \in Nat /\ s[2] \in Nat
      BY ScopeParts
    <3>2. Status(s) = "open"
      BY <1>1, <1>9, OpenStatus
    <3>3. Status(d) = "open" => d = s \/ d[2] < s[2]
      BY <1>1, <1>9, OpenStatus, OpenedAre, Greatest DEF Honest
    <3> QED
      BY <3>1, <3>2, <3>3
  <2> QED
    BY <1>1, <1>2, <1>4, <1>5, <1>9, <2>3, <2>6, <2>7, PromiseOpens
<1> QED
  BY <1>8, <1>9

(* BEGIN.                                                                  *)
LEMMA BeginImplements ==
    ASSUME Honest, Honest', BeginRound, \A c \in Scopes : ~Active(c), round + 1 \in Rounds
    PROVE  Promise!Next
<1>1. PICK s \in Scopes : s = <<round + 1, 0>> /\ IsTransaction(s)
  BY ScopeParts DEF IsTransaction
<1>2. PICK ok \in BOOLEAN : SendBegin(ok) /\ Set(s, "opening", ok)
  BY <1>1 DEF BeginRound
<1>3. /\ scope'[s].at = "opening" /\ scope'[s].around = scope[s].around
      /\ (scope'[s].kept <=> scope[s].kept)
      /\ \A c \in Scopes \ {s} : scope'[c] = scope[c]
  BY <1>2, SetTyped DEF Phases, Honest, Sane
<1>4. scope[s].at = "none" /\ scope[s].around = s /\ ~scope[s].kept
  <2>1. round \in Nat /\ s[1] = round + 1
    BY <1>1, RoundsLeft DEF Honest, Sane
  <2>2. s[1] > round
    BY <2>1
  <2> QED
    BY <2>2 DEF Honest, Nested, Placed, Blank
<1>5. committed' = committed
  BY <1>2 DEF SendBegin, Reject
<1>6. GainsAre /\ StatusesAre /\ GainsAre' /\ StatusesAre'
  BY ViewsAre, ViewsNext
<1>7. Opened = {} /\ Opened' \subseteq {s}
  BY <1>3 DEF Opened, IsOpen, Active
<1>8. \A c \in Scopes : Gain(c) = {}
  BY <1>6, <1>7 DEF GainsAre
<1>9. Gain(s)' = {}
  <2>1. CASE s \notin Opened'
    BY <1>6, <2>1 DEF GainsAre
  <2>2. CASE s \in Opened'
    <3>1. Gain(s)' = (CountedTo(OpenUpTo(s)) \ Base(s))'
      BY <1>6, <2>2 DEF GainsAre
    <3>2. Writers(round)' = {}
      <4>1. round' = round + 1 /\ round \in Nat
        BY RoundsLeft DEF BeginRound, Honest, Sane
      <4>2. \A c \in Scopes : c[1] = round + 1 => scope[c].did = "nothing"
        <5> SUFFICES ASSUME NEW c \in Scopes, c[1] = round + 1 PROVE scope[c].did = "nothing"
          OBVIOUS
        <5>1. c[1] > round
          BY <4>1
        <5> QED
          BY <5>1 DEF Honest, Nested, Placed, Blank
      <4>3. scope'[s].did = scope[s].did
        BY <1>2, SetTyped DEF Phases, Honest, Sane
      <4>4. \A c \in Scopes : scope'[c].did = scope[c].did
        BY <1>3, <4>3
      <4> QED
        BY <4>1, <4>2, <4>4 DEF Writers
    <3> QED
      BY <3>1, <3>2 DEF CountedTo
  <2> QED
    BY <2>1, <2>2
<1>10. \A c \in Scopes : Gain(c)' = Gain(c)
  BY <1>6, <1>7, <1>8, <1>9 DEF GainsAre
<1>11. \A c \in Scopes \ {s} : Status(c)' = Status(c)
  <2>1. \A c \in Scopes \ {s} : ~IsOpen(c) /\ ~IsOpen(c)'
    BY <1>7 DEF Opened
  <2> QED
    BY <1>3, <1>6, <2>1 DEF StatusesAre
<1>12. PICK outcome \in {"open", "undone"} : Status(s)' = outcome
  BY <1>3, <1>4, <1>6 DEF StatusesAre
<1>13. Status(s) = "none"
  BY <1>4, <1>6 DEF StatusesAre
<1>14. \A c \in Scopes : /\ Status(c)' = IF c = s THEN outcome ELSE Status(c)
                         /\ scope'[c].around = IF c = s THEN s ELSE scope[c].around
  BY <1>3, <1>4, <1>11, <1>12
<1> QED
  BY <1>1, <1>5, <1>10, <1>13, <1>14, PromiseOpens

(* The last of the open scopes is undone.                                  *)
LEMMA UndoneImplements ==
    ASSUME Honest, Honest', NEW s \in Opened, Innermost(s), committed' = committed,
           session'.dead <=> session.dead, Opened' = Opened \ {s},
           \A c \in Opened \ {s} : Gain(c)' = Gain(c),
           \A c \in Scopes : /\ scope'[c].at = "none" <=> scope[c].at = "none"
                             /\ scope'[c].kept <=> scope[c].kept
                             /\ scope'[c].around = scope[c].around
    PROVE  Promise!Next
<1>1. s \in Scopes /\ Active(s) /\ ~scope[s].kept /\ scope[s].at # "none"
  BY OpenedAre DEF Active
<1>2. GainsAre /\ StatusesAre /\ GainsAre' /\ StatusesAre'
  BY ViewsAre, ViewsNext
<1>3. Status(s) = "open"
  BY <1>1, OpenStatus
<1>4. \A c \in Scopes : c[1] = s[1] /\ c[2] >= s[2] /\ Status(c) = "open" <=> c \in {s}
  <2> SUFFICES ASSUME NEW c \in Scopes
               PROVE  c[1] = s[1] /\ c[2] >= s[2] /\ Status(c) = "open" <=> c = s
    OBVIOUS
  <2>1. c[2] \in Nat /\ s[2] \in Nat
    BY <1>1, ScopeParts
  <2>2. Status(c) = "open" => c = s \/ c[2] < s[2]
    BY <1>1, OpenStatus, OpenedAre, Greatest DEF Honest
  <2> QED
    BY <1>3, <2>1, <2>2
<1>5. \A c \in Scopes \ {s} : IsOpen(c)' <=> IsOpen(c)
  BY DEF Opened
<1>6. ~IsOpen(s)'
  BY <1>1 DEF Opened
<1>7. \A c \in Scopes : Status(c)' = IF c \in {s} THEN "undone" ELSE Status(c)
  <2>1. \A c \in Scopes \ {s} : Status(c)' = Status(c)
    BY <1>2, <1>5 DEF StatusesAre
  <2>2. Status(s)' = "undone"
    BY <1>1, <1>2, <1>6 DEF StatusesAre
  <2> QED
    BY <2>1, <2>2
<1>8. \A c \in Scopes : Gain(c)' = IF c \in {s} THEN {} ELSE Gain(c)
  BY <1>2 DEF GainsAre
<1>9. Promise!Undo(s)
  <2>1. {s} \in SUBSET Scopes
    BY <1>1
  <2> QED
    BY <1>1, <1>3, <1>4, <1>7, <1>8, <2>1, PromiseUndoes
<1> QED
  BY <1>1, <1>9 DEF Promise!Next

(* ROLLBACK and ROLLBACK TO undo an open scope, or find it undone.         *)
LEMMA UndoImplements ==
    ASSUME Honest, Honest', NEW s \in Scopes, Active(s), Innermost(s),
           \/ scope[s].at \in {"body", "closing"}
           \/ scope[s].at = "ending" /\ ~Answered(s),
           NEW ok \in BOOLEAN, SendUndo(s, ok), Set(s, "undoing", ok),
           UNCHANGED <<round, calls, retries, seq>>
    PROVE  Promise!Next \/ UNCHANGED Views
<1>1. /\ committed' = committed
      /\ session'.dead <=> session.dead
      /\ s \notin Opened => Opened = {} /\ Opened' = {}
      /\ s \in Opened =>
            /\ Opened' = Opened \ {s}
            /\ \A c \in Opened \ {s} :
                  Keeps(c) /\ CountedTo(OpenUpTo(c))' = CountedTo(OpenUpTo(c))
  <2>1. Sane'
    BY DEF Honest
  <2> QED
    BY <2>1, UndoAccounts
<1>2. /\ scope'[s].at = "undoing" /\ scope'[s].around = scope[s].around
      /\ (scope'[s].kept <=> scope[s].kept)
      /\ \A c \in Scopes \ {s} : scope'[c] = scope[c]
  BY SetTyped DEF Phases, Honest, Sane
<1>3. \A c \in Scopes : /\ scope'[c].at = "none" <=> scope[c].at = "none"
                        /\ scope'[c].kept <=> scope[c].kept
                        /\ scope'[c].around = scope[c].around
  BY <1>2 DEF Active
<1>4. CASE s \notin Opened
  BY <1>1, <1>3, <1>4, UnseenImplements
<1>5. CASE s \in Opened
  <2>1. ASSUME NEW c \in Opened \ {s} PROVE Gain(c)' = Gain(c)
    BY <1>1, <1>5, <2>1, GainKept
  <2> QED
    BY <1>1, <1>3, <1>5, <2>1, UndoneImplements
<1> QED
  BY <1>4, <1>5

(* RELEASE and COMMIT.                                                     *)
LEMMA SettleImplements ==
    ASSUME Honest, Honest', NEW s \in Scopes, CloseSettles(s)
    PROVE  Promise!Next \/ UNCHANGED Views
<1>1. PICK ok \in BOOLEAN :
          /\ SendEnd(s, ok)
          /\ scope' = [scope EXCEPT ![s].at = "ending", ![s].ok = ok, ![s].kept = ok]
  BY DEF CloseSettles
<1>2. scope[s].at = "closing" /\ UNCHANGED <<round, calls, retries, seq>>
  BY DEF CloseSettles
<1>3. Active(s) /\ Innermost(s) /\ ~scope[s].kept
  BY <1>2, OthersAreInnermost, Unkept DEF Honest, Active
<1>4. /\ scope'[s].at = "ending" /\ (scope'[s].kept <=> ok)
      /\ scope'[s].around = scope[s].around
      /\ \A c \in Scopes \ {s} : scope'[c] = scope[c]
  BY <1>1, EndTyped DEF Honest, Sane
<1>5. \A c \in Scopes : /\ scope'[c].at = "none" <=> scope[c].at = "none"
                        /\ scope'[c].around = scope[c].around
  BY <1>2, <1>4
<1>6. GainsAre /\ StatusesAre /\ GainsAre' /\ StatusesAre'
  BY ViewsAre, ViewsNext
<1>7. CASE session.dead
  <2>1. ok = FALSE /\ committed' = committed
    BY <1>1, <1>7 DEF SendEnd, SendCommit, SendRelease, Usable, Reject, Fail
  <2>2. session'.dead
    BY <1>1, <1>2, <1>7, EndSound DEF Honest, Sane
  <2>3. Opened = {} /\ Opened' = {}
    BY <1>7, <2>2 DEF Opened, IsOpen
  <2>4. \A c \in Scopes : scope'[c].kept <=> scope[c].kept
    BY <1>3, <1>4, <2>1
  <2> QED
    BY <1>5, <2>1, <2>3, <2>4, UnseenImplements
<1>8. CASE ~session.dead
  <2>1. s \in Opened /\ Status(s) = "open"
    BY <1>2, <1>8, OpenStatus DEF Opened, IsOpen
  <2>2. \A c \in Scopes : c[1] = s[1] /\ c[2] >= s[2] /\ Status(c) = "open" <=> c = s
    <3> SUFFICES ASSUME NEW c \in Scopes
                 PROVE  c[1] = s[1] /\ c[2] >= s[2] /\ Status(c) = "open" <=> c = s
      OBVIOUS
    <3>1. c[2] \in Nat /\ s[2] \in Nat
      BY ScopeParts
    <3>2. Status(c) = "open" => c = s \/ c[2] < s[2]
      BY <1>3, OpenStatus, OpenedAre, Greatest DEF Honest
    <3> QED
      BY <2>1, <3>1, <3>2
  <2>3. CASE IsTransaction(s)
    <3>1. /\ Opened = {s} /\ session' = Closed
          /\ committed' = IF ok THEN committed \cup session.work ELSE committed
      <4>1. Sane' /\ SendCommit(ok)
        BY <1>1, <2>3 DEF Honest, SendEnd
      <4> QED
        BY <1>1, <1>2, <1>3, <2>1, <2>3, <4>1, CommitAccounts
    <3>2. Opened' = {}
      <4>1. ~session'.open
        BY <3>1, ClosedIsSession
      <4> QED
        BY <4>1 DEF Honest, Accounted, Backed
    <3>3. CASE ok = FALSE
      <4>1. \A c \in Scopes : scope'[c].kept <=> scope[c].kept
        BY <1>3, <1>4, <3>3
      <4>2. Opened' = Opened \ {s} /\ \A c \in Opened \ {s} : Gain(c)' = Gain(c)
        BY <3>1, <3>2
      <4>3. session'.dead <=> session.dead
        BY <1>8, <3>1, ClosedIsSession
      <4> QED
        BY <1>3, <1>5, <2>1, <3>1, <3>3, <4>1, <4>2, <4>3, UndoneImplements
    <3>4. CASE ok = TRUE
      <4>1. Gain(s) = session.work
        <5>1. Inside(s) = {}
          <6>1. \A d \in Inside(s) : d \in Opened /\ d # s
            BY <2>1, InsideOf DEF Inside
          <6> QED
            BY <3>1, <6>1
        <5> QED
          BY <2>1, <2>3, <5>1 DEF Gain, Base
      <4>2. \A c \in Scopes : Status(c)' = IF c = s THEN "kept" ELSE Status(c)
        <5>1. \A c \in Scopes \ {s} : ~IsOpen(c) /\ ~IsOpen(c)'
          BY <3>1, <3>2 DEF Opened
        <5>2. \A c \in Scopes \ {s} : Status(c)' = Status(c)
          BY <1>4, <1>6, <5>1 DEF StatusesAre
        <5>3. Status(s)' = "kept"
          BY <1>4, <1>6, <3>4 DEF StatusesAre
        <5> QED
          BY <5>2, <5>3
      <4>3. \A c \in Scopes : Gain(c)' = IF c = s THEN {} ELSE Gain(c)
        BY <1>6, <3>1, <3>2 DEF GainsAre
      <4>4. Promise!Keep(s)
        BY <1>5, <2>2, <2>3, <3>1, <3>4, <4>1, <4>2, <4>3, PromiseKeeps
      <4> QED
        BY <4>4 DEF Promise!Next
    <3> QED
      BY <3>3, <3>4
  <2>4. CASE ~IsTransaction(s)
    <3>0. PICK a \in Opened \ {s} : a = scope[s].around
      BY <2>1, <2>4, OpenedAre
    <3>1. /\ ok = TRUE /\ committed' = committed /\ ~session'.dead
          /\ Opened' = Opened \ {s} /\ OpenUpTo(a) = OpenBelow(s[2])
          /\ \A c \in Opened \ {s} :
                /\ Keeps(c)
                /\ CountedTo(OpenUpTo(c))' = IF c = a THEN CountedTo(OpenUpTo(s))
                                             ELSE CountedTo(OpenUpTo(c))
      <4>1. SendRelease(s[2], ok)
        BY <1>1, <2>4 DEF SendEnd
      <4> QED
        BY <1>1, <1>2, <1>3, <2>1, <2>4, <3>0, <4>1, ReleaseAccounts
    <3>2. a \in Opened \ {s} /\ a \in Scopes \ {s}
      BY <3>0, OpenedAre
    <3>3. ASSUME NEW c \in Opened \ {s}
          PROVE  Gain(c)' = IF c = a THEN Gain(c) \cup Gain(s) ELSE Gain(c)
      <4>1. /\ Gain(c) = CountedTo(OpenUpTo(c)) \ Base(c)
            /\ Gain(c)' = CountedTo(OpenUpTo(c))' \ Base(c)
        BY <3>1, <3>3, GainKept
      <4>2. CASE c # a
        BY <3>1, <4>1, <4>2
      <4>3. CASE c = a
        <5>1. Gain(s) = CountedTo(OpenUpTo(s)) \ Base(s)
          BY <2>1, GainIs
        <5>2. Base(s) = CountedTo(OpenUpTo(a))
          BY <2>1, <2>4, <3>0, <3>1 DEF Honest, Accounted, Weighed
        <5>3. CountedTo(OpenUpTo(a)) \subseteq CountedTo(OpenUpTo(s))
          <6>1. OpenUpTo(a) \subseteq OpenUpTo(s)
            BY <3>1 DEF OpenUpTo
          <6> QED
            BY <6>1, ReachesMore DEF CountedTo
        <5>4. Base(a) \subseteq CountedTo(OpenUpTo(a))
          <6>1. CASE IsTransaction(a)
            BY <6>1 DEF Base
          <6>2. CASE ~IsTransaction(a)
            <7>1. Base(a) = CountedTo(OpenBelow(a[2]))
              BY <3>2, <6>2 DEF Honest, Accounted, Weighed
            <7>2. OpenBelow(a[2]) \subseteq OpenUpTo(a)
              BY DEF OpenUpTo
            <7> QED
              BY <7>1, <7>2, ReachesMore DEF CountedTo
          <6> QED
            BY <6>1, <6>2
        <5>5. Gain(a)' = CountedTo(OpenUpTo(s)) \ Base(a)
          BY <3>1, <3>2, <4>1, <4>3
        <5> QED
          BY <4>1, <4>3, <5>1, <5>2, <5>3, <5>4, <5>5
      <4> QED
        BY <4>2, <4>3
    <3>4. \A c \in Scopes : Gain(c)' = IF c = s THEN {} ELSE IF c = a THEN Gain(c) \cup Gain(s)
                                       ELSE Gain(c)
      <4>1. Gain(s)' = {}
        BY <1>6, <3>1 DEF GainsAre
      <4>2. \A c \in Scopes : c \notin Opened => c # s /\ c # a /\ Gain(c)' = {} /\ Gain(c) = {}
        BY <1>6, <2>1, <3>1, <3>2 DEF GainsAre
      <4> QED
        BY <3>3, <4>1, <4>2
    <3>5. \A c \in Scopes : Status(c)' = IF c = s THEN "kept" ELSE Status(c)
      <4>1. \A c \in Scopes \ {s} : IsOpen(c)' <=> IsOpen(c)
        BY <3>1 DEF Opened
      <4>2. \A c \in Scopes \ {s} : Status(c)' = Status(c)
        BY <1>4, <1>6, <4>1 DEF StatusesAre
      <4>3. Status(s)' = "kept"
        BY <1>4, <1>6, <3>1 DEF StatusesAre
      <4> QED
        BY <4>2, <4>3
    <3>6. Promise!Keep(s)
      BY <1>5, <2>2, <2>4, <3>0, <3>1, <3>2, <3>4, <3>5, PromiseKeeps
    <3> QED
      BY <3>6 DEF Promise!Next
  <2> QED
    BY <2>3, <2>4
<1> QED
  BY <1>7, <1>8

(* An answer that changes nothing at the database and opens or ends        *)
(* nothing there.                                                          *)
LEMMA IdleImplements ==
    ASSUME Honest, Honest', NEW s \in Scopes, UNCHANGED <<session, committed, round>>,
           \A c \in Scopes \ {s} : scope'[c] = scope[c],
           scope[s].at # "none", scope'[s].at # "none",
           scope'[s].around = scope[s].around, scope'[s].did = scope[s].did,
           scope'[s].kept <=> scope[s].kept,
           IsOpen(s)' <=> IsOpen(s)
    PROVE  UNCHANGED Views
<1>1. Around' = Around /\ \A r : Writers(r)' = Writers(r) /\ Handed(r)' = Handed(r)
  BY Unmoved
<1>2. Opened' = Opened
  BY DEF Opened, IsOpen
<1>3. \A n : OpenBelow(n)' = OpenBelow(n) /\ Saved(n)' = Saved(n)
  BY <1>2 DEF OpenBelow, Saved
<1>4. ASSUME NEW c \in Opened PROVE Gain(c)' = Gain(c)
  <2>1. Keeps(c)
    BY <1>3 DEF Keeps, Base, IsTransaction
  <2>2. CountedTo(OpenUpTo(c))' = CountedTo(OpenUpTo(c))
    BY <1>1, <1>3 DEF CountedTo, OpenUpTo
  <2> QED
    BY <1>2, <1>4, <2>1, <2>2, GainKept
<1>5. \A c \in Scopes : /\ scope'[c].at = "none" <=> scope[c].at = "none"
                        /\ scope'[c].kept <=> scope[c].kept
                        /\ scope'[c].around = scope[c].around
  OBVIOUS
<1> QED
  BY <1>2, <1>4, <1>5, UnseenImplements

(* A lost connection undoes every scope that was open.                     *)
LEMMA DisconnectImplements ==
    ASSUME Honest, Honest', Disconnect
    PROVE  Promise!Next \/ UNCHANGED Views
<1>1. /\ session'.dead /\ ~session.dead
      /\ UNCHANGED <<scope, round, committed>>
  BY ClosedIsSession DEF Disconnect
<1>2. Opened' = {}
  BY <1>1 DEF Opened, IsOpen
<1>3. \A c \in Scopes : /\ scope'[c].at = "none" <=> scope[c].at = "none"
                        /\ scope'[c].kept <=> scope[c].kept
                        /\ scope'[c].around = scope[c].around
  BY <1>1
<1>4. CASE Opened = {}
  BY <1>1, <1>2, <1>3, <1>4, UnseenImplements
<1>5. CASE Opened # {}
  <2>1. session.open
    BY <1>5, OpenedAre
  <2>2. PICK s \in Scopes : s = <<round, 0>> /\ s[1] = round /\ s[2] = 0
    BY <2>1, ScopeParts DEF Honest, Sane, OpenUnderWay
  <2>3. s \in Opened
    BY <1>1, <2>1, <2>2 DEF Honest, Sane, OpenUnderWay, Opened, IsOpen
  <2>4. GainsAre /\ StatusesAre /\ GainsAre' /\ StatusesAre'
    BY ViewsAre, ViewsNext
  <2>5. \A c \in Scopes : c[1] = s[1] /\ c[2] >= s[2] /\ Status(c) = "open" <=> c \in Opened
    <3> SUFFICES ASSUME NEW c \in Scopes
                 PROVE  c[1] = s[1] /\ c[2] >= s[2] /\ Status(c) = "open" <=> c \in Opened
      OBVIOUS
    <3>1. c[2] >= s[2]
      BY <2>2, ScopeParts
    <3>2. c \in Opened => c[1] = s[1]
      BY <2>2, OpenedAre
    <3> QED
      BY <3>1, <3>2, OpenStatus
  <2>6. \A c \in Scopes : Status(c)' = IF c \in Opened THEN "undone" ELSE Status(c)
    <3> SUFFICES ASSUME NEW c \in Scopes
                 PROVE  Status(c)' = IF c \in Opened THEN "undone" ELSE Status(c)
      OBVIOUS
    <3>1. ~IsOpen(c)' /\ (c \in Opened <=> IsOpen(c))
      BY <1>2 DEF Opened
    <3>2. c \in Opened => scope[c].at # "none" /\ ~scope[c].kept
      BY OpenedAre DEF Active
    <3> QED
      BY <1>3, <2>4, <3>1, <3>2 DEF StatusesAre
  <2>7. \A c \in Scopes : Gain(c)' = IF c \in Opened THEN {} ELSE Gain(c)
    BY <1>2, <2>4 DEF GainsAre
  <2>8. Opened \in SUBSET Scopes /\ Status(s) = "open"
    BY <2>3, OpenStatus DEF Opened
  <2>9. Promise!Undo(s)
    BY <1>1, <1>3, <2>5, <2>6, <2>7, <2>8, PromiseUndoes
  <2> QED
    BY <2>9 DEF Promise!Next
<1> QED
  BY <1>4, <1>5

LEMMA InitImplements == Init => Promise!Init
<1> SUFFICES ASSUME Init PROVE Promise!Init
  OBVIOUS
<1>1. \A s \in Scopes : Status(s) = "none" /\ scope[s].around = s /\ Gain(s) = {}
  BY DEF Init, Status, Gain
<1>2. committed = {}
  BY DEF Init
<1> QED
  BY <1>1, <1>2 DEF Promise!Init

LEMMA StepImplements ==
    ASSUME Careful, Honest, [Next]_vars
    PROVE  Promise!Next \/ UNCHANGED Views
<1>1. Honest'
  BY StepHonest
<1>2. scope \in [Scopes -> States]
  BY DEF Honest, Sane
<1>3. CASE Call
  <2>1. \A s \in Scopes : ~Active(s)
    BY <1>3, NoneActive DEF Call, LastEnded, Honest
  <2> QED
    BY <1>1, <1>3, <2>1, RoundsLeft, BeginImplements DEF Call, Honest, Sane
<1>4. CASE Retry
  <2>1. PICK r \in Rounds : round = r /\ scope[<<r, 0>>].at = "undone"
    BY <1>4 DEF Retry
  <2>2. \A s \in Scopes : ~Active(s)
    BY <2>1, NoneActive DEF Ended, Honest
  <2> QED
    BY <1>1, <1>4, <2>1, <2>2, RoundsLeft, BeginImplements DEF Retry, Honest, Sane
<1>5. ASSUME NEW s \in Scopes, BodyReturns(s) PROVE UNCHANGED Views
  <2>1. scope[s].at = "body" /\ Set(s, "closing", TRUE) /\ UNCHANGED <<session, committed, round>>
    BY <1>5 DEF BodyReturns, Running
  <2>2. /\ scope'[s].at = "closing"
        /\ scope'[s].around = scope[s].around /\ scope'[s].did = scope[s].did
        /\ (scope'[s].kept <=> scope[s].kept)
        /\ \A c \in Scopes \ {s} : scope'[c] = scope[c]
    BY <1>2, <2>1, SetTyped DEF Phases
  <2>3. IsOpen(s)' <=> IsOpen(s)
    BY <2>1, <2>2 DEF IsOpen
  <2> QED
    BY <1>1, <2>1, <2>2, <2>3, IdleImplements
<1>6. ASSUME NEW s \in Scopes, OpenAnswers(s) PROVE UNCHANGED Views
  <2>1. PICK at \in {"body", "lost"} :
            /\ at = IF Answered(s) THEN "body" ELSE "lost"
            /\ Set(s, at, TRUE)
    BY <1>6 DEF OpenAnswers
  <2>2. scope[s].at = "opening" /\ UNCHANGED <<session, committed, round>>
    BY <1>6 DEF OpenAnswers
  <2>3. /\ scope'[s].at = at
        /\ scope'[s].around = scope[s].around /\ scope'[s].did = scope[s].did
        /\ (scope'[s].kept <=> scope[s].kept)
        /\ \A c \in Scopes \ {s} : scope'[c] = scope[c]
    <3>1. at \in Phases
      BY DEF Phases
    <3> QED
      BY <1>2, <2>1, <3>1, SetTyped
  <2>4. at = "lost" => session.dead
    BY <2>1, <2>2 DEF Answered, Honest, Accounted, Told
  <2>5. IsOpen(s)' <=> IsOpen(s)
    BY <2>2, <2>3, <2>4 DEF IsOpen
  <2> QED
    BY <1>1, <2>2, <2>3, <2>5, IdleImplements
<1>7. ASSUME NEW s \in Scopes, UndoAnswers(s) PROVE UNCHANGED Views
  <2>1. PICK at \in {"undone", "lost"} :
            /\ at = IF Answered(s) THEN "undone" ELSE "lost"
            /\ Set(s, at, TRUE)
    BY <1>7 DEF UndoAnswers
  <2>2. scope[s].at = "undoing" /\ UNCHANGED <<session, committed, round>>
    BY <1>7 DEF UndoAnswers
  <2>3. /\ scope'[s].at = at
        /\ scope'[s].around = scope[s].around /\ scope'[s].did = scope[s].did
        /\ (scope'[s].kept <=> scope[s].kept)
        /\ \A c \in Scopes \ {s} : scope'[c] = scope[c]
    <3>1. at \in Phases
      BY DEF Phases
    <3> QED
      BY <1>2, <2>1, <3>1, SetTyped
  <2>4. IsOpen(s)' <=> IsOpen(s)
    BY <2>2, <2>3 DEF IsOpen
  <2> QED
    BY <1>1, <2>2, <2>3, <2>4, IdleImplements
<1>8. ASSUME NEW s \in Scopes, EndAnswers(s) PROVE Promise!Next \/ UNCHANGED Views
  <2>1. scope[s].at = "ending" /\ UNCHANGED <<round, calls, retries, seq>>
    BY <1>8 DEF EndAnswers
  <2>2. CASE ~Answered(s)
    <3>1. PICK ok \in BOOLEAN : SendUndo(s, ok) /\ Set(s, "undoing", ok)
      BY <1>8, <2>2 DEF EndAnswers
    <3>2. Active(s) /\ Innermost(s)
      BY <2>1, OthersAreInnermost DEF Active, Honest
    <3> QED
      BY <1>1, <2>1, <2>2, <3>1, <3>2, UndoImplements
  <2>3. CASE Answered(s)
    <3>1. Set(s, "kept", TRUE) /\ UNCHANGED <<session, committed, round>>
      BY <1>8, <2>1, <2>3 DEF EndAnswers
    <3>2. /\ scope'[s].at = "kept"
          /\ scope'[s].around = scope[s].around /\ scope'[s].did = scope[s].did
          /\ (scope'[s].kept <=> scope[s].kept)
          /\ \A c \in Scopes \ {s} : scope'[c] = scope[c]
      BY <1>2, <3>1, SetTyped DEF Phases
    <3>3. IsOpen(s)' <=> IsOpen(s)
      BY <2>1, <3>2 DEF IsOpen
    <3> QED
      BY <1>1, <2>1, <3>1, <3>2, <3>3, IdleImplements
  <2> QED
    BY <2>2, <2>3
<1>9. ASSUME NEW s \in Scopes, BodyThrows(s) PROVE Promise!Next \/ UNCHANGED Views
  <2>1. /\ Active(s) /\ Innermost(s) /\ scope[s].at = "body"
        /\ UNCHANGED <<round, calls, retries, seq>>
    BY <1>9, RunningInnermost DEF BodyThrows, Honest
  <2>2. PICK ok \in BOOLEAN : SendUndo(s, ok) /\ Set(s, "undoing", ok)
    BY <1>9 DEF BodyThrows
  <2> QED
    BY <1>1, <2>1, <2>2, UndoImplements
<1>10. ASSUME NEW s \in Scopes, CloseFails(s) PROVE Promise!Next \/ UNCHANGED Views
  <2>1. scope[s].at = "closing" /\ UNCHANGED <<round, calls, retries, seq>>
    BY <1>10 DEF CloseFails
  <2>2. Active(s) /\ Innermost(s)
    BY <2>1, OthersAreInnermost DEF Active, Honest
  <2>3. PICK ok \in BOOLEAN : SendUndo(s, ok) /\ Set(s, "undoing", ok)
    BY <1>10 DEF CloseFails
  <2> QED
    BY <1>1, <2>1, <2>2, <2>3, UndoImplements
<1>11. CASE UNCHANGED vars
  <2>1. UNCHANGED <<scope, session, committed>>
    BY <1>11 DEF vars
  <2>2. \A n : Saved(n)' = Saved(n)
    BY <2>1 DEF Saved
  <2>3. \A s : Status(s)' = Status(s) /\ Base(s)' = Base(s)
    BY <2>1, <2>2 DEF Status, Base, IsTransaction
  <2>4. \A s : Inside(s)' = Inside(s)
    BY <2>1, <2>3 DEF Inside
  <2>5. \A s : Gain(s)' = Gain(s)
    BY <2>1, <2>3, <2>4 DEF Gain
  <2> QED
    BY <2>1, <2>3, <2>5, PromiseStutters
<1> QED
  BY <1>1, <1>3, <1>4, <1>5, <1>6, <1>7, <1>8, <1>9, <1>10, <1>11, DisconnectImplements,
     ExecuteImplements, SavepointImplements, SettleImplements DEF Next, Callback, Ending

(* When callbacks await what they call, BEGIN, SAVEPOINT, RELEASE and      *)
(* ROLLBACK TO over the savepoint stack of one connection implement scopes *)
(* that hand their gain outwards, all or nothing.                          *)
THEOREM Implements ==
    ASSUME Careful
    PROVE  Spec => ImplementsAtomicScopes
<1>1. Init => Honest /\ Promise!Init
  BY InitHonest, InitImplements
<1>2. Honest /\ [Next]_vars =>
        [Promise!Next]_<<[s \in Scopes |-> Status(s)], [s \in Scopes |-> scope[s].around],
                         [s \in Scopes |-> Gain(s)], committed>>
  BY StepImplements DEF Views
<1>3. Honest /\ [Next]_vars => Honest'
  BY StepHonest
<1> QED
  BY <1>1, <1>2, <1>3, PTL DEF Spec, ImplementsAtomicScopes, Promise!Spec
=============================================================================
