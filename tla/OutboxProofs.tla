---------------------------- MODULE OutboxProofs ----------------------------
(***************************************************************************)
(* Proofs about the transactional outbox, for any number of rows,          *)
(* dispatchers, passes, attempts and disturbances.                         *)
(***************************************************************************)
EXTENDS OutboxProperties, WellFoundedInduction, TLAPS

-----------------------------------------------------------------------------
(* The first row of a set.                                                 *)
LEMMA MinIs ==
    ASSUME NEW S, S \subseteq Rows, S # {}
    PROVE  Min(S) \in S
<1>1. S \subseteq Nat
  BY OutboxAssumption
<1> DEFINE Below == {ss \in Nat \X Nat : ss[1] < ss[2]}
<1>2. IsWellFoundedOn(Below, Nat)
  BY NatLessThanWellFounded, Zenon DEF OpToRel
<1>3. PICK x \in S : \A y \in S : ~(<<y, x>> \in Below)
  <2> HIDE DEF Below
  <2> QED
    BY <1>1, <1>2, WFMin
<1>4. ASSUME NEW y \in S PROVE x <= y
  <2>1. x \in Nat /\ y \in Nat
    BY <1>1
  <2>2. <<y, x>> \in Nat \X Nat /\ <<y, x>>[1] = y /\ <<y, x>>[2] = x
    BY <2>1
  <2>3. ~(y < x)
    BY <1>3, <2>2
  <2> QED
    BY <2>1, <2>3
<1> QED
  BY <1>4 DEF Min

LEMMA MinOfTwo ==
    ASSUME NEW a \in Nat, NEW b \in Nat
    PROVE  Min({a, b}) = IF a <= b THEN a ELSE b
<1>1. CASE a <= b
  <2>1. \A x \in {a, b} : (\A y \in {a, b} : x <= y) <=> x = a
    BY <1>1
  <2> QED
    BY <1>1, <2>1 DEF Min
<1>2. CASE ~(a <= b)
  <2>1. \A x \in {a, b} : (\A y \in {a, b} : x <= y) <=> x = b
    BY <1>2
  <2> QED
    BY <1>2, <2>1 DEF Min
<1> QED
  BY <1>1, <1>2

-----------------------------------------------------------------------------
(* The invariant.                                                          *)

Working(p) == pass[p].at \in {"publish", "mark", "notify"}

(* The rows a pass has still to mark.                                      *)
Left(p) == IF pass[p].at = "notify" THEN pass[p].rows \ {First(p)} ELSE pass[p].rows

(* What a pass is about to record of its first row is what came of it.     *)
MarkIsDue(p) ==
    LET r == First(p)
        s == pass[p]
    IN  /\ s.mark = "delivered" =>
              r \notin Malformed /\ ("none" \notin Reasons => r \in published)
        /\ s.mark = "pending" =>
              r \notin Malformed /\ s.seen[r] + 1 < MaxAttempts /\ s.seen[r] < rejected[r]
        /\ s.mark = "dead" /\ r \notin Malformed =>
              s.seen[r] + 1 = MaxAttempts /\ rejected[r] = MaxAttempts

(* What a pass read of its rows.                                           *)
SeenIsSound(p) ==
    Working(p) => \A r \in pass[p].rows :
        pass[p].seen[r] < MaxAttempts /\ (r \notin Malformed => pass[p].seen[r] <= rejected[r])

(* A row that a pass owns and has not marked is as it was when it was      *)
(* claimed.                                                                *)
OwnIsPending(p) ==
    \A r \in Rows : owner[r] = p =>
        /\ pass[p].at = "read" => status[r] = "pending"
        /\ Working(p) /\ r \in Left(p) =>
              status[r] = "pending" /\ pass[p].seen[r] = attempts[r]

PassInv(p) ==
    /\ Working(p) => pass[p].rows # {}
    /\ pass[p].at = "publish" => First(p) \notin Malformed
    /\ pass[p].at = "mark" => MarkIsDue(p)
    /\ SeenIsSound(p)
    /\ OwnIsPending(p)

(* The attempts recorded of a row that is not dead or delivered.           *)
RowInv(r) ==
    status[r] \in {"none", "pending"} =>
        attempts[r] < MaxAttempts /\ (r \notin Malformed => attempts[r] <= rejected[r])

Inv ==
    /\ TypeOK
    /\ \A p \in Passes : PassInv(p)
    /\ \A r \in Rows : RowInv(r)
    /\ OutcomeIsEarned

LEMMA InvInit == Init => Inv
<1> SUFFICES ASSUME Init PROVE Inv
  OBVIOUS
<1>0. NoPass \in Pass
  BY OutboxAssumption DEF NoPass, Pass
<1>1. TypeOK
  BY <1>0, OutboxAssumption DEF Init, TypeOK
<1>2. \A p \in Passes : PassInv(p)
  BY DEF Init, PassInv, SeenIsSound, OwnIsPending, Working, NoPass
<1>3. (\A r \in Rows : RowInv(r)) /\ OutcomeIsEarned
  BY OutboxAssumption DEF Init, RowInv, OutcomeIsEarned
<1> QED
  BY <1>1, <1>2, <1>3 DEF Inv

-----------------------------------------------------------------------------
(* A pass that does not move.                                              *)

(* What others do to the rows of q: they take them, or leave them alone.   *)
Leaves(q) ==
    \A r \in Rows : owner'[r] = q =>
        /\ owner[r] = q
        /\ status[r] = "pending" => status'[r] = "pending" /\ attempts'[r] = attempts[r]

(* The histories.                                                          *)
Grows ==
    /\ \A r \in Rows : rejected[r] <= rejected'[r]
    /\ published \subseteq published'

LEMMA OtherKeeps ==
    ASSUME TypeOK, TypeOK', NEW q \in Passes, PassInv(q), Leaves(q), Grows, pass'[q] = pass[q]
    PROVE  PassInv(q)'
<1>0. /\ pass[q] \in Pass /\ MaxAttempts \in Nat
      /\ rejected \in [Rows -> 0 .. MaxAttempts] /\ rejected' \in [Rows -> 0 .. MaxAttempts]
  BY OutboxAssumption DEF TypeOK
<1>1. First(q)' = First(q) /\ (Working(q)' <=> Working(q)) /\ Left(q)' = Left(q)
  BY DEF First, Working, Left
<1>2. Working(q) => First(q) \in Rows
  BY <1>0, MinIs DEF PassInv, First, Pass
<1>3. pass[q].at = "mark" => MarkIsDue(q)'
  BY <1>0, <1>1, <1>2 DEF PassInv, MarkIsDue, Grows, Working, Pass
<1>4. SeenIsSound(q)'
  BY <1>0, <1>1 DEF PassInv, SeenIsSound, Grows, Pass
<1>5. OwnIsPending(q)'
  BY <1>1 DEF PassInv, OwnIsPending, Leaves
<1> QED
  BY <1>1, <1>3, <1>4, <1>5 DEF PassInv

-----------------------------------------------------------------------------
(* A pass that moves.                                                      *)

LEMMA GotoIs ==
    ASSUME TypeOK, NEW p \in Passes, NEW s \in Pass, Goto(p, s)
    PROVE  /\ pass' \in [Passes -> Pass]
           /\ pass'[p] = s
           /\ \A q \in Passes \ {p} : pass'[q] = pass[q]
BY DEF Goto, TypeOK

LEMMA NoPassType == NoPass \in Pass /\ [NoPass EXCEPT !.at = "list"] \in Pass
                    /\ [NoPass EXCEPT !.at = "read"] \in Pass
BY OutboxAssumption DEF NoPass, Pass

(* A pass with nothing to mark.                                            *)
LEMMA RestingInv ==
    ASSUME NEW p \in Passes, pass'[p].at \in {"off", "list", "claim"}
    PROVE  PassInv(p)'
BY DEF PassInv, SeenIsSound, OwnIsPending, Working

(* A pass that goes on with rows of which it knows what it has to.         *)
LEMMA WithRowsType ==
    ASSUME NEW s \in Pass, NEW rows \in SUBSET Rows
    PROVE  WithRows(s, rows) \in Pass
<1>1. CASE rows = {}
  BY <1>1, NoPassType DEF WithRows
<1>2. CASE rows # {} /\ Min(rows) \in Malformed
  <2>1. [s EXCEPT !.rows = rows, !.at = "mark", !.mark = "dead"] \in Pass
    BY DEF Pass
  <2> QED
    BY <1>2, <2>1 DEF WithRows
<1>3. CASE rows # {} /\ Min(rows) \notin Malformed
  <2>1. [s EXCEPT !.rows = rows, !.at = "publish"] \in Pass
    BY DEF Pass
  <2> QED
    BY <1>3, <2>1 DEF WithRows
<1> QED
  BY <1>1, <1>2, <1>3

LEMMA WithRowsIs ==
    ASSUME NEW s \in Pass, NEW rows \in SUBSET Rows, rows # {}
    PROVE  LET n == WithRows(s, rows)
           IN  /\ n.rows = rows /\ n.seen = s.seen
               /\ \/ n.at = "mark" /\ n.mark = "dead" /\ Min(rows) \in Malformed
                  \/ n.at = "publish" /\ Min(rows) \notin Malformed
BY DEF WithRows, Pass

LEMMA WithRowsInv ==
    ASSUME NEW p \in Passes, NEW s \in Pass, NEW rows \in SUBSET Rows,
           pass'[p] = WithRows(s, rows),
           \A r \in rows :
               /\ s.seen[r] < MaxAttempts /\ (r \notin Malformed => s.seen[r] <= rejected'[r])
               /\ owner'[r] = p => status'[r] = "pending" /\ s.seen[r] = attempts'[r]
    PROVE  PassInv(p)'
<1>1. CASE rows = {}
  <2>1. pass'[p].at = "off"
    BY <1>1 DEF WithRows, NoPass
  <2> QED
    BY <2>1, RestingInv
<1>2. CASE rows # {}
  <2>1. /\ pass'[p].rows = rows /\ pass'[p].seen = s.seen
        /\ \/ /\ pass'[p].at = "mark" /\ pass'[p].mark = "dead" /\ Min(rows) \in Malformed
           \/ pass'[p].at = "publish" /\ Min(rows) \notin Malformed
    BY <1>2, WithRowsIs
  <2>2. First(p)' = Min(rows) /\ Left(p)' = rows /\ Working(p)'
    BY <2>1 DEF First, Left, Working
  <2>3. pass'[p].at = "mark" => MarkIsDue(p)'
    BY <2>1, <2>2 DEF MarkIsDue
  <2>4. SeenIsSound(p)'
    BY <2>1 DEF SeenIsSound
  <2>5. OwnIsPending(p)'
    BY <2>1, <2>2 DEF OwnIsPending
  <2> QED
    BY <1>2, <2>1, <2>2, <2>3, <2>4, <2>5 DEF PassInv
<1> QED
  BY <1>1, <1>2

(* Steps after which every pass but p is as it was.                        *)
LEMMA OthersKeep ==
    ASSUME Inv, TypeOK', NEW p \in Passes, Grows,
           \A q \in Passes \ {p} : pass'[q] = pass[q] /\ Leaves(q),
           PassInv(p)', \A r \in Rows : RowInv(r)', OutcomeIsEarned'
    PROVE  Inv'
<1>1. \A q \in Passes \ {p} : PassInv(q)'
  BY OtherKeeps DEF Inv
<1> QED
  BY <1>1 DEF Inv

(* The rows' own facts where the table keeps status and attempts.          *)
LEMMA RowsKeep ==
    ASSUME Inv, TypeOK', Grows, UNCHANGED <<status, attempts>>
    PROVE  (\A r \in Rows : RowInv(r)') /\ OutcomeIsEarned'
<1>0. /\ rejected \in [Rows -> 0 .. MaxAttempts] /\ rejected' \in [Rows -> 0 .. MaxAttempts]
      /\ attempts \in [Rows -> 0 .. MaxAttempts] /\ MaxAttempts \in Nat
  BY OutboxAssumption DEF Inv, TypeOK
<1>1. \A r \in Rows : RowInv(r)'
  BY <1>0 DEF Inv, RowInv, Grows
<1>2. OutcomeIsEarned'
  BY <1>0 DEF Inv, OutcomeIsEarned, Grows
<1> QED
  BY <1>1, <1>2

LEMMA SpendType ==
    ASSUME TypeOK, NEW d \in Disturbances, Spend(d)
    PROVE  spent' \in [Disturbances -> Nat]
<1>1. spent' = [spent EXCEPT ![d] = @ + 1]
  BY Zenon DEF Spend
<1> QED
  BY <1>1 DEF TypeOK

(* Steps of one pass that leave the table and the histories alone.         *)
LEMMA PassOnly ==
    ASSUME Inv, NEW p \in Passes, NEW s \in Pass, Goto(p, s), PassInv(p)',
           UNCHANGED <<table, rejected, published>>,
           mode' = mode, told' \subseteq Rows, spent' \in [Disturbances -> Nat]
    PROVE  Inv'
<1>1. pass' \in [Passes -> Pass] /\ \A q \in Passes \ {p} : pass'[q] = pass[q]
  BY GotoIs DEF Inv
<1>2. TypeOK'
  BY <1>1 DEF Inv, TypeOK, table
<1>3. Grows
  BY OutboxAssumption DEF Inv, TypeOK, Grows
<1>4. \A q \in Passes : Leaves(q)
  BY DEF Leaves, table
<1>5. (\A r \in Rows : RowInv(r)') /\ OutcomeIsEarned'
  BY <1>2, <1>3, RowsKeep DEF table
<1> QED
  BY <1>1, <1>2, <1>3, <1>4, <1>5, OthersKeep

LEMMA BeginInv == ASSUME Inv, NEW p \in Passes, Begin(p) PROVE Inv'
<1>1. Goto(p, [NoPass EXCEPT !.at = "list"]) /\ pass'[p].at = "list"
  BY NoPassType, GotoIs DEF Begin, Inv, NoPass
<1>2. PassInv(p)'
  BY <1>1, RestingInv
<1>3. /\ UNCHANGED <<table, rejected, published>>
      /\ mode' = mode /\ told' \subseteq Rows /\ spent' \in [Disturbances -> Nat]
  BY DEF Begin, Inv, TypeOK
<1> QED
  BY <1>1, <1>2, <1>3, NoPassType, PassOnly

LEMMA ListedInv == ASSUME Inv, NEW p \in Passes, Listed(p) PROVE Inv'
<1> DEFINE s == IF Candidates = {} THEN NoPass
                ELSE [NoPass EXCEPT !.at = "claim", !.rows = Candidates]
<1>0. Candidates \subseteq Rows
  BY DEF Candidates
<1>1. s \in Pass /\ s.at \in {"off", "claim"}
  BY <1>0, NoPassType DEF NoPass, Pass
<1>2. Goto(p, s)
  BY DEF Listed
<1>3. PassInv(p)'
  BY <1>1, <1>2, GotoIs, RestingInv DEF Inv
<1>4. /\ UNCHANGED <<table, rejected, published>>
      /\ mode' = mode /\ told' \subseteq Rows /\ spent' \in [Disturbances -> Nat]
  BY DEF Listed, Inv, TypeOK
<1> QED
  BY <1>1, <1>2, <1>3, <1>4, PassOnly

LEMMA ReadBackInv == ASSUME Inv, NEW p \in Passes, ReadBack(p) PROVE Inv'
<1> DEFINE mine == {r \in Rows : owner[r] = p}
           read == [r \in Rows |-> IF r \in mine THEN attempts[r] ELSE 0]
           s == [NoPass EXCEPT !.seen = read]
<1>0. /\ attempts \in [Rows -> 0 .. MaxAttempts] /\ MaxAttempts \in Nat
      /\ UNCHANGED <<table, mode, rejected, published, told, spent>>
      /\ pass[p].at = "read"
  BY OutboxAssumption DEF Inv, TypeOK, ReadBack
<1>1. s \in Pass /\ s.seen = read
  BY <1>0 DEF NoPass, Pass
<1>2. Goto(p, WithRows(s, mine)) /\ WithRows(s, mine) \in Pass
  BY <1>1, WithRowsType DEF ReadBack
<1>3. ASSUME NEW r \in mine
      PROVE  /\ s.seen[r] < MaxAttempts /\ (r \notin Malformed => s.seen[r] <= rejected'[r])
             /\ owner'[r] = p => status'[r] = "pending" /\ s.seen[r] = attempts'[r]
  <2>1. status[r] = "pending"
    BY <1>0 DEF Inv, PassInv, OwnIsPending
  <2>2. s.seen[r] = attempts[r]
    BY <1>1
  <2> QED
    BY <1>0, <2>1, <2>2 DEF Inv, RowInv, table
<1>4. PassInv(p)'
  BY <1>1, <1>2, <1>3, GotoIs, WithRowsInv DEF Inv
<1> QED
  BY <1>0, <1>2, <1>4, PassOnly DEF Inv, TypeOK

LEMMA NotifiedInv == ASSUME Inv, NEW p \in Passes, Notified(p) PROVE Inv'
<1> DEFINE rest == pass[p].rows \ {First(p)}
<1>0. /\ pass[p] \in Pass /\ pass[p].at = "notify"
      /\ UNCHANGED <<table, mode, rejected, published, told, spent>>
  BY DEF Inv, TypeOK, Notified
<1>1. Goto(p, WithRows(pass[p], rest)) /\ WithRows(pass[p], rest) \in Pass
  BY <1>0, WithRowsType DEF Notified, Pass
<1>2. ASSUME NEW r \in rest
      PROVE  /\ pass[p].seen[r] < MaxAttempts
             /\ r \notin Malformed => pass[p].seen[r] <= rejected'[r]
             /\ owner'[r] = p => status'[r] = "pending" /\ pass[p].seen[r] = attempts'[r]
  BY <1>0 DEF Inv, PassInv, SeenIsSound, OwnIsPending, Working, Left, table, Pass
<1>3. PassInv(p)'
  <2>1. rest \in SUBSET Rows
    BY <1>0 DEF Pass
  <2>2. pass'[p] = WithRows(pass[p], rest)
    BY <1>1, GotoIs DEF Inv
  <2> HIDE DEF rest
  <2> QED
    BY <1>0, <1>2, <2>1, <2>2, WithRowsInv
<1> QED
  BY <1>0, <1>1, <1>3, PassOnly DEF Inv, TypeOK

-----------------------------------------------------------------------------
(* A publication that settles.                                             *)
LEMMA SettledInv ==
    ASSUME Inv, NEW p \in Passes, pass[p].at = "publish",
           NEW mark \in {"delivered", "pending", "dead"},
           Goto(p, [pass[p] EXCEPT !.at = "mark", !.mark = mark]),
           Grows, UNCHANGED <<table, mode, told, spent>>,
           rejected' \in [Rows -> 0 .. MaxAttempts], published' \subseteq Rows,
           LET r == First(p)
               seen == pass[p].seen[r]
           IN  /\ mark = "delivered" /\ "none" \notin Reasons => r \in published'
               /\ mark = "pending" => seen + 1 < MaxAttempts /\ seen < rejected'[r]
               /\ mark = "dead" => seen + 1 = MaxAttempts /\ rejected'[r] = MaxAttempts
    PROVE  Inv'
<1> DEFINE s == [pass[p] EXCEPT !.at = "mark", !.mark = mark]
<1>0. /\ pass[p] \in Pass /\ First(p) \notin Malformed /\ MaxAttempts \in Nat
      /\ rejected \in [Rows -> 0 .. MaxAttempts]
  BY OutboxAssumption DEF Inv, TypeOK, PassInv
<1>1. /\ s \in Pass /\ s.rows = pass[p].rows /\ s.seen = pass[p].seen
      /\ s.at = "mark" /\ s.mark = mark
  BY <1>0 DEF Pass
<1>2. /\ pass' \in [Passes -> Pass] /\ pass'[p] = s
      /\ \A q \in Passes \ {p} : pass'[q] = pass[q]
  BY <1>1, GotoIs DEF Inv
<1>3. TypeOK'
  BY <1>2 DEF Inv, TypeOK, table
<1>4. PassInv(p)'
  <2>1. First(p)' = First(p) /\ Left(p)' = Left(p)
    BY <1>0, <1>1, <1>2 DEF First, Left
  <2>2. MarkIsDue(p)'
    BY <1>0, <1>1, <1>2, <2>1 DEF MarkIsDue
  <2>3. SeenIsSound(p)'
    BY <1>0, <1>1, <1>2 DEF Inv, PassInv, SeenIsSound, Working, Grows, Pass
  <2>4. OwnIsPending(p)'
    BY <1>1, <1>2, <2>1 DEF Inv, PassInv, OwnIsPending, Working, table
  <2>5. pass'[p].rows # {}
    BY <1>1, <1>2 DEF Inv, PassInv, Working
  <2> QED
    BY <1>1, <1>2, <2>2, <2>3, <2>4, <2>5 DEF PassInv
<1>5. \A q \in Passes : Leaves(q)
  BY DEF Leaves, table
<1>6. (\A r \in Rows : RowInv(r)') /\ OutcomeIsEarned'
  BY <1>3, RowsKeep DEF table
<1> QED
  BY <1>2, <1>3, <1>4, <1>5, <1>6, OthersKeep

LEMMA PublishResolvesInv == ASSUME Inv, NEW p \in Passes, PublishResolves(p) PROVE Inv'
<1>1. First(p) \in Rows
  <2>1. pass[p].rows \subseteq Rows /\ pass[p].rows # {}
    BY DEF PublishResolves, Inv, TypeOK, PassInv, Working, Pass
  <2> QED
    BY <2>1, MinIs DEF First
<1>2. Grows
  BY OutboxAssumption DEF Grows, PublishResolves, Inv, TypeOK
<1>3. /\ First(p) \in published' /\ published' \subseteq Rows
      /\ rejected' \in [Rows -> 0 .. MaxAttempts]
      /\ UNCHANGED <<table, mode, told, spent>> /\ pass[p].at = "publish"
      /\ Goto(p, [pass[p] EXCEPT !.at = "mark", !.mark = "delivered"])
  BY <1>1 DEF PublishResolves, Inv, TypeOK
<1> QED
  BY <1>2, <1>3, SettledInv

LEMMA PublishRejectsInv == ASSUME Inv, NEW p \in Passes, PublishRejects(p) PROVE Inv'
<1> DEFINE r == First(p)
           seen == pass[p].seen[r]
<1>0. /\ pass[p] \in Pass /\ pass[p].at = "publish" /\ pass[p].rows # {}
      /\ MaxAttempts \in Nat /\ rejected \in [Rows -> 0 .. MaxAttempts]
      /\ UNCHANGED <<table, mode, published, told, spent>>
      /\ published \subseteq Rows
  BY OutboxAssumption DEF PublishRejects, Inv, TypeOK, PassInv, Working
<1>1. r \in pass[p].rows /\ r \in Rows /\ r \notin Malformed
  BY <1>0, MinIs DEF First, Inv, PassInv, Pass
<1>2. seen \in Nat /\ seen < MaxAttempts /\ seen <= rejected[r] /\ rejected[r] \in Nat
  BY <1>0, <1>1 DEF Inv, PassInv, SeenIsSound, Working, Pass
<1>3. Min({rejected[r] + 1, MaxAttempts})
      = IF rejected[r] + 1 <= MaxAttempts THEN rejected[r] + 1 ELSE MaxAttempts
  BY <1>0, <1>2, MinOfTwo
<1>4. rejected' = [rejected EXCEPT ![r] = Min({rejected[r] + 1, MaxAttempts})]
  BY DEF PublishRejects
<1>5. /\ rejected' \in [Rows -> 0 .. MaxAttempts]
      /\ seen < rejected'[r] /\ rejected[r] <= rejected'[r]
  BY <1>0, <1>1, <1>2, <1>3, <1>4
<1>6. Grows
  BY <1>0, <1>1, <1>4, <1>5 DEF Grows
<1>7. PICK mark \in {"delivered", AfterError(pass[p], r)} :
          /\ Goto(p, [pass[p] EXCEPT !.at = "mark", !.mark = mark])
          /\ mark = "delivered" => "none" \in Reasons
  <2>1. PICK reason \in Reasons :
            Goto(p, [pass[p] EXCEPT !.at = "mark",
                        !.mark = IF reason = "none" THEN "delivered"
                                 ELSE AfterError(pass[p], r)])
    BY DEF PublishRejects
  <2>2. AfterError(pass[p], r) # "delivered"
    BY DEF AfterError
  <2>3. CASE reason = "none"
    BY <2>1, <2>3
  <2>4. CASE reason # "none"
    BY <2>1, <2>2, <2>4
  <2> QED
    BY <2>3, <2>4
<1>8. /\ mark \in {"delivered", "pending", "dead"}
      /\ mark = "pending" => seen + 1 < MaxAttempts
      /\ mark = "dead" => seen + 1 = MaxAttempts /\ rejected'[r] = MaxAttempts
  BY <1>0, <1>1, <1>2, <1>5, <1>7 DEF AfterError
<1> QED
  BY <1>0, <1>5, <1>6, <1>7, <1>8, SettledInv

-----------------------------------------------------------------------------
(* The statements that write.                                              *)

TableType ==
    /\ status \in [Rows -> {"none", "pending", "delivered", "dead"}]
    /\ attempts \in [Rows -> 0 .. MaxAttempts]
    /\ owner \in [Rows -> Passes \cup {Past}]
    /\ hidden \in [Rows -> BOOLEAN]

RowsInv == (\A r \in Rows : RowInv(r)) /\ OutcomeIsEarned

LEMMA ClaimEffect ==
    ASSUME Inv, NEW p \in Passes, Claimed(p)
    PROVE  /\ TableType'
           /\ UNCHANGED <<status, attempts>>
           /\ \A r \in Rows : owner'[r] = p => status[r] = "pending" /\ hidden'[r]
           /\ \A q \in Passes \ {p} : Leaves(q)
<1> DEFINE won == {r \in pass[p].rows : Claimable(r)}
<1>1. /\ owner' = [r \in Rows |-> IF r \in won THEN p ELSE IF owner[r] = p THEN Past ELSE owner[r]]
      /\ hidden' = [r \in Rows |-> r \in won \/ hidden[r]]
      /\ UNCHANGED <<status, attempts>>
  BY DEF Claimed
<1>2. TableType'
  BY <1>1 DEF TableType, Inv, TypeOK
<1>3. \A r \in won : status[r] = "pending"
  BY DEF Claimable
<1>4. \A r \in Rows : owner'[r] = p => status[r] = "pending" /\ hidden'[r]
  BY <1>1, <1>3, OutboxAssumption
<1>5. ASSUME NEW q \in Passes \ {p} PROVE Leaves(q)
  BY <1>1, OutboxAssumption DEF Leaves
<1> QED
  BY <1>1, <1>2, <1>4, <1>5

LEMMA MarkEffect ==
    ASSUME Inv, NEW p \in Passes, pass[p].at = "mark", Marked(p, First(p)),
           UNCHANGED <<rejected, published>>
    PROVE  /\ TableType'
           /\ RowsInv'
           /\ UNCHANGED owner
           /\ \A r \in Rows \ {First(p)} :
                 status'[r] = status[r] /\ attempts'[r] = attempts[r] /\ hidden'[r] = hidden[r]
           /\ owner[First(p)] = p => status'[First(p)] = pass[p].mark
           /\ \A q \in Passes \ {p} : Leaves(q)
<1> DEFINE f == First(p)
           s == pass[p]
<1>0. /\ s \in Pass /\ TableType /\ MaxAttempts \in Nat
      /\ rejected \in [Rows -> 0 .. MaxAttempts]
  BY OutboxAssumption DEF Inv, TypeOK, TableType
<1>1. f \in s.rows /\ f \in Rows
  BY <1>0, MinIs DEF First, Inv, PassInv, Working, Pass
<1>2. CASE owner[f] # p
  <2>1. UNCHANGED table
    BY <1>2 DEF Marked
  <2>2. RowsInv'
    BY <2>1 DEF table, Inv, RowsInv, RowInv, OutcomeIsEarned
  <2> QED
    BY <1>0, <1>2, <2>1, <2>2 DEF table, TableType, Leaves
<1>3. CASE owner[f] = p
  <2>1. /\ status' = [status EXCEPT ![f] = s.mark]
        /\ attempts' = [attempts EXCEPT ![f] = s.seen[f] + 1]
        /\ hidden' = [hidden EXCEPT ![f] = @ \/ s.mark = "pending"]
        /\ owner' = owner
    BY <1>3 DEF Marked
  <2>2. s.seen[f] \in Nat /\ s.seen[f] < MaxAttempts /\ s.mark \in {"delivered", "pending", "dead"}
    BY <1>0, <1>1 DEF Inv, PassInv, SeenIsSound, Working, Pass
  <2>3. TableType'
    BY <1>0, <1>1, <2>1, <2>2 DEF TableType
  <2>4. MarkIsDue(p)
    BY DEF Inv, PassInv
  <2>5. ASSUME NEW r \in Rows PROVE RowInv(r)'
    <3>1. CASE r # f
      BY <1>0, <2>1, <3>1 DEF Inv, RowInv, TableType
    <3>2. CASE r = f
      BY <1>0, <1>1, <2>1, <2>2, <2>4, <3>2 DEF RowInv, MarkIsDue, TableType
    <3> QED
      BY <3>1, <3>2
  <2>6. OutcomeIsEarned'
    BY <1>0, <1>1, <2>1, <2>4 DEF Inv, OutcomeIsEarned, MarkIsDue, TableType
  <2>7. ASSUME NEW q \in Passes \ {p} PROVE Leaves(q)
    BY <1>0, <1>3, <2>1 DEF Leaves, TableType
  <2> QED
    BY <1>0, <1>1, <2>1, <2>3, <2>5, <2>6, <2>7 DEF RowsInv, TableType
<1> QED
  BY <1>2, <1>3

(* A pass moves with a statement.                                          *)
LEMMA PassWrites ==
    ASSUME Inv, NEW p \in Passes, NEW s \in Pass, Goto(p, s), PassInv(p)',
           TableType', RowsInv', \A q \in Passes \ {p} : Leaves(q),
           UNCHANGED <<mode, rejected, published>>,
           told' \subseteq Rows, spent' \in [Disturbances -> Nat]
    PROVE  Inv'
<1>1. pass' \in [Passes -> Pass] /\ \A q \in Passes \ {p} : pass'[q] = pass[q]
  BY GotoIs DEF Inv
<1>2. TypeOK'
  BY <1>1 DEF Inv, TypeOK, TableType
<1>3. Grows
  BY OutboxAssumption DEF Inv, TypeOK, Grows
<1> QED
  BY <1>1, <1>2, <1>3, OthersKeep DEF RowsInv

LEMMA ClaimKeepsRows ==
    ASSUME Inv, UNCHANGED <<status, attempts, rejected, published>>
    PROVE  RowsInv'
BY DEF Inv, RowsInv, RowInv, OutcomeIsEarned

LEMMA ClaimReturnsInv == ASSUME Inv, NEW p \in Passes, ClaimReturns(p) PROVE Inv'
<1> DEFINE s == [NoPass EXCEPT !.at = "read"]
<1>0. /\ UNCHANGED <<mode, rejected, published, told, spent>> /\ Claimed(p) /\ Goto(p, s)
      /\ told \subseteq Rows /\ spent \in [Disturbances -> Nat]
  BY DEF ClaimReturns, Inv, TypeOK
<1>1. /\ TableType' /\ UNCHANGED <<status, attempts>>
      /\ \A r \in Rows : owner'[r] = p => status[r] = "pending"
      /\ \A q \in Passes \ {p} : Leaves(q)
  BY <1>0, ClaimEffect
<1>2. s \in Pass /\ s.at = "read" /\ pass'[p] = s
  BY <1>0, NoPassType, GotoIs DEF NoPass, Inv
<1>3. PassInv(p)'
  BY <1>1, <1>2 DEF PassInv, Working, SeenIsSound, OwnIsPending
<1> QED
  BY <1>0, <1>1, <1>2, <1>3, ClaimKeepsRows, PassWrites

LEMMA MarkReturnsInv == ASSUME Inv, NEW p \in Passes, MarkReturns(p) PROVE Inv'
<1> DEFINE f == First(p)
           rest == pass[p].rows \ {f}
<1>0. /\ UNCHANGED <<mode, rejected, published, spent>> /\ Marked(p, f) /\ pass[p].at = "mark"
      /\ told \subseteq Rows /\ spent \in [Disturbances -> Nat] /\ pass[p] \in Pass
  BY DEF MarkReturns, Inv, TypeOK
<1>1. /\ TableType' /\ RowsInv' /\ UNCHANGED owner
      /\ \A r \in Rows \ {f} : status'[r] = status[r] /\ attempts'[r] = attempts[r]
      /\ \A q \in Passes \ {p} : Leaves(q)
  BY <1>0, MarkEffect
<1>2. f \in pass[p].rows /\ f \in Rows
  BY <1>0, MinIs DEF First, Inv, PassInv, Working, Pass
<1>3. ASSUME NEW r \in pass[p].rows
      PROVE  pass[p].seen[r] < MaxAttempts /\ (r \notin Malformed => pass[p].seen[r] <= rejected'[r])
  BY <1>0 DEF Inv, PassInv, SeenIsSound, Working
<1>4. ASSUME NEW r \in rest, owner'[r] = p
      PROVE  status'[r] = "pending" /\ pass[p].seen[r] = attempts'[r]
  <2>1. r \in Rows \ {f} /\ owner[r] = p /\ r \in Left(p)
    BY <1>0, <1>1, <1>4 DEF Pass, Left
  <2>2. status[r] = "pending" /\ pass[p].seen[r] = attempts[r]
    BY <1>0, <2>1 DEF Inv, PassInv, OwnIsPending, Working
  <2> QED
    BY <1>1, <2>1, <2>2
<1>5. CASE pass[p].mark = "dead"
  <2> DEFINE s == [pass[p] EXCEPT !.at = "notify"]
  <2>1. s \in Pass /\ s.at = "notify" /\ s.rows = pass[p].rows /\ s.seen = pass[p].seen
    BY <1>0 DEF Pass
  <2>2. Goto(p, s) /\ told' \subseteq Rows
    BY <1>0, <1>2, <1>5 DEF MarkReturns
  <2>3. pass'[p] = s
    BY <2>1, <2>2, GotoIs DEF Inv
  <2>4. First(p)' = f /\ Left(p)' = rest
    BY <2>1, <2>3 DEF First, Left
  <2>5. PassInv(p)'
    BY <1>2, <1>3, <1>4, <2>1, <2>3, <2>4 DEF PassInv, Working, SeenIsSound, OwnIsPending
  <2> QED
    BY <1>0, <1>1, <2>1, <2>2, <2>5, PassWrites
<1>6. CASE pass[p].mark # "dead"
  <2>1. rest \in SUBSET Rows
    BY <1>0 DEF Pass
  <2>2. Goto(p, WithRows(pass[p], rest)) /\ told' = told
    BY <1>6 DEF MarkReturns
  <2>3. WithRows(pass[p], rest) \in Pass
    BY <1>0, <2>1, WithRowsType
  <2>4. pass'[p] = WithRows(pass[p], rest)
    BY <2>2, <2>3, GotoIs DEF Inv
  <2>5. \A r \in rest :
           /\ pass[p].seen[r] < MaxAttempts
           /\ r \notin Malformed => pass[p].seen[r] <= rejected'[r]
           /\ owner'[r] = p => status'[r] = "pending" /\ pass[p].seen[r] = attempts'[r]
    BY <1>3, <1>4
  <2>6. PassInv(p)'
    <3> HIDE DEF rest
    <3> QED
      BY <1>0, <2>1, <2>4, <2>5, WithRowsInv
  <2> QED
    BY <1>0, <1>1, <2>2, <2>3, <2>6, PassWrites
<1> QED
  BY <1>5, <1>6

LEMMA PassFailsInv == ASSUME Inv, NEW p \in Passes, PassFails(p) PROVE Inv'
<1>0. /\ UNCHANGED <<mode, rejected, published, told>> /\ Goto(p, NoPass)
      /\ told \subseteq Rows
      /\ \/ UNCHANGED table
         \/ pass[p].at = "claim" /\ Claimed(p)
         \/ pass[p].at = "mark" /\ Marked(p, First(p))
  BY DEF PassFails, Inv, TypeOK
<1>1. spent' \in [Disturbances -> Nat]
  BY SpendType DEF PassFails, Inv, Disturbances
<1>2. PassInv(p)'
  BY <1>0, NoPassType, GotoIs, RestingInv DEF Inv, NoPass
<1>3. CASE UNCHANGED table
  BY <1>0, <1>1, <1>2, <1>3, NoPassType, PassOnly
<1>4. CASE pass[p].at = "claim" /\ Claimed(p)
  <2>1. /\ TableType' /\ UNCHANGED <<status, attempts>>
        /\ \A q \in Passes \ {p} : Leaves(q)
    BY <1>4, ClaimEffect
  <2> QED
    BY <1>0, <1>1, <1>2, <2>1, NoPassType, ClaimKeepsRows, PassWrites
<1>5. CASE pass[p].at = "mark" /\ Marked(p, First(p))
  <2>1. TableType' /\ RowsInv' /\ \A q \in Passes \ {p} : Leaves(q)
    BY <1>0, <1>5, MarkEffect
  <2> QED
    BY <1>0, <1>1, <1>2, <2>1, NoPassType, PassWrites
<1> QED
  BY <1>0, <1>3, <1>4, <1>5

-----------------------------------------------------------------------------
(* The steps of no pass.                                                   *)

(* All passes stay as they are, or die.                                    *)
LEMMA PassesStay ==
    ASSUME Inv, TypeOK', RowsInv', Grows, \A q \in Passes : Leaves(q),
           \A q \in Passes : pass'[q] = pass[q] \/ pass'[q] = NoPass
    PROVE  Inv'
<1>1. ASSUME NEW q \in Passes PROVE PassInv(q)'
  <2>1. CASE pass'[q] = pass[q]
    BY <2>1, OtherKeeps DEF Inv
  <2>2. CASE pass'[q] = NoPass
    BY <2>2, RestingInv DEF NoPass
  <2> QED
    BY <2>1, <2>2
<1> QED
  BY <1>1 DEF Inv, RowsInv

LEMMA CommitInv == ASSUME Inv, NEW r \in Rows, Commit(r) PROVE Inv'
<1>0. /\ status[r] = "none" /\ status' = [status EXCEPT ![r] = "pending"]
      /\ UNCHANGED <<attempts, owner, hidden, pass, mode, rejected, published, told, spent>>
      /\ rejected \in [Rows -> 0 .. MaxAttempts] /\ MaxAttempts \in Nat
  BY OutboxAssumption DEF Commit, Inv, TypeOK
<1>1. TypeOK'
  BY <1>0 DEF Inv, TypeOK
<1>2. RowsInv'
  BY <1>0 DEF Inv, RowsInv, RowInv, OutcomeIsEarned, TypeOK
<1>3. Grows /\ \A q \in Passes : Leaves(q)
  BY <1>0 DEF Grows, Leaves, Inv, TypeOK
<1> QED
  BY <1>0, <1>1, <1>2, <1>3, PassesStay

LEMMA LeaseEndsInv == ASSUME Inv, NEW r \in Rows, LeaseEnds(r) PROVE Inv'
<1>0. /\ hidden' = [hidden EXCEPT ![r] = FALSE]
      /\ UNCHANGED <<status, attempts, owner, pass, mode, rejected, published, told>>
      /\ rejected \in [Rows -> 0 .. MaxAttempts] /\ MaxAttempts \in Nat
  BY OutboxAssumption DEF LeaseEnds, Inv, TypeOK
<1>1. spent' \in [Disturbances -> Nat]
  <2>1. CASE Held(r)
    <3>1. Spend("early")
      BY <2>1 DEF LeaseEnds
    <3> QED
      BY <3>1, SpendType DEF Inv, Disturbances
  <2>2. CASE ~Held(r)
    BY <2>2 DEF LeaseEnds, Inv, TypeOK
  <2> QED
    BY <2>1, <2>2
<1>2. TypeOK'
  BY <1>0, <1>1 DEF Inv, TypeOK
<1>3. RowsInv'
  BY <1>0, ClaimKeepsRows
<1>4. Grows /\ \A q \in Passes : Leaves(q)
  BY <1>0 DEF Grows, Leaves
<1> QED
  BY <1>0, <1>2, <1>3, <1>4, PassesStay

LEMMA ModeInv ==
    ASSUME Inv, NEW d \in Dispatchers, Shutdown(d) \/ Drained(d) \/ Crash(d) \/ Restart(d)
    PROVE  Inv'
<1>0. /\ UNCHANGED <<table, rejected, published, told>>
      /\ rejected \in [Rows -> 0 .. MaxAttempts] /\ MaxAttempts \in Nat
      /\ \E m \in {"open", "draining", "resolved", "down"} : mode' = [mode EXCEPT ![d] = m]
  BY OutboxAssumption DEF Shutdown, Drained, Crash, Restart, Inv, TypeOK
<1>1. /\ pass' \in [Passes -> Pass]
      /\ \A q \in Passes : pass'[q] = pass[q] \/ pass'[q] = NoPass
  <2>1. CASE pass' = pass
    BY <2>1 DEF Inv, TypeOK
  <2>2. CASE pass' = [p \in Passes |-> IF Of[p] = d THEN NoPass ELSE pass[p]]
    BY <2>2, NoPassType DEF Inv, TypeOK
  <2> QED
    BY <2>1, <2>2 DEF Shutdown, Drained, Crash, Restart
<1>2. spent' \in [Disturbances -> Nat]
  <2>1. spent' = spent \/ Spend("shutdown") \/ Spend("crash")
    BY Zenon DEF Shutdown, Drained, Crash, Restart
  <2> QED
    BY <2>1, SpendType DEF Inv, TypeOK, Disturbances
<1>3. TypeOK'
  BY <1>0, <1>1, <1>2 DEF Inv, TypeOK, table
<1>4. RowsInv'
  BY <1>0, ClaimKeepsRows DEF table
<1>5. Grows /\ \A q \in Passes : Leaves(q)
  BY <1>0 DEF Grows, Leaves, table
<1> QED
  BY <1>1, <1>3, <1>4, <1>5, PassesStay

LEMMA InvStep == Inv /\ [Next]_vars => Inv'
<1> SUFFICES ASSUME Inv, [Next]_vars PROVE Inv'
  OBVIOUS
<1>1. CASE UNCHANGED vars
  <2>1. TypeOK' /\ RowsInv' /\ Grows /\ \A q \in Passes : Leaves(q)
    BY <1>1, OutboxAssumption DEF vars, table, Inv, TypeOK, RowsInv, RowInv, OutcomeIsEarned,
       Grows, Leaves
  <2> QED
    BY <1>1, <2>1, PassesStay DEF vars
<1>2. ASSUME NEW p \in Passes, Begin(p) \/ PassStep(p) PROVE Inv'
  BY <1>2, BeginInv, ListedInv, ClaimReturnsInv, ReadBackInv, PublishResolvesInv,
     PublishRejectsInv, MarkReturnsInv, NotifiedInv, PassFailsInv DEF PassStep
<1> QED
  BY <1>1, <1>2, CommitInv, LeaseEndsInv, ModeInv DEF Next

(* Every variable keeps its type: a mark never records more than           *)
(* MaxAttempts.                                                            *)
THEOREM TypeCorrect == Spec => []TypeOK
<1>1. Inv => TypeOK
  BY DEF Inv
<1> QED
  BY <1>1, InvInit, InvStep, PTL DEF Spec

(* The count of attempts that a pass writes back is current whenever the   *)
(* fence lets it write.                                                    *)
THEOREM SnapshotCurrent == Spec => []SnapshotIsCurrent
<1>1. Inv => SnapshotIsCurrent
  BY DEF Inv, PassInv, OwnIsPending, Working, Left, SnapshotIsCurrent, TypeOK, Pass
<1> QED
  BY <1>1, InvInit, InvStep, PTL DEF Spec

(* A row is dead only after MaxAttempts rejections, counted across passes, *)
(* processes and lost leases, and delivered only if it was published.      *)
THEOREM OutcomeEarned == Spec => []OutcomeIsEarned
<1>1. Inv => OutcomeIsEarned
  BY DEF Inv
<1> QED
  BY <1>1, InvInit, InvStep, PTL DEF Spec

-----------------------------------------------------------------------------
(* OutboxDispatcher implements OutboxDelivery.                             *)

LEMMA MarkRefines ==
    ASSUME Inv, NEW p \in Passes, pass[p].at = "mark", Marked(p, First(p))
    PROVE  Delivery!Next \/ UNCHANGED <<status, attempts>>
<1> DEFINE f == First(p)
           s == pass[p]
<1>0. /\ s \in Pass /\ MaxAttempts \in Nat
      /\ attempts \in [Rows -> 0 .. MaxAttempts]
  BY OutboxAssumption DEF Inv, TypeOK
<1>1. f \in s.rows /\ f \in Rows
  BY <1>0, MinIs DEF First, Inv, PassInv, Working, Pass
<1>2. CASE owner[f] # p
  BY <1>2 DEF Marked, table
<1>3. CASE owner[f] = p
  <2>1. /\ status' = [status EXCEPT ![f] = s.mark]
        /\ attempts' = [attempts EXCEPT ![f] = s.seen[f] + 1]
    BY <1>3 DEF Marked
  <2>2. status[f] = "pending" /\ s.seen[f] = attempts[f]
    BY <1>1, <1>3 DEF Inv, PassInv, OwnIsPending, Working, Left
  <2>3. attempts' = [attempts EXCEPT ![f] = @ + 1]
    BY <2>1, <2>2
  <2>4. s.mark \in {"delivered", "pending", "dead"} /\ MarkIsDue(p)
    BY <1>0 DEF Pass, Inv, PassInv
  <2>5. Delivery!Record(f, s.mark)
    BY <2>1, <2>2, <2>3, <2>4 DEF Delivery!Record, MarkIsDue
  <2> QED
    BY <1>1, <2>4, <2>5 DEF Delivery!Next
<1> QED
  BY <1>2, <1>3

(* Whatever fails, expires or dies, recorded attempts count one by one and *)
(* a row ends once.                                                        *)
THEOREM Implements == Spec => ImplementsDelivery
<1>1. Init => Delivery!Init
  BY DEF Init, Delivery!Init
<1>2. Inv /\ [Next]_vars => [Delivery!Next]_<<status, attempts>>
  <2> SUFFICES ASSUME Inv, [Next]_vars
               PROVE  Delivery!Next \/ UNCHANGED <<status, attempts>>
    OBVIOUS
  <2>1. CASE UNCHANGED vars
    BY <2>1 DEF vars, table
  <2>2. ASSUME NEW r \in Rows, Commit(r) PROVE Delivery!Next
    BY <2>2 DEF Commit, Delivery!Next, Delivery!Commit
  <2>3. ASSUME NEW r \in Rows, LeaseEnds(r) PROVE UNCHANGED <<status, attempts>>
    BY <2>3 DEF LeaseEnds
  <2>4. ASSUME NEW d \in Dispatchers, Shutdown(d) \/ Drained(d) \/ Crash(d) \/ Restart(d)
        PROVE  UNCHANGED <<status, attempts>>
    BY <2>4 DEF Shutdown, Drained, Crash, Restart, table
  <2>5. ASSUME NEW p \in Passes, Begin(p) \/ PassStep(p)
        PROVE  Delivery!Next \/ UNCHANGED <<status, attempts>>
    <3>1. CASE MarkReturns(p)
      BY <3>1, MarkRefines DEF MarkReturns
    <3>2. CASE PassFails(p)
      <4>1. \/ UNCHANGED table \/ Claimed(p)
            \/ pass[p].at = "mark" /\ Marked(p, First(p))
        BY <3>2 DEF PassFails
      <4> QED
        BY <4>1, MarkRefines DEF table, Claimed
    <3> QED
      BY <2>5, <3>1, <3>2 DEF Begin, PassStep, Listed, ClaimReturns, Claimed, ReadBack,
         PublishResolves, PublishRejects, Notified, table
  <2> QED
    BY <2>1, <2>2, <2>3, <2>4, <2>5 DEF Next
<1> QED
  BY <1>1, <1>2, InvInit, InvStep, PTL DEF Spec, ImplementsDelivery, Delivery!Spec

-----------------------------------------------------------------------------
(* onDead.  While no lease has ended under a pass, a pass holds every row  *)
(* that it has still to mark.                                              *)

HoldsLeft(p) ==
    /\ pass[p].at = "read" => \A r \in Rows : owner[r] = p => hidden[r]
    /\ Working(p) => \A r \in Left(p) : owner[r] = p /\ hidden[r]

NotEarly ==
    spent["early"] = 0 =>
        (\A p \in Passes : HoldsLeft(p)) /\ (\A r \in told : status[r] = "dead")

LEMMA NotEarlyInit == Init => NotEarly
BY DEF Init, NotEarly, HoldsLeft, Working, NoPass

LEMMA HoldsRest ==
    ASSUME NEW p \in Passes, pass'[p].at \in {"off", "list", "claim"}
    PROVE  HoldsLeft(p)'
BY DEF HoldsLeft, Working

LEMMA HoldsRows ==
    ASSUME NEW p \in Passes, NEW s \in Pass, NEW rows \in SUBSET Rows,
           pass'[p] = WithRows(s, rows), \A r \in rows : owner'[r] = p /\ hidden'[r]
    PROVE  HoldsLeft(p)'
<1>1. CASE rows = {}
  BY <1>1, HoldsRest DEF WithRows, NoPass
<1>2. CASE rows # {}
  BY <1>2, WithRowsIs DEF HoldsLeft, Left, First, Working
<1> QED
  BY <1>1, <1>2

(* A pass that does not move keeps what it holds, if nobody takes it.      *)
LEMMA HoldsOn ==
    ASSUME Inv, NEW q \in Passes, HoldsLeft(q), pass'[q] = pass[q],
           \A r \in Rows : owner'[r] = q => owner[r] = q,
           \A r \in Rows : owner[r] = q /\ hidden[r] => owner'[r] = q /\ hidden'[r]
    PROVE  HoldsLeft(q)'
<1>1. Left(q)' = Left(q) /\ (Working(q)' <=> Working(q))
  BY DEF Left, First, Working
<1>2. Left(q) \subseteq Rows
  BY DEF Left, Inv, TypeOK, Pass
<1> QED
  BY <1>1, <1>2 DEF HoldsLeft

LEMMA SpendGrows ==
    ASSUME TypeOK, NEW d \in Disturbances, Spend(d), spent'["early"] = 0
    PROVE  spent["early"] = 0 /\ d # "early"
<1>1. spent' = [spent EXCEPT ![d] = @ + 1]
  BY Zenon DEF Spend
<1> QED
  BY <1>1 DEF TypeOK, Disturbances

(* Steps that leave owner and hidden alone, and one pass moves.            *)
LEMMA EarlyQuiet ==
    ASSUME Inv, NotEarly, NEW p \in Passes, \A q \in Passes \ {p} : pass'[q] = pass[q],
           spent'["early"] = 0 => spent["early"] = 0 /\ HoldsLeft(p)',
           UNCHANGED <<status, owner, hidden, told>>
    PROVE  NotEarly'
<1> SUFFICES ASSUME spent'["early"] = 0
             PROVE  (\A q \in Passes : HoldsLeft(q)') /\ (\A r \in told' : status'[r] = "dead")
  BY DEF NotEarly
<1>1. \A q \in Passes \ {p} : HoldsLeft(q)'
  BY HoldsOn DEF NotEarly
<1> QED
  BY <1>1 DEF NotEarly

LEMMA EarlyBegin ==
    ASSUME Inv, NotEarly, NEW p \in Passes, Begin(p) \/ Listed(p)
    PROVE  NotEarly'
<1> DEFINE s == IF Candidates = {} THEN NoPass
                ELSE [NoPass EXCEPT !.at = "claim", !.rows = Candidates]
<1>0. Candidates \subseteq Rows
  BY DEF Candidates
<1>1. /\ s \in Pass /\ s.at \in {"off", "claim"}
      /\ [NoPass EXCEPT !.at = "list"].at = "list"
  BY <1>0, NoPassType DEF NoPass, Pass
<1>2. /\ pass'[p].at \in {"off", "list", "claim"}
      /\ \A q \in Passes \ {p} : pass'[q] = pass[q]
  <2>1. CASE Begin(p)
    BY <1>1, <2>1, NoPassType, GotoIs DEF Begin, Inv
  <2>2. CASE Listed(p)
    <3>1. Goto(p, s)
      BY <2>2 DEF Listed
    <3> QED
      BY <1>1, <3>1, GotoIs DEF Inv
  <2> QED
    BY <2>1, <2>2
<1>3. UNCHANGED <<status, owner, hidden, told, spent>>
  BY DEF Begin, Listed, table
<1> QED
  BY <1>2, <1>3, HoldsRest, EarlyQuiet

LEMMA EarlyReadBack ==
    ASSUME Inv, NotEarly, NEW p \in Passes, ReadBack(p)
    PROVE  NotEarly'
<1> DEFINE mine == {r \in Rows : owner[r] = p}
           read == [r \in Rows |-> IF r \in mine THEN attempts[r] ELSE 0]
           s == [NoPass EXCEPT !.seen = read]
<1>0. /\ attempts \in [Rows -> 0 .. MaxAttempts]
      /\ UNCHANGED <<status, owner, hidden, told, spent>> /\ pass[p].at = "read"
  BY DEF Inv, TypeOK, ReadBack, table
<1>1. s \in Pass
  BY <1>0, OutboxAssumption DEF NoPass, Pass
<1>2. Goto(p, WithRows(s, mine)) /\ WithRows(s, mine) \in Pass
  BY <1>1, WithRowsType DEF ReadBack
<1>3. pass'[p] = WithRows(s, mine) /\ \A q \in Passes \ {p} : pass'[q] = pass[q]
  BY <1>2, GotoIs DEF Inv
<1>4. spent'["early"] = 0 => spent["early"] = 0 /\ HoldsLeft(p)'
  <2> SUFFICES ASSUME spent["early"] = 0 PROVE HoldsLeft(p)'
    BY <1>0
  <2>1. \A r \in mine : owner'[r] = p /\ hidden'[r]
    BY <1>0 DEF NotEarly, HoldsLeft
  <2> QED
    BY <1>1, <1>3, <2>1, HoldsRows
<1> QED
  BY <1>0, <1>3, <1>4, EarlyQuiet

LEMMA EarlyNotified ==
    ASSUME Inv, NotEarly, NEW p \in Passes, Notified(p)
    PROVE  NotEarly'
<1> DEFINE rest == pass[p].rows \ {First(p)}
<1>0. /\ pass[p] \in Pass /\ pass[p].at = "notify" /\ rest \in SUBSET Rows
      /\ UNCHANGED <<status, owner, hidden, told, spent>>
  BY DEF Inv, TypeOK, Notified, Pass, table
<1>1. pass'[p] = WithRows(pass[p], rest) /\ \A q \in Passes \ {p} : pass'[q] = pass[q]
  BY <1>0, WithRowsType, GotoIs DEF Notified, Inv
<1>2. spent'["early"] = 0 => spent["early"] = 0 /\ HoldsLeft(p)'
  <2> SUFFICES ASSUME spent["early"] = 0 PROVE HoldsLeft(p)'
    BY <1>0
  <2>1. \A r \in rest : owner'[r] = p /\ hidden'[r]
    BY <1>0 DEF NotEarly, HoldsLeft, Working, Left
  <2> HIDE DEF rest
  <2> QED
    BY <1>0, <1>1, <2>1, HoldsRows
<1> QED
  BY <1>0, <1>1, <1>2, EarlyQuiet

LEMMA EarlyPublish ==
    ASSUME Inv, NotEarly, NEW p \in Passes, PublishResolves(p) \/ PublishRejects(p)
    PROVE  NotEarly'
<1>0. pass[p] \in Pass /\ pass[p].at = "publish" /\ UNCHANGED <<status, owner, hidden, told, spent>>
  BY DEF Inv, TypeOK, PublishResolves, PublishRejects, table
<1>1. PICK mark \in {"delivered", "pending", "dead"} :
          Goto(p, [pass[p] EXCEPT !.at = "mark", !.mark = mark])
  <2>1. CASE PublishResolves(p)
    BY <2>1 DEF PublishResolves
  <2>2. CASE PublishRejects(p)
    <3>1. AfterError(pass[p], First(p)) \in {"pending", "dead"}
      BY DEF AfterError
    <3> DEFINE of(reason) == IF reason = "none" THEN "delivered"
                             ELSE AfterError(pass[p], First(p))
    <3>2. PICK reason \in Reasons : Goto(p, [pass[p] EXCEPT !.at = "mark", !.mark = of(reason)])
      BY <2>2 DEF PublishRejects
    <3>3. of(reason) \in {"delivered", "pending", "dead"}
      BY <3>1
    <3> QED
      BY <3>2, <3>3
  <2> QED
    BY <2>1, <2>2
<1> DEFINE s == [pass[p] EXCEPT !.at = "mark", !.mark = mark]
<1>2. s \in Pass /\ s.at = "mark" /\ s.rows = pass[p].rows
  BY <1>0 DEF Pass
<1>3. pass'[p] = s /\ \A q \in Passes \ {p} : pass'[q] = pass[q]
  BY <1>1, <1>2, GotoIs DEF Inv
<1>4. spent'["early"] = 0 => spent["early"] = 0 /\ HoldsLeft(p)'
  BY <1>0, <1>2, <1>3 DEF NotEarly, HoldsLeft, Working, Left
<1> QED
  BY <1>0, <1>3, <1>4, EarlyQuiet

(* Steps that write owner or hidden, or call onDead.                       *)
LEMMA EarlyWrites ==
    ASSUME Inv, NotEarly, NEW p \in Passes, \A q \in Passes \ {p} : pass'[q] = pass[q],
           \A q \in Passes \ {p}, r \in Rows :
               /\ owner'[r] = q => owner[r] = q
               /\ owner[r] = q /\ hidden[r] => owner'[r] = q /\ hidden'[r],
           \A r \in Rows : status[r] = "dead" => status'[r] = "dead",
           spent'["early"] = 0 =>
               /\ spent["early"] = 0 /\ HoldsLeft(p)'
               /\ \A r \in told' : r \in told \/ status'[r] = "dead"
    PROVE  NotEarly'
<1> SUFFICES ASSUME spent'["early"] = 0
             PROVE  (\A q \in Passes : HoldsLeft(q)') /\ (\A r \in told' : status'[r] = "dead")
  BY DEF NotEarly
<1>1. ASSUME NEW q \in Passes \ {p} PROVE HoldsLeft(q)'
  <2>1. HoldsLeft(q)
    BY DEF NotEarly
  <2> QED
    BY <2>1, HoldsOn
<1>2. \A r \in told' : status'[r] = "dead"
  BY DEF NotEarly, Inv, TypeOK
<1> QED
  BY <1>1, <1>2

LEMMA ClaimHolds ==
    ASSUME Inv, NEW p \in Passes, Claimed(p)
    PROVE  \A q \in Passes \ {p}, r \in Rows :
               /\ owner'[r] = q => owner[r] = q
               /\ owner[r] = q /\ hidden[r] => owner'[r] = q /\ hidden'[r]
<1> DEFINE won == {r \in pass[p].rows : Claimable(r)}
<1>1. /\ owner' = [r \in Rows |-> IF r \in won THEN p ELSE IF owner[r] = p THEN Past ELSE owner[r]]
      /\ hidden' = [r \in Rows |-> r \in won \/ hidden[r]]
  BY DEF Claimed
<1>2. \A r \in won : ~hidden[r]
  BY DEF Claimable
<1> QED
  BY <1>1, <1>2, OutboxAssumption

LEMMA MarkHolds ==
    ASSUME Inv, NEW p \in Passes, pass[p].at = "mark", Marked(p, First(p))
    PROVE  /\ UNCHANGED owner
           /\ \A r \in Rows : hidden[r] => hidden'[r]
           /\ \A r \in Rows : status[r] = "dead" => status'[r] = "dead"
<1> DEFINE f == First(p)
<1>0. /\ pass[p] \in Pass /\ status \in [Rows -> {"none", "pending", "delivered", "dead"}]
      /\ hidden \in [Rows -> BOOLEAN]
  BY DEF Inv, TypeOK
<1>1. f \in pass[p].rows /\ f \in Rows
  BY <1>0, MinIs DEF First, Inv, PassInv, Working, Pass
<1>2. CASE owner[f] # p
  BY <1>2 DEF Marked, table
<1>3. CASE owner[f] = p
  <2>1. /\ status' = [status EXCEPT ![f] = pass[p].mark]
        /\ hidden' = [hidden EXCEPT ![f] = @ \/ pass[p].mark = "pending"]
        /\ UNCHANGED owner
    BY <1>3 DEF Marked
  <2>2. status[f] = "pending"
    BY <1>1, <1>3 DEF Inv, PassInv, OwnIsPending, Working, Left
  <2> QED
    BY <1>0, <1>1, <2>1, <2>2
<1> QED
  BY <1>2, <1>3

LEMMA EarlyClaim ==
    ASSUME Inv, NotEarly, NEW p \in Passes, ClaimReturns(p)
    PROVE  NotEarly'
<1> DEFINE s == [NoPass EXCEPT !.at = "read"]
<1>0. UNCHANGED <<status, told, spent>> /\ Claimed(p) /\ Goto(p, s)
  BY DEF ClaimReturns, Claimed
<1>1. \A r \in Rows : owner'[r] = p => hidden'[r]
  BY <1>0, ClaimEffect
<1>2. s.at = "read" /\ pass'[p] = s /\ \A q \in Passes \ {p} : pass'[q] = pass[q]
  BY <1>0, NoPassType, GotoIs DEF NoPass, Inv
<1>3. HoldsLeft(p)'
  BY <1>1, <1>2 DEF HoldsLeft, Working
<1> QED
  BY <1>0, <1>2, <1>3, ClaimHolds, EarlyWrites

LEMMA EarlyMark ==
    ASSUME Inv, NotEarly, NEW p \in Passes, MarkReturns(p)
    PROVE  NotEarly'
<1> DEFINE f == First(p)
           rest == pass[p].rows \ {f}
           s == IF pass[p].mark = "dead" THEN [pass[p] EXCEPT !.at = "notify"]
                ELSE WithRows(pass[p], rest)
<1>0. /\ UNCHANGED <<rejected, published, spent>> /\ Marked(p, f) /\ pass[p].at = "mark"
      /\ pass[p] \in Pass /\ rest \in SUBSET Rows
      /\ told' = IF pass[p].mark = "dead" THEN told \cup {f} ELSE told
      /\ Goto(p, s)
  BY DEF MarkReturns, Inv, TypeOK, Pass
<1>1. /\ UNCHANGED owner
      /\ \A r \in Rows : hidden[r] => hidden'[r]
      /\ \A r \in Rows : status[r] = "dead" => status'[r] = "dead"
      /\ owner[f] = p => status'[f] = pass[p].mark
  BY <1>0, MarkHolds, MarkEffect
<1>2. f \in pass[p].rows
  BY <1>0, MinIs DEF First, Inv, PassInv, Working, Pass
<1>3. [pass[p] EXCEPT !.at = "notify"] \in Pass /\ WithRows(pass[p], rest) \in Pass
  BY <1>0, WithRowsType DEF Pass
<1>4. pass'[p] = s /\ \A q \in Passes \ {p} : pass'[q] = pass[q]
  BY <1>0, <1>3, GotoIs DEF Inv
<1>5. ASSUME spent["early"] = 0
      PROVE  HoldsLeft(p)' /\ \A r \in told' : r \in told \/ status'[r] = "dead"
  <2>1. \A r \in pass[p].rows : owner[r] = p /\ hidden[r]
    BY <1>0, <1>5 DEF NotEarly, HoldsLeft, Working, Left
  <2>2. \A r \in rest : owner'[r] = p /\ hidden'[r]
    BY <1>0, <1>1, <2>1
  <2>3. \A r \in told' : r \in told \/ status'[r] = "dead"
    BY <1>0, <1>1, <1>2, <2>1
  <2>4. CASE pass[p].mark = "dead"
    <3>1. pass'[p].at = "notify" /\ pass'[p].rows = pass[p].rows
      BY <1>0, <1>4, <2>4 DEF Pass
    <3>2. Left(p)' = rest
      BY <3>1 DEF Left, First
    <3> QED
      BY <2>2, <2>3, <3>1, <3>2 DEF HoldsLeft
  <2>5. CASE pass[p].mark # "dead"
    <3>1. pass'[p] = WithRows(pass[p], rest)
      BY <1>4, <2>5
    <3> HIDE DEF rest
    <3> QED
      BY <1>0, <2>2, <2>3, <3>1, HoldsRows
  <2> QED
    BY <2>4, <2>5
<1> QED
  BY <1>0, <1>1, <1>4, <1>5, EarlyWrites

LEMMA EarlyFails ==
    ASSUME Inv, NotEarly, NEW p \in Passes, PassFails(p)
    PROVE  NotEarly'
<1>0. /\ UNCHANGED told /\ Goto(p, NoPass)
      /\ \/ UNCHANGED table
         \/ Claimed(p)
         \/ pass[p].at = "mark" /\ Marked(p, First(p))
  BY DEF PassFails
<1>1. spent'["early"] = 0 => spent["early"] = 0
  BY SpendGrows DEF PassFails, Inv, Disturbances
<1>2. pass'[p] = NoPass /\ \A q \in Passes \ {p} : pass'[q] = pass[q]
  BY <1>0, NoPassType, GotoIs DEF Inv
<1>3. HoldsLeft(p)'
  BY <1>2, HoldsRest DEF NoPass
<1>4. CASE UNCHANGED table
  BY <1>0, <1>1, <1>2, <1>3, <1>4, EarlyWrites DEF table
<1>5. CASE Claimed(p)
  <2>1. UNCHANGED status
    BY <1>5 DEF Claimed
  <2> QED
    BY <1>0, <1>1, <1>2, <1>3, <1>5, <2>1, ClaimHolds, EarlyWrites
<1>6. CASE pass[p].at = "mark" /\ Marked(p, First(p))
  BY <1>0, <1>1, <1>2, <1>3, <1>6, MarkHolds, EarlyWrites
<1> QED
  BY <1>0, <1>4, <1>5, <1>6

(* The steps of no pass.                                                   *)
LEMMA EarlyStays ==
    ASSUME Inv, NotEarly,
           \A q \in Passes : pass'[q] = pass[q] \/ pass'[q] = NoPass,
           \A r \in Rows : status[r] = "dead" => status'[r] = "dead",
           UNCHANGED <<owner, told>>,
           spent'["early"] = 0 =>
               /\ spent["early"] = 0
               /\ \A r \in Rows : hidden'[r] \/ hidden'[r] = hidden[r] \/ ~Held(r)
    PROVE  NotEarly'
<1> SUFFICES ASSUME spent'["early"] = 0
             PROVE  (\A q \in Passes : HoldsLeft(q)') /\ (\A r \in told' : status'[r] = "dead")
  BY DEF NotEarly
<1>1. ASSUME NEW q \in Passes PROVE HoldsLeft(q)'
  <2>1. CASE pass'[q] = NoPass
    BY <2>1, HoldsRest DEF NoPass
  <2>2. CASE pass'[q] = pass[q]
    <3>1. Left(q)' = Left(q) /\ (Working(q)' <=> Working(q)) /\ HoldsLeft(q)
      BY <2>2 DEF Left, First, Working, NotEarly
    <3>2. Left(q) \subseteq pass[q].rows /\ Left(q) \subseteq Rows
      BY DEF Left, Inv, TypeOK, Pass
    <3>3. ASSUME NEW r \in Rows, owner[r] = q, hidden[r],
                 pass[q].at = "read" \/ r \in Left(q)
          PROVE  owner'[r] = q /\ hidden'[r]
      <4>1. Held(r)
        BY <3>2, <3>3 DEF Held
      <4> QED
        BY <3>3, <4>1
    <3> QED
      BY <2>2, <3>1, <3>2, <3>3 DEF HoldsLeft
  <2> QED
    BY <2>1, <2>2
<1>2. \A r \in told' : status'[r] = "dead"
  BY DEF NotEarly, Inv, TypeOK
<1> QED
  BY <1>1, <1>2

LEMMA EarlyStep == Inv /\ NotEarly /\ [Next]_vars => NotEarly'
<1> SUFFICES ASSUME Inv, NotEarly, [Next]_vars PROVE NotEarly'
  OBVIOUS
<1>1. CASE UNCHANGED vars
  BY <1>1, EarlyStays DEF vars, table
<1>2. ASSUME NEW r \in Rows, Commit(r) PROVE NotEarly'
  <2>1. /\ \A q \in Rows : status[q] = "dead" => status'[q] = "dead"
        /\ UNCHANGED <<owner, hidden, pass, told, spent>>
    BY <1>2 DEF Commit, Inv, TypeOK
  <2> QED
    BY <2>1, EarlyStays
<1>3. ASSUME NEW r \in Rows, LeaseEnds(r) PROVE NotEarly'
  <2>1. hidden' = [hidden EXCEPT ![r] = FALSE] /\ UNCHANGED <<status, owner, pass, told>>
    BY <1>3 DEF LeaseEnds
  <2>2. spent'["early"] = 0 => spent["early"] = 0 /\ ~Held(r)
    <3>1. CASE Held(r)
      <4>1. Spend("early")
        BY <1>3, <3>1 DEF LeaseEnds
      <4> QED
        BY <4>1, SpendGrows DEF Inv, Disturbances
    <3>2. CASE ~Held(r)
      BY <1>3, <3>2 DEF LeaseEnds
    <3> QED
      BY <3>1, <3>2
  <2>3. \A q \in Rows : hidden'[q] = hidden[q] \/ q = r
    BY <2>1 DEF Inv, TypeOK
  <2> QED
    BY <2>1, <2>2, <2>3, EarlyStays
<1>4. ASSUME NEW d \in Dispatchers, Shutdown(d) \/ Drained(d) \/ Crash(d) \/ Restart(d)
      PROVE  NotEarly'
  <2>1. /\ UNCHANGED <<status, owner, hidden, told>>
        /\ \A q \in Passes : pass'[q] = pass[q] \/ pass'[q] = NoPass
    BY <1>4 DEF Shutdown, Drained, Crash, Restart, table
  <2>2. spent' = spent \/ Spend("shutdown") \/ Spend("crash")
    BY <1>4, Zenon DEF Shutdown, Drained, Crash, Restart
  <2>3. spent'["early"] = 0 => spent["early"] = 0
    BY <2>2, SpendGrows DEF Inv, Disturbances
  <2> QED
    BY <2>1, <2>3, EarlyStays
<1>5. ASSUME NEW p \in Passes, Begin(p) \/ PassStep(p) PROVE NotEarly'
  BY <1>5, EarlyBegin, EarlyClaim, EarlyReadBack, EarlyPublish, EarlyMark, EarlyNotified,
     EarlyFails DEF PassStep
<1> QED
  BY <1>1, <1>2, <1>3, <1>4, <1>5 DEF Next

(* onDead is called for rows that are dead, as long as no lease ended      *)
(* under a pass.                                                           *)
THEOREM OnDeadEarned == Spec => []OnDeadIsEarned
<1>1. NotEarly => OnDeadIsEarned
  BY DEF NotEarly, OnDeadIsEarned
<1> QED
  BY <1>1, InvInit, InvStep, NotEarlyInit, EarlyStep, PTL DEF Spec

-----------------------------------------------------------------------------
(* Shutdown.  A pass begins only while its dispatcher is open, and what    *)
(* has resolved does not open again.                                       *)
LEMMA QuietStep == Inv /\ ShutdownIsQuiet /\ [Next]_vars => ShutdownIsQuiet'
<1> SUFFICES ASSUME Inv, ShutdownIsQuiet, [Next]_vars,
                    NEW q \in Passes, mode'[Of[q]] = "resolved"
             PROVE  pass'[q].at = "off"
  BY DEF ShutdownIsQuiet
<1>0. Of[q] \in Dispatchers /\ mode \in [Dispatchers -> {"open", "draining", "resolved", "down"}]
  BY OutboxAssumption DEF Inv, TypeOK
<1>1. ASSUME UNCHANGED mode,
             \/ UNCHANGED pass
             \/ \E p \in Passes : \E s : /\ Goto(p, s)
                                         /\ pass[p].at # "off" \/ mode[Of[p]] = "open"
      PROVE  pass'[q].at = "off"
  <2>1. pass[q].at = "off" /\ mode[Of[q]] = "resolved"
    BY <1>1 DEF ShutdownIsQuiet
  <2> QED
    BY <1>1, <2>1 DEF Goto, Inv, TypeOK
<1>2. CASE UNCHANGED vars
  BY <1>1, <1>2 DEF vars
<1>3. ASSUME NEW r \in Rows, Commit(r) \/ LeaseEnds(r) PROVE pass'[q].at = "off"
  BY <1>1, <1>3 DEF Commit, LeaseEnds
<1>4. ASSUME NEW p \in Passes, Begin(p) \/ PassStep(p) PROVE pass'[q].at = "off"
  <2>1. UNCHANGED mode
    BY <1>4 DEF Begin, PassStep, Listed, ClaimReturns, ReadBack, PublishResolves,
       PublishRejects, MarkReturns, Notified, PassFails
  <2>2. pass[p].at # "off" \/ mode[Of[p]] = "open"
    BY <1>4 DEF Begin, PassStep, Listed, ClaimReturns, ReadBack, PublishResolves,
       PublishRejects, MarkReturns, Notified, PassFails
  <2>3. \E s : Goto(p, s)
    BY <1>4 DEF Begin, PassStep, Listed, ClaimReturns, ReadBack, PublishResolves,
       PublishRejects, MarkReturns, Notified, PassFails
  <2> QED
    BY <1>1, <2>1, <2>2, <2>3
<1>5. ASSUME NEW d \in Dispatchers, Shutdown(d) \/ Drained(d) \/ Crash(d) \/ Restart(d)
      PROVE  pass'[q].at = "off"
  <2>1. CASE Shutdown(d) \/ Restart(d)
    BY <1>0, <2>1 DEF Shutdown, Restart, ShutdownIsQuiet
  <2>2. CASE Drained(d)
    BY <1>0, <2>2 DEF Drained, ShutdownIsQuiet
  <2>3. CASE Crash(d)
    BY <1>0, <2>3 DEF Crash, ShutdownIsQuiet, NoPass
  <2> QED
    BY <1>5, <2>1, <2>2, <2>3
<1> QED
  BY <1>2, <1>3, <1>4, <1>5 DEF Next

(* No pass runs once onShutdown has resolved.                              *)
THEOREM ShutdownQuiet == Spec => []ShutdownIsQuiet
<1>1. Init => ShutdownIsQuiet
  BY DEF Init, ShutdownIsQuiet, NoPass
<1> QED
  BY <1>1, InvInit, InvStep, QuietStep, PTL DEF Spec
=============================================================================
