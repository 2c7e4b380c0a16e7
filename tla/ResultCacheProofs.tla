------------------------- MODULE ResultCacheProofs -------------------------
(***************************************************************************)
(* Proofs about cached reads, for any number of clients, queries, tables   *)
(* and tags, and stores of any size.                                       *)
(***************************************************************************)
EXTENDS ResultCacheProperties, FiniteSetTheorems, WellFoundedInduction, TLAPS

-----------------------------------------------------------------------------
(* The order of use.                                                       *)

(* One entry a query, and of every two of them one was used before the     *)
(* other.                                                                  *)
Ordered(m) ==
    /\ \A e, f \in m.held : e.q = f.q => e = f
    /\ \A e, f \in m.held : e # f => <<e.q, f.q>> \in m.before \/ <<f.q, e.q>> \in m.before
    /\ \A p \in m.before : p[1] # p[2]
    /\ \A p, q, r \in Queries :
          <<p, q>> \in m.before /\ <<q, r>> \in m.before => <<p, r>> \in m.before
    /\ \A p \in m.before : \E e, f \in m.held : p = <<e.q, f.q>>

(* A subset of the entries has one that was used before the others.        *)
HasOldest(m, S) == \E e \in S : \A f \in S \ {e} : <<e.q, f.q>> \in m.before

(* A smallest subset without one would have one without some entry, and    *)
(* either that entry or this one was used first.                           *)
LEMMA SomeIsOldest ==
    ASSUME NEW m \in Contents, Ordered(m), IsFiniteSet(m.held), m.held # {}
    PROVE  HasOldest(m, m.held)
<1> DEFINE Bad == {T \in SUBSET m.held : T # {} /\ ~HasOldest(m, T)}
<1> SUFFICES ASSUME Bad # {} PROVE FALSE
  OBVIOUS
<1>1. PICK T \in Bad : \A R \in Bad : ~(<<R, T>> \in StrictSubsetOrdering(m.held))
  <2>1. IsWellFoundedOn(StrictSubsetOrdering(m.held), SUBSET m.held)
    BY FS_StrictSubsetOrderingWellFounded, FS_FiniteSubsetsOfFinite
  <2>2. Bad \subseteq SUBSET m.held
    OBVIOUS
  <2> QED
    BY <2>1, <2>2, WFMin
<1>2. PICK e \in T : TRUE
  OBVIOUS
<1> DEFINE R == T \ {e}
<1>3. <<R, T>> \in StrictSubsetOrdering(m.held)
  BY <1>2 DEF StrictSubsetOrdering
<1>4. R = {} \/ HasOldest(m, R)
  BY <1>1, <1>3
<1>5. CASE R = {}
  <2>1. \A f \in T \ {e} : <<e.q, f.q>> \in m.before
    BY <1>5
  <2> QED
    BY <1>2, <2>1 DEF HasOldest
<1>6. CASE HasOldest(m, R)
  <2>1. PICK o \in R : \A f \in R \ {o} : <<o.q, f.q>> \in m.before
    BY <1>6 DEF HasOldest
  <2>2. CASE <<o.q, e.q>> \in m.before
    <3>1. \A f \in T \ {o} : <<o.q, f.q>> \in m.before
      BY <2>1, <2>2
    <3> QED
      BY <3>1, <2>1 DEF HasOldest
  <2>3. CASE <<e.q, o.q>> \in m.before
    <3>1. ASSUME NEW f \in T \ {e} PROVE <<e.q, f.q>> \in m.before
      <4>1. CASE f = o
        BY <4>1, <2>3
      <4>2. CASE f # o
        <5>1. <<o.q, f.q>> \in m.before
          BY <2>1, <4>2
        <5>2. e.q \in Queries /\ o.q \in Queries /\ f.q \in Queries
          BY <1>2, <2>1 DEF Contents, Entry
        <5> QED
          BY <2>3, <5>1, <5>2 DEF Ordered
      <4> QED
        BY <4>1, <4>2
    <3> QED
      BY <1>2, <3>1 DEF HasOldest
  <2>4. <<o.q, e.q>> \in m.before \/ <<e.q, o.q>> \in m.before
    BY <1>2, <2>1 DEF Ordered
  <2> QED
    BY <2>2, <2>3, <2>4
<1> QED
  BY <1>4, <1>5, <1>6

(* What a store is, as long as it is used.                                 *)
Kept(m) ==
    /\ m \in Contents
    /\ IsFiniteSet(m.held) /\ Cardinality(m.held) <= MaxEntries
    /\ Ordered(m)

LEMMA NoneKept == Kept(NoEntries)
  BY FS_EmptySet, CacheAssumption DEF Kept, NoEntries, Contents, Ordered

LEMMA LessIsLess ==
    ASSUME NEW m \in Contents, Ordered(m), IsFiniteSet(m.held), NEW Q
    PROVE  /\ Less(m, Q) \in Contents /\ Ordered(Less(m, Q))
           /\ IsFiniteSet(Less(m, Q).held)
           /\ Cardinality(Less(m, Q).held) <= Cardinality(m.held)
           /\ Less(m, Q).held \subseteq m.held
<1>1. Less(m, Q).held \subseteq m.held
  BY DEF Less
<1>2. Less(m, Q) \in Contents
  BY DEF Less, Contents
<1>3. Ordered(Less(m, Q))
  <2> DEFINE l == Less(m, Q)
  <2>1. \A e, f \in l.held : e # f => <<e.q, f.q>> \in l.before \/ <<f.q, e.q>> \in l.before
    BY DEF Less, Ordered
  <2>2. \A p, q, r \in Queries :
            <<p, q>> \in l.before /\ <<q, r>> \in l.before => <<p, r>> \in l.before
    BY DEF Less, Ordered
  <2>3. ASSUME NEW p \in l.before PROVE p[1] # p[2] /\ \E e, f \in l.held : p = <<e.q, f.q>>
    <3>1. p \in m.before /\ p[1] \notin Q /\ p[2] \notin Q
      BY DEF Less
    <3>2. PICK e \in m.held, f \in m.held : p = <<e.q, f.q>>
      BY <3>1 DEF Ordered
    <3>3. e \in l.held /\ f \in l.held
      BY <3>1, <3>2 DEF Less
    <3> QED
      BY <3>1, <3>2, <3>3 DEF Ordered
  <2> QED
    BY <1>1, <2>1, <2>2, <2>3 DEF Ordered
<1> QED
  BY <1>1, <1>2, <1>3, FS_Subset

LEMMA KeptLess ==
    ASSUME NEW m, Kept(m), NEW Q
    PROVE  Kept(Less(m, Q))
<1>1. /\ Cardinality(m.held) \in Nat /\ Cardinality(Less(m, Q).held) \in Nat
      /\ Cardinality(Less(m, Q).held) <= Cardinality(m.held)
  BY LessIsLess, FS_CardinalityType DEF Kept
<1> QED
  BY <1>1, LessIsLess, CacheAssumption DEF Kept

LEMMA LatestIsOrdered ==
    ASSUME NEW m \in Contents, Ordered(m), IsFiniteSet(m.held), NEW e \in Entry
    PROVE  /\ Latest(m, e) \in Contents /\ Ordered(Latest(m, e))
           /\ IsFiniteSet(Latest(m, e).held)
           /\ Cardinality(Latest(m, e).held) <= Cardinality(m.held) + 1
           /\ Latest(m, e).held \subseteq m.held \cup {e}
<1> DEFINE rest == Less(m, {e.q})
           l == Latest(m, e)
<1>1. /\ rest \in Contents /\ Ordered(rest) /\ IsFiniteSet(rest.held)
      /\ Cardinality(rest.held) <= Cardinality(m.held) /\ rest.held \subseteq m.held
  BY LessIsLess
<1>2. /\ l.held = rest.held \cup {e}
      /\ l.before = rest.before \cup {<<f.q, e.q>> : f \in rest.held}
  BY DEF Latest
<1>3. \A f \in rest.held : f.q # e.q
  BY DEF Less
<1> HIDE DEF rest, l
<1>4. l \in Contents
  <2>1. e.q \in Queries /\ \A f \in rest.held : f.q \in Queries
    BY <1>1 DEF Contents, Entry
  <2>2. l.held \subseteq Entry /\ l.before \subseteq Queries \X Queries
    BY <1>1, <1>2, <2>1 DEF Contents
  <2> QED
    BY <2>2 DEF l, Latest, Contents
<1>5. Ordered(l)
  <2>1. \A f, g \in l.held : f.q = g.q => f = g
    BY <1>1, <1>2, <1>3 DEF Ordered
  <2>2. \A f, g \in l.held :
            f # g => <<f.q, g.q>> \in l.before \/ <<g.q, f.q>> \in l.before
    BY <1>1, <1>2 DEF Ordered
  <2>3. ASSUME NEW p \in l.before PROVE p[1] # p[2] /\ \E f, g \in l.held : p = <<f.q, g.q>>
    <3>1. CASE p \in rest.before
      BY <1>1, <1>2, <3>1 DEF Ordered
    <3>2. CASE p \notin rest.before
      <4>1. PICK f \in rest.held : p = <<f.q, e.q>>
        BY <1>2, <3>2
      <4> QED
        BY <1>2, <1>3, <4>1
    <3> QED
      BY <3>1, <3>2
  <2>4. ASSUME NEW p \in Queries, NEW q \in Queries, NEW r \in Queries,
               <<p, q>> \in l.before, <<q, r>> \in l.before
        PROVE  <<p, r>> \in l.before
    <3>0. ASSUME NEW a, NEW b, <<a, b>> \in l.before, <<a, b>> \notin rest.before
          PROVE  b = e.q /\ \E f \in rest.held : a = f.q
      <4>1. PICK f \in rest.held : <<a, b>> = <<f.q, e.q>>
        BY <1>2, <3>0
      <4> QED
        BY <4>1
    <3>1. <<p, q>> \in rest.before \/ (q = e.q /\ \E f \in rest.held : p = f.q)
      BY <2>4, <3>0
    <3>2. <<q, r>> \in rest.before \/ (r = e.q /\ \E f \in rest.held : q = f.q)
      BY <2>4, <3>0
    <3>3. \A a, b \in Queries : <<a, b>> \in rest.before =>
              (\E f \in rest.held : a = f.q) /\ (\E f \in rest.held : b = f.q)
      <4> SUFFICES ASSUME NEW a, NEW b, <<a, b>> \in rest.before
                   PROVE  \E f, g \in rest.held : a = f.q /\ b = g.q
        OBVIOUS
      <4>1. PICK f \in rest.held, g \in rest.held : <<a, b>> = <<f.q, g.q>>
        BY <1>1 DEF Ordered
      <4> QED
        BY <4>1
    <3>4. q # e.q /\ <<p, q>> \in rest.before
      BY <1>3, <3>1, <3>2, <3>3
    <3>5. CASE <<q, r>> \in rest.before
      BY <1>1, <1>2, <3>4, <3>5 DEF Ordered
    <3>6. CASE r = e.q
      BY <1>2, <3>3, <3>4, <3>6
    <3> QED
      BY <3>2, <3>5, <3>6
  <2> QED
    BY <2>1, <2>2, <2>3, <2>4 DEF Ordered
<1>6. /\ IsFiniteSet(l.held)
      /\ Cardinality(l.held) <= Cardinality(rest.held) + 1
  <2>1. Cardinality(rest.held) \in Nat
    BY <1>1, FS_CardinalityType
  <2>2. /\ IsFiniteSet(rest.held \cup {e})
        /\ Cardinality(rest.held \cup {e}) =
              IF e \in rest.held THEN Cardinality(rest.held) ELSE Cardinality(rest.held) + 1
    BY <1>1, FS_AddElement, Zenon
  <2> QED
    BY <1>2, <2>1, <2>2
<1>7. Cardinality(rest.held) \in Nat /\ Cardinality(m.held) \in Nat /\ Cardinality(l.held) \in Nat
  BY <1>1, <1>6, FS_CardinalityType
<1> QED
  BY <1>1, <1>2, <1>4, <1>5, <1>6, <1>7 DEF l

(* A hit.                                                                  *)
LEMMA KeptLatest ==
    ASSUME NEW m, Kept(m), NEW e \in m.held
    PROVE  Kept(Latest(m, e)) /\ Latest(m, e).held \subseteq m.held
<1>1. e \in Entry
  BY DEF Kept, Contents
<1>2. /\ Latest(m, e) \in Contents /\ Ordered(Latest(m, e))
      /\ Latest(m, e).held \subseteq m.held
  BY <1>1, LatestIsOrdered DEF Kept
<1>3. /\ IsFiniteSet(Latest(m, e).held)
      /\ Cardinality(Latest(m, e).held) <= Cardinality(m.held)
  BY <1>2, FS_Subset DEF Kept
<1>4. Cardinality(m.held) \in Nat /\ Cardinality(Latest(m, e).held) \in Nat
  BY <1>3, FS_CardinalityType DEF Kept
<1> QED
  BY <1>2, <1>3, <1>4, CacheAssumption DEF Kept

(* What is stored evicts one entry at most, and that is enough.            *)
LEMMA KeptPut ==
    ASSUME NEW m, Kept(m), NEW e \in Entry
    PROVE  Kept(Put(m, e)) /\ Put(m, e).held \subseteq m.held \cup {e}
<1> DEFINE with == Latest(m, e)
<1>1. /\ with \in Contents /\ Ordered(with) /\ IsFiniteSet(with.held)
      /\ Cardinality(with.held) <= Cardinality(m.held) + 1
      /\ with.held \subseteq m.held \cup {e}
  BY LatestIsOrdered DEF Kept
<1>2. Cardinality(with.held) \in Nat /\ Cardinality(m.held) \in Nat
      /\ Cardinality(m.held) <= MaxEntries /\ MaxEntries \in Nat \ {0}
  BY <1>1, FS_CardinalityType, CacheAssumption DEF Kept
<1>3. Put(m, e) = IF Cardinality(with.held) > MaxEntries THEN Less(with, {Oldest(with).q})
                  ELSE with
  BY DEF Put
<1> HIDE DEF with
<1>4. CASE Cardinality(with.held) > MaxEntries
  <2> DEFINE o == Oldest(with)
             less == Less(with, {o.q})
  <2>1. with.held # {}
    BY <1>2, <1>4, FS_EmptySet
  <2>2. o \in with.held
    <3>1. \E f \in with.held : \A g \in with.held \ {f} : <<f.q, g.q>> \in with.before
      BY <1>1, <2>1, SomeIsOldest DEF HasOldest
    <3> QED
      BY <3>1 DEF Oldest
  <2>3. less \in Contents /\ Ordered(less) /\ IsFiniteSet(less.held)
        /\ less.held \subseteq with.held
    BY <1>1, LessIsLess
  <2>4. less.held \subseteq with.held \ {o}
    BY DEF Less
  <2>5. /\ IsFiniteSet(with.held \ {o})
        /\ Cardinality(with.held \ {o}) = Cardinality(with.held) - 1
    BY <1>1, <2>2, FS_RemoveElement
  <2>6. Cardinality(less.held) <= Cardinality(with.held) - 1
    <3>1. less.held \in SUBSET (with.held \ {o})
      BY <2>4
    <3>2. Cardinality(less.held) <= Cardinality(with.held \ {o})
      BY <2>5, <3>1, FS_Subset
    <3> QED
      BY <2>5, <3>2
  <2>7. Cardinality(less.held) \in Nat
    BY <2>3, FS_CardinalityType
  <2>8. Cardinality(less.held) <= MaxEntries
    BY <1>1, <1>2, <2>6, <2>7
  <2> QED
    BY <1>1, <1>3, <1>4, <2>3, <2>8 DEF Kept
<1>5. CASE ~(Cardinality(with.held) > MaxEntries)
  BY <1>1, <1>2, <1>3, <1>5 DEF Kept
<1> QED
  BY <1>4, <1>5

(* The entries of a write's table are excused one by one.                  *)
ExcusedEntry(e, t) == IF DependsOn(e.q, t) THEN [e EXCEPT !.clean = FALSE] ELSE e

ExcusedIn(m, t) == [m EXCEPT !.held = {ExcusedEntry(e, t) : e \in @}]

LEMMA KeptExcused ==
    ASSUME NEW m, Kept(m), NEW t
    PROVE  Kept(ExcusedIn(m, t))
<1> DEFINE x == ExcusedIn(m, t)
           f == [e \in m.held |-> ExcusedEntry(e, t)]
<1>1. m \in Contents
  BY DEF Kept
<1>2. /\ x = [held |-> {ExcusedEntry(e, t) : e \in m.held}, before |-> m.before]
      /\ x.held = {ExcusedEntry(e, t) : e \in m.held} /\ x.before = m.before
  <2>1. m = [held |-> m.held, before |-> m.before]
    BY <1>1 DEF Contents
  <2>2. x = [m EXCEPT !.held = {ExcusedEntry(e, t) : e \in m.held}]
    BY DEF ExcusedIn
  <2> QED
    BY <2>1, <2>2
<1>3. \A e \in m.held : ExcusedEntry(e, t) \in Entry /\ ExcusedEntry(e, t).q = e.q
  BY <1>1 DEF ExcusedEntry, Contents, Entry
<1>4. x \in Contents
  BY <1>1, <1>2, <1>3 DEF Contents
<1> HIDE DEF x
<1>5. IsFiniteSet(x.held) /\ Cardinality(x.held) <= Cardinality(m.held)
  <2>1. f \in Surjection(m.held, x.held)
    BY <1>2 DEF Surjection
  <2> QED
    BY <2>1, FS_Surjection DEF Kept
<1>6. Ordered(x)
  <2>1. \A e \in x.held : \E g \in m.held : e = ExcusedEntry(g, t) /\ e.q = g.q
    BY <1>2, <1>3
  <2>2. \A g \in m.held : \E e \in x.held : e.q = g.q
    BY <1>2, <1>3
  <2>3. \A p \in x.before : \E e, g \in x.held : p = <<e.q, g.q>>
    BY <1>2, <2>2 DEF Ordered, Kept
  <2>4. \A e, g \in x.held : e.q = g.q => e = g
    BY <2>1 DEF Ordered, Kept
  <2>5. \A e, g \in x.held : e # g => <<e.q, g.q>> \in x.before \/ <<g.q, e.q>> \in x.before
    BY <1>2, <2>1 DEF Ordered, Kept
  <2> QED
    BY <1>2, <2>3, <2>4, <2>5 DEF Ordered, Kept
<1>7. Cardinality(m.held) \in Nat /\ Cardinality(x.held) \in Nat
  BY <1>5, FS_CardinalityType DEF Kept
<1> QED
  BY <1>4, <1>5, <1>6, <1>7, CacheAssumption DEF Kept, x

-----------------------------------------------------------------------------
(* Types, and the bound of every store.                                    *)

StoresKept == entries \in [Stores -> Contents] /\ \A s \in Stores : Kept(entries[s])

Typed ==
    /\ client \in [Clients -> {Idle} \cup Reads \cup Written]
    /\ committed \in [Tables -> SUBSET Writes]
    /\ txn \in [open : BOOLEAN, wrote : [Tables -> SUBSET Writes]]
    /\ store \in [Repos -> {NoStore} \cup Stores]
    /\ writes \in 0 .. MaxWrites /\ faults \in 0 .. MaxFaults

Sound == Typed /\ StoresKept

LEMMA SoundTypes == Sound => TypeOK
  BY DEF Sound, Typed, StoresKept, Kept, TypeOK

LEMMA RepoParts ==
    /\ \A r \in Repos : r[1] \in Tables /\ r[2] \in {"base", "bound"} /\ r = <<r[1], r[2]>>
    /\ \A r \in Repos : IsBound(r) => r = <<r[1], "bound">>
    /\ \A r \in Repos : ~IsBound(r) => r = <<r[1], "base">>
    /\ \A t \in Tables : <<t, "base">> \in Repos /\ <<t, "bound">> \in Repos
    /\ \A t : ~IsBound(<<t, "base">>)
<1>1. ASSUME NEW r \in Repos
      PROVE  r[1] \in Tables /\ r[2] \in {"base", "bound"} /\ r = <<r[1], r[2]>>
  BY DEF Repos
<1> QED
  BY <1>1 DEF Repos, IsBound

LEMMA StoreOfRepo ==
    ASSUME Typed, NEW r \in Repos
    PROVE  StoreOf(r) \in Stores
  BY DEF Typed, StoreOf, Stores

(* What a client that is not idle does.                                    *)
LEMMA ClientParts ==
    ASSUME Typed, NEW c \in Clients
    PROVE  /\ client[c].at = "written" => client[c] \in Written
           /\ client[c].at \in {"asked", "queried"} => client[c] \in Reads
           /\ client[c].at \notin {"asked", "queried", "written"} => client[c] = Idle
<1>1. client[c] = Idle \/ client[c] \in Reads \/ client[c] \in Written
  BY DEF Typed
<1> QED
  BY <1>1 DEF Idle, Reads, Written

LEMMA RowsAreWrites ==
    ASSUME Typed, NEW q \in Queries, NEW r
    PROVE  RowsOf(q, r) \subseteq Writes
<1>1. \A t \in Tables : committed[t] \subseteq Writes /\ txn.wrote[t] \subseteq Writes
  BY DEF Typed
<1> QED
  BY <1>1 DEF RowsOf

LEMMA DisturbedTypes ==
    ASSUME Typed, NEW t
    PROVE  Disturbed(t) \in [Clients -> {Idle} \cup Reads \cup Written]
<1> SUFFICES ASSUME NEW c \in Clients
             PROVE  Disturbed(t)[c] \in {Idle} \cup Reads \cup Written
  BY DEF Disturbed
<1>1. CASE client[c].at \in {"asked", "queried"}
  <2>1. client[c] \in Reads
    BY <1>1, ClientParts
  <2>2. [client[c] EXCEPT !.clean = FALSE] \in Reads
    BY <2>1 DEF Reads
  <2> QED
    BY <2>1, <2>2 DEF Disturbed
<1>2. CASE client[c].at \notin {"asked", "queried"}
  BY <1>2 DEF Disturbed, Typed
<1> QED
  BY <1>1, <1>2

(* A step that puts one store in another condition.                        *)
LEMMA OneStoreKept ==
    ASSUME StoresKept, NEW s \in Stores, NEW m, Kept(m), entries' = [entries EXCEPT ![s] = m]
    PROVE  StoresKept'
  BY DEF StoresKept, Kept

LEMMA ExcusedTypes ==
    ASSUME StoresKept, NEW t
    PROVE  /\ Excused(t) \in [Stores -> Contents]
           /\ \A s \in Stores : Kept(Excused(t)[s]) /\ Excused(t)[s] = ExcusedIn(entries[s], t)
<1>1. \A s \in Stores : Excused(t)[s] = ExcusedIn(entries[s], t)
  BY DEF Excused, ExcusedIn, ExcusedEntry
<1>2. \A s \in Stores : Kept(ExcusedIn(entries[s], t))
  BY KeptExcused DEF StoresKept
<1>3. \A s \in Stores : Kept(Excused(t)[s]) /\ Excused(t)[s] = ExcusedIn(entries[s], t)
  BY <1>1, <1>2
<1>4. Excused(t) \in [Stores -> Contents]
  <2>1. Excused(t) = [s \in Stores |-> Excused(t)[s]]
    BY DEF Excused
  <2> QED
    BY <1>3, <2>1 DEF Kept
<1> QED
  BY <1>3, <1>4

LEMMA InitSound == Init => Sound
<1> SUFFICES ASSUME Init PROVE Sound
  OBVIOUS
<1>1. Typed
  BY CacheAssumption DEF Init, Typed, NoTxn, Stores
<1>2. StoresKept
  BY NoneKept DEF Init, StoresKept, Kept
<1> QED
  BY <1>1, <1>2 DEF Sound

(* A hit is an entry of the store.                                         *)
LEMMA HitIsHeld ==
    ASSUME NEW m, NEW q, Found(m, q) # {}
    PROVE  (CHOOSE e \in Found(m, q) : TRUE) \in m.held
  BY DEF Found

LEMMA StepSound ==
    ASSUME Sound, [Next]_vars
    PROVE  Sound'
<1> USE DEF Sound
<1>1. ASSUME NEW c \in Clients, NEW repo \in Repos, NEW q \in Queries, ReadCached(c, repo, q)
      PROVE  Sound'
  <2> DEFINE own == StoreOf(repo)
             e == CHOOSE x \in Found(entries[own], q) : TRUE
  <2>1. own \in Stores
    BY StoreOfRepo
  <2>2. store' \in [Repos -> {NoStore} \cup Stores]
    BY <1>1, <2>1 DEF ReadCached, Typed
  <2>3. CASE Found(entries[own], q) = {}
    <3>1. /\ client' = [client EXCEPT ![c] = [at |-> "asked", repo |-> repo, q |-> q,
                                              rows |-> {}, clean |-> ~IsBound(repo) /\ Quiet(q)]]
          /\ UNCHANGED <<entries, committed, txn, writes, faults>>
      BY <1>1, <2>3 DEF ReadCached, Query, Set
    <3>2. [at |-> "asked", repo |-> repo, q |-> q, rows |-> {},
           clean |-> ~IsBound(repo) /\ Quiet(q)] \in Reads
      BY DEF Reads, IsBound, Quiet
    <3>3. Typed'
      BY <2>2, <3>1, <3>2 DEF Typed
    <3> QED
      BY <3>1, <3>3 DEF StoresKept, Kept
  <2>4. CASE Found(entries[own], q) # {}
    <3>1. /\ entries' = [entries EXCEPT ![own] = Latest(entries[own], e)]
          /\ UNCHANGED <<client, committed, txn, writes, faults>>
      BY <1>1, <2>4 DEF ReadCached
    <3>2. Kept(Latest(entries[own], e))
      BY <2>1, <2>4, HitIsHeld, KeptLatest DEF StoresKept
    <3>3. StoresKept'
      BY <2>1, <3>1, <3>2, OneStoreKept
    <3>4. Typed'
      BY <2>2, <3>1 DEF Typed
    <3> QED
      BY <3>3, <3>4
  <2> QED
    BY <2>3, <2>4
<1>2. ASSUME NEW c \in Clients, NEW repo \in Repos, NEW q \in Queries, GetRejects(c, repo, q)
      PROVE  Sound'
  <2>1. store' \in [Repos -> {NoStore} \cup Stores]
    BY <1>2, StoreOfRepo DEF GetRejects, Typed
  <2>2. Typed'
    BY <1>2, <2>1, CacheAssumption DEF GetRejects, Typed, Fault
  <2> QED
    BY <1>2, <2>2 DEF GetRejects, StoresKept, Kept
<1>3. ASSUME NEW c \in Clients, Answer(c) PROVE Sound'
  <2>1. client[c] \in Reads
    BY <1>3, ClientParts DEF Answer
  <2>2. RowsOf(client[c].q, client[c].repo) \subseteq Writes
    BY <2>1, RowsAreWrites DEF Reads
  <2>3. [client[c] EXCEPT !.at = "queried", !.rows = RowsOf(client[c].q, client[c].repo)] \in Reads
    BY <2>1, <2>2 DEF Reads
  <2>4. Typed'
    BY <1>3, <2>3 DEF Answer, Typed, Set
  <2> QED
    BY <1>3, <2>4 DEF Answer, StoresKept, Kept
<1>4. ASSUME NEW c \in Clients, QueryRejects(c) PROVE Sound'
  BY <1>4 DEF QueryRejects, Set, Typed, StoresKept, Kept
<1>5. ASSUME NEW c \in Clients, SetEntry(c) PROVE Sound'
  <2> DEFINE own == StoreOf(client[c].repo)
             e == Stored(client[c])
  <2>1. client[c] \in Reads
    BY <1>5, ClientParts DEF SetEntry
  <2>2. own \in Stores /\ e \in Entry
    BY <2>1, StoreOfRepo DEF Reads, Stored, Entry
  <2>3. entries' = [entries EXCEPT ![own] = Put(entries[own], e)]
    BY <1>5 DEF SetEntry
  <2>4. Kept(Put(entries[own], e))
    BY <2>2, KeptPut DEF StoresKept
  <2>5. StoresKept'
    BY <2>2, <2>3, <2>4, OneStoreKept
  <2>6. Typed'
    BY <1>5 DEF SetEntry, Set, Typed
  <2> QED
    BY <2>5, <2>6
<1>6. ASSUME NEW c \in Clients, SetRejects(c) PROVE Sound'
  BY <1>6, CacheAssumption DEF SetRejects, Set, Fault, Typed, StoresKept, Kept
<1>7. ASSUME NEW c \in Clients, NEW repo \in Repos, Write(c, repo) PROVE Sound'
  <2>1. /\ writes + 1 \in Writes /\ writes' \in 0 .. MaxWrites /\ repo[1] \in Tables
    BY <1>7, CacheAssumption, RepoParts DEF Write, Typed, Writes
  <2>2. [at |-> "written", repo |-> repo, w |-> writes + 1] \in Written
    BY <2>1 DEF Written
  <2>3. client' \in [Clients -> {Idle} \cup Reads \cup Written]
    BY <1>7, <2>2, DisturbedTypes DEF Write
  <2>4. /\ committed' \in [Tables -> SUBSET Writes]
        /\ txn' \in [open : BOOLEAN, wrote : [Tables -> SUBSET Writes]]
    BY <1>7, <2>1 DEF Write, Typed
  <2>5. Typed'
    BY <1>7, <2>1, <2>3, <2>4 DEF Write, Typed
  <2> QED
    BY <1>7, <2>5 DEF Write, StoresKept, Kept
<1>8. ASSUME NEW c \in Clients, Invalidate(c) PROVE Sound'
  <2> DEFINE own == StoreOf(client[c].repo)
             t == client[c].repo[1]
  <2>1. client[c] \in Written
    BY <1>8, ClientParts DEF Invalidate
  <2>2. own \in Stores
    BY <2>1, StoreOfRepo DEF Written
  <2>3. entries' = [Excused(t) EXCEPT ![own] = Invalidated(entries[own], t)]
    BY <1>8 DEF Invalidate
  <2>4. Kept(Invalidated(entries[own], t))
    BY <2>2, KeptLess DEF StoresKept, Invalidated
  <2>5. StoresKept'
    BY <2>2, <2>3, <2>4, ExcusedTypes DEF StoresKept, Kept
  <2>6. Typed'
    BY <1>8 DEF Invalidate, Set, Typed
  <2> QED
    BY <2>5, <2>6
<1>9. ASSUME NEW c \in Clients, InvalidateRejects(c) PROVE Sound'
  <2>1. StoresKept'
    BY <1>9, ExcusedTypes DEF InvalidateRejects, StoresKept
  <2>2. Typed'
    BY <1>9, CacheAssumption DEF InvalidateRejects, Set, Fault, Typed
  <2> QED
    BY <2>1, <2>2
<1>10. ASSUME WithTransaction PROVE Sound'
  <2>1. \A r \in Repos : store[<<r[1], "base">>] \in {NoStore} \cup Stores
    BY RepoParts DEF Typed
  <2>2. Typed'
    BY <1>10, <2>1 DEF WithTransaction, NoTxn, Typed
  <2>3. StoresKept'
    BY <1>10, NoneKept DEF WithTransaction, StoresKept, Kept
  <2> QED
    BY <2>2, <2>3
<1>11. ASSUME Commit \/ Rollback PROVE Sound'
  <2>1. \A t \in Tables : committed[t] \cup txn.wrote[t] \in SUBSET Writes
    BY DEF Typed
  <2>2. committed' \in [Tables -> SUBSET Writes] /\ txn' = NoTxn
    BY <1>11, <2>1 DEF Commit, Rollback, Typed
  <2>3. Typed'
    BY <1>11, <2>2 DEF Commit, Rollback, NoTxn, Typed
  <2> QED
    BY <1>11, <2>3 DEF Commit, Rollback, StoresKept, Kept
<1>12. ASSUME NEW s \in Stores, Expire(s) PROVE Sound'
  <2>1. PICK e \in entries[s].held : entries' = [entries EXCEPT ![s] = Less(entries[s], {e.q})]
    BY <1>12 DEF Expire
  <2>2. Kept(Less(entries[s], {e.q}))
    BY KeptLess DEF StoresKept
  <2>3. StoresKept'
    BY <2>1, <2>2, OneStoreKept
  <2> QED
    BY <1>12, <2>3 DEF Expire, Typed
<1>13. CASE UNCHANGED vars
  BY <1>13 DEF vars, Typed, StoresKept, Kept
<1> QED
  BY <1>1, <1>2, <1>3, <1>4, <1>5, <1>6, <1>7, <1>8, <1>9, <1>10, <1>11, <1>12, <1>13
     DEF Next, ReadStep, WriteStep

LEMMA AlwaysSound == Spec => []Sound
<1>1. Init => Sound
  BY InitSound
<1>2. Sound /\ [Next]_vars => Sound'
  BY StepSound
<1> QED
  BY <1>1, <1>2, PTL DEF Spec

(* Every variable keeps its type, and no store holds more entries than it  *)
(* may, whatever was read, written, hit or lost before (memoryStore).      *)
THEOREM TypeCorrect == Spec => []TypeOK
  BY AlwaysSound, SoundTypes, PTL

-----------------------------------------------------------------------------
(* What makes an entry fresh.                                              *)

Base(q) == RowsOf(q, <<Table[q], "base">>)

BeingWritten(t, kind) ==
    \E c \in Clients : client[c].at = "written" /\ client[c].repo = <<t, kind>>

(* What a clean load has read stays what the database holds until it is    *)
(* stored.                                                                 *)
CleanLoad(c) ==
    client[c].at \in {"asked", "queried"} /\ client[c].clean =>
        /\ ~IsBound(client[c].repo) /\ Quiet(client[c].q)
        /\ client[c].at = "queried" => client[c].rows = Base(client[c].q)

(* A clean entry lags behind no transaction's write once every client has  *)
(* left the transaction, and behind no other write once it has returned.   *)
CleanEntry(e) ==
    e.clean =>
        /\ \A t \in Tables : DependsOn(e.q, t) /\ txn.wrote[t] # {} => BeingWritten(t, "bound")
        /\ \/ e.rows = Base(e.q)
           \/ \E t \in Tables : DependsOn(e.q, t) /\ BeingWritten(t, "base")

LoadsClean == \A c \in Clients : CleanLoad(c)

EntriesClean == \A s \in Stores : \A e \in entries[s].held : CleanEntry(e)

Fresh == Sound /\ LoadsClean /\ EntriesClean

(* What a query returns depends on what its tables hold, and no more.      *)
LEMMA BaseRows ==
    ASSUME NEW q
    PROVE  Base(q) = UNION {committed[t] : t \in {u \in Tables : DependsOn(q, u)}}
<1>1. ~IsBound(<<Table[q], "base">>)
  BY RepoParts
<1> QED
  BY <1>1 DEF Base, RowsOf

LEMMA SameRows ==
    ASSUME NEW q, \A t \in Tables : DependsOn(q, t) => committed'[t] = committed[t]
    PROVE  Base(q)' = Base(q)
<1>1. Base(q)' = UNION {committed'[t] : t \in {u \in Tables : DependsOn(q, u)}}
  <2>1. ~IsBound(<<Table[q], "base">>)
    BY RepoParts
  <2> QED
    BY <2>1 DEF Base, RowsOf, DependsOn
<1>2. Base(q) = UNION {committed[t] : t \in {u \in Tables : DependsOn(q, u)}}
  BY BaseRows
<1> QED
  BY <1>1, <1>2

LEMMA UnboundRows ==
    ASSUME NEW q, NEW r, ~IsBound(r)
    PROVE  RowsOf(q, r) = Base(q)
<1>1. ~IsBound(<<Table[q], "base">>)
  BY RepoParts
<1> QED
  BY <1>1 DEF Base, RowsOf

LEMMA WrittenRepo ==
    ASSUME Typed, NEW c \in Clients, client[c].at = "written"
    PROVE  /\ client[c].repo \in Repos /\ client[c].repo[1] \in Tables
           /\ client[c].repo = <<client[c].repo[1], "base">>
              \/ client[c].repo = <<client[c].repo[1], "bound">>
           /\ IsBound(client[c].repo) <=> client[c].repo = <<client[c].repo[1], "bound">>
<1>1. client[c].repo \in Repos
  BY ClientParts DEF Written
<1> QED
  BY <1>1, RepoParts DEF IsBound

(* Of a quiet query no table is being written.                             *)
LEMMA QuietTables ==
    ASSUME Typed, NEW q, NEW t \in Tables, Quiet(q), DependsOn(q, t)
    PROVE  /\ txn.wrote[t] = {}
           /\ \A c \in Clients : client[c].at = "written" => client[c].repo[1] # t
           /\ ~BeingWritten(t, "base") /\ ~BeingWritten(t, "bound")
<1>1. Pending(t) = {}
  BY DEF Quiet
<1>2. txn.wrote[t] = {} /\ \A c \in Clients : client[c].at = "written" => client[c].repo[1] # t
  BY <1>1 DEF Pending
<1> QED
  BY <1>2 DEF BeingWritten

LEMMA FreshSuffices == Fresh => FreshUnlessOverlapped
<1> SUFFICES ASSUME Fresh, NEW s \in Stores, NEW e \in entries[s].held, e.clean, Quiet(e.q)
             PROVE  e.rows = Base(e.q)
  BY DEF FreshUnlessOverlapped, Base
<1>1. CleanEntry(e)
  BY DEF Fresh, EntriesClean
<1> QED
  BY <1>1, QuietTables DEF CleanEntry, Fresh, Sound

LEMMA QuietStays ==
    ASSUME Typed, NEW q, Quiet(q),
           \A t \in Tables : DependsOn(q, t) => txn'.wrote[t] \subseteq txn.wrote[t],
           \A c \in Clients : client'[c].at = "written" /\ DependsOn(q, client'[c].repo[1])
               => client'[c] = client[c]
    PROVE  Quiet(q)'
<1> SUFFICES ASSUME NEW t \in Tables, DependsOn(q, t) PROVE Pending(t)' = {}
  BY DEF Quiet, DependsOn
<1>1. txn.wrote[t] = {} /\ \A c \in Clients : client[c].at = "written" => client[c].repo[1] # t
  BY QuietTables
<1>2. txn'.wrote[t] = {}
  BY <1>1
<1>3. \A c \in Clients : client'[c].at = "written" => client'[c].repo[1] # t
  BY <1>1
<1> QED
  BY <1>2, <1>3 DEF Pending

LEMMA LoadStays ==
    ASSUME Typed, NEW c \in Clients, CleanLoad(c), client'[c] = client[c],
           \A t \in Tables : DependsOn(client[c].q, t) /\ txn.wrote[t] = {}
               => txn'.wrote[t] = {} /\ committed'[t] = committed[t],
           \A d \in Clients : client'[d].at = "written" => client'[d] = client[d]
    PROVE  CleanLoad(c)'
<1> SUFFICES ASSUME client[c].at \in {"asked", "queried"}, client[c].clean PROVE CleanLoad(c)'
  BY DEF CleanLoad
<1> DEFINE q == client[c].q
<1>1. ~IsBound(client[c].repo) /\ Quiet(q) /\ (client[c].at = "queried" => client[c].rows = Base(q))
  BY DEF CleanLoad
<1>2. \A t \in Tables : DependsOn(q, t) => txn.wrote[t] = {}
  BY <1>1, QuietTables
<1>3. Quiet(q)'
  <2> HIDE DEF q
  <2>1. Quiet(q)
    BY <1>1
  <2>2. \A t \in Tables : DependsOn(q, t) => txn'.wrote[t] \subseteq txn.wrote[t]
    BY <1>2 DEF q
  <2>3. ASSUME NEW p, p = q PROVE Quiet(p)'
    BY <2>1, <2>2, <2>3, QuietStays
  <2>4. q' = q
    BY DEF q
  <2> QED
    BY <2>3, <2>4 DEF Quiet, Pending, DependsOn
<1>4. ASSUME NEW p, p = q PROVE Base(p)' = Base(p)
  BY <1>2, <1>4, SameRows
<1>5. Base(q)' = Base(q)
  BY <1>4 DEF Base, RowsOf, DependsOn
<1> QED
  BY <1>1, <1>3, <1>5 DEF CleanLoad, IsBound

LEMMA EntryStays ==
    ASSUME Typed, NEW e, CleanEntry(e),
           \A t \in Tables : txn'.wrote[t] # {} => txn'.wrote[t] = txn.wrote[t],
           committed' = committed,
           \A d \in Clients : client[d].at = "written" => client'[d] = client[d]
    PROVE  CleanEntry(e)'
<1>1. \A t \in Tables, k \in {"base", "bound"} : BeingWritten(t, k) => BeingWritten(t, k)'
  BY DEF BeingWritten
<1>2. Base(e.q)' = Base(e.q)
  BY SameRows
<1> QED
  BY <1>1, <1>2 DEF CleanEntry, DependsOn

(* Steps that write nothing, in which only a client that did not write     *)
(* moves, and possibly a transaction's writes are forgotten.               *)
Harmless(c) ==
    /\ committed' = committed
    /\ \A t \in Tables : txn'.wrote[t] = txn.wrote[t] \/ txn'.wrote[t] = {}
    /\ \A d \in Clients \ {c} : client'[d] = client[d]
    /\ client[c].at = "written" => client'[c] = client[c]
    /\ client'[c].at = "written" => client'[c] = client[c]

LEMMA HarmlessLoads ==
    ASSUME Typed, LoadsClean, NEW c \in Clients, Harmless(c), CleanLoad(c)'
    PROVE  LoadsClean'
<1> SUFFICES ASSUME NEW d \in Clients, d # c PROVE CleanLoad(d)'
  BY DEF LoadsClean
<1>1. client'[d] = client[d] /\ CleanLoad(d)
  BY DEF Harmless, LoadsClean
<1>2. \A x \in Clients : client'[x].at = "written" => client'[x] = client[x]
  BY DEF Harmless
<1>3. \A t \in Tables : txn.wrote[t] = {} => txn'.wrote[t] = {} /\ committed'[t] = committed[t]
  BY DEF Harmless
<1> QED
  BY <1>1, <1>2, <1>3, LoadStays

LEMMA HarmlessEntry ==
    ASSUME Typed, NEW c \in Clients, Harmless(c), NEW e, CleanEntry(e)
    PROVE  CleanEntry(e)'
<1>1. \A t \in Tables : txn'.wrote[t] # {} => txn'.wrote[t] = txn.wrote[t]
  BY DEF Harmless
<1>2. \A d \in Clients : client[d].at = "written" => client'[d] = client[d]
  BY DEF Harmless
<1> QED
  BY <1>1, <1>2, EntryStays DEF Harmless

(* The stores after such a step hold no entry that none of them held.      *)
LEMMA HarmlessEntries ==
    ASSUME Typed, EntriesClean, NEW c \in Clients, Harmless(c),
           \A s \in Stores : \A e \in entries'[s].held :
               CleanEntry(e) \/ \E r \in Stores : e \in entries[r].held
    PROVE  EntriesClean'
<1> SUFFICES ASSUME NEW s \in Stores, NEW e \in entries'[s].held PROVE CleanEntry(e)'
  BY DEF EntriesClean, Stores
<1>1. CleanEntry(e)
  BY DEF EntriesClean
<1> QED
  BY <1>1, HarmlessEntry

(* A load that starts clean starts while nothing is written to its tables. *)
LEMMA ReadFresh ==
    ASSUME Fresh, NEW c \in Clients, NEW repo \in Repos, NEW q \in Queries,
           ReadCached(c, repo, q)
    PROVE  LoadsClean' /\ EntriesClean'
<1> USE DEF Fresh, Sound
<1> DEFINE own == StoreOf(repo)
           e == CHOOSE x \in Found(entries[own], q) : TRUE
<1>1. client[c] = Idle /\ UNCHANGED <<committed, txn>>
  BY DEF ReadCached
<1>2. own \in Stores
  BY StoreOfRepo
<1>3. CASE Found(entries[own], q) = {}
  <2>1. /\ client' = [client EXCEPT ![c] = [at |-> "asked", repo |-> repo, q |-> q,
                                            rows |-> {}, clean |-> ~IsBound(repo) /\ Quiet(q)]]
        /\ UNCHANGED entries
    BY <1>3 DEF ReadCached, Query, Set
  <2>2. Harmless(c)
    BY <1>1, <2>1 DEF Harmless, Idle, Typed
  <2>3. CleanLoad(c)'
    <3> SUFFICES ASSUME client'[c].clean PROVE CleanLoad(c)'
      BY DEF CleanLoad
    <3>1. client'[c].repo = repo /\ client'[c].q = q /\ client'[c].at = "asked"
          /\ ~IsBound(repo) /\ Quiet(q)
      BY <2>1 DEF Typed
    <3>2. Quiet(q)'
      <4>1. \A t \in Tables : txn'.wrote[t] \subseteq txn.wrote[t]
        BY <1>1
      <4>2. \A d \in Clients : client'[d].at = "written" => client'[d] = client[d]
        BY <2>2 DEF Harmless
      <4> QED
        BY <3>1, <4>1, <4>2, QuietStays
    <3> QED
      BY <3>1, <3>2 DEF CleanLoad, IsBound, Quiet, Pending, DependsOn
  <2> QED
    BY <2>1, <2>2, <2>3, HarmlessLoads, HarmlessEntries
<1>4. CASE Found(entries[own], q) # {}
  <2>1. /\ entries' = [entries EXCEPT ![own] = Latest(entries[own], e)]
        /\ UNCHANGED client
    BY <1>4 DEF ReadCached
  <2>2. Harmless(c) /\ CleanLoad(c)'
    <3>1. Harmless(c)
      BY <1>1, <2>1 DEF Harmless
    <3>2. CleanLoad(c)'
      BY <1>1, <2>1 DEF CleanLoad, Idle
    <3> QED
      BY <3>1, <3>2
  <2>3. \A s \in Stores : entries'[s].held \subseteq entries[s].held
    <3>1. Latest(entries[own], e).held \subseteq entries[own].held
      BY <1>2, <1>4, HitIsHeld, KeptLatest DEF StoresKept
    <3> QED
      BY <1>2, <2>1, <3>1 DEF StoresKept
  <2> QED
    BY <2>2, <2>3, HarmlessLoads, HarmlessEntries
<1> QED
  BY <1>3, <1>4

LEMMA SetEntryFresh ==
    ASSUME Fresh, NEW c \in Clients, SetEntry(c)
    PROVE  LoadsClean' /\ EntriesClean'
<1> USE DEF Fresh, Sound
<1> DEFINE own == StoreOf(client[c].repo)
           e == Stored(client[c])
<1>1. /\ client[c].at = "queried" /\ client' = [client EXCEPT ![c] = Idle]
      /\ entries' = [entries EXCEPT ![own] = Put(entries[own], e)]
      /\ UNCHANGED <<committed, txn>>
  BY DEF SetEntry, Set
<1>2. client[c] \in Reads
  BY <1>1, ClientParts
<1>3. own \in Stores /\ e \in Entry
  BY <1>2, StoreOfRepo DEF Reads, Stored, Entry
<1>4. Harmless(c) /\ CleanLoad(c)'
  <2>1. Harmless(c)
    BY <1>1 DEF Harmless, Idle, Typed
  <2>2. client'[c] = Idle
    BY <1>1 DEF Typed
  <2>3. CleanLoad(c)'
    BY <2>2 DEF CleanLoad, Idle
  <2> QED
    BY <2>1, <2>3
<1>5. CleanEntry(e)
  <2> SUFFICES ASSUME client[c].clean PROVE CleanEntry(e)
    BY DEF CleanEntry, Stored
  <2>1. Quiet(client[c].q) /\ client[c].rows = Base(client[c].q)
    BY <1>1 DEF LoadsClean, CleanLoad
  <2>2. \A t \in Tables : DependsOn(client[c].q, t) => txn.wrote[t] = {}
    BY <2>1, QuietTables
  <2> QED
    BY <2>1, <2>2 DEF CleanEntry, Stored
<1>6. \A s \in Stores : \A x \in entries'[s].held : x = e \/ x \in entries[s].held
  <2>1. Put(entries[own], e).held \subseteq entries[own].held \cup {e}
    BY <1>3, KeptPut DEF StoresKept
  <2> QED
    BY <1>1, <1>3, <2>1 DEF StoresKept
<1>7. \A s \in Stores : \A x \in entries'[s].held :
          CleanEntry(x) \/ \E r \in Stores : x \in entries[r].held
  BY <1>5, <1>6
<1> QED
  BY <1>4, <1>7, HarmlessLoads, HarmlessEntries

(* The entries and the loads that a write is about to make stale.          *)
LEMMA WriteFresh ==
    ASSUME Fresh, NEW c \in Clients, NEW repo \in Repos, Write(c, repo)
    PROVE  LoadsClean' /\ EntriesClean'
<1> USE DEF Fresh, Sound
<1> DEFINE t == repo[1]
           r == [at |-> "written", repo |-> repo, w |-> writes + 1]
<1>1. /\ client[c] = Idle /\ UNCHANGED entries
      /\ client' = [Disturbed(t) EXCEPT ![c] = r]
      /\ IsBound(repo) => /\ txn' = [txn EXCEPT !.wrote[t] = @ \cup {writes + 1}]
                          /\ UNCHANGED committed
      /\ ~IsBound(repo) => /\ committed' = [committed EXCEPT ![t] = @ \cup {writes + 1}]
                           /\ UNCHANGED txn
  BY DEF Write
<1>2. t \in Tables
  BY RepoParts
<1>3. \A u \in Tables : u # t => txn'.wrote[u] = txn.wrote[u] /\ committed'[u] = committed[u]
  <2>1. CASE IsBound(repo)
    BY <1>1, <2>1 DEF Typed
  <2>2. CASE ~IsBound(repo)
    BY <1>1, <2>2 DEF Typed
  <2> QED
    BY <2>1, <2>2
<1>4. client'[c] = r /\ \A d \in Clients \ {c} : client'[d] = Disturbed(t)[d]
  BY <1>1 DEF Disturbed
<1>5. LoadsClean'
  <2> SUFFICES ASSUME NEW d \in Clients, d # c, client'[d].at \in {"asked", "queried"},
                      client'[d].clean
               PROVE  CleanLoad(d)'
    BY <1>4 DEF LoadsClean, CleanLoad
  <2>1. client'[d] = client[d] /\ ~DependsOn(client[d].q, t)
    <3>1. CASE client[d].at \in {"asked", "queried"} /\ DependsOn(client[d].q, t)
      <4>1. client[d] \in Reads
        BY <3>1, ClientParts
      <4>2. client'[d] = [client[d] EXCEPT !.clean = FALSE]
        BY <1>4, <3>1 DEF Disturbed
      <4> QED
        BY <4>1, <4>2 DEF Reads
    <3>2. CASE ~(client[d].at \in {"asked", "queried"} /\ DependsOn(client[d].q, t))
      BY <1>4, <3>2 DEF Disturbed
    <3> QED
      BY <3>1, <3>2
  <2> DEFINE q == client[d].q
  <2>2. ~IsBound(client[d].repo) /\ Quiet(q) /\ (client[d].at = "queried" => client[d].rows = Base(q))
    BY <2>1 DEF LoadsClean, CleanLoad
  <2>3. \A u \in Tables : DependsOn(q, u) =>
            txn'.wrote[u] = txn.wrote[u] /\ committed'[u] = committed[u]
    BY <1>3, <2>1
  <2>4. \A x \in Clients : client'[x].at = "written" /\ DependsOn(q, client'[x].repo[1])
            => client'[x] = client[x]
    <3> SUFFICES ASSUME NEW x \in Clients, client'[x].at = "written",
                        DependsOn(q, client'[x].repo[1])
                 PROVE  client'[x] = client[x]
      OBVIOUS
    <3>1. x # c
      BY <1>4, <2>1
    <3>2. client'[x] = Disturbed(t)[x]
      BY <1>4, <3>1
    <3>3. CASE client[x].at \in {"asked", "queried"} /\ DependsOn(client[x].q, t)
      <4>1. client[x] \in Reads
        BY <3>3, ClientParts
      <4>2. client'[x] = [client[x] EXCEPT !.clean = FALSE]
        BY <3>2, <3>3 DEF Disturbed
      <4> QED
        BY <4>1, <4>2 DEF Reads
    <3>4. CASE ~(client[x].at \in {"asked", "queried"} /\ DependsOn(client[x].q, t))
      BY <3>2, <3>4 DEF Disturbed
    <3> QED
      BY <3>3, <3>4
  <2>5. ASSUME NEW p, p = q PROVE Quiet(p)' /\ Base(p)' = Base(p)
    <3>1. \A u \in Tables : DependsOn(p, u) => txn'.wrote[u] \subseteq txn.wrote[u]
      BY <2>3, <2>5
    <3>2. \A x \in Clients : client'[x].at = "written" /\ DependsOn(p, client'[x].repo[1])
              => client'[x] = client[x]
      BY <2>4, <2>5
    <3>3. Quiet(p)
      BY <2>2, <2>5
    <3>4. Quiet(p)'
      BY <3>1, <3>2, <3>3, QuietStays
    <3>5. Base(p)' = Base(p)
      BY <2>3, <2>5, SameRows
    <3> QED
      BY <3>4, <3>5
  <2>6. Quiet(q)' /\ Base(q)' = Base(q)
    <3>1. q' = q
      BY <2>1
    <3>2. Quiet(q)'
      BY <2>5, <3>1 DEF Quiet, Pending, DependsOn
    <3>3. Base(q)' = Base(q)
      BY <2>5, <3>1 DEF Base, RowsOf, DependsOn
    <3> QED
      BY <3>2, <3>3
  <2>7. client'[d].at = "queried" => client'[d].rows = Base(client[d].q)'
    BY <2>1, <2>2, <2>6
  <2>8. ~IsBound(client'[d].repo) /\ Quiet(client[d].q)'
    BY <2>1, <2>2, <2>6
  <2> QED
    BY <2>7, <2>8 DEF CleanLoad, IsBound
<1>6. EntriesClean'
  <2> SUFFICES ASSUME NEW s \in Stores, NEW e \in entries[s].held, e.clean
               PROVE  CleanEntry(e)'
    BY <1>1 DEF EntriesClean, CleanEntry, Stores
  <2>1. CleanEntry(e)
    BY DEF EntriesClean
  <2>2. ASSUME NEW u \in Tables, NEW k \in {"base", "bound"}, BeingWritten(u, k)
        PROVE  BeingWritten(u, k)'
    <3>1. PICK x \in Clients : client[x].at = "written" /\ client[x].repo = <<u, k>>
      BY <2>2 DEF BeingWritten
    <3>2. x # c
      BY <1>1, <3>1 DEF Idle
    <3>3. client'[x] = client[x]
      BY <1>4, <3>1, <3>2 DEF Disturbed
    <3> QED
      BY <3>1, <3>3 DEF BeingWritten
  <2>3. IsBound(repo) => BeingWritten(t, "bound")'
    BY <1>4, RepoParts DEF BeingWritten
  <2>4. ~IsBound(repo) => BeingWritten(t, "base")'
    BY <1>4, RepoParts DEF BeingWritten
  <2>5. \A u \in Tables : DependsOn(e.q, u) /\ txn'.wrote[u] # {} => BeingWritten(u, "bound")'
    BY <1>1, <1>3, <2>1, <2>2, <2>3 DEF CleanEntry
  <2>6. \/ e.rows = Base(e.q)'
        \/ \E u \in Tables : DependsOn(e.q, u) /\ BeingWritten(u, "base")'
    <3>1. CASE ~IsBound(repo) /\ DependsOn(e.q, t)
      BY <1>2, <2>4, <3>1
    <3>2. CASE IsBound(repo) \/ ~DependsOn(e.q, t)
      <4>1. \A u \in Tables : DependsOn(e.q, u) => committed'[u] = committed[u]
        BY <1>1, <1>3, <3>2
      <4>2. Base(e.q)' = Base(e.q)
        BY <4>1, SameRows
      <4> QED
        BY <2>1, <2>2, <4>2 DEF CleanEntry
    <3> QED
      BY <3>1, <3>2
  <2> QED
    BY <2>5, <2>6 DEF CleanEntry, DependsOn
<1> QED
  BY <1>5, <1>6

(* An invalidation reaches one store, and excuses the rest.                *)
LEMMA InvalidateFresh ==
    ASSUME Fresh, NEW c \in Clients, Invalidate(c) \/ InvalidateRejects(c)
    PROVE  LoadsClean' /\ EntriesClean'
<1> USE DEF Fresh, Sound
<1> DEFINE t == client[c].repo[1]
           own == StoreOf(client[c].repo)
<1>1. /\ client[c].at = "written" /\ client' = [client EXCEPT ![c] = Idle]
      /\ UNCHANGED <<committed, txn>>
  BY DEF Invalidate, InvalidateRejects, Set
<1>2. client[c].repo \in Repos /\ t \in Tables
  BY <1>1, WrittenRepo
<1>3. own \in Stores
  BY <1>2, StoreOfRepo
<1>4. client'[c] = Idle /\ \A d \in Clients \ {c} : client'[d] = client[d]
  BY <1>1 DEF Typed
<1>5. LoadsClean'
  <2> SUFFICES ASSUME NEW d \in Clients, d # c PROVE CleanLoad(d)'
    BY <1>4 DEF LoadsClean, CleanLoad, Idle
  <2>1. \A x \in Clients : client'[x].at = "written" => client'[x] = client[x]
    BY <1>4 DEF Idle
  <2>2. CleanLoad(d) /\ client'[d] = client[d]
    BY <1>4 DEF LoadsClean
  <2>3. \A u \in Tables : DependsOn(client[d].q, u) /\ txn.wrote[u] = {}
            => txn'.wrote[u] = {} /\ committed'[u] = committed[u]
    BY <1>1
  <2> QED
    BY <2>1, <2>2, <2>3, LoadStays
<1>6. ASSUME NEW m \in Contents, NEW e \in ExcusedIn(m, t).held, e.clean
      PROVE  e \in m.held /\ ~DependsOn(e.q, t)
  <2>1. m = [held |-> m.held, before |-> m.before]
    BY DEF Contents
  <2>2. ExcusedIn(m, t).held = {ExcusedEntry(x, t) : x \in m.held}
    BY <2>1 DEF ExcusedIn
  <2>3. PICK x \in m.held : e = ExcusedEntry(x, t)
    BY <2>2
  <2>4. x \in Entry
    BY DEF Contents
  <2>5. ~DependsOn(x.q, t)
    BY <1>6, <2>3, <2>4 DEF ExcusedEntry, Entry
  <2> QED
    BY <2>3, <2>5 DEF ExcusedEntry
<1>7. ASSUME NEW s \in Stores, NEW e \in entries'[s].held, e.clean
      PROVE  e \in entries[s].held /\ ~DependsOn(e.q, t)
  <2>1. CASE entries'[s] = Excused(t)[s]
    <3>1. entries'[s] = ExcusedIn(entries[s], t) /\ entries[s] \in Contents
      BY <2>1, ExcusedTypes DEF StoresKept
    <3> QED
      BY <1>6, <1>7, <3>1
  <2>2. CASE entries'[s] # Excused(t)[s]
    <3>1. s = own /\ entries'[s] = Invalidated(entries[s], t)
      BY <1>3, <2>2, ExcusedTypes DEF Invalidate, InvalidateRejects
    <3>2. e \in entries[s].held /\ e.q \notin {q \in Queries : DependsOn(q, t)}
      BY <1>7, <3>1 DEF Invalidated, Less
    <3>3. e.q \in Queries
      BY <3>2 DEF StoresKept, Contents, Entry
    <3> QED
      BY <3>2, <3>3
  <2> QED
    BY <2>1, <2>2
<1>8. EntriesClean'
  <2> SUFFICES ASSUME NEW s \in Stores, NEW e \in entries'[s].held, e.clean
               PROVE  CleanEntry(e)'
    BY DEF EntriesClean, CleanEntry, Stores
  <2>1. CleanEntry(e) /\ ~DependsOn(e.q, t)
    BY <1>7 DEF EntriesClean
  <2>2. ASSUME NEW u \in Tables, NEW k \in {"base", "bound"}, u # t, BeingWritten(u, k)
        PROVE  BeingWritten(u, k)'
    <3>1. PICK x \in Clients : client[x].at = "written" /\ client[x].repo = <<u, k>>
      BY <2>2 DEF BeingWritten
    <3>2. x # c
      BY <2>2, <3>1
    <3> QED
      BY <1>4, <3>1, <3>2 DEF BeingWritten
  <2>3. Base(e.q)' = Base(e.q)
    BY <1>1, SameRows
  <2> QED
    BY <1>1, <2>1, <2>2, <2>3 DEF CleanEntry, DependsOn
<1> QED
  BY <1>5, <1>8

(* A transaction ends when its clients have left it, so that its writes    *)
(* have left no entry clean which they make stale.                         *)
LEMMA TransactionFresh ==
    ASSUME Fresh, WithTransaction \/ Commit \/ Rollback
    PROVE  LoadsClean' /\ EntriesClean'
<1> USE DEF Fresh, Sound
<1>1. UNCHANGED client /\ \A t \in Tables : txn'.wrote[t] = {}
  BY DEF WithTransaction, Commit, Rollback, NoTxn
<1>2. \A s \in Stores : entries'[s].held \subseteq entries[s].held
  BY DEF WithTransaction, Commit, Rollback, NoEntries
<1>3. \A t \in Tables : txn.wrote[t] = {} => committed'[t] = committed[t]
  BY DEF WithTransaction, Commit, Rollback, Typed
<1>4. LoadsClean'
  <2> SUFFICES ASSUME NEW d \in Clients PROVE CleanLoad(d)'
    BY DEF LoadsClean
  <2>1. CleanLoad(d) /\ client'[d] = client[d]
    BY <1>1 DEF LoadsClean
  <2> QED
    BY <1>1, <1>3, <2>1, LoadStays
<1>5. EntriesClean'
  <2> SUFFICES ASSUME NEW s \in Stores, NEW e \in entries[s].held, e.clean
               PROVE  CleanEntry(e)'
    BY <1>2 DEF EntriesClean, CleanEntry, Stores
  <2>1. CleanEntry(e)
    BY DEF EntriesClean
  <2>2. CASE committed' = committed
    BY <1>1, <2>1, <2>2, EntryStays
  <2>3. CASE committed' # committed
    <3>1. Left
      BY <2>3 DEF WithTransaction, Commit, Rollback
    <3>2. ASSUME NEW u \in Tables PROVE ~BeingWritten(u, "bound")
      <4> SUFFICES ASSUME NEW x \in Clients, client[x].at = "written",
                          client[x].repo = <<u, "bound">>
                   PROVE  FALSE
        BY DEF BeingWritten
      <4>1. client[x] # Idle /\ IsBound(client[x].repo)
        BY DEF Idle, IsBound
      <4> QED
        BY <3>1, <4>1 DEF Left
    <3>3. \A u \in Tables : DependsOn(e.q, u) => committed'[u] = committed[u]
      BY <1>3, <2>1, <3>2 DEF CleanEntry
    <3>4. Base(e.q)' = Base(e.q)
      BY <3>3, SameRows
    <3>5. \A u \in Tables : BeingWritten(u, "base") => BeingWritten(u, "base")'
      BY <1>1 DEF BeingWritten
    <3> QED
      BY <1>1, <2>1, <3>4, <3>5 DEF CleanEntry, DependsOn
  <2> QED
    BY <2>2, <2>3
<1> QED
  BY <1>4, <1>5

(* The other steps of a client, and what a store loses by itself.          *)
LEMMA OtherFresh ==
    ASSUME Fresh, NEW c \in Clients,
           \/ \E repo \in Repos, q \in Queries : GetRejects(c, repo, q)
           \/ Answer(c) \/ QueryRejects(c) \/ SetRejects(c)
    PROVE  LoadsClean' /\ EntriesClean'
<1> USE DEF Fresh, Sound
<1>1. UNCHANGED <<entries, committed, txn>>
  BY DEF GetRejects, Answer, QueryRejects, SetRejects
<1>2. /\ client[c].at # "written" /\ client'[c].at # "written"
      /\ \A d \in Clients \ {c} : client'[d] = client[d]
  <2>1. CASE Answer(c)
    <3>1. client[c] \in Reads /\ client[c].at = "asked"
      BY <2>1, ClientParts DEF Answer
    <3> QED
      BY <2>1, <3>1 DEF Answer, Set, Typed, Reads
  <2>2. CASE ~Answer(c)
    BY <2>2 DEF GetRejects, QueryRejects, SetRejects, Set, Idle, Typed
  <2> QED
    BY <2>1, <2>2
<1>3. Harmless(c)
  BY <1>1, <1>2 DEF Harmless
<1>4. CleanLoad(c)'
  <2>1. CASE Answer(c)
    <3>1. client[c] \in Reads /\ client[c].at = "asked"
      BY <2>1, ClientParts DEF Answer
    <3>2. client'[c] = [client[c] EXCEPT !.at = "queried",
                            !.rows = RowsOf(client[c].q, client[c].repo)]
      BY <2>1 DEF Answer, Set, Typed
    <3>3. /\ client'[c].q = client[c].q /\ client'[c].repo = client[c].repo
          /\ client'[c].clean = client[c].clean
          /\ client'[c].rows = RowsOf(client[c].q, client[c].repo)
      BY <3>1, <3>2 DEF Reads
    <3> SUFFICES ASSUME client[c].clean PROVE CleanLoad(c)'
      BY <3>3 DEF CleanLoad
    <3>4. ~IsBound(client[c].repo) /\ Quiet(client[c].q)
      BY <3>1 DEF LoadsClean, CleanLoad
    <3>5. RowsOf(client[c].q, client[c].repo) = Base(client[c].q)
      BY <3>4, UnboundRows
    <3>6. ASSUME NEW q, q = client[c].q PROVE Quiet(q)' /\ Base(q)' = Base(q)
      <4>1. \A t \in Tables : DependsOn(q, t) => txn'.wrote[t] \subseteq txn.wrote[t]
        BY <1>1
      <4>2. \A d \in Clients : client'[d].at = "written" => client'[d] = client[d]
        BY <1>3 DEF Harmless
      <4>3. Quiet(q)'
        BY <3>4, <3>6, <4>1, <4>2, QuietStays
      <4> QED
        BY <1>1, <4>3, SameRows
    <3>7. Quiet(client[c].q)' /\ Base(client[c].q)' = Base(client[c].q)
      <4> DEFINE q == client[c].q
      <4>1. q' = q
        BY <3>3
      <4>2. Quiet(q)'
        BY <3>6, <4>1 DEF Quiet, Pending, DependsOn
      <4>3. Base(q)' = Base(q)
        BY <3>6, <4>1 DEF Base, RowsOf, DependsOn
      <4> QED
        BY <4>2, <4>3
    <3> QED
      BY <3>3, <3>4, <3>5, <3>7 DEF CleanLoad, IsBound
  <2>2. CASE ~Answer(c)
    <3>1. client'[c] = Idle
      BY <2>2 DEF GetRejects, QueryRejects, SetRejects, Set, Typed
    <3> QED
      BY <3>1 DEF CleanLoad, Idle
  <2> QED
    BY <2>1, <2>2
<1> QED
  BY <1>1, <1>3, <1>4, HarmlessLoads, HarmlessEntries

LEMMA ExpireFresh ==
    ASSUME Fresh, NEW s \in Stores, Expire(s)
    PROVE  LoadsClean' /\ EntriesClean'
<1> USE DEF Fresh, Sound
<1>1. UNCHANGED <<client, committed, txn>>
  BY DEF Expire
<1>2. \A r \in Stores : entries'[r].held \subseteq entries[r].held
  <2>1. PICK e \in entries[s].held : entries' = [entries EXCEPT ![s] = Less(entries[s], {e.q})]
    BY DEF Expire
  <2> QED
    BY <2>1 DEF Less, StoresKept
<1>3. LoadsClean'
  <2> SUFFICES ASSUME NEW d \in Clients PROVE CleanLoad(d)'
    BY DEF LoadsClean
  <2>1. CleanLoad(d) /\ client'[d] = client[d]
    BY <1>1 DEF LoadsClean
  <2> QED
    BY <1>1, <2>1, LoadStays
<1>4. EntriesClean'
  <2> SUFFICES ASSUME NEW r \in Stores, NEW e \in entries[r].held PROVE CleanEntry(e)'
    BY <1>2 DEF EntriesClean, Stores
  <2>1. CleanEntry(e)
    BY DEF EntriesClean
  <2> QED
    BY <1>1, <2>1, EntryStays
<1> QED
  BY <1>3, <1>4

LEMMA InitFresh == Init => Fresh
<1> SUFFICES ASSUME Init PROVE LoadsClean /\ EntriesClean
  BY InitSound DEF Fresh
<1> QED
  BY DEF Init, LoadsClean, CleanLoad, Idle, EntriesClean, NoEntries

LEMMA StepFresh ==
    ASSUME Fresh, [Next]_vars
    PROVE  Fresh'
<1>1. Sound'
  BY StepSound DEF Fresh
<1>2. CASE UNCHANGED vars
  <2> USE <1>2 DEF vars, Fresh, Sound
  <2>1. LoadsClean'
    <3> SUFFICES ASSUME NEW d \in Clients PROVE CleanLoad(d)'
      BY DEF LoadsClean
    <3> QED
      BY LoadStays DEF LoadsClean
  <2>2. EntriesClean'
    <3> SUFFICES ASSUME NEW r \in Stores, NEW e \in entries[r].held PROVE CleanEntry(e)'
      BY DEF EntriesClean, Stores
    <3> QED
      BY EntryStays DEF EntriesClean
  <2> QED
    BY <1>1, <2>1, <2>2 DEF Fresh
<1>3. ASSUME NEW c \in Clients, ReadStep(c) PROVE LoadsClean' /\ EntriesClean'
  <2>1. CASE \E repo \in Repos, q \in Queries : ReadCached(c, repo, q)
    BY <1>1, <2>1, ReadFresh
  <2>2. CASE SetEntry(c)
    BY <2>2, SetEntryFresh
  <2> QED
    BY <1>3, <2>1, <2>2, OtherFresh DEF ReadStep
<1>4. ASSUME NEW c \in Clients, WriteStep(c) PROVE LoadsClean' /\ EntriesClean'
  BY <1>4, WriteFresh, InvalidateFresh DEF WriteStep
<1> QED
  BY <1>1, <1>2, <1>3, <1>4, TransactionFresh, ExpireFresh DEF Next, Fresh

(* A read that is served from a store returns what the database holds,     *)
(* unless its entry was loaded while its tables were written or is in a    *)
(* store that the write did not reach: the invalidation that follows every *)
(* write finds each entry that the write made stale.                       *)
THEOREM Freshness == Spec => []FreshUnlessOverlapped
<1>1. Init => Fresh
  BY InitFresh
<1>2. Fresh /\ [Next]_vars => Fresh'
  BY StepFresh
<1> QED
  BY <1>1, <1>2, FreshSuffices, PTL DEF Spec

=============================================================================
