---------------------------- MODULE ResultCache ----------------------------
(***************************************************************************)
(* Cached reads and writes of repositories (cachedRows, invalidateCache    *)
(* and the write methods of packages/orm/src/index.ts), one a table, over  *)
(* memory stores of packages/orm/src/cache, by several clients.  Each may  *)
(* also use the repositories bound to one transaction (withTransaction).   *)
(*                                                                         *)
(* A result is the set of the writes that it reflects.  A client reads in  *)
(* the phases asked (the store had no entry), queried (the database has    *)
(* answered), and writes in the phase written (executed; the invalidation  *)
(* is to follow).                                                          *)
(***************************************************************************)
EXTENDS Naturals, FiniteSets

CONSTANTS
    Clients,
    Queries, Tables,
    Table,       \* Table[q]: the table a query reads
    ExtraTags,   \* ExtraTags[q]: further tables whose writes invalidate it
    MaxEntries,  \* of the memory store
    Shared,      \* the store that repositories were constructed with, if any
    MaxWrites,   \* bound: how many writes
    MaxFaults    \* bound: how often a store call rejects

ASSUME CacheAssumption ==
    /\ Table \in [Queries -> Tables] /\ ExtraTags \in [Queries -> SUBSET Tables]
    /\ MaxEntries \in Nat \ {0}
    /\ Shared \notin Tables \X {"base", "bound"}
    /\ MaxWrites \in Nat /\ MaxFaults \in Nat

Writes == 1 .. MaxWrites
Repos == Tables \X {"base", "bound"}
Stores == Repos \cup {Shared}

(* A store that is created by a repository bears its name.                 *)
NoStore == <<>>

VARIABLES
    client,    \* client[c]: what it does
    committed, \* external: committed[t], the writes to a table
    txn,       \* external: open, and its writes to each table so far
    store,     \* store[r]: #cacheStore of a repository
    entries,   \* entries[s]: what a store holds, and in which order it was used
    writes,    \* how many writes were made
    faults

vars == <<client, committed, txn, store, entries, writes, faults>>

Idle == [at |-> "idle"]

(* clean (history): nothing was being written to the table of an entry     *)
(* while it was loaded.                                                    *)
Reads == [at : {"asked", "queried"}, repo : Repos, q : Queries, rows : SUBSET Writes,
          clean : BOOLEAN]

Written == [at : {"written"}, repo : Repos, w : Writes]

Entry == [q : Queries, rows : SUBSET Writes, clean : BOOLEAN]

(* before: the queries whose entries were used one before the other.       *)
Contents == [held : SUBSET Entry, before : SUBSET (Queries \X Queries)]

NoEntries == [held |-> {}, before |-> {}]

TypeOK ==
    /\ client \in [Clients -> {Idle} \cup Reads \cup Written]
    /\ committed \in [Tables -> SUBSET Writes]
    /\ txn \in [open : BOOLEAN, wrote : [Tables -> SUBSET Writes]]
    /\ store \in [Repos -> {NoStore} \cup Stores]
    /\ entries \in [Stores -> Contents]
    /\ \A s \in Stores : IsFiniteSet(entries[s].held) /\ Cardinality(entries[s].held) <= MaxEntries
    /\ writes \in 0 .. MaxWrites /\ faults \in 0 .. MaxFaults

NoTxn == [open |-> FALSE, wrote |-> [t \in Tables |-> {}]]

Init ==
    /\ client = [c \in Clients |-> Idle]
    /\ committed = [t \in Tables |-> {}]
    /\ txn = NoTxn
    /\ \E configured \in {NoStore, Shared} :
          store = [r \in Repos |-> IF r[2] = "base" THEN configured ELSE NoStore]
    /\ entries = [s \in Stores |-> NoEntries]
    /\ writes = 0 /\ faults = 0

Set(c, r) == client' = [client EXCEPT ![c] = r]

IsBound(r) == r[2] = "bound"

Usable(r) == IsBound(r) => txn.open

-----------------------------------------------------------------------------
(* memoryStore.                                                            *)

Found(m, q) == {e \in m.held : e.q = q}

Less(m, Q) ==
    [held |-> {e \in m.held : e.q \notin Q},
     before |-> {p \in m.before : p[1] \notin Q /\ p[2] \notin Q}]

(* An entry that is stored or hit becomes the most recently used.          *)
Latest(m, e) ==
    LET rest == Less(m, {e.q})
    IN  [held |-> rest.held \cup {e},
         before |-> rest.before \cup {<<f.q, e.q>> : f \in rest.held}]

Oldest(m) == CHOOSE e \in m.held : \A f \in m.held \ {e} : <<e.q, f.q>> \in m.before

Put(m, e) ==
    LET with == Latest(m, e)
    IN  IF Cardinality(with.held) > MaxEntries THEN Less(with, {Oldest(with).q}) ELSE with

DependsOn(q, t) == Table[q] = t \/ t \in ExtraTags[q]

(* Mutant: the tags of the caller are not passed on.                       *)
InvalidatedByTable(m, t) == Less(m, {q \in Queries : Table[q] = t})

Invalidated(m, t) == Less(m, {q \in Queries : DependsOn(q, t)})

Fault == faults < MaxFaults /\ faults' = faults + 1

(* An entry outlives its ttl, or the process that holds it restarts.       *)
Expire(s) ==
    /\ \E e \in entries[s].held : entries' = [entries EXCEPT ![s] = Less(@, {e.q})]
    /\ UNCHANGED <<client, committed, txn, store, writes, faults>>

-----------------------------------------------------------------------------
(* What is being written: executed and not yet invalidated, or not yet     *)
(* committed.                                                              *)
Pending(t) ==
    txn.wrote[t] \cup
        {client[c].w : c \in {d \in Clients : client[d].at = "written" /\ client[d].repo[1] = t}}

Quiet(q) == \A t \in Tables : DependsOn(q, t) => Pending(t) = {}

(* What a client of the transaction sees of a query's tables.              *)
RowsOf(q, repo) ==
    UNION {committed[t] \cup (IF IsBound(repo) THEN txn.wrote[t] ELSE {}) :
           t \in {u \in Tables : DependsOn(q, u)}}

-----------------------------------------------------------------------------
(* cachedRows.                                                             *)

(* The store is created with the first cached read.                        *)
StoreOf(r) == IF store[r] = NoStore THEN r ELSE store[r]

Query(c, repo, q) ==
    Set(c, [at |-> "asked", repo |-> repo, q |-> q, rows |-> {},
            clean |-> ~IsBound(repo) /\ Quiet(q)])

ReadCached(c, repo, q) ==
    LET own == StoreOf(repo)
        found == Found(entries[own], q)
    IN  /\ client[c] = Idle /\ repo[1] = Table[q] /\ Usable(repo)
        /\ store' = [store EXCEPT ![repo] = own]
        /\ IF found = {}
           THEN Query(c, repo, q) /\ UNCHANGED entries
           ELSE /\ entries' = [entries EXCEPT ![own] = Latest(@, CHOOSE e \in found : TRUE)]
                /\ UNCHANGED client
        /\ UNCHANGED <<committed, txn, writes, faults>>

(* get rejects: the read goes to the database, and stores nothing; a       *)
(* shared store may have lost the entry.                                   *)
GetRejects(c, repo, q) ==
    /\ client[c] = Idle /\ repo[1] = Table[q] /\ Usable(repo) /\ Fault
    /\ store' = [store EXCEPT ![repo] = StoreOf(repo)]
    /\ UNCHANGED <<client, committed, txn, entries, writes>>

Answer(c) ==
    /\ client[c].at = "asked"
    /\ Set(c, [client[c] EXCEPT !.at = "queried", !.rows = RowsOf(client[c].q, client[c].repo)])
    /\ UNCHANGED <<committed, txn, store, entries, writes, faults>>

(* The query rejects, or its signal is aborted.                            *)
QueryRejects(c) ==
    /\ client[c].at = "asked"
    /\ Set(c, Idle)
    /\ UNCHANGED <<committed, txn, store, entries, writes, faults>>

Stored(r) == [q |-> r.q, rows |-> r.rows, clean |-> r.clean]

SetEntry(c) ==
    LET r == client[c]
    IN  /\ r.at = "queried"
        /\ entries' = [entries EXCEPT ![StoreOf(r.repo)] = Put(@, Stored(r))]
        /\ Set(c, Idle)
        /\ UNCHANGED <<committed, txn, store, writes, faults>>

SetRejects(c) ==
    /\ client[c].at = "queried" /\ Fault
    /\ Set(c, Idle)
    /\ UNCHANGED <<committed, txn, store, entries, writes>>

-----------------------------------------------------------------------------
(* create, upsert, update and the other write methods.                     *)

(* Loads in flight are no longer clean.                                    *)
Disturbed(t) ==
    [c \in Clients |->
        IF client[c].at \in {"asked", "queried"} /\ DependsOn(client[c].q, t)
        THEN [client[c] EXCEPT !.clean = FALSE] ELSE client[c]]

Write(c, repo) ==
    /\ client[c] = Idle /\ Usable(repo) /\ writes < MaxWrites
    /\ writes' = writes + 1
    /\ client' = [Disturbed(repo[1]) EXCEPT ![c] =
                     [at |-> "written", repo |-> repo, w |-> writes + 1]]
    /\ IF IsBound(repo)
       THEN txn' = [txn EXCEPT !.wrote[repo[1]] = @ \cup {writes + 1}] /\ UNCHANGED committed
       ELSE committed' = [committed EXCEPT ![repo[1]] = @ \cup {writes + 1}] /\ UNCHANGED txn
    /\ UNCHANGED <<store, entries, faults>>

(* The entries of stores that a write does not reach are excused.          *)
Excused(t) ==
    [s \in Stores |-> [entries[s] EXCEPT !.held =
        {IF DependsOn(e.q, t) THEN [e EXCEPT !.clean = FALSE] ELSE e : e \in @}]]

Invalidate(c) ==
    LET r == client[c]
    IN  /\ r.at = "written"
        /\ entries' = [Excused(r.repo[1]) EXCEPT
                           ![StoreOf(r.repo)] = Invalidated(entries[StoreOf(r.repo)], r.repo[1])]
        /\ Set(c, Idle)
        /\ UNCHANGED <<committed, txn, store, writes, faults>>

(* invalidateTags rejects, or the write itself although it was executed.   *)
InvalidateRejects(c) ==
    /\ client[c].at = "written" /\ Fault
    /\ entries' = Excused(client[c].repo[1])
    /\ Set(c, Idle)
    /\ UNCHANGED <<committed, txn, store, writes>>

-----------------------------------------------------------------------------
(* The transaction, which its clients leave before it ends.                *)

(* The store is shared if it exists by now.                                *)
WithTransaction ==
    /\ ~txn.open
    /\ txn' = [NoTxn EXCEPT !.open = TRUE]
    /\ store' = [r \in Repos |-> store[<<r[1], "base">>]]
    /\ entries' = [s \in Stores |-> IF s \in Repos /\ IsBound(s) THEN NoEntries ELSE entries[s]]
    /\ UNCHANGED <<client, committed, writes, faults>>

Left == \A c \in Clients : client[c] # Idle => ~IsBound(client[c].repo)

Commit ==
    /\ txn.open /\ Left
    /\ committed' = [t \in Tables |-> committed[t] \cup txn.wrote[t]]
    /\ txn' = NoTxn
    /\ UNCHANGED <<client, store, entries, writes, faults>>

Rollback ==
    /\ txn.open /\ Left
    /\ txn' = NoTxn
    /\ UNCHANGED <<client, committed, store, entries, writes, faults>>

-----------------------------------------------------------------------------
ReadStep(c) ==
    \/ \E repo \in Repos, q \in Queries : ReadCached(c, repo, q) \/ GetRejects(c, repo, q)
    \/ Answer(c) \/ QueryRejects(c) \/ SetEntry(c) \/ SetRejects(c)

WriteStep(c) ==
    \/ \E repo \in Repos : Write(c, repo)
    \/ Invalidate(c) \/ InvalidateRejects(c)

Next ==
    \/ \E c \in Clients : ReadStep(c) \/ WriteStep(c)
    \/ WithTransaction \/ Commit \/ Rollback
    \/ \E s \in Stores : Expire(s)

Spec == Init /\ [][Next]_vars
=============================================================================
