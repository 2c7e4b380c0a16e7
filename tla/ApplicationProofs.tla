------------------------- MODULE ApplicationProofs -------------------------
(***************************************************************************)
(* Proofs about an application with a jobsExtension, for any number of     *)
(* extensions, modules, workers, schedulers and stores.                    *)
(***************************************************************************)
EXTENDS ApplicationProperties, SequenceTheorems, WellFoundedInduction, TLAPS

-----------------------------------------------------------------------------
(* The jobs extension is an extension: what it does is a step of the       *)
(* application, or changes nothing that the application keeps.             *)

(* What holds of every application holds of one with a jobsExtension.      *)
THEOREM IsAnApplication == JobsSpec => Spec
<1>1. JobsInit => Init
  BY DEF JobsInit
<1>2. [JobsNext]_vars => [Next]_appVars
  <2> SUFFICES ASSUME JobsNext \/ UNCHANGED vars PROVE Next \/ UNCHANGED appVars
    OBVIOUS
  <2>1. CASE UNCHANGED vars
    BY <2>1 DEF vars
  <2>2. CASE \/ AppStep(Call) \/ AppStep(OwnStep)
             \/ \E h \in Handles : AppStep(LoadStep(h))
             \/ \E k \in (1 .. Extensions) \ {Jobs} : AppStep(ExtensionAnswers(k))
    BY <2>2 DEF AppStep, Next
  <2>3. CASE JobsStart \/ JobsStopped \/ StopRefused
    BY <2>3, JobsAssumption DEF JobsStart, JobsStopped, StopRefused, Next, ExtensionAnswers
  <2>4. CASE \/ StopAll \/ StopReturns \/ StopTimesOut \/ GraceElapses
             \/ \E p \in ToSet(Participants) : Down(p)
    BY <2>4 DEF StopAll, StopReturns, StopTimesOut, GraceElapses, Down
  <2> QED
    BY <2>1, <2>2, <2>3, <2>4 DEF JobsNext, JobsStep
<1> QED
  BY <1>1, <1>2, PTL DEF JobsSpec, Spec

-----------------------------------------------------------------------------
(* The life of the application.                                            *)

(* The records and functions of the state, as far as it matters.           *)
LoadShape(e) ==
    /\ e = [status |-> e.status, slice |-> e.slice, pass |-> e.pass, i |-> e.i]
    /\ e.pass \in {"init", "boot"}

Shapes ==
    /\ main = [at |-> main.at, i |-> main.i]
    /\ handle = [h \in Handles |-> handle[h]] /\ \A h \in Handles : LoadShape(handle[h])
    /\ called \in [hook : [Hooks \X Instances -> Nat],
                   start : [1 .. Extensions -> Nat], stop : [1 .. Extensions -> Nat]]

NoneLoads == \A h \in Handles : handle[h].status # "loading"

(* The state in which nothing starts any more.                             *)
Over ==
    /\ shuttingDown /\ NoneLoads
    /\ main.at \in {"loads", "stop", "down", "idle"}
    /\ initPromise # "none" \/ disposal # "none"

Starts == {"init", "boot", "start"}

LifeInv ==
    /\ Shapes
    /\ main.at \in Starts => initPromise # "none"
    /\ main.at = "loads" => shuttingDown /\ (initPromise # "none" \/ disposal # "none")
    /\ disposal # "none" => shuttingDown
    /\ main.at \in {"stop", "down"} => Over
    /\ StopBegun => Over

(* What is counted as a start.                                             *)
Counts ==
    /\ called'.start = called.start /\ ledger' = ledger
    /\ \A hook \in {"init", "boot"}, x \in Instances : Times(hook, x)' = Times(hook, x)

LEMMA LifeInit == Init => LifeInv
<1> SUFFICES ASSUME Init PROVE LifeInv
  OBVIOUS
<1>1. Shapes
  BY DEF Init, Shapes, LoadShape
<1>2. ~StopBegun
  <2>1. /\ called.stop = [k \in 1 .. Extensions |-> 0]
        /\ called.hook = [c \in Hooks \X Instances |-> 0]
    BY DEF Init
  <2>2. ASSUME NEW x \in Instances PROVE Times("down", x) = 0
    <3>1. <<"down", x>> \in Hooks \X Instances
      BY DEF Hooks
    <3> QED
      BY <2>1, <3>1 DEF Times
  <2> QED
    BY <2>1, <2>2 DEF StopBegun
<1> QED
  BY <1>1, <1>2 DEF Init, LifeInv, Starts

-----------------------------------------------------------------------------
(* What each kind of step counts.                                          *)

LEMMA HookCounted ==
    ASSUME Shapes, NEW hook \in Hooks, NEW x, Calls(hook, x)
    PROVE  /\ called' \in [hook : [Hooks \X Instances -> Nat],
                           start : [1 .. Extensions -> Nat], stop : [1 .. Extensions -> Nat]]
           /\ called'.start = called.start /\ called'.stop = called.stop
           /\ \A other \in Hooks \ {hook}, y \in Instances :
                 Times(other, y)' = Times(other, y)
<1> DEFINE H == called.hook
<1> DEFINE K == [H EXCEPT ![<<hook, x>>] = H[<<hook, x>>] + 1]
<1>1. H \in [Hooks \X Instances -> Nat]
  BY DEF Shapes
<1> HIDE DEF H
<1> DEFINE c == <<hook, x>>
<1>2. K \in [Hooks \X Instances -> Nat]
  <2>1. CASE c \in Hooks \X Instances
    <3>1. H[c] \in Nat
      BY <1>1, <2>1
    <3>2. H[c] + 1 \in Nat
      BY <3>1
    <3> QED
      BY <1>1, <3>2
  <2>2. CASE c \notin Hooks \X Instances
    <3>1. K = [d \in Hooks \X Instances |-> H[d]]
      BY <1>1, <2>2, Zenon
    <3>2. [d \in Hooks \X Instances |-> H[d]] \in [Hooks \X Instances -> Nat]
      BY <1>1
    <3> QED
      BY <3>1, <3>2, Zenon
  <2> QED
    BY <2>1, <2>2
<1>3. \A other \in Hooks \ {hook}, y \in Instances : K[<<other, y>>] = H[<<other, y>>]
  BY <1>1
<1> USE DEF H
<1>4. called' = [called EXCEPT !.hook = K]
  BY DEF Calls
<1> HIDE DEF K
<1>5. /\ called'.hook = K /\ called'.start = called.start /\ called'.stop = called.stop
      /\ called' \in [hook : [Hooks \X Instances -> Nat],
                      start : [1 .. Extensions -> Nat], stop : [1 .. Extensions -> Nat]]
  BY <1>2, <1>4 DEF Shapes
<1> QED
  BY <1>3, <1>5 DEF Times

LEMMA StartCounted ==
    ASSUME Shapes, NEW k, CallsStart(k)
    PROVE  /\ called' \in [hook : [Hooks \X Instances -> Nat],
                           start : [1 .. Extensions -> Nat], stop : [1 .. Extensions -> Nat]]
           /\ called'.hook = called.hook /\ called'.stop = called.stop
<1> DEFINE F == called.start
<1> DEFINE K == [F EXCEPT ![k] = F[k] + 1]
<1>0. F \in [1 .. Extensions -> Nat]
  BY DEF Shapes
<1> HIDE DEF F
<1>1. K \in [1 .. Extensions -> Nat]
  <2>1. CASE k \in 1 .. Extensions
    <3>1. F[k] \in Nat
      BY <1>0, <2>1
    <3>2. F[k] + 1 \in Nat
      BY <3>1
    <3> QED
      BY <1>0, <3>2
  <2>2. CASE k \notin 1 .. Extensions
    <3>1. K = [j \in 1 .. Extensions |-> F[j]]
      BY <1>0, <2>2, Zenon
    <3>2. [j \in 1 .. Extensions |-> F[j]] \in [1 .. Extensions -> Nat]
      BY <1>0
    <3> QED
      BY <3>1, <3>2, Zenon
  <2> QED
    BY <2>1, <2>2
<1> USE DEF F
<1>2. called' = [called EXCEPT !.start = K]
  BY DEF CallsStart
<1> HIDE DEF K
<1> QED
  BY <1>1, <1>2 DEF Shapes

LEMMA StopCounted ==
    ASSUME Shapes, NEW k, CallsStop(k)
    PROVE  /\ called' \in [hook : [Hooks \X Instances -> Nat],
                           start : [1 .. Extensions -> Nat], stop : [1 .. Extensions -> Nat]]
           /\ called'.hook = called.hook /\ called'.start = called.start
<1> DEFINE F == called.stop
<1> DEFINE K == [F EXCEPT ![k] = F[k] + 1]
<1>0. F \in [1 .. Extensions -> Nat]
  BY DEF Shapes
<1> HIDE DEF F
<1>1. K \in [1 .. Extensions -> Nat]
  <2>1. CASE k \in 1 .. Extensions
    <3>1. F[k] \in Nat
      BY <1>0, <2>1
    <3>2. F[k] + 1 \in Nat
      BY <3>1
    <3> QED
      BY <1>0, <3>2
  <2>2. CASE k \notin 1 .. Extensions
    <3>1. K = [j \in 1 .. Extensions |-> F[j]]
      BY <1>0, <2>2, Zenon
    <3>2. [j \in 1 .. Extensions |-> F[j]] \in [1 .. Extensions -> Nat]
      BY <1>0
    <3> QED
      BY <3>1, <3>2, Zenon
  <2> QED
    BY <2>1, <2>2
<1> USE DEF F
<1>2. called' = [called EXCEPT !.stop = K]
  BY DEF CallsStop
<1> HIDE DEF K
<1> QED
  BY <1>1, <1>2 DEF Shapes
-----------------------------------------------------------------------------
(* A step keeps the invariant; and once all is over, it stays so, and the  *)
(* step starts nothing.                                                    *)
Sound == LifeInv' /\ (Over => Over' /\ Counts)

CalledShape ==
    called \in [hook : [Hooks \X Instances -> Nat],
                start : [1 .. Extensions -> Nat], stop : [1 .. Extensions -> Nat]]

(* Before anything is over nothing has been stopped.                       *)
LEMMA NoStopCounted ==
    ASSUME ~StopBegun, called'.stop = called.stop,
           \A x \in Instances : Times("down", x)' = Times("down", x)
    PROVE  ~StopBegun'
BY DEF StopBegun

(* The steps of start(): the application is not over, and they stop        *)
(* nothing.                                                                *)
LEMMA StartingSound ==
    ASSUME LifeInv, ~Over, main'.at \in Starts \cup {"idle", "loads"},
           main' = [at |-> main'.at, i |-> main'.i],
           main'.at \in Starts => initPromise' # "none",
           main'.at = "loads" =>
               shuttingDown' /\ (initPromise' # "none" \/ disposal' # "none"),
           disposal' # "none" => shuttingDown',
           UNCHANGED handle, CalledShape', called'.stop = called.stop,
           \A x \in Instances : Times("down", x)' = Times("down", x)
    PROVE  Sound
<1>1. ~StopBegun
  BY DEF LifeInv
<1>2. ~StopBegun'
  BY <1>1, NoStopCounted
<1>3. Shapes'
  BY DEF LifeInv, Shapes, CalledShape
<1> QED
  BY <1>2, <1>3 DEF Sound, LifeInv, Starts

LEMMA HookSound ==
    ASSUME LifeInv, ~Over, NEW hook \in {"init", "boot"}, NEW x, NEW i,
           Calls(hook, x), At(hook, i), initPromise' # "none",
           UNCHANGED <<disposal, shuttingDown, handle>>
    PROVE  Sound
<1>1. CalledShape' /\ called'.stop = called.stop
      /\ \A y \in Instances : Times("down", y)' = Times("down", y)
  BY HookCounted DEF Hooks, LifeInv, CalledShape
<1>2. main' = [at |-> hook, i |-> i] /\ main'.at = hook /\ main'.i = i
  BY DEF At
<1>3. disposal' # "none" => shuttingDown'
  BY DEF LifeInv
<1> QED
  BY <1>1, <1>2, <1>3, StartingSound DEF Starts

LEMMA CallInitSound == ASSUME LifeInv, CallInit PROVE Sound
<1>1. ~Over
  BY DEF CallInit, Over
<1>2. Calls("init", ledger[1]) /\ At("init", 1) /\ initPromise' # "none"
      /\ UNCHANGED <<disposal, shuttingDown, handle>>
  BY DEF CallInit, lazyVars
<1> QED
  BY <1>1, <1>2, HookSound

LEMMA StartNextSound ==
    ASSUME LifeInv, main.at \in Starts, StartNext,
           UNCHANGED <<disposal, shuttingDown, lazyVars>>
    PROVE  Sound
<1>1. ~Over
  BY DEF Over, Starts
<1>2. disposal' # "none" => shuttingDown'
  BY DEF LifeInv
<1>3. CASE entered < Extensions
  <2>1. CallsStart(entered + 1) /\ At("start", entered + 1) /\ initPromise' = initPromise
    BY <1>3 DEF StartNext
  <2>2. CalledShape' /\ called'.stop = called.stop /\ called'.hook = called.hook
    BY <2>1, StartCounted DEF LifeInv, CalledShape
  <2>3. main' = [at |-> "start", i |-> entered + 1]
        /\ main'.at = "start" /\ main'.i = entered + 1
    BY <2>1 DEF At
  <2>4. initPromise' # "none" /\ UNCHANGED handle
    BY <2>1 DEF LifeInv, lazyVars
  <2>5. \A x \in Instances : Times("down", x)' = Times("down", x)
    BY <2>2 DEF Times
  <2> QED
    BY <1>1, <1>2, <2>2, <2>3, <2>4, <2>5, StartingSound DEF Starts
<1>4. CASE ~(entered < Extensions)
  <2>1. UNCHANGED <<called, handle>> /\ At("idle", 0)
    BY <1>4 DEF StartNext, lazyVars
  <2>2. main' = [at |-> "idle", i |-> 0] /\ main'.at = "idle" /\ main'.i = 0
    BY <2>1 DEF At
  <2>3. \A x \in Instances : Times("down", x)' = Times("down", x)
    BY <2>1 DEF Times
  <2>4. CalledShape'
    BY <2>1 DEF LifeInv, Shapes, CalledShape
  <2> QED
    BY <1>1, <1>2, <2>1, <2>2, <2>3, <2>4, StartingSound DEF Starts
<1> QED
  BY <1>3, <1>4

LEMMA HookResolvesSound == ASSUME LifeInv, HookResolves PROVE Sound
<1>1. main.at \in Starts /\ main.at \in {"init", "boot"} /\ ~Over /\ initPromise # "none"
  BY DEF HookResolves, Starts, LifeInv, Over
<1>2. UNCHANGED <<disposal, shuttingDown, lazyVars, handle>>
  BY DEF HookResolves, lazyVars
<1>3. CASE /\ At(main.at, main.i + 1) /\ Calls(main.at, ledger[main.i + 1])
           /\ UNCHANGED initPromise
  BY <1>1, <1>2, <1>3, HookSound
<1>4. CASE At("boot", 1) /\ Calls("boot", ledger[1]) /\ UNCHANGED initPromise
  BY <1>1, <1>2, <1>4, HookSound
<1>5. CASE StartNext
  BY <1>1, <1>2, <1>5, StartNextSound
<1> QED
  BY <1>3, <1>4, <1>5 DEF HookResolves

LEMMA StartFailsSound ==
    ASSUME LifeInv, main.at \in Starts, StartFails
    PROVE  Sound
<1>1. ~Over /\ shuttingDown' /\ initPromise' # "none" /\ UNCHANGED <<handle, called>>
  BY DEF StartFails, Over, Starts, LifeInv, lazyVars
<1>2. main' = [at |-> "loads", i |-> 0] /\ main'.at = "loads" /\ main'.i = 0
  BY DEF StartFails, At
<1>3. \A x \in Instances : Times("down", x)' = Times("down", x)
  BY <1>1 DEF Times
<1>4. CalledShape'
  BY <1>1 DEF LifeInv, Shapes, CalledShape
<1>5. /\ main'.at \in Starts \cup {"idle", "loads"}
      /\ main'.at \in Starts => initPromise' # "none"
      /\ main' = [at |-> main'.at, i |-> main'.i]
      /\ called'.stop = called.stop
  BY <1>1, <1>2 DEF Starts
<1>6. main'.at = "loads" => shuttingDown' /\ (initPromise' # "none" \/ disposal' # "none")
  BY <1>1
<1>7. disposal' # "none" => shuttingDown'
  BY <1>1
<1> QED
  BY <1>1, <1>3, <1>4, <1>5, <1>6, <1>7, StartingSound

-----------------------------------------------------------------------------
(* The loads of lazy modules.                                              *)

LEMMA HandleShape ==
    ASSUME Shapes, NEW h \in Handles, NEW e, LoadShape(e), handle' = [handle EXCEPT ![h] = e]
    PROVE  /\ handle' = [g \in Handles |-> handle'[g]]
           /\ \A g \in Handles : LoadShape(handle'[g])
<1>1. handle = [g \in Handles |-> handle[g]] /\ \A g \in Handles : LoadShape(handle[g])
  BY DEF Shapes
<1>2. handle' = [g \in Handles |-> IF g = h THEN e ELSE handle[g]]
  BY <1>1
<1>3. handle'[h] = e /\ \A g \in Handles \ {h} : handle'[g] = handle[g]
  BY <1>2
<1>4. \A g \in Handles : LoadShape(handle'[g])
  BY <1>1, <1>3
<1>5. handle' = [g \in Handles |-> handle'[g]]
  BY <1>2
<1> QED
  BY <1>4, <1>5

(* A load begins, goes on or ends before anything is over.                 *)
LEMMA LoadingSound ==
    ASSUME LifeInv, ~Over, UNCHANGED mainVars, main.at \notin {"stop", "down"},
           NEW h \in Handles, NEW e, LoadShape(e), handle' = [handle EXCEPT ![h] = e],
           CalledShape', called'.stop = called.stop,
           \A x \in Instances : Times("down", x)' = Times("down", x)
    PROVE  Sound
<1>1. ~StopBegun'
  BY NoStopCounted DEF LifeInv
<1>2. Shapes'
  BY HandleShape DEF LifeInv, Shapes, CalledShape, mainVars
<1> QED
  BY <1>1, <1>2 DEF Sound, LifeInv, mainVars, Starts

(* The same, where a hook of the load is called, or none.                  *)
LEMMA LoadHookSound ==
    ASSUME LifeInv, ~Over, UNCHANGED mainVars, main.at \notin {"stop", "down"},
           NEW h \in Handles, NEW e, LoadShape(e), handle' = [handle EXCEPT ![h] = e],
           \/ UNCHANGED called
           \/ \E hook \in {"init", "boot"} : \E x : Calls(hook, x)
    PROVE  Sound
<1>1. CASE UNCHANGED called
  BY <1>1, LoadingSound DEF LifeInv, Shapes, CalledShape, Times
<1>2. ASSUME NEW hook \in {"init", "boot"}, NEW x, Calls(hook, x) PROVE Sound
  <2>1. CalledShape' /\ called'.stop = called.stop
        /\ \A y \in Instances : Times("down", y)' = Times("down", y)
    BY <1>2, HookCounted DEF Hooks, LifeInv, CalledShape
  <2> QED
    BY <2>1, LoadingSound
<1> QED
  BY <1>1, <1>2

(* What a load may still be, while it is accepted or while it is loading.  *)
LEMMA LoadSound ==
    ASSUME LifeInv, NEW h \in Handles, Load(h) \/ LoadThrows(h)
    PROVE  Sound
<1>1. ~Over /\ main.at \notin {"stop", "down"} /\ UNCHANGED mainVars
  BY DEF LifeInv, Over, Load, LoadThrows
<1>2. LoadShape(handle[h]) /\ handle = [g \in Handles |-> handle[g]]
  BY DEF LifeInv, Shapes
<1>3. ASSUME NEW status, handle' = [handle EXCEPT ![h].status = status], UNCHANGED called
      PROVE  Sound
  <2> DEFINE e == [handle[h] EXCEPT !.status = status]
  <2>1. LoadShape(e)
    BY <1>2 DEF LoadShape
  <2>2. handle' = [handle EXCEPT ![h] = e]
    BY <1>3
  <2> HIDE DEF e
  <2> QED
    BY <1>1, <1>3, <2>1, <2>2, LoadHookSound
<1>4. CASE Load(h)
  <2> DEFINE new == NotYet(h)
             e == [status |-> "loading", slice |-> new, pass |-> "init", i |-> 1]
  <2>1. CASE new = <<>>
    BY <1>3, <1>4, <2>1 DEF Load
  <2>2. CASE new # <<>>
    <3>1. LoadShape(e)
      BY DEF LoadShape
    <3>2. handle' = [handle EXCEPT ![h] = e] /\ Calls("init", new[1])
      BY <1>4, <2>2 DEF Load
    <3> HIDE DEF e
    <3> QED
      BY <1>1, <3>1, <3>2, LoadHookSound
  <2> QED
    BY <2>1, <2>2
<1>5. CASE LoadThrows(h)
  BY <1>3, <1>5 DEF LoadThrows
<1> QED
  BY <1>4, <1>5

LEMMA LoadStepSound ==
    ASSUME LifeInv, NEW h \in Handles, LoadStep(h)
    PROVE  Sound
<1> DEFINE r == handle[h]
<1>1. r.status = "loading" /\ UNCHANGED mainVars
  BY DEF LoadStep, LoadHookResolves, LoadHookRejects
<1>2. ~Over /\ main.at \notin {"stop", "down"}
  BY <1>1 DEF LifeInv, Over, NoneLoads
<1>3. LoadShape(r) /\ handle = [g \in Handles |-> handle[g]]
  BY DEF LifeInv, Shapes
<1>4. ASSUME NEW e, LoadShape(e), handle' = [handle EXCEPT ![h] = e],
             \/ UNCHANGED called
             \/ \E hook \in {"init", "boot"} : \E x : Calls(hook, x)
      PROVE  Sound
  BY <1>1, <1>2, <1>4, LoadHookSound
<1>5. ASSUME NEW status, handle' = [handle EXCEPT ![h].status = status], UNCHANGED called
      PROVE  Sound
  <2>1. LoadShape([r EXCEPT !.status = status])
    BY <1>3 DEF LoadShape
  <2>2. handle' = [handle EXCEPT ![h] = [r EXCEPT !.status = status]]
    BY <1>5
  <2> QED
    BY <1>4, <1>5, <2>1, <2>2
<1>6. ASSUME NEW i, handle' = [handle EXCEPT ![h].i = i],
             Calls(r.pass, r.slice[i])
      PROVE  Sound
  <2>1. LoadShape([r EXCEPT !.i = i])
    BY <1>3 DEF LoadShape
  <2>2. handle' = [handle EXCEPT ![h] = [r EXCEPT !.i = i]]
    BY <1>6
  <2>3. r.pass \in {"init", "boot"}
    BY <1>3 DEF LoadShape
  <2> QED
    BY <1>4, <1>6, <2>1, <2>2, <2>3
<1>7. ASSUME handle' = [handle EXCEPT ![h] = [r EXCEPT !.pass = "boot", !.i = 1]],
             Calls("boot", r.slice[1])
      PROVE  Sound
  <2> DEFINE f == [r EXCEPT !.pass = "boot"]
             e == [r EXCEPT !.pass = "boot", !.i = 1]
  <2>0. LoadShape(f) /\ e = [f EXCEPT !.i = 1]
    BY <1>3 DEF LoadShape
  <2>1. handle' = [handle EXCEPT ![h] = e]
    BY <1>7
  <2> HIDE DEF f, e
  <2>2. LoadShape(e)
    <3>1. LoadShape([f EXCEPT !.i = 1])
      BY <2>0 DEF LoadShape
    <3> QED
      BY <2>0, <3>1
  <2> QED
    BY <1>4, <1>7, <2>1, <2>2
<1>8. CASE LoadHookResolves(h)
  <2> DEFINE last == r.i = Len(r.slice)
  <2>1. r.pass \in {"init", "boot"}
    BY <1>3 DEF LoadShape
  <2>2. CASE ~last
    BY <1>6, <1>8, <2>2 DEF LoadHookResolves
  <2>3. CASE last /\ r.pass = "init"
    BY <1>7, <1>8, <2>3 DEF LoadHookResolves
  <2>4. CASE last /\ r.pass = "boot"
    BY <1>5, <1>8, <2>4 DEF LoadHookResolves
  <2> QED
    BY <2>1, <2>2, <2>3, <2>4
<1>9. CASE LoadHookRejects(h)
  BY <1>5, <1>9 DEF LoadHookRejects
<1> QED
  BY <1>8, <1>9 DEF LoadStep

-----------------------------------------------------------------------------
(* dispose() and the cleanup.                                              *)

(* A step that calls nothing and goes to the loads, or nowhere.            *)
LEMMA DisposeSound ==
    ASSUME LifeInv, CallDispose \/ DisposeGoesOn
    PROVE  Sound
<1>1. UNCHANGED <<called, handle, ledger, initPromise>> /\ shuttingDown' /\ disposal' # "none"
  BY DEF CallDispose, DisposeGoesOn, LifeInv, lazyVars
<1>2. UNCHANGED main \/ main' = [at |-> "loads", i |-> 0]
  BY DEF CallDispose, DisposeGoesOn, At
<1>3. Shapes'
  BY <1>1, <1>2 DEF LifeInv, Shapes
<1>4. StopBegun' <=> StopBegun
  BY <1>1 DEF StopBegun, Times
<1>5. Counts
  BY <1>1 DEF Counts, Times
<1>6. Over => Over'
  BY <1>1, <1>2 DEF Over, NoneLoads
<1>7. main'.at = "loads" \/ main'.at = main.at
  BY <1>2
<1>8. main.at \in Starts => main'.at = "loads" \/ initPromise' # "none"
  BY <1>1 DEF LifeInv
<1>9. main'.at \in {"stop", "down"} => Over'
  BY <1>6, <1>7 DEF LifeInv
<1> QED
  BY <1>1, <1>3, <1>4, <1>5, <1>6, <1>7, <1>8, <1>9 DEF Sound, LifeInv, Starts

(* A step of the cleanup: nothing loads any more, and only onShutdown      *)
(* hooks and stops are called.                                             *)
LEMMA CleanupSound ==
    ASSUME LifeInv, shuttingDown, NoneLoads, initPromise # "none" \/ disposal # "none",
           initPromise' = initPromise \/ initPromise' # "none",
           disposal' = disposal \/ disposal' # "none",
           main'.at \in {"stop", "down", "idle"}, main' = [at |-> main'.at, i |-> main'.i],
           UNCHANGED <<shuttingDown, lazyVars>>,
           CalledShape', called'.start = called.start,
           \A hook \in {"init", "boot"}, x \in Instances : Times(hook, x)' = Times(hook, x)
    PROVE  Sound
<1>1. Shapes'
  BY DEF LifeInv, Shapes, CalledShape, lazyVars
<1>2. Over'
  BY DEF Over, NoneLoads, lazyVars
<1>3. Counts
  BY DEF Counts, lazyVars
<1> QED
  BY <1>1, <1>2, <1>3 DEF Sound, LifeInv, Starts, Over

LEMMA CallsSound ==
    ASSUME LifeInv, shuttingDown, NoneLoads, initPromise # "none" \/ disposal # "none",
           UNCHANGED <<initPromise, disposal, shuttingDown, lazyVars>>,
           \/ \E x, i : At("down", i) /\ Calls("down", x)
           \/ \E k : At("stop", k) /\ CallsStop(k)
    PROVE  Sound
<1>1. ASSUME NEW x, NEW i, At("down", i), Calls("down", x) PROVE Sound
  <2>1. CalledShape' /\ called'.start = called.start
        /\ \A hook \in {"init", "boot"}, y \in Instances : Times(hook, y)' = Times(hook, y)
    BY <1>1, HookCounted DEF Hooks, LifeInv, CalledShape
  <2>2. main' = [at |-> "down", i |-> i] /\ main'.at = "down" /\ main'.i = i
    BY <1>1 DEF At
  <2> QED
    BY <2>1, <2>2, CleanupSound
<1>2. ASSUME NEW k, At("stop", k), CallsStop(k) PROVE Sound
  <2>1. CalledShape' /\ called'.start = called.start /\ called'.hook = called.hook
    BY <1>2, StopCounted DEF LifeInv, CalledShape
  <2>2. \A hook \in {"init", "boot"}, y \in Instances : Times(hook, y)' = Times(hook, y)
    BY <2>1 DEF Times
  <2>3. main' = [at |-> "stop", i |-> k] /\ main'.at = "stop" /\ main'.i = k
    BY <1>2 DEF At
  <2> QED
    BY <2>1, <2>2, <2>3, CleanupSound
<1> QED
  BY <1>1, <1>2

LEMMA LoadsSettleSound == ASSUME LifeInv, LoadsSettle PROVE Sound
<1>1. shuttingDown /\ NoneLoads /\ (initPromise # "none" \/ disposal # "none")
  BY DEF LifeInv, LoadsSettle, NoneLoads
<1>2. /\ UNCHANGED <<initPromise, disposal, shuttingDown, lazyVars>>
      /\ \/ \E x, i : At("down", i) /\ Calls("down", x)
         \/ \E k : At("stop", k) /\ CallsStop(k)
  BY DEF LoadsSettle, ShutdownInstances
<1> QED
  BY <1>1, <1>2, CallsSound

LEMMA StopSettlesSound ==
    ASSUME LifeInv, NEW k, StopSettles(k)
    PROVE  Sound
<1>1. Over
  BY DEF LifeInv, StopSettles
<1>2. shuttingDown /\ NoneLoads /\ (initPromise # "none" \/ disposal # "none")
  BY <1>1 DEF Over
<1>3. /\ UNCHANGED <<initPromise, disposal, shuttingDown, lazyVars>>
      /\ \/ \E x, i : At("down", i) /\ Calls("down", x)
         \/ \E l : At("stop", l) /\ CallsStop(l)
  BY DEF StopSettles, ShutdownInstances
<1> QED
  BY <1>2, <1>3, CallsSound

LEMMA ShutdownSettlesSound == ASSUME LifeInv, ShutdownSettles PROVE Sound
<1>1. Over
  BY DEF LifeInv, ShutdownSettles
<1>2. shuttingDown /\ NoneLoads /\ (initPromise # "none" \/ disposal # "none")
  BY <1>1 DEF Over
<1>3. CASE main.i > 1
  <2>1. /\ UNCHANGED <<initPromise, disposal, shuttingDown, lazyVars>>
        /\ \E x, i : At("down", i) /\ Calls("down", x)
    BY <1>3 DEF ShutdownSettles
  <2> QED
    BY <1>2, <2>1, CallsSound
<1>4. CASE ~(main.i > 1)
  <2>1. At("idle", 0) /\ Settle /\ UNCHANGED <<called, shuttingDown, lazyVars>>
    BY <1>4 DEF ShutdownSettles
  <2>2. main' = [at |-> "idle", i |-> 0] /\ main'.at = "idle" /\ main'.i = 0
    BY <2>1 DEF At
  <2>3. /\ initPromise' = initPromise \/ initPromise' # "none"
        /\ disposal' = disposal \/ disposal' # "none"
    BY <2>1 DEF Settle
  <2>4. CalledShape' /\ called'.start = called.start
        /\ \A hook \in {"init", "boot"}, y \in Instances : Times(hook, y)' = Times(hook, y)
    BY <2>1 DEF LifeInv, Shapes, CalledShape, Times
  <2> QED
    BY <1>2, <2>1, <2>2, <2>3, <2>4, CleanupSound
<1> QED
  BY <1>3, <1>4

LEMMA LifeStep == ASSUME LifeInv, [Next]_appVars PROVE Sound
<1>1. CASE UNCHANGED appVars
  BY <1>1 DEF appVars, mainVars, lazyVars, Sound, LifeInv, Shapes, LoadShape, Over, NoneLoads,
      StopBegun, Times, Counts
<1>2. CASE Call
  BY <1>2, CallInitSound, DisposeSound, LoadSound DEF Call
<1>3. CASE OwnStep
  <2>1. CASE HookRejects
    BY <2>1, StartFailsSound DEF HookRejects, Starts
  <2> QED
    BY <1>3, <2>1, HookResolvesSound, DisposeSound, LoadsSettleSound, ShutdownSettlesSound
    DEF OwnStep
<1>4. ASSUME NEW h \in Handles, LoadStep(h) PROVE Sound
  BY <1>4, LoadStepSound
<1>5. ASSUME NEW k \in 1 .. Extensions, ExtensionAnswers(k) PROVE Sound
  <2>1. CASE StartResolves(k)
    BY <2>1, StartNextSound DEF StartResolves, Starts
  <2>2. CASE StartRejects(k)
    BY <2>2, StartFailsSound DEF StartRejects, Starts
  <2>3. CASE StopSettles(k)
    BY <2>3, StopSettlesSound
  <2> QED
    BY <1>5, <2>1, <2>2, <2>3 DEF ExtensionAnswers
<1> QED
  BY <1>1, <1>2, <1>3, <1>4, <1>5 DEF Next

(* Once something was stopped nothing is started or initialised any more,  *)
(* whichever of init(), dispose() and load() ran into which, for any       *)
(* number of extensions, modules and lazy roots.                           *)
THEOREM NothingStartsAfterStop == JobsSpec => NothingStartsOnceStopping
<1>1. LifeInv /\ [Next]_appVars => LifeInv'
  BY LifeStep DEF Sound
<1>2. Spec => []LifeInv
  BY <1>1, LifeInit, PTL DEF Spec
<1>3. LifeInv /\ [Next]_appVars =>
          [StopBegun => /\ called'.start = called.start /\ ledger' = ledger
                        /\ \A hook \in {"init", "boot"}, x \in Instances :
                              Times(hook, x)' = Times(hook, x)]_vars
  BY LifeStep DEF Sound, Counts, LifeInv
<1> QED
  BY <1>2, <1>3, IsAnApplication, PTL DEF NothingStartsOnceStopping, Spec

-----------------------------------------------------------------------------
(* The participants of the jobs extension, by their place in the order of  *)
(* the stops: those that were started, last first, and the stores.         *)

Users == Len(Starters)

(* The n-th stop, when the first n0 of the starters were started.          *)
StopAt(n0, i) == IF i <= n0 THEN Starters[n0 - i + 1] ELSE Stores[Len(Stores) - (i - n0) + 1]

LEMMA Lists ==
    /\ Starters \in Seq(ToSet(Participants)) /\ Stores \in Seq(ToSet(Participants))
    /\ Users \in Nat /\ Len(Stores) \in Nat
    /\ Len(Workers) \in Nat /\ Len(Schedulers) \in Nat
    /\ Users = Len(Workers) + Len(Schedulers)
    /\ DOMAIN Participants = 1 .. Users + Len(Stores)
    /\ \A i \in 1 .. Users : Participants[i] = Starters[i]
    /\ \A i \in 1 .. Len(Stores) : Participants[Users + i] = Stores[i]
    /\ \A i \in 1 .. Len(Workers) : Starters[i] = Workers[i]
    /\ \A i \in 1 .. Len(Schedulers) : Starters[Len(Workers) + i] = Schedulers[i]
<1> DEFINE S == ToSet(Workers) \cup ToSet(Schedulers) \cup ToSet(Stores)
<1>1. Workers \in Seq(S) /\ Schedulers \in Seq(S) /\ Stores \in Seq(S)
  <2>1. /\ Workers \in Seq(ToSet(Workers)) /\ Schedulers \in Seq(ToSet(Schedulers))
        /\ Stores \in Seq(ToSet(Stores))
    BY JobsAssumption
  <2>2. ToSet(Workers) \subseteq S /\ ToSet(Schedulers) \subseteq S /\ ToSet(Stores) \subseteq S
    OBVIOUS
  <2> QED
    BY <2>1, <2>2, SeqMonotonic
<1> HIDE DEF S
<1>2. /\ Starters \in Seq(S) /\ Len(Starters) = Len(Workers) + Len(Schedulers)
      /\ \A i \in 1 .. Len(Workers) + Len(Schedulers) : Starters[i] =
            IF i <= Len(Workers) THEN Workers[i] ELSE Schedulers[i - Len(Workers)]
  BY <1>1, ConcatProperties DEF Starters
<1>3. Participants = Starters \o Stores
  <2>1. Participants = (Workers \o Schedulers) \o Stores
    BY DEF Participants
  <2> QED
    BY <2>1 DEF Starters
<1>4. /\ Participants \in Seq(S) /\ Len(Participants) = Len(Starters) + Len(Stores)
      /\ \A i \in 1 .. Len(Starters) + Len(Stores) : Participants[i] =
            IF i <= Len(Starters) THEN Starters[i] ELSE Stores[i - Len(Starters)]
  <2> DEFINE Q == Starters \o Stores
  <2>0. Starters \in Seq(S) /\ Stores \in Seq(S)
    BY <1>1, <1>2
  <2>1. /\ Q \in Seq(S) /\ Len(Q) = Len(Starters) + Len(Stores)
        /\ \A i \in 1 .. Len(Starters) + Len(Stores) : Q[i] =
              IF i <= Len(Starters) THEN Starters[i] ELSE Stores[i - Len(Starters)]
    BY <2>0, ConcatProperties
  <2>2. Participants = Q
    BY <1>3
  <2> HIDE DEF Q
  <2> QED
    BY <2>1, <2>2
<1>5. Len(Workers) \in Nat /\ Len(Schedulers) \in Nat /\ Len(Stores) \in Nat
  BY <1>1, LenProperties
<1>6. Users \in Nat /\ Users = Len(Workers) + Len(Schedulers)
  BY <1>2, <1>5 DEF Users
<1>7. DOMAIN Participants = 1 .. Users + Len(Stores)
  BY <1>4, LenProperties DEF Users
<1>8. /\ \A i \in 1 .. Users : Participants[i] = Starters[i]
      /\ \A i \in 1 .. Len(Stores) : Participants[Users + i] = Stores[i]
  BY <1>4, <1>5, <1>6 DEF Users
<1>9. ASSUME NEW i \in 1 .. Len(Workers) PROVE Starters[i] = Workers[i]
  <2>1. i \in 1 .. Len(Workers) + Len(Schedulers) /\ i <= Len(Workers)
    BY <1>5
  <2> QED
    BY <1>2, <2>1
<1>10. ASSUME NEW i \in 1 .. Len(Schedulers)
       PROVE  Starters[Len(Workers) + i] = Schedulers[i]
  <2> DEFINE k == Len(Workers) + i
  <2>1. /\ k \in 1 .. Len(Workers) + Len(Schedulers) /\ ~(k <= Len(Workers))
        /\ k - Len(Workers) = i
    BY <1>5
  <2> HIDE DEF k
  <2>2. Starters[k] = Schedulers[k - Len(Workers)]
    BY <1>2, <2>1
  <2> QED
    BY <2>1, <2>2 DEF k
<1>11. \A i \in DOMAIN Participants : Participants[i] \in ToSet(Participants)
  BY DEF ToSet
<1>12. \A i \in 1 .. Users : Starters[i] \in ToSet(Participants)
  <2>1. \A i \in 1 .. Users : i \in 1 .. Users + Len(Stores)
    BY <1>5, <1>6
  <2> QED
    BY <1>7, <1>8, <1>11, <2>1
<1>13. \A i \in 1 .. Len(Stores) : Stores[i] \in ToSet(Participants)
  <2>1. \A i \in 1 .. Len(Stores) : Users + i \in 1 .. Users + Len(Stores)
    BY <1>5, <1>6
  <2> QED
    BY <1>7, <1>8, <1>11, <2>1
<1>14. Starters \in Seq(ToSet(Participants))
  <2>1. Starters = [i \in 1 .. Users |-> Starters[i]]
    BY <1>2, LenProperties DEF Users
  <2>2. Starters \in [1 .. Users -> ToSet(Participants)]
    BY <1>12, <2>1
  <2> QED
    BY <1>6, <2>2
<1>15. Stores \in Seq(ToSet(Participants))
  <2>1. Stores = [i \in 1 .. Len(Stores) |-> Stores[i]]
    BY <1>1, LenProperties
  <2>2. Stores \in [1 .. Len(Stores) -> ToSet(Participants)]
    BY <1>13, <2>1
  <2> QED
    BY <1>5, <2>2
<1> QED
  BY <1>5, <1>6, <1>7, <1>8, <1>9, <1>10, <1>14, <1>15

LEMMA StopsAre ==
    ASSUME jobs.entered \in 0 .. Users
    PROVE  /\ Len(Stops) = jobs.entered + Len(Stores)
           /\ DOMAIN Stops = 1 .. jobs.entered + Len(Stores)
           /\ \A i \in DOMAIN Stops : Stops[i] = StopAt(jobs.entered, i)
<1> DEFINE n == jobs.entered
           P == ToSet(Participants)
           B == SubSeq(Starters, 1, n)
<1>0. n \in Nat /\ n <= Users
  BY Lists
<1> HIDE DEF n, P
<1>1. /\ B \in Seq(P) /\ Len(B) = n /\ \A i \in 1 .. n : B[i] = Starters[i]
  <2>1. \A i \in 1 .. n : Starters[i] \in P
    BY <1>0, Lists, ElementOfSeq DEF P, Users
  <2>2. /\ B \in Seq(P) /\ Len(B) = IF 1 <= n THEN n - 1 + 1 ELSE 0
        /\ \A i \in 1 .. n - 1 + 1 : B[i] = Starters[1 + i - 1]
    BY <1>0, <2>1, SubSeqProperties
  <2> QED
    BY <1>0, <2>2
<1> HIDE DEF B
<1>2. ASSUME NEW s \in Seq(P)
      PROVE  /\ Reverse(s) \in Seq(P) /\ Len(Reverse(s)) = Len(s)
             /\ \A i \in 1 .. Len(s) : Reverse(s)[i] = s[Len(s) - i + 1]
  <2>1. Len(s) \in Nat /\ \A i \in 1 .. Len(s) : s[i] \in P
    BY ElementOfSeq, LenProperties
  <2>2. \A i \in 1 .. Len(s) : Len(s) - i + 1 \in 1 .. Len(s)
    BY <2>1
  <2>3. Reverse(s) \in [1 .. Len(s) -> P]
    BY <2>1, <2>2 DEF Reverse
  <2>4. \A i \in 1 .. Len(s) : Reverse(s)[i] = s[Len(s) - i + 1]
    BY DEF Reverse
  <2>5. Reverse(s) \in Seq(P) /\ Len(Reverse(s)) = Len(s)
    BY <2>1, <2>3, LenProperties
  <2> QED
    BY <2>4, <2>5
<1>3. /\ Reverse(B) \in Seq(P) /\ Len(Reverse(B)) = n
      /\ \A i \in 1 .. n : Reverse(B)[i] = B[n - i + 1]
  BY <1>1, <1>2
<1>4. /\ Reverse(Stores) \in Seq(P) /\ Len(Reverse(Stores)) = Len(Stores)
      /\ \A i \in 1 .. Len(Stores) : Reverse(Stores)[i] = Stores[Len(Stores) - i + 1]
  BY <1>2, Lists DEF P
<1>5. Stops = Reverse(B) \o Reverse(Stores)
  BY DEF Stops, B, n
<1>6. /\ Stops \in Seq(P) /\ Len(Stops) = n + Len(Stores)
      /\ \A i \in 1 .. n + Len(Stores) : Stops[i] =
            IF i <= n THEN Reverse(B)[i] ELSE Reverse(Stores)[i - n]
  BY <1>3, <1>4, <1>5, ConcatProperties
<1>7. DOMAIN Stops = 1 .. n + Len(Stores)
  BY <1>6, LenProperties
<1>8. ASSUME NEW i \in 1 .. n + Len(Stores) PROVE Stops[i] = StopAt(n, i)
  <2>0. Len(Stores) \in Nat /\ i \in Int
    BY Lists
  <2>1. CASE i <= n
    <3>1. i \in 1 .. n /\ n - i + 1 \in 1 .. n
      BY <1>0, <2>0, <2>1
    <3> QED
      BY <1>1, <1>3, <1>6, <2>1, <3>1 DEF StopAt
  <2>2. CASE ~(i <= n)
    <3>1. i - n \in 1 .. Len(Stores)
      BY <1>0, <2>0, <2>2
    <3> QED
      BY <1>4, <1>6, <2>2, <3>1 DEF StopAt
  <2> QED
    BY <2>1, <2>2
<1> QED
  BY <1>6, <1>7, <1>8 DEF n

(* Two stops are of different participants, and stops of what was started  *)
(* are not of what was not.                                                *)
LEMMA StopsApart ==
    ASSUME NEW n \in 0 .. Users
    PROVE  /\ \A i, j \in 1 .. n + Len(Stores) : StopAt(n, i) = StopAt(n, j) => i = j
           /\ \A i \in 1 .. n + Len(Stores), k \in n + 1 .. Users : StopAt(n, i) # Starters[k]
           /\ \A i \in 1 .. n + Len(Stores) : StopAt(n, i) \in ToSet(Participants)
<1> DEFINE Place(i) == IF i <= n THEN n - i + 1 ELSE Users + (Len(Stores) - (i - n) + 1)
<1>0. n \in Nat /\ Users \in Nat /\ Len(Stores) \in Nat /\ n <= Users
  BY Lists
<1>1. \A i \in 1 .. n + Len(Stores) :
         /\ Place(i) \in DOMAIN Participants /\ StopAt(n, i) = Participants[Place(i)]
         /\ Place(i) \notin n + 1 .. Users
  <2> SUFFICES ASSUME NEW i \in 1 .. n + Len(Stores)
               PROVE  /\ Place(i) \in DOMAIN Participants
                      /\ StopAt(n, i) = Participants[Place(i)]
                      /\ Place(i) \notin n + 1 .. Users
    OBVIOUS
  <2>1. CASE i <= n
    <3>1. n - i + 1 \in 1 .. Users /\ n - i + 1 <= n
      BY <1>0, <2>1
    <3>2. n - i + 1 \in 1 .. Users + Len(Stores)
      BY <1>0, <3>1
    <3> QED
      BY <1>0, <2>1, <3>1, <3>2, Lists DEF StopAt
  <2>2. CASE ~(i <= n)
    <3>1. Len(Stores) - (i - n) + 1 \in 1 .. Len(Stores)
      BY <1>0, <2>2
    <3>2. Users + (Len(Stores) - (i - n) + 1) \in 1 .. Users + Len(Stores)
      BY <1>0, <3>1
    <3>3. Users + (Len(Stores) - (i - n) + 1) \notin n + 1 .. Users
      BY <1>0, <3>1
    <3> QED
      BY <1>0, <2>2, <3>1, <3>2, <3>3, Lists DEF StopAt
  <2> QED
    BY <2>1, <2>2
<1>2. \A a, b \in DOMAIN Participants : Participants[a] = Participants[b] => a = b
  BY JobsAssumption DEF IsInjective
<1>3. \A i, j \in 1 .. n + Len(Stores) : Place(i) = Place(j) => i = j
  BY <1>0
<1>4. \A k \in n + 1 .. Users : k \in DOMAIN Participants /\ Starters[k] = Participants[k]
  BY <1>0, Lists
<1> HIDE DEF Place
<1> QED
  BY <1>1, <1>2, <1>3, <1>4 DEF ToSet

-----------------------------------------------------------------------------
(* The order of the stops.  What was never started is idle; what is still  *)
(* to be stopped is up; and until the deadline what was stopped has        *)
(* settled, but for the one that is awaited.                               *)

Count == jobs.entered + Len(Stores)

Stop(i) == StopAt(jobs.entered, i)

JobsShape ==
    /\ jobs = [started |-> jobs.started, entered |-> jobs.entered, stop |-> jobs.stop,
               failed |-> jobs.failed]
    /\ jobs.entered \in 0 .. Users /\ jobs.stop \in Nat
    /\ part = [p \in ToSet(Participants) |-> part[p]]

StopOrder ==
    /\ \A k \in jobs.entered + 1 .. Users : part[Starters[k]] = "idle"
    /\ \A i \in 1 .. Count : i > jobs.stop => part[Stop(i)] = "up"
    /\ ~late => \A i \in 1 .. Count : i < jobs.stop => part[Stop(i)] \in {"down", "broken"}

JobsInv ==
    /\ JobsShape /\ StopOrder
    /\ ~jobs.started => jobs.entered = 0
    /\ jobs.stop > 0 => Over

LEMMA StartersApart ==
    /\ \A k, l \in 1 .. Users : Starters[k] = Starters[l] => k = l
    /\ \A k \in 1 .. Users, i \in 1 .. Len(Stores) : Starters[k] # Stores[i]
    /\ \A k \in 1 .. Users : Starters[k] \in ToSet(Participants)
    /\ \A i \in 1 .. Len(Stores) :
          Stores[i] \in ToSet(Stores) /\ Stores[i] \in ToSet(Participants)
<1>0. Users \in Nat /\ Len(Stores) \in Nat
  BY Lists
<1>1. \A a, b \in DOMAIN Participants : Participants[a] = Participants[b] => a = b
  BY JobsAssumption DEF IsInjective
<1>2. \A k \in 1 .. Users : k \in DOMAIN Participants /\ Starters[k] = Participants[k]
  BY <1>0, Lists
<1>3. \A i \in 1 .. Len(Stores) :
         Users + i \in DOMAIN Participants /\ Stores[i] = Participants[Users + i]
  BY <1>0, Lists
<1>4. \A i \in 1 .. Len(Stores) : Stores[i] \in ToSet(Stores)
  <2>1. DOMAIN Stores = 1 .. Len(Stores)
    BY Lists, LenProperties
  <2> QED
    BY <2>1 DEF ToSet
<1>5. \A k \in 1 .. Users, i \in 1 .. Len(Stores) : k # Users + i
  BY <1>0
<1>6. \A k \in DOMAIN Participants : Participants[k] \in ToSet(Participants)
  BY DEF ToSet
<1> QED
  BY <1>1, <1>2, <1>3, <1>4, <1>5, <1>6

LEMMA JobsInvInit == JobsInit => JobsInv
<1> SUFFICES ASSUME JobsInit PROVE JobsInv
  OBVIOUS
<1>0. Users \in Nat /\ Len(Stores) \in Nat
  BY Lists
<1>1. /\ jobs.started = FALSE /\ jobs.entered = 0 /\ jobs.stop = 0 /\ jobs.failed = FALSE
      /\ jobs = [started |-> FALSE, entered |-> 0, stop |-> 0, failed |-> FALSE]
  BY DEF JobsInit
<1>2. part = [p \in ToSet(Participants) |-> IF p \in ToSet(Stores) THEN "up" ELSE "idle"]
  BY DEF JobsInit
<1>3. JobsShape
  BY <1>0, <1>1, <1>2 DEF JobsShape
<1>4. ASSUME NEW k \in 1 .. Users PROVE part[Starters[k]] = "idle"
  <2>1. Starters[k] \notin ToSet(Stores)
    <3>1. DOMAIN Stores = 1 .. Len(Stores)
      BY Lists, LenProperties
    <3> QED
      BY <3>1, StartersApart DEF ToSet
  <2> QED
    BY <1>2, <2>1, StartersApart
<1>5. ASSUME NEW i \in 1 .. Len(Stores) PROVE part[StopAt(0, i)] = "up"
  <2>1. Len(Stores) - (i - 0) + 1 \in 1 .. Len(Stores) /\ ~(i <= 0)
    BY <1>0
  <2>2. StopAt(0, i) = Stores[Len(Stores) - (i - 0) + 1]
    BY <2>1 DEF StopAt
  <2> QED
    BY <1>2, <2>1, <2>2, StartersApart
<1>6. jobs.entered + 1 = 1 /\ Count = Len(Stores)
  BY <1>0, <1>1 DEF Count
<1>7. StopOrder
  BY <1>0, <1>1, <1>4, <1>5, <1>6 DEF StopOrder, Stop
<1> QED
  BY <1>1, <1>3, <1>7 DEF JobsInv

NextStop ==
    /\ jobs' = [started |-> jobs'.started, entered |-> jobs'.entered, stop |-> jobs'.stop,
                failed |-> jobs'.failed]
    /\ jobs'.started = jobs.started /\ jobs'.entered = jobs.entered
    /\ jobs'.stop = jobs.stop + 1

(* The next participant is asked, as the last one has settled or the       *)
(* deadline has passed.                                                    *)
LEMMA NextAsked ==
    ASSUME JobsShape, StopOrder, NextStop,
           Ask(jobs.stop + 1), late' = late,
           late \/ jobs.stop \notin 1 .. Count \/ part[Stop(jobs.stop)] \in {"down", "broken"}
    PROVE  /\ JobsShape' /\ StopOrder'
           /\ jobs'.started = jobs.started /\ jobs'.entered = jobs.entered
<1> DEFINE n == jobs.entered
           m == jobs.stop
           P == ToSet(Participants)
<1>0. n \in 0 .. Users /\ m \in Nat /\ Len(Stores) \in Nat /\ Users \in Nat
  BY Lists DEF JobsShape
<1>1. /\ jobs'.started = jobs.started /\ jobs'.entered = n /\ jobs'.stop = m + 1
      /\ jobs' = [started |-> jobs'.started, entered |-> jobs'.entered,
                  stop |-> jobs'.stop, failed |-> jobs'.failed]
  BY DEF NextStop
<1>2. DOMAIN Stops = 1 .. Count /\ \A i \in 1 .. Count : Stops[i] = Stop(i)
  BY <1>0, StopsAre DEF Count, Stop
<1>3. /\ \A i, j \in 1 .. Count : Stop(i) = Stop(j) => i = j
      /\ \A i \in 1 .. Count, k \in n + 1 .. Users : Stop(i) # Starters[k]
      /\ \A i \in 1 .. Count : Stop(i) \in P
  BY <1>0, StopsApart DEF Count, Stop
<1>4. Count' = Count /\ \A i : Stop(i)' = Stop(i)
  BY <1>1 DEF Count, Stop
<1>5. Count \in Nat
  BY <1>0 DEF Count
<1>6. /\ part' = [p \in P |-> part'[p]]
      /\ \A p \in P : part'[p] = part[p] \/ (m + 1 \in 1 .. Count /\ p = Stop(m + 1))
  <2>1. part = [p \in P |-> part[p]]
    BY DEF JobsShape
  <2>2. CASE m + 1 \in 1 .. Count
    <3>1. part' = [part EXCEPT ![Stop(m + 1)] = "asked"]
      BY <1>2, <2>2 DEF Ask
    <3> QED
      BY <1>3, <2>1, <2>2, <3>1
  <2>3. CASE m + 1 \notin 1 .. Count
    BY <1>2, <2>1, <2>3 DEF Ask
  <2> QED
    BY <2>2, <2>3
<1> HIDE DEF n, m, P
<1>7. JobsShape'
  <2>1. m + 1 \in Nat
    BY <1>0
  <2> QED
    BY <1>0, <1>1, <1>6, <2>1 DEF JobsShape, P
<1>8. ASSUME NEW k \in n + 1 .. Users PROVE part'[Starters[k]] = "idle"
  <2>1. part[Starters[k]] = "idle"
    BY DEF StopOrder, n
  <2>2. Starters[k] \in P
    BY <1>0, StartersApart DEF P
  <2> QED
    BY <1>3, <1>6, <2>1, <2>2
<1>9. ASSUME NEW i \in 1 .. Count, i > m + 1 PROVE part'[Stop(i)] = "up"
  <2>1. i > m /\ i # m + 1
    BY <1>0, <1>9
  <2>2. part[Stop(i)] = "up"
    BY <2>1 DEF StopOrder, m
  <2> QED
    BY <1>3, <1>6, <2>1, <2>2
<1>10. ASSUME ~late, NEW i \in 1 .. Count, i < m + 1
       PROVE  part'[Stop(i)] \in {"down", "broken"}
  <2>1. i # m + 1 /\ (i < m \/ i = m)
    BY <1>0, <1>10
  <2>2. part[Stop(i)] \in {"down", "broken"}
    BY <1>10, <2>1 DEF StopOrder, m
  <2> QED
    BY <1>3, <1>6, <2>1, <2>2
<1>11. StopOrder'
  BY <1>1, <1>4, <1>8, <1>9, <1>10 DEF StopOrder, n, m
<1> QED
  BY <1>1, <1>7, <1>11 DEF n

(* The start: those before the one that throws are up.                     *)
LEMMA StartAllOrder ==
    ASSUME JobsShape, StopOrder, jobs.stop = 0, jobs.entered = 0,
           NEW n \in 0 .. Users, StartAll(n), late' = late
    PROVE  JobsShape' /\ StopOrder' /\ jobs'.started /\ jobs'.stop = 0
<1> DEFINE P == ToSet(Participants)
<1>0. Users \in Nat /\ Len(Stores) \in Nat
  BY Lists
<1>1. /\ jobs'.started = TRUE /\ jobs'.entered = n /\ jobs'.stop = 0
      /\ jobs' = [started |-> jobs'.started, entered |-> jobs'.entered,
                  stop |-> jobs'.stop, failed |-> jobs'.failed]
  BY DEF StartAll, JobsShape
<1>2. part' = [p \in P |-> IF \E i \in 1 .. n : Starters[i] = p THEN "up" ELSE part[p]]
  <2>1. DOMAIN part = P
    BY DEF JobsShape
  <2> QED
    BY <2>1 DEF StartAll
<1>3. JobsShape'
  BY <1>1, <1>2 DEF JobsShape
<1>4. ASSUME NEW k \in n + 1 .. Users PROVE part'[Starters[k]] = "idle"
  <2>1. k \in 1 .. Users /\ k \in 0 + 1 .. Users /\ \A i \in 1 .. n : i \in 1 .. Users /\ i # k
    BY <1>0
  <2>2. part[Starters[k]] = "idle"
    BY <2>1 DEF StopOrder
  <2>3. ~ \E i \in 1 .. n : Starters[i] = Starters[k]
    BY <2>1, StartersApart
  <2>4. Starters[k] \in P
    BY <2>1, StartersApart
  <2> QED
    BY <1>2, <2>2, <2>3, <2>4
<1>5. ASSUME NEW i \in 1 .. n + Len(Stores) PROVE part'[StopAt(n, i)] = "up"
  <2>0. StopAt(n, i) \in P
    BY StopsApart
  <2>1. CASE i <= n
    <3>1. n - i + 1 \in 1 .. n /\ StopAt(n, i) = Starters[n - i + 1]
      BY <1>0, <2>1 DEF StopAt
    <3> QED
      BY <1>2, <2>0, <3>1
  <2>2. CASE ~(i <= n)
    <3> DEFINE q == Len(Stores) - (i - n) + 1
    <3>1. q \in 1 .. Len(Stores) /\ StopAt(n, i) = Stores[q]
      BY <1>0, <2>2 DEF StopAt
    <3> DEFINE l == Len(Stores) - q + 1
    <3>2. l \in 1 .. Len(Stores) /\ l > 0 /\ ~(l <= 0) /\ Len(Stores) - (l - 0) + 1 = q
      BY <1>0, <3>1
    <3> HIDE DEF q, l
    <3>3. StopAt(0, l) = Stores[q]
      BY <3>2 DEF StopAt
    <3>4. Count = Len(Stores)
      BY <1>0 DEF Count
    <3>5. part[Stores[q]] = "up"
      BY <3>2, <3>3, <3>4 DEF StopOrder, Stop
    <3> QED
      BY <1>2, <2>0, <3>1, <3>5
  <2> QED
    BY <2>1, <2>2
<1>6. Count' = n + Len(Stores) /\ \A i : Stop(i)' = StopAt(n, i)
  BY <1>1 DEF Count, Stop
<1>7. ASSUME NEW i \in 1 .. Count' PROVE ~(i < 0)
  BY <1>0, <1>6
<1>8. StopOrder'
  BY <1>1, <1>4, <1>5, <1>6, <1>7 DEF StopOrder
<1> QED
  BY <1>1, <1>3, <1>8

LEMMA DownOrder ==
    ASSUME JobsShape, StopOrder, NEW p \in ToSet(Participants), Down(p)
    PROVE  JobsShape' /\ StopOrder' /\ jobs' = jobs
<1> DEFINE P == ToSet(Participants)
<1>1. PICK outcome \in {"down", "broken"} : part' = [part EXCEPT ![p] = outcome]
  BY DEF Down
<1>2. part[p] = "asked" /\ jobs' = jobs /\ late' = late
  BY DEF Down
<1>3. part = [q \in P |-> part[q]]
  BY DEF JobsShape
<1>4. /\ part' = [q \in P |-> part'[q]]
      /\ part'[p] = outcome /\ \A q \in P \ {p} : part'[q] = part[q]
  BY <1>1, <1>3
<1>5. \A q \in P : part[q] # "asked" => part'[q] = part[q]
  BY <1>2, <1>4
<1>6. \A q \in P : part[q] \in {"down", "broken"} => part'[q] \in {"down", "broken"}
  BY <1>4
<1>7. Count' = Count /\ \A i : Stop(i)' = Stop(i)
  BY <1>2 DEF Count, Stop
<1>8. \A i \in 1 .. Count : Stop(i) \in P
  BY StopsApart DEF JobsShape, Count, Stop
<1>9. \A k \in jobs.entered + 1 .. Users : Starters[k] \in P
  <2>1. \A k \in jobs.entered + 1 .. Users : k \in 1 .. Users
    BY Lists DEF JobsShape
  <2> QED
    BY <2>1, StartersApart
<1>10. JobsShape'
  BY <1>2, <1>4 DEF JobsShape
<1> HIDE DEF P
<1>11. StopOrder'
  BY <1>2, <1>5, <1>6, <1>7, <1>8, <1>9 DEF StopOrder
<1> QED
  BY <1>2, <1>10, <1>11

LEMMA JobsInvStep ==
    ASSUME LifeInv, JobsInv, [JobsNext]_vars, [Next]_appVars
    PROVE  JobsInv'
<1>1. Over => Over'
  BY LifeStep DEF Sound
<1>2. ASSUME UNCHANGED jobsVars, late' = late \/ late' PROVE JobsInv'
  <2>1. jobs' = jobs /\ part' = part
    BY <1>2 DEF jobsVars
  <2>2. Count' = Count /\ \A i : Stop(i)' = Stop(i)
    BY <2>1 DEF Count, Stop
  <2> QED
    BY <1>1, <1>2, <2>1, <2>2 DEF JobsInv, JobsShape, StopOrder
<1>3. CASE JobsStart
  <2>1. PICK n \in 0 .. Users : StartAll(n) /\ late' = late
    <3>1. Len(Starters) \in 0 .. Users /\ DOMAIN Starters \subseteq 0 .. Users
      <4>1. DOMAIN Starters = 1 .. Users /\ Users \in Nat
        BY Lists, LenProperties DEF Users
      <4> QED
        BY <4>1 DEF Users
    <3> QED
      BY <1>3, <3>1 DEF JobsStart
  <2>2. main.at = "start"
    BY <1>3 DEF JobsStart, StartResolves, StartRejects
  <2>3. ~Over
    BY <2>2 DEF Over
  <2>4. jobs.stop = 0 /\ jobs.entered = 0
    BY <2>1, <2>3 DEF JobsInv, JobsShape, StartAll
  <2>5. JobsShape' /\ StopOrder' /\ jobs'.started /\ jobs'.stop = 0
    BY <2>1, <2>4, StartAllOrder DEF JobsInv
  <2> QED
    BY <2>5 DEF JobsInv
<1>4. ASSUME NextStop, Ask(jobs.stop + 1), late' = late, Over,
             \/ late \/ jobs.stop \notin 1 .. Count
             \/ part[Stop(jobs.stop)] \in {"down", "broken"}
      PROVE  JobsInv'
  <2>1. /\ JobsShape' /\ StopOrder'
        /\ jobs'.started = jobs.started /\ jobs'.entered = jobs.entered
    BY <1>4, NextAsked DEF JobsInv
  <2> QED
    BY <1>1, <1>4, <2>1 DEF JobsInv
<1>5. DOMAIN Stops = 1 .. Count /\ \A i \in 1 .. Count : Stops[i] = Stop(i)
  BY StopsAre DEF JobsInv, JobsShape, Count, Stop
<1>6. Count \in Nat
  BY Lists DEF Count, JobsInv, JobsShape
<1>7. CASE StopAll
  <2>1. jobs.stop = 0 /\ main.at = "stop" /\ late' = late /\ jobs' = [jobs EXCEPT !.stop = 1]
        /\ Ask(1)
    BY <1>7 DEF StopAll
  <2>2. Over /\ 0 \notin 1 .. Count
    BY <1>6, <2>1 DEF LifeInv
  <2>3. NextStop
    BY <2>1 DEF NextStop, JobsInv, JobsShape
  <2>4. jobs.stop + 1 = 1 /\ jobs.stop \notin 1 .. Count
    BY <2>1, <2>2
  <2>5. Ask(jobs.stop + 1)
    BY <2>1, <2>4
  <2> QED
    BY <1>4, <2>1, <2>2, <2>3, <2>4, <2>5
<1>8. CASE StopReturns \/ StopTimesOut
  <2>1. jobs.stop \in 1 .. Count /\ Ask(jobs.stop + 1) /\ late' = late
    BY <1>5, <1>8 DEF StopReturns, StopTimesOut
  <2>2. late \/ part[Stop(jobs.stop)] \in {"down", "broken"}
    BY <1>5, <1>8, <2>1 DEF StopReturns, StopTimesOut
  <2>3. Over
    BY <1>6, <2>1 DEF JobsInv
  <2>4. NextStop
    BY <1>8 DEF StopReturns, StopTimesOut, NextStop, JobsInv, JobsShape
  <2> QED
    BY <1>4, <2>1, <2>2, <2>3, <2>4
<1>9. ASSUME NEW p \in ToSet(Participants), Down(p) PROVE JobsInv'
  BY <1>1, <1>9, DownOrder DEF JobsInv
<1>10. CASE JobsStopped \/ GraceElapses \/ UNCHANGED vars
  BY <1>2, <1>10 DEF JobsStopped, GraceElapses, jobsVars, vars
<1>11. CASE \/ AppStep(Call) \/ AppStep(OwnStep)
            \/ \E h \in Handles : AppStep(LoadStep(h))
            \/ \E k \in (1 .. Extensions) \ {Jobs} : AppStep(ExtensionAnswers(k))
  BY <1>2, <1>11 DEF AppStep
<1>12. CASE StopRefused
  <2>1. /\ part' = part /\ late' = late /\ jobs.stop = 0
        /\ jobs' = [started |-> jobs.started, entered |-> jobs.entered, stop |-> jobs.stop,
                    failed |-> TRUE]
    BY <1>12 DEF StopRefused, JobsInv, JobsShape
  <2>2. /\ jobs'.started = jobs.started /\ jobs'.entered = jobs.entered
        /\ jobs'.stop = jobs.stop /\ jobs'.failed
    BY <2>1
  <2>3. Count' = Count /\ \A i : Stop(i)' = Stop(i)
    BY <2>2 DEF Count, Stop
  <2> QED
    BY <1>1, <2>1, <2>2, <2>3 DEF JobsInv, JobsShape, StopOrder
<1> QED
  BY <1>3, <1>7, <1>8, <1>9, <1>10, <1>11, <1>12 DEF JobsNext, JobsStep

(* Where a participant that was asked stands in the order.                 *)
LEMMA AskedAt ==
    ASSUME JobsShape, StopOrder, NEW k \in 1 .. Users,
           part[Starters[k]] \notin {"idle", "up"}
    PROVE  k <= jobs.entered /\ jobs.entered - k + 1 <= jobs.stop
<1> DEFINE n == jobs.entered
<1>0. n \in Nat /\ n <= Users /\ Users \in Nat /\ Len(Stores) \in Nat /\ jobs.stop \in Nat
  BY Lists DEF JobsShape
<1>1. k <= n
  <2>1. k \notin n + 1 .. Users
    BY DEF StopOrder
  <2> QED
    BY <1>0, <2>1
<1>2. /\ n - k + 1 \in 1 .. Count /\ n - k + 1 <= n /\ n - (n - k + 1) + 1 = k
  BY <1>0, <1>1 DEF Count
<1>3. Stop(n - k + 1) = Starters[k]
  BY <1>2 DEF Stop, StopAt
<1>4. ~(n - k + 1 > jobs.stop)
  BY <1>2, <1>3 DEF StopOrder
<1> QED
  BY <1>0, <1>1, <1>4

(* A starter behind it in the order has settled, or was never started.     *)
LEMMA SettledBefore ==
    ASSUME JobsShape, StopOrder, ~late, NEW k \in 1 .. Users,
           k <= jobs.entered => jobs.entered - k + 1 < jobs.stop
    PROVE  part[Starters[k]] \in {"idle", "down", "broken"}
<1> DEFINE n == jobs.entered
<1>0. n \in Nat /\ n <= Users /\ Users \in Nat /\ Len(Stores) \in Nat /\ jobs.stop \in Nat
  BY Lists DEF JobsShape
<1>1. CASE k <= n
  <2>1. /\ n - k + 1 \in 1 .. Count /\ n - k + 1 <= n /\ n - (n - k + 1) + 1 = k
    BY <1>0, <1>1 DEF Count
  <2>2. Stop(n - k + 1) = Starters[k]
    BY <2>1 DEF Stop, StopAt
  <2> QED
    BY <1>1, <2>1, <2>2 DEF StopOrder
<1>2. CASE ~(k <= n)
  <2>1. k \in n + 1 .. Users
    BY <1>0, <1>2
  <2> QED
    BY <2>1 DEF StopOrder
<1> QED
  BY <1>1, <1>2

LEMMA OrderImplies == JobsShape /\ StopOrder => UsersStopFirst
<1> SUFFICES ASSUME JobsShape, StopOrder, ~late PROVE
        /\ (\E w \in ToSet(Workers) : part[w] \in {"asked", "down", "broken"}) =>
               \A s \in ToSet(Schedulers) : part[s] \in {"idle", "down", "broken"}
        /\ (\E s \in ToSet(Stores) : part[s] # "up") =>
               \A p \in ToSet(Starters) : part[p] \in {"idle", "down", "broken"}
  BY DEF UsersStopFirst
<1> DEFINE n == jobs.entered
<1>0. /\ n \in Nat /\ n <= Users /\ Users \in Nat /\ Len(Stores) \in Nat /\ jobs.stop \in Nat
      /\ Len(Workers) \in Nat /\ Len(Schedulers) \in Nat
      /\ Users = Len(Workers) + Len(Schedulers)
  BY Lists DEF JobsShape
<1>1. ASSUME NEW w \in ToSet(Workers), part[w] \in {"asked", "down", "broken"},
             NEW s \in ToSet(Schedulers)
      PROVE  part[s] \in {"idle", "down", "broken"}
  <2>1. PICK k \in 1 .. Len(Workers) : w = Starters[k]
    <3>1. DOMAIN Workers = 1 .. Len(Workers)
      BY JobsAssumption, LenProperties
    <3>2. \A i \in 1 .. Len(Workers) : Starters[i] = Workers[i]
      BY Lists
    <3> QED
      BY <3>1, <3>2 DEF ToSet
  <2>2. PICK l \in 1 .. Len(Schedulers) : s = Schedulers[l]
    <3>1. DOMAIN Schedulers = 1 .. Len(Schedulers)
      BY JobsAssumption, LenProperties
    <3> QED
      BY <3>1 DEF ToSet
  <2>3. k \in 1 .. Users /\ Len(Workers) + l \in 1 .. Users /\ k < Len(Workers) + l
    BY <1>0
  <2>4. k <= n /\ n - k + 1 <= jobs.stop
    BY <1>1, <2>1, <2>3, AskedAt
  <2>5. n - (Len(Workers) + l) + 1 < jobs.stop
    BY <1>0, <2>3, <2>4
  <2>6. s = Starters[Len(Workers) + l]
    BY <2>2, Lists
  <2> QED
    BY <2>3, <2>5, <2>6, SettledBefore
<1>2. ASSUME NEW s \in ToSet(Stores), part[s] # "up", NEW p \in ToSet(Starters)
      PROVE  part[p] \in {"idle", "down", "broken"}
  <2>1. PICK l \in 1 .. Len(Stores) : s = Stores[l]
    <3>1. DOMAIN Stores = 1 .. Len(Stores)
      BY Lists, LenProperties
    <3> QED
      BY <3>1 DEF ToSet
  <2>2. PICK k \in 1 .. Users : p = Starters[k]
    <3>1. DOMAIN Starters = 1 .. Users
      BY Lists, LenProperties DEF Users
    <3> QED
      BY <3>1 DEF ToSet
  <2> DEFINE i == n + Len(Stores) - l + 1
  <2>3. i \in 1 .. Count /\ ~(i <= n) /\ Len(Stores) - (i - n) + 1 = l
    BY <1>0 DEF Count
  <2>4. Stop(i) = Stores[l]
    BY <2>3 DEF Stop, StopAt
  <2>5. ~(i > jobs.stop)
    BY <1>2, <2>1, <2>3, <2>4 DEF StopOrder
  <2>6. i \in Int /\ i > n
    BY <1>0
  <2> HIDE DEF i
  <2>7. jobs.stop > n
    BY <1>0, <2>5, <2>6
  <2>8. n - k + 1 < jobs.stop
    BY <1>0, <2>7
  <2> QED
    BY <2>2, <2>8, SettledBefore
<1> QED
  BY <1>1, <1>2

(* Until the deadline a worker is stopped after every scheduler, and a     *)
(* store closes after all that use it, for any number of them, whatever    *)
(* was started and whatever their shutdowns answer.                        *)
THEOREM UsersFirst == JobsSpec => []UsersStopFirst
<1>1. JobsInit => JobsInv
  BY JobsInvInit
<1>2. LifeInv /\ [Next]_appVars => LifeInv'
  BY LifeStep DEF Sound
<1>3. LifeInv /\ JobsInv /\ [JobsNext]_vars /\ [Next]_appVars => JobsInv'
  BY JobsInvStep
<1>4. JobsInv => UsersStopFirst
  BY OrderImplies DEF JobsInv
<1> QED
  BY <1>1, <1>2, <1>3, <1>4, LifeInit, IsAnApplication, PTL DEF JobsSpec, Spec

-----------------------------------------------------------------------------
(* What a load constructs: what its order names and nothing has            *)
(* constructed before, each once.  The recursion is followed up by         *)
(* excluding a first place where it would fail.                            *)

LEMMA LeastOf ==
    ASSUME NEW T \in SUBSET Nat, T # {}
    PROVE  \E n \in T : \A m \in T : n <= m
<1> DEFINE R == OpToRel(<, Nat)
<1>1. IsWellFoundedOn(R, Nat)
  BY NatLessThanWellFounded
<1>2. PICK n \in T : \A m \in T : <<m, n>> \notin R
  <2> HIDE DEF R
  <2> QED
    BY <1>1, WFMin
<1>3. \A m \in T : ~(m < n)
  BY <1>2 DEF OpToRel
<1> QED
  BY <1>3

(* One step of the recursion of Without.                                   *)
Take(order, done, taken, n) ==
    IF n = 0 THEN <<>>
    ELSE IF order[n] \in done THEN taken[n - 1]
    ELSE Append(taken[n - 1], order[n])

LEMMA TakenExists ==
    ASSUME NEW order, NEW done, NEW N \in Nat
    PROVE  \E f : f = [n \in 0 .. N |-> Take(order, done, f, n)]
<1> DEFINE Defined(m) == \E f : f = [n \in 0 .. m |-> Take(order, done, f, n)]
           T == {m \in Nat : ~Defined(m)}
<1> SUFFICES ASSUME T # {} PROVE FALSE
  OBVIOUS
<1>1. PICK m \in T : \A k \in T : m <= k
  <2> HIDE DEF T
  <2>1. T \in SUBSET Nat
    BY DEF T
  <2> QED
    BY <2>1, LeastOf
<1>2. m \in Nat /\ ~Defined(m)
  OBVIOUS
<1>3. CASE m = 0
  <2> DEFINE f == [n \in {0} |-> <<>>]
  <2>1. 0 .. 0 = {0}
    OBVIOUS
  <2>2. f = [n \in 0 .. 0 |-> Take(order, done, f, n)]
    <3>1. \A n \in {0} : Take(order, done, f, n) = <<>>
      BY DEF Take
    <3> QED
      BY <2>1, <3>1
  <2> QED
    BY <1>2, <1>3, <2>2
<1>4. CASE m # 0
  <2>1. m - 1 \in Nat /\ Defined(m - 1)
    <3>1. m - 1 \in Nat /\ ~(m <= m - 1)
      BY <1>2, <1>4
    <3>2. m - 1 \notin T
      BY <1>1, <3>1
    <3> QED
      BY <3>1, <3>2
  <2>2. PICK f : f = [n \in 0 .. m - 1 |-> Take(order, done, f, n)]
    BY <2>1
  <2> DEFINE g == [n \in 0 .. m |-> IF n = m THEN Take(order, done, f, m) ELSE f[n]]
  <2>3. \A n \in 0 .. m - 1 : g[n] = f[n]
    BY <1>2
  <2>4. ASSUME NEW n \in 0 .. m PROVE g[n] = Take(order, done, g, n)
    <3>1. CASE n = 0
      <4>1. 0 \in 0 .. m - 1 /\ f[0] = Take(order, done, f, 0) /\ g[0] = f[0]
        BY <1>2, <1>4, <2>2, <2>3
      <4> HIDE DEF g
      <4> QED
        BY <3>1, <4>1 DEF Take
    <3>2. CASE n # 0
      <4>1. n - 1 \in 0 .. m - 1 /\ g[n - 1] = f[n - 1]
        BY <1>2, <2>3, <3>2
      <4>2. g[n] = Take(order, done, f, n)
        <5>1. CASE n = m
          BY <5>1
        <5>2. CASE n # m
          <6>1. n \in 0 .. m - 1
            BY <1>2, <5>2
          <6> QED
            BY <2>2, <2>3, <6>1, Zenon
        <5> QED
          BY <5>1, <5>2
      <4> HIDE DEF g
      <4> QED
        BY <4>1, <4>2 DEF Take
    <3> QED
      BY <3>1, <3>2
  <2>5. g = [n \in 0 .. m |-> Take(order, done, g, n)]
    <3>1. g = [n \in 0 .. m |-> g[n]]
      OBVIOUS
    <3> HIDE DEF g
    <3> QED
      BY <2>4, <3>1
  <2> HIDE DEF g
  <2> QED
    BY <1>2, <2>5
<1> QED
  BY <1>3, <1>4

LEMMA WithoutIs ==
    ASSUME NEW S, NEW order \in Seq(S), IsInjective(order), NEW done
    PROVE  /\ Without(order, done) \in Seq(S) /\ IsInjective(Without(order, done))
           /\ \A i \in DOMAIN Without(order, done) : Without(order, done)[i] \notin done
<1> DEFINE N == Len(order)
           f == CHOOSE g : g = [n \in 0 .. N |-> Take(order, done, g, n)]
<1>1. N \in Nat /\ DOMAIN order = 1 .. N /\ \A n \in 1 .. N : order[n] \in S
  BY LenProperties, ElementOfSeq
<1>2. Without(order, done) = f[N]
  BY DEF Without, Take
<1>3. \A n \in 0 .. N : f[n] = Take(order, done, f, n)
  <2>1. \E g : g = [n \in 0 .. N |-> Take(order, done, g, n)]
    BY <1>1, TakenExists
  <2>2. f = [n \in 0 .. N |-> Take(order, done, f, n)]
    BY <2>1, Zenon
  <2> HIDE DEF f
  <2> QED
    BY <2>2
<1> HIDE DEF f, N
<1> DEFINE From(n) ==
        /\ f[n] \in Seq(S) /\ IsInjective(f[n])
        /\ \A i \in DOMAIN f[n] : f[n][i] \notin done /\ \E k \in 1 .. n : f[n][i] = order[k]
    T == {n \in 0 .. N : ~From(n)}
<1>4. T = {}
  <2> SUFFICES ASSUME T # {} PROVE FALSE
    OBVIOUS
  <2>1. PICK n \in T : \A k \in T : n <= k
    <3>1. T \in SUBSET Nat
      BY <1>1
    <3> HIDE DEF T
    <3> QED
      BY <3>1, LeastOf
  <2>2. n \in 0 .. N /\ ~From(n) /\ f[n] = Take(order, done, f, n)
    BY <1>3
  <2>3. CASE n = 0
    <3>1. f[n] = <<>>
      BY <2>2, <2>3 DEF Take
    <3>2. <<>> \in Seq(S) /\ DOMAIN <<>> = {}
      OBVIOUS
    <3> HIDE DEF T
    <3> QED
      BY <2>2, <3>1, <3>2 DEF IsInjective
  <2>4. CASE n # 0
    <3>1. n \in 1 .. N /\ n - 1 \in 0 .. N /\ ~(n <= n - 1)
      BY <1>1, <2>2, <2>4
    <3>2. From(n - 1)
      BY <2>1, <3>1
    <3>3. \A k \in 1 .. n - 1 : k \in 1 .. n /\ k \in 1 .. N /\ k # n
      BY <1>1, <3>1
    <3>4. CASE order[n] \in done
      <4>1. f[n] = f[n - 1]
        BY <2>2, <2>4, <3>4 DEF Take
      <4> QED
        BY <2>2, <3>2, <3>3, <4>1
    <3>5. CASE order[n] \notin done
      <4> DEFINE t == f[n - 1]
      <4>1. f[n] = Append(t, order[n])
        BY <2>2, <2>4, <3>5 DEF Take
      <4>2. t \in Seq(S) /\ order[n] \in S
        BY <1>1, <3>1, <3>2
      <4>3. /\ Append(t, order[n]) \in Seq(S)
            /\ Len(t) \in Nat /\ DOMAIN t = 1 .. Len(t)
            /\ DOMAIN Append(t, order[n]) = 1 .. Len(t) + 1
            /\ Append(t, order[n])[Len(t) + 1] = order[n]
            /\ \A i \in 1 .. Len(t) : Append(t, order[n])[i] = t[i]
        <5> HIDE DEF t
        <5> QED
          BY <4>2
      <4>4. \A i \in DOMAIN t : /\ t[i] \notin done /\ t[i] # order[n]
                                /\ \E k \in 1 .. n : t[i] = order[k]
        BY <1>1, <3>1, <3>2, <3>3 DEF IsInjective
      <4>5. IsInjective(t)
        BY <3>2
      <4> HIDE DEF t
      <4>6. \A i \in 1 .. Len(t) + 1 : i \in 1 .. Len(t) \/ i = Len(t) + 1
        BY <4>3
      <4>7. IsInjective(f[n])
        BY <4>1, <4>3, <4>4, <4>5, <4>6 DEF IsInjective
      <4>8. \A i \in DOMAIN f[n] : f[n][i] \notin done /\ \E k \in 1 .. n : f[n][i] = order[k]
        BY <3>1, <3>5, <4>1, <4>3, <4>4, <4>6
      <4> QED
        BY <2>2, <4>1, <4>3, <4>7, <4>8
    <3> QED
      BY <3>4, <3>5
  <2> QED
    BY <2>3, <2>4
<1>5. From(N)
  <2>1. N \in 0 .. N
    BY <1>1
  <2> QED
    BY <1>4, <2>1
<1> QED
  BY <1>2, <1>5

-----------------------------------------------------------------------------
(* How far the application has come.                                       *)

(* Each instance is recorded once, and no load constructs it again.        *)
Recorded ==
    /\ ledger \in Seq(Instances) /\ ledger # <<>> /\ IsInjective(ledger)
    /\ \A i \in DOMAIN ledger : ledger[i] \in instantiated


DownNone == \A x \in Instances : Times("down", x) = 0

StartedUpTo(n) == \A k \in 1 .. Extensions : called.start[k] = IF k <= n THEN 1 ELSE 0

(* The extensions from k to the last that was entered were stopped.        *)
StoppedFrom(k) ==
    \A l \in 1 .. Extensions : called.stop[l] = IF k <= l /\ l <= entered THEN 1 ELSE 0

AllStopped ==
    \A k \in 1 .. Extensions : called.stop[k] = called.start[k] /\ called.start[k] < 2

DownFrom(n) ==
    \A j \in DOMAIN ledger : Times("down", ledger[j]) = IF j < n THEN 0 ELSE 1

(* Who runs the cleanup: init() that failed, or dispose().                 *)
Modes ==
    /\ main.at \in Starts => state = "starting" /\ initPromise = "pending"
    /\ main.at \in {"loads", "stop", "down"} =>
          \/ state = "starting" /\ initPromise = "pending"
          \/ state = "stopping" /\ disposal = "cleaning"
    /\ state = "stopped" => disposal = "done"
    /\ state = "failed-cleaned" => initPromise = "rejected"

Untouched ==
    StartedUpTo(entered) /\ (\A k \in 1 .. Extensions : called.stop[k] = 0) /\ DownNone

Stopping ==
    main.i \in 1 .. entered /\ StartedUpTo(entered) /\ StoppedFrom(main.i) /\ DownNone

Shutting == main.i \in DOMAIN ledger /\ AllStopped /\ DownFrom(main.i)

Tidy ==
    /\ Recorded /\ Modes /\ entered \in 0 .. Extensions
    /\ main.at \notin {"stop", "down"} /\ ~Cleaned => Untouched
    /\ main.at = "stop" => Stopping
    /\ main.at = "down" => Shutting
    /\ Cleaned => shuttingDown /\ AllStopped /\ DownFrom(1)

LEMMA LedgerIs ==
    ASSUME Recorded
    PROVE  /\ Len(ledger) \in Nat /\ Len(ledger) > 0 /\ DOMAIN ledger = 1 .. Len(ledger)
           /\ \A i \in DOMAIN ledger : ledger[i] \in Instances
           /\ Last(ledger) = ledger[Len(ledger)]
<1>1. /\ Len(ledger) \in Nat /\ DOMAIN ledger = 1 .. Len(ledger)
      /\ \A i \in 1 .. Len(ledger) : ledger[i] \in Instances
  BY LenProperties, ElementOfSeq DEF Recorded
<1>2. Len(ledger) # 0
  BY EmptySeq DEF Recorded
<1> QED
  BY <1>1, <1>2 DEF Last

LEMMA WiresAre ==
    ASSUME NEW h \in Handles
    PROVE  Wires[h] \in Seq(Instances)
<1>1. Wires[h] \in Seq(ToSet(Wires[h])) /\ ToSet(Wires[h]) \subseteq Instances
  BY ApplicationAssumption DEF Instances
<1> QED
  BY <1>1, SeqMonotonic

LEMMA TidyInit == Init => Tidy
<1> SUFFICES ASSUME Init PROVE Tidy
  OBVIOUS
<1>1. ledger = Eager /\ instantiated = ToSet(Eager)
  BY DEF Init
<1>2. Recorded
  <2>1. Eager \in Seq(ToSet(Eager)) /\ ToSet(Eager) \subseteq Instances
    BY ApplicationAssumption DEF Instances
  <2>2. Eager \in Seq(Instances)
    BY <2>1, SeqMonotonic
  <2>3. \A i \in DOMAIN Eager : Eager[i] \in ToSet(Eager)
    BY DEF ToSet
  <2> QED
    BY <1>1, <2>2, <2>3, ApplicationAssumption DEF Recorded
<1>3. entered = 0 /\ state = "created" /\ main = [at |-> "idle", i |-> 0] /\ main.at = "idle"
  BY DEF Init
<1>4. Untouched
  <2>1. /\ called.hook = [c \in Hooks \X Instances |-> 0]
        /\ called.start = [k \in 1 .. Extensions |-> 0]
        /\ called.stop = [k \in 1 .. Extensions |-> 0]
    BY DEF Init
  <2>2. \A x \in Instances : <<"down", x>> \in Hooks \X Instances
    BY DEF Hooks
  <2>3. \A k \in 1 .. Extensions : ~(k <= 0)
    OBVIOUS
  <2> QED
    BY <1>3, <2>1, <2>2, <2>3 DEF Untouched, StartedUpTo, DownNone, Times
<1>5. entered \in 0 .. Extensions
  BY <1>3, ApplicationAssumption
<1> QED
  BY <1>2, <1>3, <1>4, <1>5 DEF Tidy, Modes, Starts, Cleaned

-----------------------------------------------------------------------------
(* What each kind of step counts, where it counts it.                      *)

LEMMA DownCounted ==
    ASSUME Shapes, NEW x \in Instances, Calls("down", x)
    PROVE  /\ called'.start = called.start /\ called'.stop = called.stop
           /\ \A y \in Instances :
                 Times("down", y)' = IF y = x THEN Times("down", y) + 1 ELSE Times("down", y)
<1> DEFINE H == called.hook
           K == [H EXCEPT ![<<"down", x>>] = H[<<"down", x>>] + 1]
<1>1. H \in [Hooks \X Instances -> Nat]
  BY DEF Shapes
<1>2. called' = [called EXCEPT !.hook = K]
  BY DEF Calls
<1>3. called'.hook = K /\ called'.start = called.start /\ called'.stop = called.stop
  <2> HIDE DEF K, H
  <2> QED
    BY <1>2 DEF Shapes
<1>4. \A y \in Instances : <<"down", y>> \in Hooks \X Instances
  BY DEF Hooks
<1>5. \A y \in Instances :
         K[<<"down", y>>] = IF y = x THEN H[<<"down", y>>] + 1 ELSE H[<<"down", y>>]
  <2> HIDE DEF H
  <2> QED
    BY <1>1, <1>4
<1> QED
  BY <1>3, <1>5 DEF Times

LEMMA EntryCounted ==
    ASSUME Shapes, NEW k \in 1 .. Extensions
    PROVE  /\ CallsStart(k) =>
                 /\ called'.hook = called.hook /\ called'.stop = called.stop
                 /\ \A l \in 1 .. Extensions :
                       called'.start[l] = IF l = k THEN called.start[l] + 1 ELSE called.start[l]
           /\ CallsStop(k) =>
                 /\ called'.hook = called.hook /\ called'.start = called.start
                 /\ \A l \in 1 .. Extensions :
                       called'.stop[l] = IF l = k THEN called.stop[l] + 1 ELSE called.stop[l]
<1>1. called.start \in [1 .. Extensions -> Nat] /\ called.stop \in [1 .. Extensions -> Nat]
  BY DEF Shapes
<1>2. ASSUME CallsStart(k)
      PROVE  /\ called'.hook = called.hook /\ called'.stop = called.stop
             /\ \A l \in 1 .. Extensions :
                   called'.start[l] = IF l = k THEN called.start[l] + 1 ELSE called.start[l]
  <2> DEFINE K == [called.start EXCEPT ![k] = called.start[k] + 1]
  <2>1. called' = [called EXCEPT !.start = K]
    BY <1>2 DEF CallsStart
  <2>2. \A l \in 1 .. Extensions : K[l] = IF l = k THEN called.start[l] + 1 ELSE called.start[l]
    BY <1>1
  <2> HIDE DEF K
  <2>3. called'.start = K /\ called'.hook = called.hook /\ called'.stop = called.stop
    BY <2>1 DEF Shapes
  <2> QED
    BY <2>2, <2>3
<1>3. ASSUME CallsStop(k)
      PROVE  /\ called'.hook = called.hook /\ called'.start = called.start
             /\ \A l \in 1 .. Extensions :
                   called'.stop[l] = IF l = k THEN called.stop[l] + 1 ELSE called.stop[l]
  <2> DEFINE K == [called.stop EXCEPT ![k] = called.stop[k] + 1]
  <2>1. called' = [called EXCEPT !.stop = K]
    BY <1>3 DEF CallsStop
  <2>2. \A l \in 1 .. Extensions : K[l] = IF l = k THEN called.stop[l] + 1 ELSE called.stop[l]
    BY <1>1
  <2> HIDE DEF K
  <2>3. called'.stop = K /\ called'.hook = called.hook /\ called'.start = called.start
    BY <2>1 DEF Shapes
  <2> QED
    BY <2>2, <2>3
<1> QED
  BY <1>2, <1>3

-----------------------------------------------------------------------------
(* A step keeps the invariant; an onShutdown hook it calls has its turn;   *)
(* and it stops an extension, and leaves one that is stopping, as told.    *)
TornDown ==
    \A x \in Instances : Times("down", x)' # Times("down", x) =>
        /\ \A k \in 1 .. Extensions : called.stop[k] = called.start[k]
        /\ NoneLoads
        /\ \A i, j \in DOMAIN ledger :
              ledger[i] = x /\ i < j => Times("down", ledger[j]) = 1

StopsInTurn ==
    /\ \A k \in 1 .. Extensions :
          called'.stop[k] = called.stop[k] \/ main' = [at |-> "stop", i |-> k]
    /\ main.at = "stop" => main' = main \/ StopSettles(main.i)

Tidied == Tidy' /\ TornDown /\ StopsInTurn

SameDown == \A x \in Instances : Times("down", x)' = Times("down", x)

LEMMA NotOver ==
    ASSUME LifeInv, Tidy, ~Over
    PROVE  main.at \notin {"stop", "down"} /\ ~Cleaned /\ Untouched
<1>1. main.at \notin {"stop", "down"}
  BY DEF LifeInv
<1>2. ~Cleaned
  <2> SUFFICES ASSUME Cleaned PROVE FALSE
    OBVIOUS
  <2>1. 1 \in DOMAIN ledger /\ ledger[1] \in Instances
    BY LedgerIs DEF Tidy
  <2>2. Times("down", ledger[1]) = 1
    BY <2>1 DEF Tidy, DownFrom
  <2> QED
    BY <2>1, <2>2 DEF LifeInv, StopBegun
<1> QED
  BY <1>1, <1>2 DEF Tidy

(* A step of start(), or of a load, before anything is torn down.          *)
LEMMA EarlyTidy ==
    ASSUME Tidy, main.at \notin {"stop", "down"}, ~Cleaned,
           main'.at \notin {"stop", "down"}, ~Cleaned', Modes', Recorded',
           entered' \in 0 .. Extensions, StartedUpTo(entered)',
           called'.stop = called.stop, SameDown
    PROVE  Tidied
<1>1. Untouched
  BY DEF Tidy
<1>2. Untouched'
  BY <1>1 DEF Untouched, DownNone, SameDown
<1> QED
  BY <1>2 DEF Tidied, Tidy, TornDown, StopsInTurn, SameDown

(* A step that moves nothing on.                                           *)
LEMMA SameTidy ==
    ASSUME Tidy, UNCHANGED <<main, state, entered, ledger, instantiated, called>>,
           shuttingDown => shuttingDown', Modes'
    PROVE  Tidied
<1>1. Recorded' /\ (Cleaned' <=> Cleaned) /\ SameDown
  BY DEF Tidy, Recorded, Cleaned, SameDown, Times
<1>2. /\ Untouched => Untouched'
      /\ Stopping => Stopping'
      /\ Shutting => Shutting'
      /\ AllStopped => AllStopped'
      /\ DownFrom(1) => DownFrom(1)'
  BY DEF Untouched, Stopping, Shutting, AllStopped, DownFrom, DownNone, StartedUpTo, StoppedFrom,
     Times
<1> QED
  BY <1>1, <1>2 DEF Tidied, Tidy, TornDown, StopsInTurn, SameDown

LEMMA HookTidy ==
    ASSUME LifeInv, NEW hook \in {"init", "boot"}, NEW x, Calls(hook, x)
    PROVE  called'.start = called.start /\ called'.stop = called.stop /\ SameDown
  BY HookCounted DEF LifeInv, Hooks, SameDown

LEMMA CallInitTidy == ASSUME LifeInv, Tidy, CallInit PROVE Tidied
<1>1. ~Over
  BY DEF CallInit, Over
<1>2. /\ called'.start = called.start /\ called'.stop = called.stop /\ SameDown
      /\ UNCHANGED <<entered, lazyVars>> /\ state' = "starting" /\ initPromise' = "pending"
  BY HookTidy DEF CallInit
<1>3. main' = [at |-> "init", i |-> 1] /\ main'.at = "init"
  BY DEF CallInit, At
<1>4. Modes' /\ ~Cleaned' /\ Recorded' /\ entered' \in 0 .. Extensions
  BY <1>2, <1>3 DEF Modes, Starts, Cleaned, Tidy, Recorded, lazyVars
<1>5. StartedUpTo(entered)'
  BY <1>1, <1>2, NotOver DEF StartedUpTo, Untouched
<1> QED
  BY <1>1, <1>2, <1>3, <1>4, <1>5, NotOver, EarlyTidy

LEMMA StartNextTidy ==
    ASSUME LifeInv, Tidy, main.at \in Starts, StartNext,
           UNCHANGED <<disposal, shuttingDown, lazyVars>>
    PROVE  Tidied
<1>1. ~Over /\ state = "starting" /\ initPromise = "pending"
  BY DEF Over, Starts, Tidy, Modes
<1>2. Recorded' /\ entered \in 0 .. Extensions /\ Extensions \in Nat
  BY ApplicationAssumption DEF Tidy, Recorded, lazyVars
<1>3. Untouched /\ main.at \notin {"stop", "down"} /\ ~Cleaned
  BY <1>1, NotOver
<1>4. CASE entered < Extensions
  <2>1. /\ entered' = entered + 1 /\ main' = [at |-> "start", i |-> entered + 1]
        /\ CallsStart(entered + 1) /\ UNCHANGED <<state, initPromise>>
    BY <1>4 DEF StartNext, At
  <2>2. entered + 1 \in 1 .. Extensions /\ entered' \in 0 .. Extensions
    BY <1>2, <1>4, <2>1
  <2>3. /\ called'.hook = called.hook /\ called'.stop = called.stop
        /\ \A l \in 1 .. Extensions : called'.start[l]
              = IF l = entered + 1 THEN called.start[l] + 1 ELSE called.start[l]
    BY <2>1, <2>2, EntryCounted DEF LifeInv
  <2>4. StartedUpTo(entered)'
    <3>1. ASSUME NEW l \in 1 .. Extensions
          PROVE  called'.start[l] = IF l <= entered + 1 THEN 1 ELSE 0
      <4>1. called.start[l] = IF l <= entered THEN 1 ELSE 0
        BY <1>3 DEF Untouched, StartedUpTo
      <4> QED
        BY <1>2, <2>3, <4>1
    <3> QED
      BY <2>1, <3>1 DEF StartedUpTo
  <2>5. SameDown
    BY <2>3 DEF SameDown, Times
  <2>6. Modes' /\ ~Cleaned' /\ main'.at = "start"
    BY <1>1, <2>1 DEF Modes, Starts, Cleaned
  <2> QED
    BY <1>2, <1>3, <2>2, <2>3, <2>4, <2>5, <2>6, EarlyTidy
<1>5. CASE ~(entered < Extensions)
  <2>1. /\ state' = "running" /\ initPromise' = "resolved" /\ main' = [at |-> "idle", i |-> 0]
        /\ UNCHANGED <<entered, called>>
    BY <1>5 DEF StartNext, At
  <2>2. Modes' /\ ~Cleaned' /\ main'.at = "idle"
    BY <2>1 DEF Modes, Starts, Cleaned
  <2>3. SameDown /\ StartedUpTo(entered)' /\ called'.stop = called.stop
        /\ entered' \in 0 .. Extensions
    BY <1>2, <1>3, <2>1 DEF SameDown, Times, StartedUpTo, Untouched
  <2> QED
    BY <1>2, <1>3, <2>2, <2>3, EarlyTidy
<1> QED
  BY <1>4, <1>5

LEMMA HookResolvesTidy == ASSUME LifeInv, Tidy, HookResolves PROVE Tidied
<1>1. main.at \in Starts /\ main.at \in {"init", "boot"} /\ ~Over
      /\ state = "starting" /\ initPromise = "pending"
  BY DEF HookResolves, Starts, Over, Tidy, Modes
<1>2. UNCHANGED <<disposal, shuttingDown, lazyVars>>
  BY DEF HookResolves
<1>3. ASSUME NEW hook \in {"init", "boot"}, NEW i, NEW x, At(hook, i), Calls(hook, x),
             UNCHANGED <<state, entered, initPromise>>
      PROVE  Tidied
  <2>1. main' = [at |-> hook, i |-> i] /\ main'.at = hook
    BY <1>3 DEF At
  <2>2. called'.start = called.start /\ called'.stop = called.stop /\ SameDown
    BY <1>3, HookTidy
  <2>3. Modes' /\ ~Cleaned' /\ Recorded' /\ entered' \in 0 .. Extensions
    BY <1>1, <1>2, <1>3, <2>1 DEF Modes, Starts, Cleaned, Tidy, Recorded, lazyVars
  <2>4. Untouched /\ main.at \notin {"stop", "down"} /\ ~Cleaned
    BY <1>1, NotOver
  <2>5. StartedUpTo(entered)'
    BY <1>3, <2>2, <2>4 DEF StartedUpTo, Untouched
  <2> QED
    BY <2>1, <2>2, <2>3, <2>4, <2>5, EarlyTidy
<1>4. CASE StartNext
  BY <1>1, <1>2, <1>4, StartNextTidy
<1> QED
  BY <1>1, <1>3, <1>4 DEF HookResolves

LEMMA StartFailsTidy ==
    ASSUME LifeInv, Tidy, main.at \in Starts, StartFails
    PROVE  Tidied
<1>1. ~Over /\ state = "starting" /\ initPromise = "pending"
  BY DEF Over, Starts, Tidy, Modes
<1>2. Untouched /\ main.at \notin {"stop", "down"} /\ ~Cleaned
  BY <1>1, NotOver
<1>3. main' = [at |-> "loads", i |-> 0] /\ main'.at = "loads"
      /\ UNCHANGED <<state, entered, initPromise, disposal, lazyVars, called>>
  BY DEF StartFails, At
<1>4. Modes' /\ ~Cleaned' /\ Recorded' /\ entered' \in 0 .. Extensions
  BY <1>1, <1>3 DEF Modes, Starts, Cleaned, Tidy, Recorded, lazyVars
<1>5. SameDown /\ StartedUpTo(entered)' /\ called'.stop = called.stop
  BY <1>2, <1>3 DEF SameDown, Times, StartedUpTo, Untouched
<1> QED
  BY <1>2, <1>3, <1>4, <1>5, EarlyTidy

(* A load records what nothing has constructed before.                     *)
LEMMA RecordsMore ==
    ASSUME Recorded, NEW t \in Seq(Instances), IsInjective(t),
           \A i \in DOMAIN t : t[i] \notin instantiated /\ t[i] \in instantiated',
           ledger' = ledger \o t, instantiated \subseteq instantiated'
    PROVE  Recorded'
<1> DEFINE n == Len(ledger)
           m == Len(t)
<1>1. /\ ledger \in Seq(Instances) /\ IsInjective(ledger) /\ n \in Nat /\ n > 0
      /\ DOMAIN ledger = 1 .. n /\ m \in Nat /\ DOMAIN t = 1 .. m
  BY LedgerIs, LenProperties DEF Recorded
<1>2. /\ ledger' \in Seq(Instances) /\ Len(ledger') = n + m
      /\ \A i \in 1 .. n + m : ledger'[i] = IF i <= n THEN ledger[i] ELSE t[i - n]
  BY <1>1, ConcatProperties
<1> HIDE DEF n, m
<1>3. DOMAIN ledger' = 1 .. n + m
  BY <1>2, LenProperties
<1>4. \A i \in 1 .. n + m : /\ i <= n => i \in 1 .. n
                            /\ ~(i <= n) => i - n \in 1 .. m
  BY <1>1
<1>5. \A i \in 1 .. n : ledger[i] \in instantiated
  BY <1>1 DEF Recorded
<1>6. ASSUME NEW i \in 1 .. n + m, NEW j \in 1 .. n + m, ledger'[i] = ledger'[j]
      PROVE  i = j
  <2>1. CASE i <= n /\ j <= n
    BY <1>1, <1>2, <1>4, <1>6, <2>1 DEF IsInjective
  <2>2. CASE ~(i <= n) /\ ~(j <= n)
    <3>1. t[i - n] = t[j - n] /\ i - n \in DOMAIN t /\ j - n \in DOMAIN t
      BY <1>1, <1>2, <1>4, <1>6, <2>2
    <3>2. i - n = j - n
      BY <3>1 DEF IsInjective
    <3> QED
      BY <1>1, <3>2
  <2>3. CASE i <= n /\ ~(j <= n)
    <3>1. ledger[i] = t[j - n] /\ ledger[i] \in instantiated /\ j - n \in DOMAIN t
      BY <1>1, <1>2, <1>4, <1>5, <1>6, <2>3
    <3> QED
      BY <3>1
  <2>4. CASE ~(i <= n) /\ j <= n
    <3>1. ledger[j] = t[i - n] /\ ledger[j] \in instantiated /\ i - n \in DOMAIN t
      BY <1>1, <1>2, <1>4, <1>5, <1>6, <2>4
    <3> QED
      BY <3>1
  <2> QED
    BY <2>1, <2>2, <2>3, <2>4
<1>7. \A i \in 1 .. n + m : ledger'[i] \in instantiated'
  BY <1>1, <1>2, <1>4, <1>5
<1>8. ledger' # <<>>
  <2>1. n + m # 0
    BY <1>1
  <2> QED
    BY <1>2, <2>1, EmptySeq
<1> QED
  BY <1>2, <1>3, <1>6, <1>7, <1>8 DEF Recorded, IsInjective

LEMMA LoadRecords ==
    ASSUME Recorded, NEW h \in Handles, Load(h) \/ LoadThrows(h)
    PROVE  Recorded'
<1> DEFINE new == NotYet(h)
<1>1. /\ new \in Seq(Instances) /\ IsInjective(new)
      /\ \A i \in DOMAIN new : new[i] \notin instantiated
  BY WiresAre, WithoutIs, ApplicationAssumption DEF NotYet
<1>2. CASE Load(h)
  <2>1. ledger' = ledger \o new /\ instantiated' = instantiated \cup ToSet(new)
    BY <1>2 DEF Load
  <2>2. \A i \in DOMAIN new : new[i] \in instantiated'
    BY <2>1 DEF ToSet
  <2> HIDE DEF new
  <2> QED
    BY <1>1, <2>1, <2>2, RecordsMore
<1>3. CASE LoadThrows(h)
  <2>1. PICK n \in DOMAIN new : /\ ledger' = ledger \o SubSeq(new, 1, n - 1)
                                /\ instantiated' = instantiated \cup {new[i] : i \in 1 .. n}
    BY <1>3 DEF LoadThrows
  <2> DEFINE t == SubSeq(new, 1, n - 1)
  <2> HIDE DEF new
  <2>2. n \in Nat /\ n > 0 /\ Len(new) \in Nat /\ DOMAIN new = 1 .. Len(new)
    BY <1>1, LenProperties
  <2>3. \A i \in 1 .. n - 1 : i \in DOMAIN new /\ i \in 1 .. n
    BY <2>2
  <2>4. /\ t \in Seq(Instances) /\ DOMAIN t = 1 .. n - 1
        /\ \A i \in 1 .. n - 1 : t[i] = new[i]
    <3>1. \A i \in 1 .. n - 1 : new[i] \in Instances
      BY <1>1, <2>2, <2>3, ElementOfSeq
    <3>2. 1 \in Int /\ n - 1 \in Int /\ n - 1 - 1 + 1 = n - 1
      BY <2>2
    <3>3. /\ t \in Seq(Instances) /\ Len(t) = IF 1 <= n - 1 THEN n - 1 - 1 + 1 ELSE 0
          /\ \A i \in 1 .. n - 1 - 1 + 1 : t[i] = new[1 + i - 1]
      BY <3>1, <3>2, SubSeqProperties
    <3> HIDE DEF t
    <3>4. Len(t) = n - 1
      BY <2>2, <3>2, <3>3
    <3>5. \A i \in 1 .. n - 1 : 1 + i - 1 = i
      OBVIOUS
    <3> QED
      BY <3>2, <3>3, <3>4, <3>5, LenProperties
  <2> HIDE DEF t
  <2>5. IsInjective(t)
    BY <1>1, <2>3, <2>4 DEF IsInjective
  <2>6. \A i \in DOMAIN t : t[i] \notin instantiated /\ t[i] \in instantiated'
    BY <1>1, <2>1, <2>3, <2>4
  <2> QED
    BY <2>1, <2>4, <2>5, <2>6, RecordsMore DEF t
<1> QED
  BY <1>2, <1>3

(* A step of a load is taken before anything is over.                      *)
LEMMA LoadingTidy ==
    ASSUME LifeInv, Tidy, ~Over, UNCHANGED mainVars, Recorded',
           called'.start = called.start, called'.stop = called.stop, SameDown
    PROVE  Tidied
<1>1. Untouched /\ main.at \notin {"stop", "down"} /\ ~Cleaned
  BY NotOver
<1>2. Modes' /\ ~Cleaned' /\ entered' \in 0 .. Extensions
  BY <1>1 DEF mainVars, Tidy, Modes, Cleaned
<1>3. StartedUpTo(entered)'
  BY <1>1 DEF mainVars, StartedUpTo, Untouched
<1> QED
  BY <1>1, <1>2, <1>3, EarlyTidy DEF mainVars

LEMMA LoadTidy ==
    ASSUME LifeInv, Tidy, NEW h \in Handles, Load(h) \/ LoadThrows(h)
    PROVE  Tidied
<1>1. ~Over /\ UNCHANGED mainVars
  BY DEF Over, Load, LoadThrows
<1>2. Recorded'
  BY LoadRecords DEF Tidy
<1>3. called'.start = called.start /\ called'.stop = called.stop /\ SameDown
  <2>1. UNCHANGED called \/ \E x : Calls("init", x)
    BY DEF Load, LoadThrows
  <2> QED
    BY <2>1, HookTidy DEF SameDown, Times
<1> QED
  BY <1>1, <1>2, <1>3, LoadingTidy

LEMMA LoadStepTidy ==
    ASSUME LifeInv, Tidy, NEW h \in Handles, LoadStep(h)
    PROVE  Tidied
<1>1. /\ handle[h].status = "loading" /\ UNCHANGED <<mainVars, ledger, instantiated>>
  BY DEF LoadStep, LoadHookResolves, LoadHookRejects
<1>2. ~Over
  BY <1>1 DEF Over, NoneLoads
<1>3. Recorded'
  BY <1>1 DEF Tidy, Recorded
<1>4. handle[h].pass \in {"init", "boot"}
  BY DEF LifeInv, Shapes, LoadShape
<1>5. UNCHANGED called \/ \E hook \in {"init", "boot"} : \E x : Calls(hook, x)
  <2>1. CASE LoadHookResolves(h)
    BY <1>4, <2>1 DEF LoadHookResolves
  <2>2. CASE LoadHookRejects(h)
    BY <2>2 DEF LoadHookRejects
  <2> QED
    BY <2>1, <2>2 DEF LoadStep
<1>6. called'.start = called.start /\ called'.stop = called.stop /\ SameDown
  BY <1>5, HookTidy DEF SameDown, Times
<1> QED
  BY <1>1, <1>2, <1>3, <1>6, LoadingTidy

LEMMA DisposeTidy ==
    ASSUME LifeInv, Tidy, CallDispose \/ DisposeGoesOn
    PROVE  Tidied
<1>1. UNCHANGED <<entered, initPromise, lazyVars, called>> /\ (shuttingDown => shuttingDown')
  BY DEF CallDispose, DisposeGoesOn
<1>2. CASE UNCHANGED <<main, state>>
  <2>1. disposal # "cleaning" /\ disposal' # "none" /\ (disposal = "done" => disposal' = "done")
    BY <1>2 DEF CallDispose, DisposeGoesOn
  <2>2. Modes'
    BY <1>1, <1>2, <2>1 DEF Tidy, Modes
  <2> QED
    BY <1>1, <1>2, <2>2, SameTidy DEF lazyVars
<1>3. CASE ~UNCHANGED <<main, state>>
  <2>1. /\ disposal' = "cleaning" /\ state' = "stopping"
        /\ main' = [at |-> "loads", i |-> 0] /\ main'.at = "loads"
        /\ disposal \in {"none", "waiting"} /\ initPromise \in {"none", "resolved"}
    BY <1>3 DEF CallDispose, DisposeGoesOn, At
  <2>2. main.at \notin {"stop", "down"} /\ ~Cleaned
    BY <2>1 DEF Tidy, Modes, Cleaned
  <2>3. Modes' /\ ~Cleaned' /\ Recorded' /\ entered' \in 0 .. Extensions
    BY <1>1, <2>1 DEF Modes, Starts, Cleaned, Tidy, Recorded, lazyVars
  <2>4. SameDown /\ StartedUpTo(entered)' /\ called'.stop = called.stop
    BY <1>1, <2>2 DEF SameDown, Times, StartedUpTo, Tidy, Untouched
  <2> QED
    BY <2>1, <2>2, <2>3, <2>4, EarlyTidy
<1> QED
  BY <1>2, <1>3

-----------------------------------------------------------------------------
(* The cleanup, step by step.                                              *)

(* The next onShutdown hook is called.                                     *)
LEMMA ShutsDown ==
    ASSUME LifeInv, Recorded, NEW n \in DOMAIN ledger, At("down", n), Calls("down", ledger[n]),
           AllStopped, DownFrom(n + 1), NoneLoads, UNCHANGED ledger
    PROVE  /\ Shutting' /\ TornDown /\ called'.stop = called.stop
           /\ main' = [at |-> "down", i |-> n]
<1>1. /\ \A i \in DOMAIN ledger : ledger[i] \in Instances
      /\ DOMAIN ledger \subseteq Nat
      /\ \A i, j \in DOMAIN ledger : ledger[i] = ledger[j] => i = j
  BY LedgerIs DEF Recorded, IsInjective
<1>2. main' = [at |-> "down", i |-> n] /\ main'.i = n
  BY DEF At
<1>3. /\ called'.start = called.start /\ called'.stop = called.stop
      /\ \A y \in Instances : Times("down", y)' =
            IF y = ledger[n] THEN Times("down", y) + 1 ELSE Times("down", y)
  BY <1>1, DownCounted DEF LifeInv
<1>4. ASSUME NEW j \in DOMAIN ledger
      PROVE  Times("down", ledger[j])' = IF j < n THEN 0 ELSE 1
  <2>1. Times("down", ledger[j]) = IF j < n + 1 THEN 0 ELSE 1
    BY DEF DownFrom
  <2>2. CASE j = n
    BY <1>1, <1>3, <2>1, <2>2
  <2>3. CASE j # n
    <3>1. Times("down", ledger[j])' = Times("down", ledger[j])
      BY <1>1, <1>3, <2>3
    <3>2. (j < n + 1) <=> (j < n)
      BY <1>1, <2>3
    <3> QED
      BY <2>1, <3>1, <3>2
  <2> QED
    BY <2>2, <2>3
<1>5. DownFrom(main.i)'
  BY <1>2, <1>4 DEF DownFrom, Times
<1>6. AllStopped'
  BY <1>3 DEF AllStopped
<1>7. TornDown
  <2>1. ASSUME NEW x \in Instances, Times("down", x)' # Times("down", x),
               NEW i \in DOMAIN ledger, NEW j \in DOMAIN ledger, ledger[i] = x, i < j
        PROVE  Times("down", ledger[j]) = 1
    <3>1. i = n
      BY <1>1, <1>3, <2>1
    <3>2. ~(j < n + 1)
      BY <1>1, <2>1, <3>1
    <3> QED
      BY <3>2 DEF DownFrom
  <2>2. \A k \in 1 .. Extensions : called.stop[k] = called.start[k]
    BY DEF AllStopped
  <2> QED
    BY <2>1, <2>2 DEF TornDown
<1> QED
  BY <1>2, <1>3, <1>5, <1>6, <1>7 DEF Shutting

LEMMA ShutdownTidy ==
    ASSUME LifeInv, Tidy, main.at \in {"loads", "stop", "down"}, main.at = "stop" => main.i = 1,
           DownNone, AllStopped, NoneLoads, ShutdownInstances, entered' \in 0 .. Extensions,
           UNCHANGED <<state, initPromise, disposal, shuttingDown, lazyVars>>,
           main.at = "stop" => StopSettles(main.i)
    PROVE  Tidied
<1>1. /\ Len(ledger) \in DOMAIN ledger /\ Last(ledger) = ledger[Len(ledger)]
      /\ \A j \in DOMAIN ledger : j < Len(ledger) + 1 /\ ledger[j] \in Instances
  BY LedgerIs DEF Tidy
<1>2. DownFrom(Len(ledger) + 1)
  BY <1>1 DEF DownFrom, DownNone
<1>3. /\ Shutting' /\ TornDown /\ called'.stop = called.stop
      /\ main' = [at |-> "down", i |-> Len(ledger)]
  BY <1>1, <1>2, ShutsDown DEF Tidy, ShutdownInstances, lazyVars
<1>4. Recorded' /\ Modes' /\ (Cleaned' <=> Cleaned) /\ ~Cleaned
  BY <1>3 DEF Tidy, Recorded, Modes, Cleaned, Starts, lazyVars
<1> QED
  BY <1>3, <1>4 DEF Tidied, Tidy, StopsInTurn

(* The next extension is stopped.                                          *)
LEMMA StopsNextTidy ==
    ASSUME LifeInv, Tidy, main.at \in {"loads", "stop"}, NEW k \in 1 .. entered,
           At("stop", k), CallsStop(k), StartedUpTo(entered), StoppedFrom(k + 1), DownNone,
           UNCHANGED <<state, entered, initPromise, disposal, shuttingDown, lazyVars>>,
           main.at = "stop" => StopSettles(main.i)
    PROVE  Tidied
<1>1. main' = [at |-> "stop", i |-> k] /\ main'.at = "stop" /\ main'.i = k
  BY DEF At
<1>2. entered \in Nat /\ k \in 1 .. Extensions /\ k \in Nat /\ Extensions \in Nat
  BY ApplicationAssumption DEF Tidy
<1>3. /\ called'.hook = called.hook /\ called'.start = called.start
      /\ \A l \in 1 .. Extensions :
            called'.stop[l] = IF l = k THEN called.stop[l] + 1 ELSE called.stop[l]
  BY <1>2, EntryCounted DEF LifeInv
<1>4. ASSUME NEW l \in 1 .. Extensions
      PROVE  called'.stop[l] = IF k <= l /\ l <= entered THEN 1 ELSE 0
  <2>1. called.stop[l] = IF k + 1 <= l /\ l <= entered THEN 1 ELSE 0
    BY DEF StoppedFrom
  <2> QED
    BY <1>2, <1>3, <2>1
<1>5. StoppedFrom(main.i)' /\ StartedUpTo(entered)'
  BY <1>1, <1>3, <1>4 DEF StoppedFrom, StartedUpTo
<1>6. DownNone' /\ SameDown
  BY <1>3 DEF DownNone, SameDown, Times
<1>7. Recorded' /\ Modes' /\ (Cleaned' <=> Cleaned) /\ ~Cleaned
  BY <1>1 DEF Tidy, Recorded, Modes, Cleaned, Starts, lazyVars
<1>8. StopsInTurn
  BY <1>1, <1>3 DEF StopsInTurn
<1> QED
  BY <1>1, <1>5, <1>6, <1>7, <1>8 DEF Tidied, Tidy, TornDown, SameDown, Stopping

LEMMA LoadsSettleTidy == ASSUME LifeInv, Tidy, LoadsSettle PROVE Tidied
<1>1. /\ main.at = "loads" /\ NoneLoads
      /\ UNCHANGED <<state, entered, initPromise, disposal, shuttingDown, lazyVars>>
  BY DEF LoadsSettle, NoneLoads
<1>2. Untouched /\ entered \in 0 .. Extensions /\ Extensions \in Nat
  BY <1>1, ApplicationAssumption DEF Tidy, Modes, Cleaned
<1>3. StartedUpTo(entered) /\ DownNone /\ \A k \in 1 .. Extensions : called.stop[k] = 0
  BY <1>2 DEF Untouched
<1>4. CASE entered > 0
  <2>1. entered \in 1 .. entered /\ At("stop", entered) /\ CallsStop(entered)
    BY <1>2, <1>4 DEF LoadsSettle
  <2>2. StoppedFrom(entered + 1)
    <3>1. \A l \in 1 .. Extensions : ~(entered + 1 <= l /\ l <= entered)
      BY <1>2
    <3> QED
      BY <1>3, <3>1 DEF StoppedFrom
  <2> QED
    BY <1>1, <1>3, <2>1, <2>2, StopsNextTidy
<1>5. CASE ~(entered > 0)
  <2>1. ShutdownInstances /\ entered' \in 0 .. Extensions
    BY <1>1, <1>2, <1>5 DEF LoadsSettle
  <2>2. AllStopped
    <3>1. \A l \in 1 .. Extensions : ~(l <= entered)
      BY <1>2, <1>5
    <3> QED
      BY <1>3, <3>1 DEF AllStopped, StartedUpTo
  <2> QED
    BY <1>1, <1>3, <2>1, <2>2, ShutdownTidy
<1> QED
  BY <1>4, <1>5

LEMMA StopSettlesTidy == ASSUME LifeInv, Tidy, NEW k, StopSettles(k) PROVE Tidied
<1>1. /\ main.at = "stop" /\ main.i = k
      /\ UNCHANGED <<state, initPromise, disposal, shuttingDown, lazyVars>>
  BY DEF StopSettles
<1>2. /\ k \in 1 .. entered /\ StartedUpTo(entered) /\ StoppedFrom(k) /\ DownNone
      /\ entered \in 0 .. Extensions /\ Extensions \in Nat
  BY <1>1, ApplicationAssumption DEF Tidy, Stopping
<1>3. NoneLoads
  BY <1>1 DEF LifeInv, Over
<1>4. CASE k > 1
  <2>1. At("stop", k - 1) /\ CallsStop(k - 1) /\ UNCHANGED entered
    BY <1>4 DEF StopSettles
  <2>2. k - 1 \in 1 .. entered /\ k - 1 + 1 = k
    BY <1>2, <1>4
  <2>3. StoppedFrom(k - 1 + 1)
    BY <1>2, <2>2
  <2> QED
    BY <1>1, <1>2, <2>1, <2>2, <2>3, StopsNextTidy
<1>5. CASE ~(k > 1)
  <2>1. ShutdownInstances /\ entered' = 0 /\ k = 1 /\ entered' \in 0 .. Extensions
    BY <1>2, <1>5 DEF StopSettles
  <2>2. AllStopped
    <3>1. \A l \in 1 .. Extensions : (k <= l /\ l <= entered) <=> l <= entered
      BY <2>1
    <3> QED
      BY <1>2, <3>1 DEF AllStopped, StartedUpTo, StoppedFrom
  <2> QED
    BY <1>1, <1>2, <1>3, <2>1, <2>2, ShutdownTidy
<1> QED
  BY <1>4, <1>5

LEMMA ShutdownSettlesTidy == ASSUME LifeInv, Tidy, ShutdownSettles PROVE Tidied
<1>1. main.at = "down" /\ UNCHANGED <<entered, shuttingDown, lazyVars>>
  BY DEF ShutdownSettles
<1>2. main.i \in DOMAIN ledger /\ AllStopped /\ DownFrom(main.i)
  BY <1>1 DEF Tidy, Shutting
<1>3. NoneLoads /\ shuttingDown
  BY <1>1 DEF LifeInv, Over
<1>4. main.i \in Nat /\ main.i > 0 /\ DOMAIN ledger = 1 .. Len(ledger) /\ Len(ledger) \in Nat
  BY <1>2, LedgerIs DEF Tidy
<1>5. CASE main.i > 1
  <2>1. /\ At("down", main.i - 1) /\ Calls("down", ledger[main.i - 1])
        /\ UNCHANGED <<state, initPromise, disposal>>
    BY <1>5 DEF ShutdownSettles
  <2>2. main.i - 1 \in DOMAIN ledger /\ main.i - 1 + 1 = main.i
    BY <1>2, <1>4, <1>5
  <2>3. DownFrom(main.i - 1 + 1)
    BY <1>2, <2>2
  <2>4. /\ Shutting' /\ TornDown /\ called'.stop = called.stop
        /\ main' = [at |-> "down", i |-> main.i - 1]
    BY <1>1, <1>2, <1>3, <2>1, <2>2, <2>3, ShutsDown DEF Tidy, lazyVars
  <2>5. Recorded' /\ Modes' /\ (Cleaned' <=> Cleaned) /\ ~Cleaned
    BY <1>1, <2>1, <2>4 DEF Tidy, Recorded, Modes, Cleaned, Starts, lazyVars
  <2> QED
    BY <1>1, <2>4, <2>5 DEF Tidied, Tidy, StopsInTurn
<1>6. CASE ~(main.i > 1)
  <2>1. At("idle", 0) /\ Settle /\ UNCHANGED called
    BY <1>6 DEF ShutdownSettles
  <2>2. main' = [at |-> "idle", i |-> 0] /\ main'.at = "idle"
    BY <2>1 DEF At
  <2>3. Cleaned' /\ Modes' /\ Recorded'
    BY <1>1, <2>1, <2>2 DEF Settle, Tidy, Cleaned, Modes, Recorded, Starts, lazyVars
  <2>4. DownFrom(1)' /\ AllStopped' /\ SameDown
    <3>1. main.i = 1
      BY <1>4, <1>6
    <3> QED
      BY <1>1, <1>2, <2>1, <3>1 DEF DownFrom, AllStopped, SameDown, Times, lazyVars
  <2>5. entered' \in 0 .. Extensions /\ shuttingDown'
    BY <1>1, <1>3 DEF Tidy
  <2> QED
    BY <1>1, <2>1, <2>2, <2>3, <2>4, <2>5 DEF Tidied, Tidy, TornDown, StopsInTurn, SameDown
<1> QED
  BY <1>5, <1>6

LEMMA TidyStep == ASSUME LifeInv, Tidy, [Next]_appVars PROVE Tidied
<1>1. CASE UNCHANGED appVars
  BY <1>1, SameTidy DEF appVars, mainVars, lazyVars, Tidy, Modes
<1>2. CASE Call
  BY <1>2, CallInitTidy, DisposeTidy, LoadTidy DEF Call
<1>3. CASE OwnStep
  <2>1. CASE HookRejects
    BY <2>1, StartFailsTidy DEF HookRejects, Starts
  <2> QED
    BY <1>3, <2>1, HookResolvesTidy, DisposeTidy, LoadsSettleTidy, ShutdownSettlesTidy
    DEF OwnStep
<1>4. ASSUME NEW h \in Handles, LoadStep(h) PROVE Tidied
  BY <1>4, LoadStepTidy
<1>5. ASSUME NEW k \in 1 .. Extensions, ExtensionAnswers(k) PROVE Tidied
  <2>1. CASE StartResolves(k)
    BY <2>1, StartNextTidy DEF StartResolves, Starts
  <2>2. CASE StartRejects(k)
    BY <2>2, StartFailsTidy DEF StartRejects, Starts
  <2>3. CASE StopSettles(k)
    BY <2>3, StopSettlesTidy
  <2> QED
    BY <1>5, <2>1, <2>2, <2>3 DEF ExtensionAnswers
<1> QED
  BY <1>1, <1>2, <1>3, <1>4, <1>5 DEF Next

LEMMA AlwaysTidy == Spec => [](LifeInv /\ Tidy)
<1>1. LifeInv /\ Tidy /\ [Next]_appVars => (LifeInv /\ Tidy)'
  BY LifeStep, TidyStep DEF Sound, Tidied
<1> QED
  BY <1>1, LifeInit, TidyInit, PTL DEF Spec

(* Provider onShutdown hooks run after every extension has stopped, in     *)
(* reverse construction order, and never while a load that was accepted    *)
(* still initialises instances, for any number of extensions, modules and  *)
(* lazy roots, whatever calls run into the cleanup.                        *)
THEOREM TornDownReversed == JobsSpec => TornDownInReverse
<1>1. LifeInv /\ Tidy /\ [Next]_appVars =>
          [\A x \in Instances : Times("down", x)' # Times("down", x) =>
              /\ \A k \in 1 .. Extensions : called.stop[k] = called.start[k]
              /\ \A h \in Handles : handle[h].status # "loading"
              /\ \A i, j \in DOMAIN ledger :
                    ledger[i] = x /\ i < j => Times("down", ledger[j]) = 1]_vars
  BY TidyStep DEF Tidied, TornDown, NoneLoads
<1> QED
  BY <1>1, AlwaysTidy, IsAnApplication, PTL DEF TornDownInReverse, Spec

-----------------------------------------------------------------------------
(* The participants of the jobs extension, stopped once it has stopped.    *)

(* No participant whose turn has come is up; and once the stop of the      *)
(* extension was called, and is no longer awaited, each had its turn, or   *)
(* the grace was refused.                                                  *)
Asked == \A i \in 1 .. Count : i <= jobs.stop => part[Stop(i)] # "up"

AllHadTheirTurn ==
    called.stop[Jobs] # 0 /\ main # [at |-> "stop", i |-> Jobs] =>
        GraceRefused \/ jobs.stop > Count

JobsTidy == Asked /\ AllHadTheirTurn

LEMMA JobsTidyInit == JobsInit => JobsTidy
<1> SUFFICES ASSUME JobsInit PROVE JobsTidy
  OBVIOUS
<1>1. jobs.stop = 0 /\ called.stop[Jobs] = 0
  BY JobsAssumption DEF JobsInit, Init
<1>2. \A i \in 1 .. Count : ~(i <= 0)
  BY JobsInvInit, Lists DEF JobsInv, JobsShape, Count
<1> QED
  BY <1>1, <1>2 DEF JobsTidy, Asked, AllHadTheirTurn

(* The stop of the extension is awaited until each had its turn, unless it *)
(* refuses the grace.                                                      *)
LEMMA JobsAwaited ==
    ASSUME LifeInv, Tidy, JobsInv, JobsNext, StopsInTurn,
           main = [at |-> "stop", i |-> Jobs], main' # main
    PROVE  GraceRefused' \/ (jobs.stop > Count /\ jobs' = jobs)
<1>1. Count \in Nat
  BY Lists DEF Count, JobsInv, JobsShape
<1>2. main.at = "stop" /\ main.i = Jobs
  OBVIOUS
<1>3. main'.at \in {"stop", "down"} /\ main' # main
  BY <1>2 DEF StopsInTurn, StopSettles, ShutdownInstances, At
<1>4. Len(Stops) = Count
  BY StopsAre DEF JobsInv, JobsShape, Count
<1>5. CASE JobsStopped
  BY <1>1, <1>4, <1>5 DEF JobsStopped, jobsVars
<1>6. CASE \/ StopAll \/ StopReturns \/ StopTimesOut \/ GraceElapses
           \/ \E p \in ToSet(Participants) : Down(p)
  BY <1>3, <1>6 DEF StopAll, StopReturns, StopTimesOut, GraceElapses, Down, appVars, mainVars
<1>7. CASE JobsStart
  BY <1>2, <1>7 DEF JobsStart, StartResolves, StartRejects
<1>8. CASE Call
  BY <1>3, <1>8 DEF Call, CallInit, CallDispose, Load, LoadThrows, At, mainVars
<1>9. CASE OwnStep
  BY <1>2, <1>3, <1>9
  DEF OwnStep, HookResolves, HookRejects, DisposeGoesOn, LoadsSettle, ShutdownSettles, At
<1>10. CASE \E h \in Handles : LoadStep(h)
  BY <1>3, <1>10 DEF LoadStep, LoadHookResolves, LoadHookRejects, mainVars
<1>11. CASE \E k \in (1 .. Extensions) \ {Jobs} : ExtensionAnswers(k)
  BY <1>2, <1>11 DEF ExtensionAnswers, StartResolves, StartRejects, StopSettles
<1>12. CASE StopRefused
  <2>1. jobs' = [started |-> jobs.started, entered |-> jobs.entered, stop |-> 0, failed |-> TRUE]
    BY <1>12 DEF StopRefused, JobsInv, JobsShape
  <2>2. jobs'.failed = TRUE /\ jobs'.stop = 0
    BY <2>1
  <2> QED
    BY <2>2 DEF GraceRefused
<1> QED
  BY <1>5, <1>6, <1>7, <1>8, <1>9, <1>10, <1>11, <1>12 DEF JobsNext, JobsStep, AppStep

(* A grace that was refused stays refused: the stop is not called again.   *)
LEMMA RefusedStays ==
    ASSUME LifeInv, JobsInv, GraceRefused, [JobsNext]_vars, main # [at |-> "stop", i |-> Jobs],
           main.at # "start"
    PROVE  GraceRefused'
<1>1. DOMAIN Stops = 1 .. Count
  BY StopsAre DEF JobsInv, JobsShape, Count
<1>2. 0 \notin DOMAIN Stops
  BY <1>1, Lists DEF Count, JobsInv, JobsShape
<1>3. CASE UNCHANGED jobs
  BY <1>3 DEF GraceRefused
<1>4. CASE JobsStep
  BY <1>2, <1>4 DEF JobsStep, JobsStart, StartResolves, StartRejects, StopAll, StopRefused,
                    StopSettles, StopReturns, StopTimesOut, JobsStopped, GraceRefused, jobsVars
<1> QED
  BY <1>3, <1>4 DEF JobsNext, AppStep, GraceElapses, Down, jobsVars, vars

(* The next participant is asked.                                          *)
LEMMA NextHadItsTurn ==
    ASSUME JobsInv, JobsTidy, NextStop, Ask(jobs.stop + 1)
    PROVE  Asked' /\ Count' = Count /\ jobs'.stop > jobs.stop
<1>1. Count \in Nat /\ jobs.stop \in Nat /\ jobs'.stop = jobs.stop + 1
  BY Lists DEF Count, JobsInv, JobsShape, NextStop
<1>2. Count' = Count /\ \A i : Stop(i)' = Stop(i)
  BY DEF Count, Stop, NextStop
<1>3. DOMAIN Stops = 1 .. Count /\ \A i \in 1 .. Count : Stops[i] = Stop(i)
  BY StopsAre DEF JobsInv, JobsShape, Count, Stop
<1>4. /\ part = [p \in ToSet(Participants) |-> part[p]]
      /\ \A i \in 1 .. Count : Stop(i) \in ToSet(Participants)
  BY StopsApart DEF JobsInv, JobsShape, Count, Stop
<1>5. ASSUME NEW i \in 1 .. Count, i <= jobs.stop + 1
      PROVE  part'[Stop(i)] # "up"
  <2>1. CASE i = jobs.stop + 1
    <3>1. part' = [part EXCEPT ![Stop(i)] = "asked"]
      BY <1>3, <2>1 DEF Ask
    <3> QED
      BY <1>4, <3>1
  <2>2. CASE i # jobs.stop + 1
    <3>1. part[Stop(i)] # "up"
      BY <1>1, <1>5, <2>2 DEF JobsTidy, Asked
    <3>2. UNCHANGED part \/ \E p : part' = [part EXCEPT ![p] = "asked"]
      BY DEF Ask
    <3> QED
      BY <1>4, <3>1, <3>2
  <2> QED
    BY <2>1, <2>2
<1> QED
  BY <1>1, <1>2, <1>5 DEF Asked

(* Each step that is not a start leaves the places of the participants as  *)
(* they are, and moves on, if at all.                                      *)
LEMMA AskedStep ==
    ASSUME LifeInv, JobsInv, JobsTidy, [JobsNext]_vars, JobsInv'
    PROVE  Asked' /\ (main.at # "start" => Count' = Count /\ jobs'.stop >= jobs.stop)
<1>0. Count \in Nat /\ jobs.stop \in Nat /\ jobs'.stop \in Nat
  BY Lists DEF Count, JobsInv, JobsShape
<1>1. CASE UNCHANGED jobsVars
  BY <1>0, <1>1 DEF JobsTidy, Asked, Count, Stop, jobsVars
<1>2. CASE JobsStart
  <2>1. main.at = "start" /\ \E n : StartAll(n)
    BY <1>2 DEF JobsStart, StartResolves, StartRejects
  <2>2. jobs'.stop = jobs.stop
    BY <2>1 DEF StartAll, JobsInv, JobsShape
  <2>3. jobs'.stop = 0
    BY <1>0, <2>1, <2>2 DEF JobsInv, Over
  <2>4. \A i \in 1 .. Count' : ~(i <= 0)
    BY Lists DEF JobsInv, JobsShape, Count
  <2> QED
    BY <2>1, <2>3, <2>4 DEF Asked
<1>3. ASSUME NextStop, Ask(jobs.stop + 1)
      PROVE  Asked' /\ Count' = Count /\ jobs'.stop >= jobs.stop
  BY <1>0, <1>3, NextHadItsTurn
<1>4. CASE StopAll
  <2>1. NextStop /\ Ask(jobs.stop + 1)
    BY <1>4 DEF StopAll, NextStop, JobsInv, JobsShape
  <2> QED
    BY <1>3, <2>1
<1>5. CASE StopReturns \/ StopTimesOut
  <2>1. NextStop /\ Ask(jobs.stop + 1)
    BY <1>5 DEF StopReturns, StopTimesOut, NextStop, JobsInv, JobsShape
  <2> QED
    BY <1>3, <2>1
<1>6. ASSUME NEW p \in ToSet(Participants), Down(p)
      PROVE  Asked' /\ Count' = Count /\ jobs'.stop >= jobs.stop
  <2>1. /\ jobs' = jobs /\ part = [q \in ToSet(Participants) |-> part[q]]
        /\ \E outcome \in {"down", "broken"} : part' = [part EXCEPT ![p] = outcome]
    BY <1>6 DEF Down, JobsInv, JobsShape
  <2>2. \A q \in ToSet(Participants) : part[q] # "up" => part'[q] # "up"
    BY <2>1
  <2>3. \A i \in 1 .. Count : Stop(i) \in ToSet(Participants)
    BY StopsApart DEF JobsInv, JobsShape, Count, Stop
  <2>4. Count' = Count /\ \A i : Stop(i)' = Stop(i)
    BY <2>1 DEF Count, Stop
  <2> QED
    BY <1>0, <2>1, <2>2, <2>3, <2>4 DEF JobsTidy, Asked
<1>7. CASE JobsStopped \/ GraceElapses \/ UNCHANGED vars
  BY <1>1, <1>7 DEF JobsStopped, GraceElapses, jobsVars, vars
<1>8. CASE \/ AppStep(Call) \/ AppStep(OwnStep)
           \/ \E h \in Handles : AppStep(LoadStep(h))
           \/ \E k \in (1 .. Extensions) \ {Jobs} : AppStep(ExtensionAnswers(k))
  BY <1>1, <1>8 DEF AppStep
<1>9. CASE StopRefused
  <2>1. part' = part /\ jobs'.entered = jobs.entered /\ jobs'.stop = jobs.stop
    BY <1>9 DEF StopRefused, JobsInv, JobsShape
  <2>2. Count' = Count /\ \A i : Stop(i)' = Stop(i)
    BY <2>1 DEF Count, Stop
  <2> QED
    BY <1>0, <2>1, <2>2 DEF JobsTidy, Asked
<1> QED
  BY <1>2, <1>4, <1>5, <1>6, <1>7, <1>8, <1>9 DEF JobsNext, JobsStep

LEMMA JobsTidyStep ==
    ASSUME LifeInv, Tidy, JobsInv, JobsTidy, [JobsNext]_vars, StopsInTurn, JobsInv'
    PROVE  JobsTidy'
<1>0. Count \in Nat /\ jobs.stop \in Nat /\ jobs'.stop \in Nat
  BY Lists DEF Count, JobsInv, JobsShape
<1>1. Asked' /\ (main.at # "start" => Count' = Count /\ jobs'.stop >= jobs.stop)
  BY AskedStep
<1>2. ASSUME called'.stop[Jobs] # 0, main' # [at |-> "stop", i |-> Jobs]
      PROVE  GraceRefused' \/ jobs'.stop > Count'
  <2>1. called.stop[Jobs] # 0
    BY <1>2, JobsAssumption DEF StopsInTurn
  <2>2. StopBegun
    <3>1. called.stop \in [1 .. Extensions -> Nat]
      BY DEF LifeInv, Shapes
    <3>2. Jobs \in 1 .. Extensions
      BY JobsAssumption
    <3>3. called.stop[Jobs] \in Nat
      BY <3>1, <3>2
    <3>4. called.stop[Jobs] > 0
      BY <2>1, <3>3
    <3> QED
      BY <3>2, <3>4 DEF StopBegun
  <2>3. main.at # "start"
    BY <2>2 DEF LifeInv, Over
  <2>4. CASE main = [at |-> "stop", i |-> Jobs]
    <3>1. JobsNext
      BY <1>2, <2>4 DEF vars, appVars, mainVars
    <3> QED
      BY <1>1, <1>2, <2>3, <2>4, <3>1, JobsAwaited
  <2>5. CASE main # [at |-> "stop", i |-> Jobs]
    BY <1>0, <1>1, <2>1, <2>3, <2>5, RefusedStays DEF JobsTidy, AllHadTheirTurn
  <2> QED
    BY <2>4, <2>5
<1> QED
  BY <1>1, <1>2 DEF JobsTidy, AllHadTheirTurn

LEMMA EachHadItsTurn ==
    ASSUME Tidy, LifeInv, JobsInv, JobsTidy, Cleaned, called.start[Jobs] = 1, ~GraceRefused,
           NEW p \in ToSet(Participants)
    PROVE  part[p] # "up"
<1> DEFINE n == jobs.entered
<1>0. /\ n \in Nat /\ n <= Users /\ Users \in Nat /\ Len(Stores) \in Nat /\ jobs.stop \in Nat
      /\ Count = n + Len(Stores) /\ Count \in Nat
  BY Lists DEF JobsInv, JobsShape, Count
<1>1. jobs.stop > Count
  <2>1. called.stop[Jobs] = 1
    BY JobsAssumption DEF Tidy, AllStopped
  <2>2. main.at # "stop"
    BY DEF Tidy, Modes, Cleaned
  <2> QED
    BY <2>1, <2>2 DEF JobsTidy, AllHadTheirTurn
<1>2. \A i \in 1 .. Count : part[Stop(i)] # "up"
  BY <1>0, <1>1 DEF JobsTidy, Asked
<1>3. ASSUME NEW k \in 1 .. Users PROVE part[Starters[k]] # "up"
  <2>1. CASE k <= n
    <3>1. n - k + 1 \in 1 .. Count /\ n - k + 1 <= n /\ n - (n - k + 1) + 1 = k
      BY <1>0, <2>1
    <3>2. Stop(n - k + 1) = Starters[k]
      BY <3>1 DEF Stop, StopAt
    <3> QED
      BY <1>2, <3>1, <3>2
  <2>2. CASE ~(k <= n)
    <3>1. k \in n + 1 .. Users
      BY <1>0, <2>2
    <3> QED
      BY <3>1 DEF JobsInv, StopOrder
  <2> QED
    BY <2>1, <2>2
<1>4. ASSUME NEW l \in 1 .. Len(Stores) PROVE part[Stores[l]] # "up"
  <2> DEFINE i == n + Len(Stores) - l + 1
  <2>1. i \in 1 .. Count /\ ~(i <= n) /\ Len(Stores) - (i - n) + 1 = l
    BY <1>0
  <2>2. Stop(i) = Stores[l]
    BY <2>1 DEF Stop, StopAt
  <2> QED
    BY <1>2, <2>1, <2>2
<1>5. PICK a \in DOMAIN Participants : p = Participants[a]
  BY DEF ToSet
<1>6. DOMAIN Participants = 1 .. Users + Len(Stores)
  BY Lists
<1>7. CASE a <= Users
  <2>1. a \in 1 .. Users
    BY <1>0, <1>5, <1>6, <1>7
  <2>2. p = Starters[a]
    BY <1>5, <2>1, Lists
  <2> QED
    BY <1>3, <2>1, <2>2
<1>8. CASE ~(a <= Users)
  <2>1. a - Users \in 1 .. Len(Stores) /\ Users + (a - Users) = a
    BY <1>0, <1>6, <1>8
  <2>2. p = Stores[a - Users]
    BY <1>5, <2>1, Lists
  <2> QED
    BY <1>4, <2>1, <2>2
<1> QED
  BY <1>7, <1>8

LEMMA TidyImplies == LifeInv /\ Tidy /\ JobsInv /\ JobsTidy => CleanedUpOnce
<1> SUFFICES ASSUME LifeInv, Tidy, JobsInv, JobsTidy, Cleaned PROVE
        /\ \A x \in ToSet(ledger) : Times("down", x) = 1
        /\ \A k \in 1 .. Extensions : called.stop[k] = called.start[k] /\ called.stop[k] < 2
        /\ GraceRefused \/ NoneLeftUp
  BY DEF CleanedUpOnce
<1>1. \A x \in ToSet(ledger) : Times("down", x) = 1
  <2>1. \A j \in DOMAIN ledger : ~(j < 1)
    BY LedgerIs DEF Tidy
  <2> QED
    BY <2>1 DEF Tidy, DownFrom, ToSet
<1>2. \A k \in 1 .. Extensions : called.stop[k] = called.start[k] /\ called.stop[k] < 2
  BY DEF Tidy, AllStopped
<1> QED
  BY <1>1, <1>2, EachHadItsTurn DEF NoneLeftUp

(* After disposal, or a failed init(), each instance that was constructed  *)
(* was shut down once, each extension that was started was stopped once,   *)
(* and of a jobs extension that was started, and took the grace it was     *)
(* handed, no worker, scheduler or store is left up, for any number of     *)
(* them all.                                                               *)
THEOREM CleanedUp == JobsSpec => []CleanedUpOnce
<1>1. LifeInv /\ Tidy /\ [Next]_appVars => (LifeInv /\ Tidy)' /\ StopsInTurn
  BY LifeStep, TidyStep DEF Sound, Tidied
<1>2. LifeInv /\ JobsInv /\ [JobsNext]_vars /\ [Next]_appVars => JobsInv'
  BY JobsInvStep
<1>3. LifeInv /\ Tidy /\ JobsInv /\ JobsTidy /\ [JobsNext]_vars /\ StopsInTurn /\ JobsInv'
          => JobsTidy'
  BY JobsTidyStep
<1>4. LifeInv /\ Tidy /\ JobsInv /\ JobsTidy => CleanedUpOnce
  BY TidyImplies
<1> QED
  BY <1>1, <1>2, <1>3, <1>4, LifeInit, TidyInit, JobsInvInit, JobsTidyInit, IsAnApplication, PTL
  DEF JobsSpec, Spec
=============================================================================
