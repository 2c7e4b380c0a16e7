---------------------------- MODULE Application ----------------------------
(***************************************************************************)
(* The lifecycle of one application (packages/app/src/application.ts and   *)
(* lifecycle.ts, with the lazy modules of modules/index.ts): init(),       *)
(* dispose() and the load() of lazy modules may be called at any time, and *)
(* every hook, start and stop is an await between which the others run.    *)
(*                                                                         *)
(* main is the one thread of control of start() and of the cleanup that    *)
(* start() or dispose() runs.  Its phases:                                 *)
(*   init, boot   runInit: the hook of ledger[i] is running                *)
(*   start        extension i is starting                                  *)
(*   loads        waitForLoads                                             *)
(*   stop         stopEntered: extension i is stopping                     *)
(*   down         runShutdown: onShutdown of ledger[i] is running          *)
(* An instance stands for what one module constructs.                      *)
(***************************************************************************)
EXTENDS Naturals, Sequences, SequencesExt

CONSTANTS
    Extensions, \* how many extensions, in the order they were declared
    Eager,      \* the instances of the eager modules, in construction order
    Handles,    \* the lazy roots
    Wires       \* Wires[h]: the instances of its subtree, dependencies first

Instances == ToSet(Eager) \cup UNION {ToSet(Wires[h]) : h \in Handles}

ASSUME ApplicationAssumption ==
    /\ Extensions \in Nat
    /\ Eager \in Seq(ToSet(Eager)) \ {<<>>} /\ IsInjective(Eager)
    /\ \A h \in Handles : /\ Wires[h] \in Seq(ToSet(Wires[h])) /\ IsInjective(Wires[h])
                          /\ ToSet(Wires[h]) \cap ToSet(Eager) = {}

VARIABLES
    state,        \* the state of the application
    main,         \* [at, i]
    entered,      \* how many extensions are in the rollback ledger
    initPromise,  \* none, pending, resolved or rejected
    disposal,     \* disposePromise: none, waiting for init(), cleaning, done
    shuttingDown, \* beginShutdown was called: loads are refused
    ledger,       \* the instances in the order they were recorded
    instantiated, \* the instances whose construction was begun
    handle,       \* handle[h]: status, and the load: its instances, which
                  \* pass, which of them
    called        \* history: how often each hook of an instance, and start
                  \* and stop of each extension, were called

mainVars == <<state, main, entered, initPromise, disposal, shuttingDown>>
lazyVars == <<ledger, instantiated, handle>>
appVars == <<mainVars, lazyVars, called>>

Hooks == {"init", "boot", "down"}

TypeOK ==
    /\ state \in {"created", "starting", "running", "stopping", "stopped", "failed-cleaned"}
    /\ main \in [at : {"idle", "init", "boot", "start", "loads", "stop", "down"}, i : Nat]
    /\ entered \in 0 .. Extensions
    /\ initPromise \in {"none", "pending", "resolved", "rejected"}
    /\ disposal \in {"none", "waiting", "cleaning", "done"}
    /\ shuttingDown \in BOOLEAN
    /\ ledger \in Seq(Instances) /\ instantiated \subseteq Instances
    /\ handle \in [Handles -> [status : {"unloaded", "loading", "loaded", "failed"},
                               slice : Seq(Instances), pass : {"init", "boot"}, i : Nat]]
    /\ called \in [hook : [Hooks \X Instances -> Nat],
                   start : [1 .. Extensions -> Nat], stop : [1 .. Extensions -> Nat]]

Init ==
    /\ state = "created" /\ main = [at |-> "idle", i |-> 0]
    /\ entered = 0
    /\ initPromise = "none" /\ disposal = "none" /\ shuttingDown = FALSE
    /\ ledger = Eager /\ instantiated = ToSet(Eager)
    /\ handle = [h \in Handles |->
                    [status |-> "unloaded", slice |-> <<>>, pass |-> "init", i |-> 0]]
    /\ called = [hook |-> [c \in Hooks \X Instances |-> 0],
                 start |-> [k \in 1 .. Extensions |-> 0],
                 stop |-> [k \in 1 .. Extensions |-> 0]]

Calls(hook, x) == called' = [called EXCEPT !.hook[<<hook, x>>] = @ + 1]

CallsStart(k) == called' = [called EXCEPT !.start[k] = @ + 1]

CallsStop(k) == called' = [called EXCEPT !.stop[k] = @ + 1]

At(phase, i) == main' = [at |-> phase, i |-> i]

-----------------------------------------------------------------------------
(* start().                                                                *)

CallInit ==
    /\ initPromise = "none" /\ disposal = "none"
    /\ initPromise' = "pending" /\ state' = "starting"
    /\ At("init", 1) /\ Calls("init", ledger[1])
    /\ UNCHANGED <<entered, disposal, shuttingDown, lazyVars>>

(* The extension is in the ledger before its start is called.              *)
StartNext ==
    IF entered < Extensions
    THEN /\ entered' = entered + 1 /\ At("start", entered + 1)
         /\ CallsStart(entered + 1)
         /\ UNCHANGED <<state, initPromise>>
    ELSE /\ state' = "running" /\ initPromise' = "resolved" /\ At("idle", 0)
         /\ UNCHANGED <<entered, called>>

(* Mutant: loads are still accepted during the cleanup.                 *)
StartFailsAccepting ==
    /\ At("loads", 0)
    /\ UNCHANGED <<state, entered, initPromise, disposal, shuttingDown, lazyVars, called>>

StartFails ==
    /\ shuttingDown' = TRUE
    /\ At("loads", 0)
    /\ UNCHANGED <<state, entered, initPromise, disposal, lazyVars, called>>

(* The ledger is read again after each hook: what a load recorded while    *)
(* init() runs is passed over too.                                         *)
HookResolves ==
    LET more == main.i < Len(ledger)
    IN  /\ main.at \in {"init", "boot"}
        /\ CASE more ->
                  /\ At(main.at, main.i + 1) /\ Calls(main.at, ledger[main.i + 1])
                  /\ UNCHANGED <<state, entered, initPromise>>
             [] ~more /\ main.at = "init" ->
                  /\ At("boot", 1) /\ Calls("boot", ledger[1])
                  /\ UNCHANGED <<state, entered, initPromise>>
             [] ~more /\ main.at = "boot" ->
                  StartNext
        /\ UNCHANGED <<disposal, shuttingDown, lazyVars>>

HookRejects == main.at \in {"init", "boot"} /\ StartFails

StartResolves(k) ==
    /\ main = [at |-> "start", i |-> k]
    /\ StartNext
    /\ UNCHANGED <<disposal, shuttingDown, lazyVars>>

(* Mutant: an extension is in the ledger once it has started.           *)
StartRejectsUnentered(k) ==
    /\ main = [at |-> "start", i |-> k]
    /\ shuttingDown' = TRUE /\ At("loads", 0) /\ entered' = k - 1
    /\ UNCHANGED <<state, initPromise, disposal, lazyVars, called>>

StartRejects(k) == main = [at |-> "start", i |-> k] /\ StartFails

-----------------------------------------------------------------------------
(* load() of a lazy module.                                                *)

(* Modules are taken in order; those instantiated before are passed over.  *)
Without(order, done) ==
    LET taken[n \in 0 .. Len(order)] ==
            IF n = 0 THEN <<>>
            ELSE IF order[n] \in done THEN taken[n - 1]
            ELSE Append(taken[n - 1], order[n])
    IN  taken[Len(order)]

NotYet(h) == Without(Wires[h], instantiated)

Load(h) ==
    LET new == NotYet(h)
    IN  /\ handle[h].status = "unloaded" /\ ~shuttingDown
        /\ ledger' = ledger \o new
        /\ instantiated' = instantiated \cup ToSet(new)
        /\ IF new = <<>>
           THEN handle' = [handle EXCEPT ![h].status = "loaded"] /\ UNCHANGED called
           ELSE /\ handle' = [handle EXCEPT ![h] = [status |-> "loading", slice |-> new,
                                                    pass |-> "init", i |-> 1]]
                /\ Calls("init", new[1])
        /\ UNCHANGED mainVars

(* The construction of the n-th throws: those before it are recorded.      *)
LoadThrows(h) ==
    LET new == NotYet(h)
    IN  /\ handle[h].status = "unloaded" /\ ~shuttingDown
        /\ \E n \in DOMAIN new :
              /\ ledger' = ledger \o SubSeq(new, 1, n - 1)
              /\ instantiated' = instantiated \cup {new[i] : i \in 1 .. n}
        /\ handle' = [handle EXCEPT ![h].status = "failed"]
        /\ UNCHANGED <<mainVars, called>>

LoadHookResolves(h) ==
    LET r == handle[h]
        last == r.i = Len(r.slice)
    IN  /\ r.status = "loading"
        /\ CASE ~last ->
                  /\ handle' = [handle EXCEPT ![h].i = r.i + 1]
                  /\ Calls(r.pass, r.slice[r.i + 1])
             [] last /\ r.pass = "init" ->
                  /\ handle' = [handle EXCEPT ![h] = [r EXCEPT !.pass = "boot", !.i = 1]]
                  /\ Calls("boot", r.slice[1])
             [] last /\ r.pass = "boot" ->
                  handle' = [handle EXCEPT ![h].status = "loaded"] /\ UNCHANGED called
        /\ UNCHANGED <<mainVars, ledger, instantiated>>

LoadHookRejects(h) ==
    /\ handle[h].status = "loading"
    /\ handle' = [handle EXCEPT ![h].status = "failed"]
    /\ UNCHANGED <<mainVars, ledger, instantiated, called>>

-----------------------------------------------------------------------------
(* dispose().                                                              *)

CallDispose ==
    /\ disposal = "none"
    /\ shuttingDown' = TRUE
    /\ IF initPromise = "none"
       THEN disposal' = "cleaning" /\ state' = "stopping" /\ At("loads", 0)
       ELSE disposal' = "waiting" /\ UNCHANGED <<state, main>>
    /\ UNCHANGED <<entered, initPromise, lazyVars, called>>

(* A failed init() has cleaned up by itself.                               *)
DisposeGoesOn ==
    /\ disposal = "waiting"
    /\ \/ /\ initPromise = "rejected"
          /\ disposal' = "done" /\ UNCHANGED <<state, main>>
       \/ /\ initPromise = "resolved"
          /\ disposal' = "cleaning" /\ state' = "stopping" /\ At("loads", 0)
    /\ UNCHANGED <<entered, initPromise, shuttingDown, lazyVars, called>>

-----------------------------------------------------------------------------
(* The cleanup.                                                            *)

ShutdownInstances == At("down", Len(ledger)) /\ Calls("down", Last(ledger))

(* Mutant: loads in flight are not awaited.                             *)
LoadsSettleAtOnce ==
    /\ main.at = "loads"
    /\ IF entered > 0 THEN At("stop", entered) /\ CallsStop(entered) ELSE ShutdownInstances
    /\ UNCHANGED <<state, entered, initPromise, disposal, shuttingDown, lazyVars>>

LoadsSettle ==
    /\ main.at = "loads" /\ \A h \in Handles : handle[h].status # "loading"
    /\ IF entered > 0 THEN At("stop", entered) /\ CallsStop(entered) ELSE ShutdownInstances
    /\ UNCHANGED <<state, entered, initPromise, disposal, shuttingDown, lazyVars>>

(* A stop that resolves and one that rejects lead to the next: errors are  *)
(* kept for the end.                                                       *)
StopSettles(k) ==
    /\ main = [at |-> "stop", i |-> k]
    /\ IF k > 1
       THEN At("stop", k - 1) /\ CallsStop(k - 1) /\ UNCHANGED entered
       ELSE entered' = 0 /\ ShutdownInstances
    /\ UNCHANGED <<state, initPromise, disposal, shuttingDown, lazyVars>>

Settle ==
    IF state = "starting"
    THEN state' = "failed-cleaned" /\ initPromise' = "rejected" /\ UNCHANGED disposal
    ELSE state' = "stopped" /\ disposal' = "done" /\ UNCHANGED initPromise

ShutdownSettles ==
    /\ main.at = "down"
    /\ IF main.i > 1
       THEN /\ At("down", main.i - 1) /\ Calls("down", ledger[main.i - 1])
            /\ UNCHANGED <<state, initPromise, disposal>>
       ELSE At("idle", 0) /\ Settle /\ UNCHANGED called
    /\ UNCHANGED <<entered, shuttingDown, lazyVars>>

-----------------------------------------------------------------------------
LoadStep(h) == LoadHookResolves(h) \/ LoadHookRejects(h)

OwnStep == HookResolves \/ HookRejects \/ DisposeGoesOn \/ LoadsSettle \/ ShutdownSettles

ExtensionAnswers(k) == StartResolves(k) \/ StartRejects(k) \/ StopSettles(k)

Call == CallInit \/ CallDispose \/ \E h \in Handles : Load(h) \/ LoadThrows(h)

Next ==
    \/ Call \/ OwnStep
    \/ \E h \in Handles : LoadStep(h)
    \/ \E k \in 1 .. Extensions : ExtensionAnswers(k)

Spec == Init /\ [][Next]_appVars
=============================================================================
