----------------------- MODULE ApplicationProperties -----------------------
(***************************************************************************)
(* What an application with a jobsExtension promises.                      *)
(***************************************************************************)
EXTENDS JobsExtension

Times(hook, x) == called.hook[<<hook, x>>]

(* Provider onShutdown hooks run after every extension has stopped, in     *)
(* reverse construction order, and never while a load that was accepted    *)
(* still initialises instances (SPEC section 5).                           *)
TornDownInReverse ==
    [][\A x \in Instances : Times("down", x)' # Times("down", x) =>
          /\ \A k \in 1 .. Extensions : called.stop[k] = called.start[k]
          /\ \A h \in Handles : handle[h].status # "loading"
          /\ \A i, j \in DOMAIN ledger :
                ledger[i] = x /\ i < j => Times("down", ledger[j]) = 1]_vars

(* Once something was stopped nothing is started or initialised any more,  *)
(* whichever of init(), dispose() and load() ran into which.               *)
StopBegun ==
    \/ \E k \in 1 .. Extensions : called.stop[k] > 0
    \/ \E x \in Instances : Times("down", x) > 0

NothingStartsOnceStopping ==
    [][StopBegun => /\ called'.start = called.start /\ ledger' = ledger
                    /\ \A hook \in {"init", "boot"}, x \in Instances :
                          Times(hook, x)' = Times(hook, x)]_vars

(* The extension refused the grace before it asked anyone to stop.         *)
GraceRefused == jobs.failed /\ jobs.stop = 0

Cleaned == state \in {"stopped", "failed-cleaned"}

NoneLeftUp == called.start[Jobs] = 1 => \A p \in ToSet(Participants) : part[p] # "up"

(* After disposal, or a failed init(), what was constructed was shut down  *)
(* once and what was started was stopped once, partial starts included;    *)
(* and each worker, scheduler and store of a jobs extension that was       *)
(* started was asked to stop, whatever the others did, provided the        *)
(* extension took the grace it was handed.                                 *)
CleanedUpOnce ==
    Cleaned =>
        /\ \A x \in ToSet(ledger) : Times("down", x) = 1
        /\ \A k \in 1 .. Extensions : called.stop[k] = called.start[k] /\ called.stop[k] < 2
        /\ GraceRefused \/ NoneLeftUp

(* A worker is stopped after every scheduler, so that none adds work to    *)
(* it, and a store is closed after all that use it, unless one of them     *)
(* rejected or the deadline passed.                                        *)
UsersStopFirst ==
    ~late =>
        /\ (\E w \in ToSet(Workers) : part[w] \in {"asked", "down", "broken"}) =>
               \A s \in ToSet(Schedulers) : part[s] \in {"idle", "down", "broken"}
        /\ (\E s \in ToSet(Stores) : part[s] # "up") =>
               \A p \in ToSet(Starters) : part[p] \in {"idle", "down", "broken"}

-----------------------------------------------------------------------------
(* Hooks, starts and stops of other extensions settle; shutdowns of        *)
(* workers, schedulers and stores need not, as the deadline does.          *)
Fairness ==
    /\ WF_vars(AppStep(OwnStep))
    /\ \A h \in Handles : WF_vars(AppStep(LoadStep(h)))
    /\ \A k \in (1 .. Extensions) \ {Jobs} : WF_vars(AppStep(ExtensionAnswers(k)))
    /\ WF_vars(JobsStep) /\ WF_vars(GraceElapses)

FairSpec == JobsSpec /\ Fairness

(* init() and dispose() settle, though a worker's drain never does.        *)
CallsSettle ==
    /\ initPromise = "pending" ~> initPromise \in {"resolved", "rejected"}
    /\ disposal \in {"waiting", "cleaning"} ~> disposal = "done"
-----------------------------------------------------------------------------
(* What the documents say and the code does not do.                        *)

(* jobs SPEC.md line 182: every participant is attempted; under any grace  *)
(* an application takes, a positive integer (app SPEC.md line 145).        *)
EveryParticipantAttempted == Cleaned => NoneLeftUp
=============================================================================
