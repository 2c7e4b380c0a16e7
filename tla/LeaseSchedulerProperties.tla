---------------------- MODULE LeaseSchedulerProperties ----------------------
(***************************************************************************)
(* What the schedulers promise about once-per-cluster tasks, stated over   *)
(* LeaseScheduler.                                                         *)
(***************************************************************************)
EXTENDS LeaseScheduler

Undisturbed(D) == \A d \in D : spent[d] = 0

(* A run whose method goes on and has not been told to stop.               *)
Running(s, t) == run[s][t].at = "body" /\ ~run[s][t].aborted

(* A lease bounds the starters, not the runners (schedule/SPEC.md section   *)
(* 7): but as long as no lease expires under a scheduler that renews it,    *)
(* and no request runs late, at most one scheduler is inside a cluster      *)
(* task without having been told to stop, through failed acquisitions,      *)
(* lost renewals, shutdowns and crashes.                                   *)
OneRunner ==
    Undisturbed({"early", "late"}) =>
        \A t \in Clustered, s, u \in Schedulers :
            Running(s, t) /\ Running(u, t) => s = u

(* A runner that lost its lease without knowing is still renewing, so that  *)
(* it will be told.                                                        *)
LoserIsRenewing ==
    \A s \in Schedulers, t \in Clustered :
        Running(s, t) /\ ~Owns(s, t) => run[s][t].renewal # "off"

(* When every store call was answered, a scheduler with no run of a task in *)
(* progress does not keep its lease: the next instant is free for whoever   *)
(* comes first, and a rolling deploy costs no leaseMs (section 10).  The    *)
(* exception is a release #stop is still awaiting.                         *)
IdleKeepsNoLease ==
    \A s \in Schedulers, t \in Tasks :
        Undisturbed({"fault", "crash"}) /\ run[s][t].at = "idle" /\ Owns(s, t)
            => mode[s] = "releasing" /\ Awaited(s, t)

(* When onShutdown has resolved, every method that still runs was told to   *)
(* stop by its signal, however slowly the releases before it went.         *)
ResolvedLeavesNoneUntold ==
    \A s \in Schedulers, t \in Tasks :
        mode[s] = "resolved" => ~Running(s, t)

Starts(s, t) == run[s][t].at # "body" /\ run'[s][t].at = "body"

(* The scheduler fires only while it holds the lease (section 7): when the  *)
(* method is invoked the row is its own and live.                          *)
StartsHolding ==
    [][\A s \in Schedulers, t \in Clustered :
         Starts(s, t) /\ Undisturbed({"early", "late"})
            => lease'[t] = [holder |-> s, live |-> TRUE]]_vars

(* The method of a run that #stop has aborted and released is not invoked,  *)
(* whatever acquisition was in flight then; and a task that lost its lease  *)
(* is never fired again by that scheduler.                                 *)
NoStartOnceStopped ==
    [][\A s \in Schedulers, t \in Tasks :
         Starts(s, t) => ~run'[s][t].aborted /\ ~disabled[s][t]]_vars

(* A lease that lives is taken from its holder by nothing but a release     *)
(* request of that holder.                                                 *)
LeaseFreedByItsHolder ==
    [][\A t \in Tasks :
         lease[t].live /\ lease'[t].holder # lease[t].holder =>
            LET s == lease[t].holder IN
            /\ lease'[t].holder = Nobody
            /\ "release" \in stray[s][t] \cup InFlight(s, t)]_vars

(* A runner that lost its lease is told to stop, or its method settles.    *)
LoserIsTold ==
    \A s \in Schedulers, t \in Clustered :
        Running(s, t) /\ ~Owns(s, t) ~> ~Running(s, t) \/ Owns(s, t)

(* onShutdown resolves with a method that never settles (section 14, item  *)
(* 15), as long as the lease store answers.                                *)
ShutdownResolves ==
    \A s \in Schedulers : mode[s] = "draining" ~> mode[s] \in {"resolved", "down"}

-----------------------------------------------------------------------------
(* What the documents say and the code does not do.                        *)

(* schedule/SPEC.md line 304: "one fire per instant, except across a       *)
(* stall".                                                                 *)
OncePerInstant ==
    Undisturbed({"early", "late"}) =>
        \A t \in Clustered, i \in Instants : Cardinality(fires[t][i]) <= 1
=============================================================================
