--------------------------- MODULE MCApplication ---------------------------
(***************************************************************************)
(* An application with an extension before its jobs extension, two eager   *)
(* modules, and two lazy roots that share a module.                        *)
(***************************************************************************)
EXTENDS ApplicationProperties

CONSTANTS e1, e2, shared, a, b, scheduler, worker, store, left, right

EagerOrder == <<e1, e2>>
Subtrees == [h \in {left, right} |-> IF h = left THEN <<shared, a>> ELSE <<shared, b>>]
OneWorker == <<worker>>
OneScheduler == <<scheduler>>
OneStore == <<store>>
=============================================================================
