------------------------ MODULE ResultCacheProperties ------------------------
(***************************************************************************)
(* What cached reads promise.                                              *)
(***************************************************************************)
EXTENDS ResultCache

(* After a write has returned, and its transaction has committed, a cached *)
(* read that depends on its table returns it ("The next cached users read  *)
(* misses because table:users was invalidated", docs-site caching.md),     *)
(* unless the entry was loaded while that write was made, or the entry is  *)
(* in a store that the write could not reach.  A hit returns what the      *)
(* database holds.                                                         *)
FreshUnlessOverlapped ==
    \A s \in Stores : \A e \in entries[s].held :
        e.clean /\ Quiet(e.q) => e.rows = RowsOf(e.q, <<Table[e.q], "base">>)
=============================================================================
