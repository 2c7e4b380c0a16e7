--------------------------- MODULE MCResultCache ---------------------------
(***************************************************************************)
(* Instances of the result cache for TLC.                                  *)
(***************************************************************************)
EXTENDS ResultCacheProperties, TLC

CONSTANTS users, orders, one, joined

TableOf == [q \in {one, joined} |-> IF q = one THEN users ELSE orders]
Extra == [q \in {one, joined} |-> IF q = joined THEN {users} ELSE {}]
AnyClient == Permutations(Clients)
=============================================================================
