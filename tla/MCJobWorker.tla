---------------------------- MODULE MCJobWorker ----------------------------
(***************************************************************************)
(* Instances of the job queue for TLC.  Jobs are the numbers 1 .. n, so    *)
(* that the scan order is their order; names are strings.                  *)
(***************************************************************************)
EXTENDS JobWorkerProperties, TLC

CONSTANTS w1, w2, k1

(* One job without a dedupe key, two workers: every disturbance.            *)
OneJob == {1}
NoDedupe == [j \in Jobs |-> NoKey]
OneName == {"send"}
AllSend == [j \in Jobs |-> "send"]
AllHandle == [w \in Workers |-> Names]
FirstHandles == [w \in Workers |-> IF w = w1 THEN Names ELSE {}]
NoCap == [n \in Names |-> 0]

(* Three jobs: two of a capped name, and one whose effect shares its key    *)
(* with the first: its enqueue names the first row's id as its dedupe key,  *)
(* which the marker and the key lock then share.                           *)
ThreeJobs == {1, 2, 3}
SendAfterFirst == [j \in Jobs |-> IF j = 3 THEN 1 ELSE NoKey]
TwoNames == {"resize", "send"}
ResizeThenSend == [j \in Jobs |-> IF j = 3 THEN "send" ELSE "resize"]
ResizeCapped == [n \in Names |-> IF n = "resize" THEN 1 ELSE 0]

(* Two jobs whose payloads are refused, the second by the validator of a    *)
(* handler that only the first worker has.                                 *)
TwoJobs == {1, 2}

DisturbedOnce == [fault |-> 1, crash |-> 1, early |-> 1, replay |-> 1, shutdown |-> 1]
EarlyDrain == [fault |-> 0, crash |-> 0, early |-> 1, replay |-> 1, shutdown |-> 1]
CrashAndDrain == [fault |-> 0, crash |-> 1, early |-> 1, replay |-> 0, shutdown |-> 1]
OneFault == [fault |-> 1, crash |-> 0, early |-> 0, replay |-> 0, shutdown |-> 0]
ExpiryAndReplay == [fault |-> 0, crash |-> 0, early |-> 1, replay |-> 1, shutdown |-> 0]
Undisturbed == [fault |-> 0, crash |-> 0, early |-> 0, replay |-> 0, shutdown |-> 0]

Symmetric == Permutations(Workers) \cup Permutations(Holders)
HolderSymmetry == Permutations(Holders)
=============================================================================
