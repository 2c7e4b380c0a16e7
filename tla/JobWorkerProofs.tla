--------------------------- MODULE JobWorkerProofs ---------------------------
(***************************************************************************)
(* Theorems about the job queue for every number of jobs, workers, holders *)
(* and attempts, and every bound on the disturbances: types; then what the *)
(* table guarantees (attempts are counted exactly once, a done job is      *)
(* marked and final, one worker at a time may settle a row); then how a    *)
(* run moves, with what follows: no call for work that is marked, JobWorker*)
(* implements JobLifecycle, no call after a shutdown resolved, and, if no  *)
(* store call fails, never more calls than slots and caps.                 *)
(***************************************************************************)
EXTENDS JobWorkerProperties, FiniteSetTheorems, TLAPS

(* Every run was claimed with attempts left, and a retry is chosen only     *)
(* while one would still be left after it.                                  *)
RunsHaveAttempts ==
    \A w \in Workers, j \in Jobs :
        /\ run[w][j].attempts < MaxAttempts
        /\ run[w][j].at = "retry" => run[w][j].attempts + 1 < MaxAttempts

(* A run in progress has a holder, and the rows of a claim that is being    *)
(* answered are runs that wait for the answer.                              *)
RunsHaveHolders ==
    \A w \in Workers, j \in Jobs : run[w][j].at # "off" => run[w][j].holder \in Holders

ClaimedRowsAreRuns ==
    \A w \in Workers : pass[w].at = "claimed" =>
        \A j \in pass[w].rows : run[w][j].at = "claimed"

(* TypeOK bounds the attempts of rows and runs and the holders of requests, *)
(* which is inductive only together with these.                             *)
TypeInv ==
    /\ TypeOK
    /\ AttemptsLeftWhilePending
    /\ RunsHaveAttempts
    /\ RunsHaveHolders
    /\ ClaimedRowsAreRuns

-----------------------------------------------------------------------------
(* What a scan selects are jobs that were claimable.                        *)
LEMMA SelectedAreJobs ==
    ASSUME NEW w, NEW n
    PROVE  Selected(w, FirstOf(Claimable, n)) \subseteq Jobs
BY DEF Selected, FirstOf, Claimable

LEMMA NoRunType == TypeOK => NoRun \in Run
BY HolderAssumption, AttemptsAssumption DEF NoRun, Run, Phases

LEMMA TypeInit == Init => TypeInv
<1> SUFFICES ASSUME Init PROVE TypeInv
    OBVIOUS
<1> USE HolderAssumption, AttemptsAssumption
<1>1. TypeOK
    BY DEF Init, StoreInit, TypeOK, StoreTypeOK, Row, Run, Phases, Modes, NoRun, NoPass
<1>2. AttemptsLeftWhilePending /\ RunsHaveAttempts /\ RunsHaveHolders /\ ClaimedRowsAreRuns
    BY DEF Init, StoreInit, NoRun, NoPass, AttemptsLeftWhilePending, RunsHaveAttempts,
           RunsHaveHolders, ClaimedRowsAreRuns
<1> QED BY <1>1, <1>2 DEF TypeInv

LEMMA RowAfterType ==
    ASSUME NEW j \in Jobs, row[j] \in Row, row[j].attempts < MaxAttempts,
           NEW kind \in {"done", "retry", "dead", "release"},
           NEW a \in Nat, kind = "retry" => a < MaxAttempts, kind = "dead" => a <= MaxAttempts
    PROVE  /\ RowAfter(j, kind, a) \in Row
           /\ RowAfter(j, kind, a).status = "pending" => RowAfter(j, kind, a).attempts < MaxAttempts
<1>1. row[j].attempts \in 0 .. MaxAttempts /\ row[j].attempts + 1 \in 0 .. MaxAttempts
  BY AttemptsAssumption DEF Row
<1>2. CASE kind = "done"
  BY <1>1, <1>2 DEF RowAfter, Row
<1>3. CASE kind = "retry"
  <2>1. a \in 0 .. MaxAttempts
    BY <1>3, AttemptsAssumption
  <2> QED BY <2>1, <1>3 DEF RowAfter, Row
<1>4. CASE kind = "dead"
  <2>1. a \in 0 .. MaxAttempts
    BY <1>4, AttemptsAssumption
  <2> QED BY <2>1, <1>4 DEF RowAfter, Row
<1>5. CASE kind = "release"
  BY <1>5 DEF RowAfter, Row
<1> QED BY <1>2, <1>3, <1>4, <1>5

(* A settlement keeps the table well typed.                                 *)
LEMMA SettleType ==
    ASSUME TypeInv, NEW j \in Jobs, NEW h, NEW kind \in {"done", "retry", "dead", "release"},
           NEW a \in Nat, kind = "retry" => a < MaxAttempts, kind = "dead" => a <= MaxAttempts,
           Settle(j, h, kind, a)
    PROVE  StoreTypeOK' /\ AttemptsLeftWhilePending'
<1> USE HolderAssumption, AttemptsAssumption
<1>1. CASE ~Fenced(j, h)
    BY <1>1 DEF Settle, TypeInv, TypeOK, StoreTypeOK, storeVars, AttemptsLeftWhilePending
<1>2. CASE Fenced(j, h)
  <2>1. RowAfter(j, kind, a) \in Row /\
        (RowAfter(j, kind, a).status = "pending" => RowAfter(j, kind, a).attempts < MaxAttempts)
    <3>1. row[j] \in Row /\ row[j].attempts < MaxAttempts
      BY <1>2 DEF TypeInv, TypeOK, StoreTypeOK, Fenced, AttemptsLeftWhilePending
    <3> QED BY <3>1, RowAfterType
  <2>2. row' = [row EXCEPT ![j] = RowAfter(j, kind, a)]
      BY <1>2 DEF Settle
  <2>3. marker' \subseteq {Key(i) : i \in Jobs}
      BY <1>2 DEF Settle, MarkersAfter, TypeInv, TypeOK, StoreTypeOK
  <2> QED BY <2>1, <2>2, <2>3 DEF TypeInv, TypeOK, StoreTypeOK, AttemptsLeftWhilePending
<1> QED BY <1>1, <1>2

(* The part of TypeInv about runs, and what moving one run asks for.        *)
RunInv ==
    /\ run \in [Workers -> [Jobs -> Run]]
    /\ RunsHaveAttempts
    /\ RunsHaveHolders
    /\ ClaimedRowsAreRuns

GoodRun(r) ==
    /\ r \in Run
    /\ r.attempts < MaxAttempts
    /\ r.at = "retry" => r.attempts + 1 < MaxAttempts
    /\ r.at # "off" => r.holder \in Holders

LEMMA NoRunIsGood == GoodRun(NoRun)
BY HolderAssumption, AttemptsAssumption DEF NoRun, GoodRun, Run, Phases

LEMMA RunMove ==
    ASSUME TypeInv, NEW w \in Workers, NEW j \in Jobs, NEW r, GoodRun(r),
           run[w][j].at # "claimed" \/ pass[w].at # "claimed",
           run' = [run EXCEPT ![w][j] = r],
           \/ pass' = pass
           \/ pass' = [pass EXCEPT ![w] = NoPass]
    PROVE  RunInv'
<1>1. run' \in [Workers -> [Jobs -> Run]]
  BY DEF TypeInv, TypeOK, GoodRun
<1>2. RunsHaveAttempts' /\ RunsHaveHolders'
  BY DEF TypeInv, TypeOK, GoodRun, RunsHaveAttempts, RunsHaveHolders
<1>3. ClaimedRowsAreRuns'
  BY DEF TypeInv, TypeOK, ClaimedRowsAreRuns, NoPass
<1> QED BY <1>1, <1>2, <1>3 DEF RunInv

(* A run may go to any phase but retry without further ado.                 *)
LEMMA PhaseMove ==
    ASSUME TypeInv, NEW w \in Workers, NEW j \in Jobs, NEW p \in Phases,
           run[w][j].at # "off",
           p = "retry" => run[w][j].attempts + 1 < MaxAttempts
    PROVE  GoodRun([run[w][j] EXCEPT !.at = p])
<1>1. run[w][j] \in Run /\ run[w][j].attempts < MaxAttempts /\ run[w][j].holder \in Holders
  BY DEF TypeInv, TypeOK, RunsHaveAttempts, RunsHaveHolders
<1> QED BY <1>1 DEF GoodRun, Run

LEMMA AfterFailureType ==
    ASSUME NEW r \in Run
    PROVE  /\ AfterFailure(r) \in {"dead", "retry"}
           /\ AfterFailure(r) = "retry" => r.attempts + 1 < MaxAttempts
<1>1. r.attempts \in Nat /\ MaxAttempts \in Nat
  BY AttemptsAssumption DEF Run
<1> QED BY <1>1 DEF AfterFailure

(* The steps of a pass.                                                     *)
LEMMA PassStepType ==
    ASSUME TypeInv, NEW w \in Workers, PassStep(w)
    PROVE  TypeInv'
<1>1. CASE Scan(w)
  <2>1. pass'[w].rows \subseteq Jobs /\ pass' = [pass EXCEPT ![w] = [at |-> "claim", rows |-> pass'[w].rows]]
    BY <1>1, SelectedAreJobs DEF Scan, TypeInv, TypeOK
  <2> QED BY <1>1, <2>1 DEF Scan, TypeInv, TypeOK, StoreTypeOK, AttemptsLeftWhilePending,
                         RunsHaveAttempts, RunsHaveHolders, ClaimedRowsAreRuns
<1>2. CASE ClaimReturns(w)
  <2>1. \A j \in pass[w].rows : j \in Jobs /\ run[w][j].at = "claimed" /\ run[w][j].holder \in Holders
    BY <1>2 DEF ClaimReturns, TypeInv, TypeOK, RunsHaveHolders, ClaimedRowsAreRuns
  <2>2. \A j \in pass[w].rows : GoodRun([run[w][j] EXCEPT !.at = "lock"])
    BY <2>1, PhaseMove DEF Phases
  <2>3. PICK f \in [Jobs -> Run] :
            /\ run' = [run EXCEPT ![w] = f]
            /\ \A j \in Jobs : GoodRun(f[j])
    <3>1. \A j \in Jobs : GoodRun(run[w][j])
      BY DEF GoodRun, TypeInv, TypeOK, RunsHaveAttempts, RunsHaveHolders
    <3>2. CASE mode[w] # "open"
      <4> DEFINE f == [j \in Jobs |-> IF j \in pass[w].rows THEN NoRun ELSE run[w][j]]
      <4>1. run' = [run EXCEPT ![w] = f]
        BY <1>2, <3>2 DEF ClaimReturns, TypeInv, TypeOK
      <4>2. f \in [Jobs -> Run] /\ \A j \in Jobs : GoodRun(f[j])
        BY <3>1, NoRunIsGood DEF GoodRun
      <4> QED BY <4>1, <4>2
    <3>3. CASE mode[w] = "open"
      <4> DEFINE f == [j \in Jobs |-> IF j \in pass[w].rows
                                     THEN [run[w][j] EXCEPT !.at = "lock"] ELSE run[w][j]]
      <4>0. run' = [run EXCEPT ![w] = [j \in Jobs |->
                  IF j \in pass[w].rows THEN [@[j] EXCEPT !.at = "lock"] ELSE @[j]]]
        BY <1>2, <3>3 DEF ClaimReturns
      <4>1. run' = [run EXCEPT ![w] = f]
        BY <4>0 DEF TypeInv, TypeOK
      <4>2. \A j \in Jobs : GoodRun(f[j])
        BY <3>1, <2>2
      <4>3. \A j \in Jobs : f[j] \in Run
        BY <4>2 DEF GoodRun
      <4>4. f \in [Jobs -> Run]
        BY <4>3
      <4> QED BY <4>1, <4>2, <4>4
    <3> QED BY <3>2, <3>3
  <2>4. pass' \in [Workers -> [at : {"none", "claim", "claimed", "requeue", "work"}, rows : SUBSET Jobs]]
        /\ pass'[w].at # "claimed" /\ \A v \in Workers \ {w} : pass'[v] = pass[v]
    <3>1. PICK at \in {"requeue", "work"} : pass' = [pass EXCEPT ![w] = [at |-> at, rows |-> pass[w].rows]]
      BY <1>2 DEF ClaimReturns
    <3>2. pass \in [Workers -> [at : {"none", "claim", "claimed", "requeue", "work"}, rows : SUBSET Jobs]]
      BY DEF TypeInv, TypeOK
    <3> QED BY <3>1, <3>2
  <2>5. run' \in [Workers -> [Jobs -> Run]] /\ RunsHaveAttempts' /\ RunsHaveHolders'
    BY <2>3 DEF TypeInv, TypeOK, RunsHaveAttempts, RunsHaveHolders, GoodRun
  <2>6. ClaimedRowsAreRuns'
    BY <2>3, <2>4 DEF TypeInv, TypeOK, ClaimedRowsAreRuns
  <2>7. releasing' \in [Workers -> SUBSET (Jobs \X Holders)]
    <3> DEFINE given == {<<j, run[w][j].holder>> : j \in pass[w].rows}
    <3>1. given \subseteq Jobs \X Holders
      BY <2>1
    <3>2. releasing \in [Workers -> SUBSET (Jobs \X Holders)]
      BY DEF TypeInv, TypeOK
    <3>3. \/ releasing' = releasing
          \/ releasing' = [releasing EXCEPT ![w] = releasing[w] \cup given]
      BY <1>2, <3>2 DEF ClaimReturns
    <3> HIDE DEF given
    <3>4. releasing[w] \cup given \in SUBSET (Jobs \X Holders)
      BY <3>1, <3>2
    <3> QED BY <3>2, <3>3, <3>4
  <2> QED BY <1>2, <2>4, <2>5, <2>6, <2>7 DEF ClaimReturns, TypeInv, TypeOK, StoreTypeOK, AttemptsLeftWhilePending
<1>3. CASE EndPass(w)
  BY <1>3 DEF EndPass, NoPass, TypeInv, TypeOK, StoreTypeOK, AttemptsLeftWhilePending,
              RunsHaveAttempts, RunsHaveHolders, ClaimedRowsAreRuns
<1>4. ASSUME NEW h \in Holders, Claim(w, h) PROVE TypeInv'
  <2>1. row' \in [Jobs -> Row] /\ AttemptsLeftWhilePending'
    <3> DEFINE ids == pass[w].rows
    <3>1. row \in [Jobs -> Row] /\ AttemptsLeftWhilePending
      BY DEF TypeInv, TypeOK, StoreTypeOK
    <3>2. row' = [j \in Jobs |-> ClaimedRow(j, ids, h)]
      BY <1>4 DEF Claim, ClaimRows
    <3> HIDE DEF ids
    <3>3. ASSUME NEW j \in Jobs
          PROVE  /\ ClaimedRow(j, ids, h) \in Row
                 /\ ClaimedRow(j, ids, h).status = row[j].status
                 /\ ClaimedRow(j, ids, h).attempts = row[j].attempts
      BY <1>4, <3>1 DEF ClaimedRow, Row
    <3>4. row' \in [Jobs -> Row]
      BY <3>2, <3>3
    <3> QED BY <3>1, <3>2, <3>3, <3>4 DEF AttemptsLeftWhilePending
  <2>2. run' \in [Workers -> [Jobs -> Run]] /\ RunsHaveAttempts'
    BY <1>4, AttemptsAssumption DEF Claim, Claimable, Row, Run, Phases, TypeInv, TypeOK, StoreTypeOK, AttemptsLeftWhilePending, RunsHaveAttempts
  <2>3. pass' \in [Workers -> [at : {"none", "claim", "claimed", "requeue", "work"}, rows : SUBSET Jobs]]
    BY <1>4 DEF Claim, Claimable, TypeInv, TypeOK
  <2>4. RunsHaveHolders' /\ ClaimedRowsAreRuns'
    BY <1>4 DEF Claim, TypeInv, TypeOK, RunsHaveHolders, ClaimedRowsAreRuns
  <2> QED BY <1>4, <2>1, <2>2, <2>3, <2>4 DEF Claim, TypeInv, TypeOK, StoreTypeOK
<1> QED BY <1>1, <1>2, <1>3, <1>4 DEF PassStep

-----------------------------------------------------------------------------
(* The steps of a run.                                                     *)
OtherTypes ==
    /\ mode \in [Workers -> Modes]
    /\ pass \in [Workers -> [at : {"none", "claim", "claimed", "requeue", "work"},
                             rows : SUBSET Jobs]]
    /\ executing \in [Workers -> SUBSET (Jobs \X Holders)]
    /\ releasing \in [Workers -> SUBSET (Jobs \X Holders)]
    /\ spent \in [Disturbances -> Nat]

StoreInv == StoreTypeOK /\ AttemptsLeftWhilePending

LEMMA TypeInvParts == TypeInv <=> StoreInv /\ RunInv /\ OtherTypes
BY DEF TypeInv, TypeOK, StoreInv, RunInv, OtherTypes

LEMMA StoreKept == ASSUME StoreInv, UNCHANGED storeVars PROVE StoreInv'
BY DEF StoreInv, StoreTypeOK, AttemptsLeftWhilePending, storeVars

LEMMA RunsKept == ASSUME RunInv, UNCHANGED run,
                         pass' = pass \/ \E w \in Workers : pass' = [pass EXCEPT ![w] = NoPass],
                         OtherTypes
                  PROVE  RunInv'
<1>1. ClaimedRowsAreRuns'
  <2>1. CASE pass' = pass
    BY <2>1 DEF RunInv, ClaimedRowsAreRuns
  <2>2. ASSUME NEW w \in Workers, pass' = [pass EXCEPT ![w] = NoPass]
        PROVE  ClaimedRowsAreRuns'
    <3>1. pass'[w].at # "claimed" /\ \A v \in Workers \ {w} : pass'[v] = pass[v]
      BY <2>2 DEF NoPass, OtherTypes
    <3> QED BY <3>1 DEF RunInv, ClaimedRowsAreRuns
  <2> QED BY <2>1, <2>2
<1> QED BY <1>1 DEF RunInv, RunsHaveAttempts, RunsHaveHolders

(* What a run in progress knows.                                            *)
LEMMA RunFacts ==
    ASSUME TypeInv, NEW w \in Workers, NEW j \in Jobs, run[w][j].at # "off"
    PROVE  /\ run[w][j] \in Run
           /\ run[w][j].attempts \in Nat
           /\ run[w][j].attempts < MaxAttempts
           /\ run[w][j].holder \in Holders
           /\ run[w][j].at = "retry" => run[w][j].attempts + 1 < MaxAttempts
<1>1. run[w][j] \in Run
  BY DEF TypeInv, TypeOK
<1>2. run[w][j].attempts \in Nat
  BY <1>1, AttemptsAssumption DEF Run
<1> QED BY <1>1, <1>2 DEF TypeInv, RunsHaveAttempts, RunsHaveHolders

LEMMA FinishedIsGood ==
    ASSUME TypeInv, NEW w \in Workers, NEW j \in Jobs, run[w][j].at # "off"
    PROVE  GoodRun(Finished(w, j))
<1>1. GoodRun([run[w][j] EXCEPT !.at = "linger"])
  BY PhaseMove DEF Phases
<1> QED BY <1>1, NoRunIsGood DEF Finished

LEMMA SettleRowType ==
    ASSUME TypeInv, NEW w \in Workers, NEW j \in Jobs, Settling(w, j), SettleRow(w, j)
    PROVE  StoreInv'
<1> DEFINE a == run[w][j].attempts + 1
<1>1. /\ a \in Nat
      /\ run[w][j].at = "retry" => a < MaxAttempts
      /\ a <= MaxAttempts
  BY RunFacts, AttemptsAssumption DEF Settling
<1>2. SettlementKind(w, j) \in {"done", "retry", "dead", "release"}
  BY DEF Settling, SettlementKind
<1>3. SettlementKind(w, j) = "retry" => run[w][j].at = "retry"
  BY DEF SettlementKind
<1>4. Settle(j, run[w][j].holder, SettlementKind(w, j), a)
  BY DEF SettleRow
<1> HIDE DEF a
<1> QED BY <1>1, <1>2, <1>3, <1>4, SettleType DEF StoreInv

LEMMA RunStepType ==
    ASSUME TypeInv, NEW w \in Workers, NEW j \in Jobs, RunStep(w, j)
    PROVE  TypeInv'
<1>0. StoreInv /\ RunInv /\ OtherTypes
  BY TypeInvParts
<1> SUFFICES StoreInv' /\ RunInv' /\ OtherTypes'
  BY TypeInvParts, PTL
<1>1. CASE LockKey(w, j)
  <2>1. GoodRun([run[w][j] EXCEPT !.at = "check"])
    BY <1>1, PhaseMove DEF LockKey, Phases
  <2>2. PICK r : GoodRun(r) /\ run' = [run EXCEPT ![w][j] = r]
    BY <1>1, <2>1, NoRunIsGood DEF LockKey
  <2>3. RunInv'
    BY <1>1, <2>2, RunMove DEF LockKey
  <2> QED BY <1>0, <1>1, <2>3, StoreKept DEF LockKey, storeVars, OtherTypes
<1>2. CASE CheckReturns(w, j)
  <2>1. /\ AfterCheck(w, j) \in Phases
        /\ AfterCheck(w, j) = "retry" => run[w][j].attempts + 1 < MaxAttempts
    BY <1>2, RunFacts, AfterFailureType DEF CheckReturns, AfterCheck, Phases
  <2>2. GoodRun([run[w][j] EXCEPT !.at = AfterCheck(w, j)])
    BY <1>2, <2>1, PhaseMove DEF CheckReturns
  <2>3. PICK r : GoodRun(r) /\ run' = [run EXCEPT ![w][j] = r]
    BY <1>2, <2>2, NoRunIsGood DEF CheckReturns
  <2>4. RunInv'
    BY <1>2, <2>3, RunMove DEF CheckReturns
  <2> QED BY <1>0, <1>2, <2>4, StoreKept DEF CheckReturns, storeVars, OtherTypes
<1>3. CASE StartHandler(w, j)
  <2>1. GoodRun([run[w][j] EXCEPT !.at = "handle"])
    BY <1>3, PhaseMove DEF StartHandler, Phases
  <2>2. PICK r : GoodRun(r) /\ run' = [run EXCEPT ![w][j] = r]
    <3>1. CASE run[w][j].abandoned
      BY <1>3, <3>1, NoRunIsGood DEF StartHandler
    <3>2. CASE ~run[w][j].abandoned
      <4>1. run' = [run EXCEPT ![w][j] = [run[w][j] EXCEPT !.at = "handle"]]
        BY <1>3, <3>2 DEF StartHandler, TypeInv, TypeOK
      <4> QED BY <2>1, <4>1
    <3> QED BY <3>1, <3>2
  <2>3. RunInv'
    BY <1>3, <2>2, RunMove DEF StartHandler
  <2>4. run[w][j].holder \in Holders
    BY <1>3, RunFacts DEF StartHandler
  <2>5. executing' \in [Workers -> SUBSET (Jobs \X Holders)]
    BY <1>0, <1>3, <2>4 DEF StartHandler, OtherTypes
  <2> QED BY <1>0, <1>3, <2>3, <2>5, StoreKept DEF StartHandler, storeVars, OtherTypes
<1>4. CASE SettleReturns(w, j)
  <2>1. run[w][j].at # "off" /\ run[w][j].at # "claimed"
    BY <1>4 DEF SettleReturns, Settling
  <2>2. GoodRun(AfterSettle(w, j, Fenced(j, run[w][j].holder)))
    <3>1. GoodRun([run[w][j] EXCEPT !.at = "notify"])
      BY <2>1, PhaseMove DEF Phases
    <3> QED BY <2>1, <3>1, FinishedIsGood DEF AfterSettle
  <2>3. RunInv'
    BY <1>4, <2>1, <2>2, RunMove DEF SettleReturns
  <2>4. StoreInv'
    BY <1>4, SettleRowType DEF SettleReturns
  <2> QED BY <1>0, <1>4, <2>3, <2>4 DEF SettleReturns, OtherTypes
<1>5. CASE OnDeadReturns(w, j)
  <2>1. GoodRun(Finished(w, j))
    BY <1>5, FinishedIsGood DEF OnDeadReturns
  <2>2. RunInv'
    BY <1>5, <2>1, RunMove DEF OnDeadReturns
  <2> QED BY <1>0, <1>5, <2>2, StoreKept DEF OnDeadReturns, storeVars, OtherTypes
<1> QED BY <1>1, <1>2, <1>3, <1>4, <1>5 DEF RunStep

-----------------------------------------------------------------------------
(* Handlers, timers, releases and failures.                                *)
LEMMA HandlerStepType ==
    ASSUME TypeInv, NEW w \in Workers, NEW j \in Jobs, HandlerStep(w, j)
    PROVE  TypeInv'
<1>0. StoreInv /\ RunInv /\ OtherTypes
  BY TypeInvParts
<1>1. PICK h \in Holders, resolved \in BOOLEAN, committed \in BOOLEAN :
          HandlerReturns(w, j, h, resolved, committed)
  BY DEF HandlerStep
<1>2. StoreInv'
  BY <1>0, <1>1 DEF HandlerReturns, StoreInv, StoreTypeOK, AttemptsLeftWhilePending
<1>3. OtherTypes'
  BY <1>0, <1>1 DEF HandlerReturns, OtherTypes
<1>4. RunInv'
  <2>1. CASE run' = run
    BY <1>0, <1>1, <2>1, RunsKept DEF HandlerReturns
  <2>2. CASE run' # run
    <3>1. run[w][j].at \in {"linger", "handle"}
      BY <1>1, <2>2 DEF HandlerReturns
    <3>2. GoodRun([run[w][j] EXCEPT !.at = "done"])
      BY <3>1, PhaseMove DEF Phases
    <3>3. GoodRun([run[w][j] EXCEPT !.at = AfterFailure(run[w][j])])
      BY <3>1, PhaseMove, RunFacts, AfterFailureType DEF Phases
    <3>4. PICK r : GoodRun(r) /\ run' = [run EXCEPT ![w][j] = r]
      <4>1. CASE run[w][j].at = "linger"
        BY <1>1, <2>2, <4>1, NoRunIsGood DEF HandlerReturns
      <4>2. CASE run[w][j].at = "handle"
        <5>1. run' = [run EXCEPT ![w][j] =
                        IF run[w][j].abandoned THEN NoRun
                        ELSE [run[w][j] EXCEPT !.at = IF resolved THEN "done" ELSE AfterFailure(run[w][j])]]
          BY <1>1, <2>2, <4>2 DEF HandlerReturns
        <5> QED BY <5>1, <3>2, <3>3, NoRunIsGood
      <4> QED BY <3>1, <4>1, <4>2
    <3>5. pass' = pass
      BY <1>1 DEF HandlerReturns
    <3> QED BY <3>1, <3>4, <3>5, RunMove
  <2> QED BY <2>1, <2>2
<1> QED BY <1>2, <1>3, <1>4, TypeInvParts, PTL

LEMMA TimeoutFiresType ==
    ASSUME TypeInv, NEW w \in Workers, NEW j \in Jobs, TimeoutFires(w, j)
    PROVE  TypeInv'
<1>0. StoreInv /\ RunInv /\ OtherTypes
  BY TypeInvParts
<1>1. run[w][j].at = "handle"
  BY DEF TimeoutFires
<1>2. GoodRun([run[w][j] EXCEPT !.at = AfterFailure(run[w][j])])
  BY <1>1, PhaseMove, RunFacts, AfterFailureType DEF Phases
<1>3. GoodRun([run[w][j] EXCEPT !.at = "linger"])
  BY <1>1, PhaseMove DEF Phases
<1>4. run' = [run EXCEPT ![w][j] = [run[w][j] EXCEPT !.at =
                  IF run[w][j].abandoned THEN "linger" ELSE AfterFailure(run[w][j])]]
  BY DEF TimeoutFires, TypeInv, TypeOK
<1>5. PICK r : GoodRun(r) /\ run' = [run EXCEPT ![w][j] = r]
  BY <1>2, <1>3, <1>4
<1>6. RunInv'
  BY <1>1, <1>5, RunMove DEF TimeoutFires
<1>7. StoreInv' /\ OtherTypes'
  BY <1>0, StoreKept DEF TimeoutFires, storeVars, OtherTypes
<1> QED BY <1>6, <1>7, TypeInvParts, PTL

LEMMA ReleaseStepType ==
    ASSUME TypeInv, NEW w \in Workers, NEW j \in Jobs, ReleaseStep(w, j)
    PROVE  TypeInv'
<1>0. StoreInv /\ RunInv /\ OtherTypes
  BY TypeInvParts
<1>1. PICK h \in Holders : ReleaseReturns(w, j, h)
  BY DEF ReleaseStep
<1>2. StoreInv'
  BY <1>1, SettleType DEF ReleaseReturns, StoreInv
<1>3. RunInv' /\ OtherTypes'
  BY <1>0, <1>1, RunsKept DEF ReleaseReturns, OtherTypes
<1> QED BY <1>2, <1>3, TypeInvParts, PTL

(* A rejected pass or run disturbs nothing else.                            *)
LEMMA SpendType == ASSUME OtherTypes, NEW d \in Disturbances, Spend(d)
                   PROVE  spent' \in [Disturbances -> Nat]
BY DEF OtherTypes, Spend

LEMMA PassRejectsType ==
    ASSUME OtherTypes, NEW w \in Workers, PassRejects(w)
    PROVE  /\ pass' = [pass EXCEPT ![w] = NoPass]
           /\ pass' \in [Workers -> [at : {"none", "claim", "claimed", "requeue", "work"}, rows : SUBSET Jobs]]
           /\ mode' \in [Workers -> Modes]
BY DEF OtherTypes, PassRejects, NoPass, Modes

LEMMA RunRejectsType ==
    ASSUME TypeInv, NEW w \in Workers, NEW j \in Jobs, run[w][j].at # "claimed", RunRejects(w, j)
    PROVE  /\ RunInv'
           /\ pass' \in [Workers -> [at : {"none", "claim", "claimed", "requeue", "work"}, rows : SUBSET Jobs]]
           /\ mode' \in [Workers -> Modes]
<1>1. RunInv'
  BY NoRunIsGood, RunMove DEF RunRejects
<1>2. /\ pass \in [Workers -> [at : {"none", "claim", "claimed", "requeue", "work"}, rows : SUBSET Jobs]]
      /\ mode \in [Workers -> Modes]
  BY DEF TypeInv, TypeOK
<1>3. NoPass \in [at : {"none", "claim", "claimed", "requeue", "work"}, rows : SUBSET Jobs]
  BY DEF NoPass
<1>4. /\ pass' = pass \/ pass' = [pass EXCEPT ![w] = NoPass]
      /\ mode' = mode \/ mode' = [mode EXCEPT ![w] = "halted"] \/ mode' = [mode EXCEPT ![w] = mode[w]]
  BY DEF RunRejects
<1> QED BY <1>1, <1>2, <1>3, <1>4 DEF Modes

LEMMA ClaimRowsType ==
    ASSUME StoreInv, NEW ids, NEW h \in Holders, ClaimRows(ids, h), UNCHANGED marker
    PROVE  StoreInv'
BY DEF ClaimRows, ClaimedRow, Claimable, Row, StoreInv, StoreTypeOK, AttemptsLeftWhilePending

LEMMA FaultType ==
    ASSUME TypeInv, NEW w \in Workers, Fault(w)
    PROVE  TypeInv'
<1>0. StoreInv /\ RunInv /\ OtherTypes /\ "fault" \in Disturbances
  BY TypeInvParts DEF Disturbances
<1> SUFFICES StoreInv' /\ RunInv' /\ OtherTypes'
  BY TypeInvParts, PTL
<1>1. CASE ScanFails(w)
  BY <1>0, <1>1, PassRejectsType, SpendType, StoreKept, RunsKept DEF ScanFails, storeVars, OtherTypes
<1>2. ASSUME NEW h \in Holders, ClaimFails(w, h) PROVE StoreInv' /\ RunInv' /\ OtherTypes'
  <2>1. StoreInv'
    BY <1>0, <1>2, ClaimRowsType, StoreKept DEF ClaimFails, storeVars
  <2> QED BY <1>0, <1>2, <2>1, PassRejectsType, SpendType, RunsKept DEF ClaimFails, OtherTypes
<1>3. ASSUME NEW j \in Jobs, CheckFails(w, j) PROVE StoreInv' /\ RunInv' /\ OtherTypes'
  BY <1>0, <1>3, RunRejectsType, SpendType, StoreKept DEF CheckFails, storeVars, OtherTypes
<1>4. ASSUME NEW j \in Jobs, SettleFails(w, j) PROVE StoreInv' /\ RunInv' /\ OtherTypes'
  <2>1. StoreInv'
    BY <1>0, <1>4, SettleRowType, StoreKept DEF SettleFails
  <2>2. run[w][j].at # "claimed"
    BY <1>4 DEF SettleFails, Settling
  <2> QED BY <1>0, <1>4, <2>1, <2>2, RunRejectsType, SpendType DEF SettleFails, OtherTypes
<1>5. ASSUME NEW j \in Jobs, OnDeadFails(w, j) PROVE StoreInv' /\ RunInv' /\ OtherTypes'
  BY <1>0, <1>5, RunRejectsType, SpendType, StoreKept DEF OnDeadFails, storeVars, OtherTypes
<1>6. ASSUME NEW j \in Jobs, NEW h \in Holders, ReleaseFails(w, j, h)
      PROVE  StoreInv' /\ RunInv' /\ OtherTypes'
  BY <1>0, <1>6, SpendType, StoreKept, RunsKept DEF ReleaseFails, storeVars, OtherTypes
<1> QED BY <1>1, <1>2, <1>3, <1>4, <1>5, <1>6 DEF Fault

-----------------------------------------------------------------------------
(* Shutdown, crash and restart.                                            *)
LEMMA ProcessStepType ==
    ASSUME TypeInv, NEW w \in Workers,
           \/ Shutdown(w) \/ DrainSettles(w) \/ GraceElapses(w)
           \/ Crash(w) \/ Exit(w) \/ Restart(w)
    PROVE  TypeInv'
<1>0. StoreInv /\ RunInv /\ OtherTypes /\ Disturbances = {"fault", "crash", "early", "replay", "shutdown"}
  BY TypeInvParts DEF Disturbances
<1> SUFFICES StoreInv' /\ RunInv' /\ OtherTypes'
  BY TypeInvParts, PTL
<1>1. CASE Shutdown(w)
  BY <1>0, <1>1, SpendType, StoreKept, RunsKept DEF Shutdown, storeVars, OtherTypes, Modes
<1>2. CASE DrainSettles(w)
  BY <1>0, <1>2, StoreKept, RunsKept DEF DrainSettles, storeVars, OtherTypes, Modes
<1>3. CASE GraceElapses(w)
  <2>1. \A j \in Active(w) : j \in Jobs /\ run[w][j].holder \in Holders
    BY RunFacts DEF Active
  <2>2. releasing' \in [Workers -> SUBSET (Jobs \X Holders)]
    <3>1. {<<j, run[w][j].holder>> : j \in Active(w)} \subseteq Jobs \X Holders
      BY <2>1
    <3> QED BY <1>0, <1>3, <3>1 DEF GraceElapses, OtherTypes
  <2>3. RunInv'
    <3> DEFINE f == [j \in Jobs |-> IF j \in Active(w) THEN [run[w][j] EXCEPT !.abandoned = TRUE]
                                                       ELSE run[w][j]]
    <3>1. run' = [run EXCEPT ![w] = f]
      BY <1>0, <1>3 DEF GraceElapses, RunInv
    <3>2. f \in [Jobs -> Run] /\ \A j \in Jobs : /\ f[j].at = run[w][j].at
                                                 /\ f[j].attempts = run[w][j].attempts
                                                 /\ f[j].holder = run[w][j].holder
      <4>1. \A j \in Jobs : run[w][j] \in Run
        BY <1>0 DEF RunInv
      <4> QED BY <4>1 DEF Run
    <3>3. pass' = pass
      BY <1>3 DEF GraceElapses
    <3> HIDE DEF f
    <3>4. \A v \in Workers, j \in Jobs : /\ run'[v][j].at = run[v][j].at
                                         /\ run'[v][j].attempts = run[v][j].attempts
                                         /\ run'[v][j].holder = run[v][j].holder
      BY <1>0, <3>1, <3>2 DEF RunInv
    <3>5. run' \in [Workers -> [Jobs -> Run]]
      BY <1>0, <3>1, <3>2 DEF RunInv
    <3>6. RunsHaveAttempts' /\ RunsHaveHolders'
      BY <1>0, <3>4 DEF RunInv, RunsHaveAttempts, RunsHaveHolders
    <3>7. ClaimedRowsAreRuns'
      <4>1. \A v \in Workers : pass[v].rows \subseteq Jobs
        BY <1>0 DEF OtherTypes
      <4> QED BY <1>0, <3>3, <3>4, <4>1 DEF RunInv, ClaimedRowsAreRuns
    <3> QED BY <3>5, <3>6, <3>7 DEF RunInv
  <2> QED BY <1>0, <1>3, <2>2, <2>3, StoreKept DEF GraceElapses, storeVars, OtherTypes, Modes
<1>4. ASSUME GoesDown(w), spent' \in [Disturbances -> Nat] PROVE StoreInv' /\ RunInv' /\ OtherTypes'
  <2>1. RunInv'
    <3>1. run' = [run EXCEPT ![w] = [j \in Jobs |-> NoRun]] /\ pass' = [pass EXCEPT ![w] = NoPass]
      BY <1>4 DEF GoesDown
    <3>2. \A j \in Jobs : GoodRun([i \in Jobs |-> NoRun][j])
      BY NoRunIsGood
    <3> QED BY <1>0, <3>1, <3>2 DEF RunInv, RunsHaveAttempts, RunsHaveHolders, ClaimedRowsAreRuns,
                                GoodRun, NoPass, OtherTypes
  <2> QED BY <1>0, <1>4, <2>1, StoreKept DEF GoesDown, OtherTypes, NoPass, Modes
<1>5. CASE Crash(w)
  BY <1>0, <1>4, <1>5, SpendType DEF Crash
<1>6. CASE Exit(w)
  BY <1>0, <1>4, <1>6 DEF Exit, OtherTypes
<1>7. CASE Restart(w)
  BY <1>0, <1>7, StoreKept, RunsKept DEF Restart, storeVars, OtherTypes, Modes
<1> QED BY <1>1, <1>2, <1>3, <1>5, <1>6, <1>7

(* The table seen from outside the workers.                                 *)
LEMMA TableStepType ==
    ASSUME TypeInv, NEW j \in Jobs,
           EnqueueJob(j) \/ ReplayJob(j) \/ LeaseExpires(j) \/ LeaseExpiresUnderRun(j)
    PROVE  TypeInv'
<1>0. StoreInv /\ RunInv /\ OtherTypes /\ Disturbances = {"fault", "crash", "early", "replay", "shutdown"}
  BY TypeInvParts DEF Disturbances
<1>1. UNCHANGED workerVars /\ spent' \in [Disturbances -> Nat]
  BY <1>0, SpendType DEF EnqueueJob, ReplayJob, LeaseExpires, LeaseExpiresUnderRun, OtherTypes
<1>2. RunInv' /\ OtherTypes'
  BY <1>0, <1>1, RunsKept DEF workerVars, OtherTypes
<1>3. StoreInv'
  <2>1. CASE EnqueueJob(j)
    <3>1. PICK delayed \in BOOLEAN : Enqueue(j, delayed)
      BY <2>1 DEF EnqueueJob
    <3>2. [status |-> "pending", owner |-> NoHolder, hidden |-> delayed, attempts |-> 0] \in Row
      BY AttemptsAssumption DEF Row
    <3> QED BY <1>0, <3>1, <3>2, AttemptsAssumption DEF Enqueue, StoreInv, StoreTypeOK, AttemptsLeftWhilePending
  <2>2. CASE ReplayJob(j)
    BY <1>0, <2>2, AttemptsAssumption DEF ReplayJob, Replay, StoreInv, StoreTypeOK, Row, AttemptsLeftWhilePending
  <2>3. CASE LeaseExpires(j) \/ LeaseExpiresUnderRun(j)
    <3>1. row' = [row EXCEPT ![j].hidden = FALSE] /\ marker' = marker
      BY <2>3 DEF LeaseExpires, LeaseExpiresUnderRun, LeaseUntilPasses
    <3>2. row \in [Jobs -> Row] /\ row[j] \in Row
      BY <1>0 DEF StoreInv, StoreTypeOK
    <3>3. [row[j] EXCEPT !.hidden = FALSE] \in Row
      BY <3>2 DEF Row
    <3>4. row' \in [Jobs -> Row]
      BY <3>1, <3>2, <3>3
    <3>5. \A i \in Jobs : row'[i].status = row[i].status /\ row'[i].attempts = row[i].attempts
      BY <3>1, <3>2 DEF Row
    <3> QED BY <1>0, <3>1, <3>4, <3>5 DEF StoreInv, StoreTypeOK, AttemptsLeftWhilePending
  <2> QED BY <2>1, <2>2, <2>3
<1> QED BY <1>2, <1>3, TypeInvParts, PTL

LEMMA TypeStep == TypeInv /\ [Next]_vars => TypeInv'
<1> SUFFICES ASSUME TypeInv, [Next]_vars PROVE TypeInv'
  OBVIOUS
<1>1. CASE UNCHANGED vars
  BY <1>1 DEF vars, TypeInv, TypeOK, StoreTypeOK, AttemptsLeftWhilePending, RunsHaveAttempts,
              RunsHaveHolders, ClaimedRowsAreRuns
<1>2. CASE Next
  BY <1>2, PassStepType, FaultType, ProcessStepType, RunStepType, TimeoutFiresType, HandlerStepType,
     ReleaseStepType, TableStepType DEF Next
<1> QED BY <1>1, <1>2

(* Every variable keeps its type: in particular no settlement ever records  *)
(* more attempts than the retry policy allows.                              *)
THEOREM TypeInvariant == Spec => []TypeInv
BY TypeInit, TypeStep, PTL DEF Spec

THEOREM TypeCorrect == Spec => []TypeOK
<1>1. TypeInv => TypeOK
  BY DEF TypeInv
<1> QED BY <1>1, TypeInvariant, PTL

(* A row that is still to be run has attempts left, whichever workers       *)
(* recorded the attempts before it.                                         *)
THEOREM AttemptsLeft == Spec => []AttemptsLeftWhilePending
<1>1. TypeInv => AttemptsLeftWhilePending
  BY DEF TypeInv
<1> QED BY <1>1, TypeInvariant, PTL

-----------------------------------------------------------------------------
(* What one step may do to the runs of any worker: a run keeps its holder   *)
(* and its attempts or disappears, except that a claim with a new holder    *)
(* starts runs.                                                            *)
RunsOnlyEnd ==
    \A w \in Workers, j \in Jobs :
        run'[w][j].at # "off" => /\ run[w][j].at # "off"
                                 /\ run'[w][j].holder = run[w][j].holder
                                 /\ run'[w][j].attempts = run[w][j].attempts

LEMMA RunReplaced ==
    ASSUME TypeInv, NEW w \in Workers, NEW j \in Jobs, NEW r,
           run' = [run EXCEPT ![w][j] = r],
           r.at # "off" => /\ run[w][j].at # "off"
                           /\ r.holder = run[w][j].holder
                           /\ r.attempts = run[w][j].attempts
    PROVE  RunsOnlyEnd
BY DEF TypeInv, TypeOK, RunsOnlyEnd

LEMMA OffRun == NoRun.at = "off"
BY DEF NoRun

LEMMA RunDropped ==
    ASSUME TypeInv, NEW w \in Workers, NEW j \in Jobs, run' = [run EXCEPT ![w][j] = NoRun]
    PROVE  RunsOnlyEnd
BY RunReplaced, OffRun

LEMMA PhaseChanged ==
    ASSUME TypeInv, NEW w \in Workers, NEW j \in Jobs, NEW p, run[w][j].at # "off",
           run' = [run EXCEPT ![w][j] = [run[w][j] EXCEPT !.at = p]]
    PROVE  RunsOnlyEnd
<1>1. run[w][j] \in Run
  BY DEF TypeInv, TypeOK
<1> DEFINE r == [run[w][j] EXCEPT !.at = p]
<1>2. r.holder = run[w][j].holder /\ r.attempts = run[w][j].attempts
  BY <1>1 DEF Run
<1>3. run' = [run EXCEPT ![w][j] = r]
  OBVIOUS
<1> HIDE DEF r
<1> QED BY <1>2, <1>3 DEF TypeInv, TypeOK, RunsOnlyEnd

LEMMA RunFinished ==
    ASSUME TypeInv, NEW w \in Workers, NEW j \in Jobs, run[w][j].at # "off",
           run' = [run EXCEPT ![w][j] = Finished(w, j)]
    PROVE  RunsOnlyEnd
<1>1. \/ run' = [run EXCEPT ![w][j] = NoRun]
      \/ run' = [run EXCEPT ![w][j] = [run[w][j] EXCEPT !.at = "linger"]]
  BY DEF Finished
<1> QED BY <1>1, RunDropped, PhaseChanged

LEMMA RunStepEnds ==
    ASSUME TypeInv, NEW w \in Workers, NEW j \in Jobs, RunStep(w, j)
    PROVE  RunsOnlyEnd
<1>0. run \in [Workers -> [Jobs -> Run]]
  BY DEF TypeInv, TypeOK
<1>1. CASE LockKey(w, j)
  <2>1. \/ run' = [run EXCEPT ![w][j] = NoRun]
        \/ run' = [run EXCEPT ![w][j] = [run[w][j] EXCEPT !.at = "check"]]
    BY <1>0, <1>1 DEF LockKey
  <2> QED BY <1>1, <2>1, RunDropped, PhaseChanged DEF LockKey
<1>2. CASE CheckReturns(w, j)
  <2>1. \/ run' = [run EXCEPT ![w][j] = NoRun]
        \/ run' = [run EXCEPT ![w][j] = [run[w][j] EXCEPT !.at = AfterCheck(w, j)]]
    BY <1>0, <1>2 DEF CheckReturns
  <2> QED BY <1>2, <2>1, RunDropped, PhaseChanged DEF CheckReturns
<1>3. CASE StartHandler(w, j)
  <2>1. \/ run' = [run EXCEPT ![w][j] = NoRun]
        \/ run' = [run EXCEPT ![w][j] = [run[w][j] EXCEPT !.at = "handle"]]
    BY <1>0, <1>3 DEF StartHandler
  <2> QED BY <1>3, <2>1, RunDropped, PhaseChanged DEF StartHandler
<1>4. CASE SettleReturns(w, j)
  <2>1. PICK settled : run' = [run EXCEPT ![w][j] = AfterSettle(w, j, settled)]
    BY <1>4 DEF SettleReturns
  <2>2. run[w][j].at # "off"
    BY <1>4 DEF SettleReturns, Settling
  <2> QED BY <2>1, <2>2, RunFinished, PhaseChanged DEF AfterSettle
<1>5. CASE OnDeadReturns(w, j)
  BY <1>5, RunFinished DEF OnDeadReturns
<1> QED BY <1>1, <1>2, <1>3, <1>4, <1>5 DEF RunStep

LEMMA HandlerStepEnds ==
    ASSUME TypeInv, NEW w \in Workers, NEW j \in Jobs, HandlerStep(w, j)
    PROVE  RunsOnlyEnd
<1>1. PICK h \in Holders, resolved \in BOOLEAN, committed \in BOOLEAN :
          HandlerReturns(w, j, h, resolved, committed)
  BY DEF HandlerStep
<1>2. \/ run' = run
      \/ run' = [run EXCEPT ![w][j] = NoRun]
      \/ /\ run[w][j].at = "handle"
         /\ run' = [run EXCEPT ![w][j] = [run[w][j] EXCEPT !.at =
                                              IF resolved THEN "done" ELSE AfterFailure(run[w][j])]]
  BY <1>1 DEF HandlerReturns
<1> QED BY <1>2, RunDropped, PhaseChanged DEF RunsOnlyEnd

LEMMA RunRejectsEnds ==
    ASSUME TypeInv, NEW w \in Workers, NEW j \in Jobs, RunRejects(w, j)
    PROVE  RunsOnlyEnd
BY RunDropped DEF RunRejects

(* Every step but a claim.                                                  *)
LEMMA StepsEndRuns ==
    ASSUME TypeInv, [Next]_vars,
           ~ \E w \in Workers, h \in Holders : Claim(w, h)
    PROVE  RunsOnlyEnd
<1>0. run \in [Workers -> [Jobs -> Run]]
  BY DEF TypeInv, TypeOK
<1>1. CASE UNCHANGED run
  BY <1>1 DEF RunsOnlyEnd
<1>2. ASSUME NEW w \in Workers, PassStep(w) PROVE RunsOnlyEnd
  <2>1. CASE ClaimReturns(w)
    <3>1. \A j \in Jobs : j \in pass[w].rows => run[w][j].at # "off"
      BY <2>1 DEF ClaimReturns, TypeInv, ClaimedRowsAreRuns
    <3>2. \A j \in Jobs :
              \/ run'[w][j] = run[w][j]
              \/ run'[w][j] = NoRun
              \/ j \in pass[w].rows /\ run'[w][j] = [run[w][j] EXCEPT !.at = "lock"]
      BY <1>0, <2>1 DEF ClaimReturns
    <3>3. \A v \in Workers : v # w => run'[v] = run[v]
      BY <1>0, <2>1 DEF ClaimReturns
    <3>4. \A j \in Jobs : /\ [run[w][j] EXCEPT !.at = "lock"].holder = run[w][j].holder
                           /\ [run[w][j] EXCEPT !.at = "lock"].attempts = run[w][j].attempts
      <4>1. \A j \in Jobs : run[w][j] \in Run
        BY <1>0
      <4> QED BY <4>1 DEF Run
    <3>5. \A j \in Jobs : run'[w][j].at # "off" =>
              /\ run[w][j].at # "off"
              /\ run'[w][j].holder = run[w][j].holder
              /\ run'[w][j].attempts = run[w][j].attempts
      <4> TAKE j \in Jobs
      <4>1. CASE run'[w][j] = run[w][j]
        BY <4>1
      <4>2. CASE run'[w][j] = NoRun
        BY <4>2, OffRun
      <4>3. CASE j \in pass[w].rows /\ run'[w][j] = [run[w][j] EXCEPT !.at = "lock"]
        BY <4>3, <3>1, <3>4
      <4> QED BY <4>1, <4>2, <4>3, <3>2, Zenon
    <3> QED BY <3>3, <3>5 DEF RunsOnlyEnd
  <2> QED BY <1>1, <1>2, <2>1 DEF PassStep, Scan, EndPass
<1>3. ASSUME NEW w \in Workers, Fault(w) PROVE RunsOnlyEnd
  BY <1>1, <1>3, RunRejectsEnds
     DEF Fault, ScanFails, ClaimFails, CheckFails, SettleFails, OnDeadFails, ReleaseFails
<1>4. ASSUME NEW w \in Workers, Shutdown(w) \/ DrainSettles(w) \/ Restart(w) PROVE RunsOnlyEnd
  BY <1>1, <1>4 DEF Shutdown, DrainSettles, Restart
<1>5. ASSUME NEW w \in Workers, GraceElapses(w) PROVE RunsOnlyEnd
  <2>1. \A j \in Jobs : run'[w][j] \in {run[w][j], [run[w][j] EXCEPT !.abandoned = TRUE]}
    BY <1>0, <1>5 DEF GraceElapses
  <2>2. \A v \in Workers : v # w => run'[v] = run[v]
    BY <1>0, <1>5 DEF GraceElapses
  <2>3. \A j \in Jobs : /\ [run[w][j] EXCEPT !.abandoned = TRUE].at = run[w][j].at
                         /\ [run[w][j] EXCEPT !.abandoned = TRUE].holder = run[w][j].holder
                         /\ [run[w][j] EXCEPT !.abandoned = TRUE].attempts = run[w][j].attempts
    <3>1. \A j \in Jobs : run[w][j] \in Run
      BY <1>0
    <3> QED BY <3>1 DEF Run
  <2>4. \A j \in Jobs : /\ run'[w][j].at = run[w][j].at
                         /\ run'[w][j].holder = run[w][j].holder
                         /\ run'[w][j].attempts = run[w][j].attempts
    BY <2>1, <2>3
  <2> QED BY <2>2, <2>4 DEF RunsOnlyEnd
<1>6. ASSUME NEW w \in Workers, Crash(w) \/ Exit(w) PROVE RunsOnlyEnd
  <2>1. run' = [run EXCEPT ![w] = [j \in Jobs |-> NoRun]]
    BY <1>6 DEF Crash, Exit, GoesDown
  <2> QED BY <1>0, <2>1, OffRun DEF RunsOnlyEnd
<1>7. ASSUME NEW w \in Workers, NEW j \in Jobs, TimeoutFires(w, j) PROVE RunsOnlyEnd
  <2>1. \/ run' = [run EXCEPT ![w][j] = [run[w][j] EXCEPT !.at = "linger"]]
        \/ run' = [run EXCEPT ![w][j] = [run[w][j] EXCEPT !.at = AfterFailure(run[w][j])]]
    BY <1>0, <1>7 DEF TimeoutFires
  <2> QED BY <1>7, <2>1, PhaseChanged DEF TimeoutFires
<1>8. ASSUME NEW w \in Workers, NEW j \in Jobs, ReleaseStep(w, j) PROVE RunsOnlyEnd
  BY <1>1, <1>8 DEF ReleaseStep, ReleaseReturns
<1>9. ASSUME NEW j \in Jobs, EnqueueJob(j) \/ ReplayJob(j) \/ LeaseExpires(j) \/ LeaseExpiresUnderRun(j)
      PROVE  RunsOnlyEnd
  BY <1>1, <1>9 DEF EnqueueJob, ReplayJob, LeaseExpires, LeaseExpiresUnderRun, workerVars
<1> QED BY <1>1, <1>2, <1>3, <1>4, <1>5, <1>6, <1>7, <1>8, <1>9, RunStepEnds, HandlerStepEnds DEF Next, vars

-----------------------------------------------------------------------------
(* What one step may do to the table.                                      *)
KeptOrMarked == row' = row /\ (marker' = marker \/ \E j \in Jobs : marker' = marker \cup {Key(j)})

Claimed == \E h \in Holders : /\ Fresh(h) /\ (\E ids \in SUBSET Jobs : ClaimRows(ids, h))
                              /\ UNCHANGED marker

Settled == \E w \in Workers, j \in Jobs : Settling(w, j) /\ SettleRow(w, j)

Released == \E w \in Workers, j \in Jobs, h \in Holders :
                <<j, h>> \in releasing[w] /\ Settle(j, h, "release", 0)

Changed(j) == (\E delayed \in BOOLEAN : Enqueue(j, delayed)) \/ Replay(j) \/ LeaseUntilPasses(j)

StoreStep == KeptOrMarked \/ Claimed \/ Settled \/ Released \/ \E j \in Jobs : Changed(j)

LEMMA StoreSteps == ASSUME TypeInv, [Next]_vars PROVE StoreStep
<1>0. pass \in [Workers -> [at : {"none", "claim", "claimed", "requeue", "work"}, rows : SUBSET Jobs]]
  BY DEF TypeInv, TypeOK
<1>1. CASE row' = row /\ marker' = marker
  BY <1>1 DEF StoreStep, KeptOrMarked
<1>2. ASSUME NEW w \in Workers, PassStep(w) PROVE StoreStep
  <2>1. ASSUME NEW h \in Holders, Claim(w, h) PROVE StoreStep
    <3>1. Fresh(h) /\ ClaimRows(pass[w].rows, h) /\ UNCHANGED marker
      BY <2>1 DEF Claim
    <3>2. pass[w].rows \in SUBSET Jobs
      BY <1>0
    <3> QED BY <3>1, <3>2 DEF StoreStep, Claimed
  <2> QED BY <1>1, <1>2, <2>1 DEF PassStep, Scan, ClaimReturns, EndPass
<1>3. ASSUME NEW w \in Workers, Fault(w) PROVE StoreStep
  <2>1. ASSUME NEW h \in Holders, ClaimFails(w, h) PROVE StoreStep
    <3>1. pass[w].rows \in SUBSET Jobs
      BY <1>0
    <3>2. /\ Fresh(h) /\ UNCHANGED marker
          /\ UNCHANGED row \/ ClaimRows(pass[w].rows, h)
      BY <2>1 DEF ClaimFails
    <3> QED BY <1>1, <3>1, <3>2 DEF StoreStep, Claimed
  <2>2. ASSUME NEW j \in Jobs, SettleFails(w, j) PROVE StoreStep
    BY <1>1, <2>2 DEF SettleFails, StoreStep, Settled, storeVars
  <2> QED BY <1>1, <1>3, <2>1, <2>2 DEF Fault, ScanFails, CheckFails, OnDeadFails, ReleaseFails
<1>4. ASSUME NEW w \in Workers,
             \/ Shutdown(w) \/ DrainSettles(w) \/ GraceElapses(w)
             \/ Crash(w) \/ Exit(w) \/ Restart(w)
      PROVE  StoreStep
  BY <1>1, <1>4 DEF Shutdown, DrainSettles, GraceElapses, Crash, Exit, Restart, GoesDown, storeVars
<1>5. ASSUME NEW w \in Workers, NEW j \in Jobs, RunStep(w, j) PROVE StoreStep
  <2>1. CASE SettleReturns(w, j)
    BY <2>1 DEF SettleReturns, StoreStep, Settled
  <2> QED BY <1>1, <1>5, <2>1 DEF RunStep, LockKey, CheckReturns, StartHandler, OnDeadReturns
<1>6. ASSUME NEW w \in Workers, NEW j \in Jobs, TimeoutFires(w, j) PROVE StoreStep
  BY <1>1, <1>6 DEF TimeoutFires
<1>7. ASSUME NEW w \in Workers, NEW j \in Jobs, HandlerStep(w, j) PROVE StoreStep
  BY <1>7 DEF HandlerStep, HandlerReturns, StoreStep, KeptOrMarked
<1>8. ASSUME NEW w \in Workers, NEW j \in Jobs, ReleaseStep(w, j) PROVE StoreStep
  BY <1>8 DEF ReleaseStep, ReleaseReturns, StoreStep, Released
<1>9. ASSUME NEW j \in Jobs, EnqueueJob(j) \/ ReplayJob(j) \/ LeaseExpires(j) \/ LeaseExpiresUnderRun(j)
      PROVE  StoreStep
  BY <1>9 DEF EnqueueJob, ReplayJob, LeaseExpires, LeaseExpiresUnderRun, StoreStep, Changed
<1> QED BY <1>1, <1>2, <1>3, <1>4, <1>5, <1>6, <1>7, <1>8, <1>9 DEF Next, vars

(* A row that a step leaves with a holder keeps status, count and its holder*)
(* unless the step is a claim with a new one.                               *)
LEMMA OwnedRowKept ==
    ASSUME TypeInv, StoreStep, NEW i \in Jobs, row'[i].owner \in Holders
    PROVE  /\ row'[i].attempts = row[i].attempts
           /\ row'[i].status = row[i].status
           /\ row'[i].owner = row[i].owner \/ Fresh(row'[i].owner)
<1>0. row \in [Jobs -> Row]
  BY DEF TypeInv, TypeOK, StoreTypeOK
<1>1. row[i] \in Row
  BY <1>0
<1>2. CASE KeptOrMarked
  BY <1>2 DEF KeptOrMarked
<1>3. CASE Claimed
  <2>1. PICK h \in Holders, ids \in SUBSET Jobs : Fresh(h) /\ ClaimRows(ids, h)
    BY <1>3 DEF Claimed
  <2>2. row'[i] = row[i] \/ row'[i] = [row[i] EXCEPT !.owner = h, !.hidden = TRUE]
    BY <2>1 DEF ClaimRows, ClaimedRow
  <2>3. CASE row'[i] = [row[i] EXCEPT !.owner = h, !.hidden = TRUE]
    <3>1. row'[i].owner = h /\ row'[i].attempts = row[i].attempts /\ row'[i].status = row[i].status
      BY <1>1, <2>3 DEF Row
    <3> QED BY <2>1, <3>1
  <2> QED BY <2>2, <2>3
<1>4. ASSUME NEW j \in Jobs, NEW h, NEW kind \in {"done", "retry", "dead", "release"}, NEW a,
             Settle(j, h, kind, a)
      PROVE  row'[i] = row[i]
  <2>1. CASE Fenced(j, h) /\ i = j
    <3>1. row'[i] = RowAfter(j, kind, a)
      BY <1>0, <1>4, <2>1 DEF Settle
    <3>2. RowAfter(j, kind, a).owner = NoHolder
      BY <1>1, <2>1 DEF RowAfter, Row
    <3> QED BY <3>1, <3>2, HolderAssumption
  <2>2. CASE ~(Fenced(j, h) /\ i = j)
    BY <1>0, <1>4, <2>2 DEF Settle, storeVars
  <2> QED BY <2>1, <2>2
<1>5. CASE Settled
  <2>1. PICK w \in Workers, j \in Jobs : Settling(w, j) /\ SettleRow(w, j)
    BY <1>5 DEF Settled
  <2>2. SettlementKind(w, j) \in {"done", "retry", "dead", "release"}
    BY <2>1 DEF Settling, SettlementKind
  <2> QED BY <1>4, <2>1, <2>2 DEF SettleRow
<1>6. CASE Released
  BY <1>4, <1>6 DEF Released
<1>7. ASSUME NEW j \in Jobs, Changed(j)
      PROVE  /\ row'[i].owner = row[i].owner
             /\ row'[i].attempts = row[i].attempts
             /\ row'[i].status = row[i].status
  <2>1. CASE i # j
    BY <1>0, <1>7, <2>1 DEF Changed, Enqueue, Replay, LeaseUntilPasses
  <2>2. CASE i = j /\ LeaseUntilPasses(j)
    <3>1. row'[i] = [row[i] EXCEPT !.hidden = FALSE]
      BY <1>0, <2>2 DEF LeaseUntilPasses
    <3> QED BY <1>1, <3>1 DEF Row
  <2>3. CASE i = j /\ ~LeaseUntilPasses(j)
    <3>1. row'[i].owner = NoHolder
      BY <1>0, <1>7, <2>3 DEF Changed, Enqueue, Replay
    <3> QED BY <3>1, HolderAssumption
  <2> QED BY <2>1, <2>2, <2>3
<1> QED BY <1>2, <1>3, <1>5, <1>6, <1>7 DEF StoreStep

-----------------------------------------------------------------------------
(* The snapshot a run counts from is current while the run may settle.      *)
LEMMA SnapshotInit == Init => SnapshotIsCurrent
BY DEF Init, SnapshotIsCurrent, NoRun

LEMMA SnapshotStep == TypeInv /\ SnapshotIsCurrent /\ [Next]_vars => SnapshotIsCurrent'
<1> SUFFICES ASSUME TypeInv, SnapshotIsCurrent, [Next]_vars,
                    NEW v \in Workers, NEW i \in Jobs,
                    run'[v][i].at # "off", row'[i].status = "pending",
                    row'[i].owner = run'[v][i].holder
             PROVE  run'[v][i].attempts = row'[i].attempts
  BY DEF SnapshotIsCurrent, Fenced
<1>0. StoreStep /\ run \in [Workers -> [Jobs -> Run]] /\ row \in [Jobs -> Row]
  BY StoreSteps DEF TypeInv, TypeOK, StoreTypeOK
<1>1. ASSUME RunsOnlyEnd PROVE run'[v][i].attempts = row'[i].attempts
  <2>1. /\ run[v][i].at # "off"
        /\ run'[v][i].holder = run[v][i].holder
        /\ run'[v][i].attempts = run[v][i].attempts
    BY <1>1 DEF RunsOnlyEnd
  <2>2. run[v][i].holder \in Holders
    BY <2>1, RunFacts
  <2>3. /\ row'[i].attempts = row[i].attempts
        /\ row'[i].status = row[i].status
        /\ row'[i].owner = row[i].owner \/ Fresh(row'[i].owner)
    BY <1>0, <2>1, <2>2, OwnedRowKept
  <2>4. row[i].owner = run[v][i].holder
    BY <2>1, <2>3 DEF Fresh
  <2> QED BY <2>1, <2>3, <2>4 DEF SnapshotIsCurrent, Fenced
<1>2. ASSUME NEW w \in Workers, NEW h \in Holders, Claim(w, h)
      PROVE  run'[v][i].attempts = row'[i].attempts
  <2> DEFINE got == pass[w].rows \cap Claimable
  <2>1. row[i] \in Row
    BY <1>0
  <2>2. CASE i \in got
    <3>1. row'[i] = [row[i] EXCEPT !.owner = h, !.hidden = TRUE]
      BY <1>2, <2>2 DEF Claim, ClaimRows, ClaimedRow
    <3>2. row'[i].owner = h /\ row'[i].attempts = row[i].attempts
      BY <2>1, <3>1 DEF Row
    <3>3. CASE v = w
      BY <1>0, <1>2, <2>2, <3>2, <3>3 DEF Claim
    <3>4. CASE v # w
      <4>1. run'[v][i] = run[v][i]
        BY <1>0, <1>2, <3>4 DEF Claim
      <4> QED BY <1>2, <3>2, <4>1 DEF Claim, Fresh
    <3> QED BY <3>3, <3>4
  <2>3. CASE i \notin got
    <3>1. row'[i] = row[i]
      BY <1>2, <2>3 DEF Claim, ClaimRows, ClaimedRow
    <3>2. run'[v][i] = run[v][i]
      BY <1>0, <1>2, <2>3 DEF Claim
    <3> QED BY <3>1, <3>2 DEF SnapshotIsCurrent, Fenced
  <2> QED BY <2>2, <2>3
<1> QED BY <1>1, <1>2, StepsEndRuns

(* A run that may settle counts from the row's own count.                   *)
THEOREM SnapshotCurrent == Spec => []SnapshotIsCurrent
BY TypeInvariant, SnapshotInit, SnapshotStep, PTL DEF Spec

-----------------------------------------------------------------------------
(* A done job is marked, and stays as it is.                               *)
LEMMA SettleMarks ==
    ASSUME TypeInv, NEW j \in Jobs, NEW h, NEW kind \in {"done", "retry", "dead", "release"}, NEW a,
           Settle(j, h, kind, a), NEW i \in Jobs
    PROVE  /\ marker \subseteq marker'
           /\ row[i].status = "done" => row'[i] = row[i]
           /\ row'[i].status = "done" => row[i].status = "done" \/ Key(i) \in marker'
<1>0. row \in [Jobs -> Row] /\ row[j] \in Row
  BY DEF TypeInv, TypeOK, StoreTypeOK
<1>1. CASE Fenced(j, h) /\ i = j
  <2>1. row'[i] = RowAfter(j, kind, a) /\ marker' = MarkersAfter(j, kind) /\ row[i].status = "pending"
    BY <1>0, <1>1 DEF Settle, Fenced
  <2>2. RowAfter(j, kind, a).status = "done" => kind = "done"
    BY <1>0, <1>1, <2>1 DEF RowAfter, Row
  <2> QED BY <1>1, <2>1, <2>2 DEF MarkersAfter
<1>2. CASE Fenced(j, h) /\ i # j
  BY <1>0, <1>2 DEF Settle, MarkersAfter
<1>3. CASE ~Fenced(j, h)
  BY <1>3 DEF Settle, storeVars
<1> QED BY <1>1, <1>2, <1>3

LEMMA DoneStep ==
    ASSUME TypeInv, StoreStep, NEW i \in Jobs
    PROVE  /\ marker \subseteq marker'
           /\ row[i].status = "done" => row'[i] = row[i]
           /\ row'[i].status = "done" => row[i].status = "done" \/ Key(i) \in marker'
<1>0. row \in [Jobs -> Row] /\ row[i] \in Row
  BY DEF TypeInv, TypeOK, StoreTypeOK
<1>1. CASE KeptOrMarked
  BY <1>1 DEF KeptOrMarked
<1>2. CASE Claimed
  <2>1. PICK h \in Holders, ids \in SUBSET Jobs : ClaimRows(ids, h) /\ UNCHANGED marker
    BY <1>2 DEF Claimed
  <2>2. \/ row'[i] = row[i]
        \/ row[i].status = "pending" /\ row'[i] = [row[i] EXCEPT !.owner = h, !.hidden = TRUE]
    BY <2>1 DEF ClaimRows, ClaimedRow, Claimable
  <2>3. row[i].status = "pending" => [row[i] EXCEPT !.owner = h, !.hidden = TRUE].status = "pending"
    BY <1>0 DEF Row
  <2> QED BY <2>1, <2>2, <2>3
<1>3. CASE Settled
  <2>1. PICK w \in Workers, j \in Jobs : Settling(w, j) /\ SettleRow(w, j)
    BY <1>3 DEF Settled
  <2>2. SettlementKind(w, j) \in {"done", "retry", "dead", "release"}
    BY <2>1 DEF Settling, SettlementKind
  <2> QED BY <2>1, <2>2, SettleMarks DEF SettleRow
<1>4. CASE Released
  BY <1>4, SettleMarks DEF Released
<1>5. ASSUME NEW j \in Jobs, Changed(j)
      PROVE  /\ marker' = marker
             /\ row'[i] = row[i] \/ (row[i].status # "done" /\ row'[i].status = "pending")
  <2>1. CASE i # j
    BY <1>0, <1>5, <2>1 DEF Changed, Enqueue, Replay, LeaseUntilPasses
  <2>2. CASE i = j /\ LeaseUntilPasses(j)
    <3>1. row'[i] = [row[i] EXCEPT !.hidden = FALSE] /\ row[i].status = "pending"
      BY <1>0, <2>2 DEF LeaseUntilPasses
    <3>2. row'[i].status = row[i].status
      BY <1>0, <3>1 DEF Row
    <3> QED BY <2>2, <3>1, <3>2 DEF LeaseUntilPasses
  <2>3. CASE i = j /\ ~LeaseUntilPasses(j)
    BY <1>0, <1>5, <2>3 DEF Changed, Enqueue, Replay
  <2> QED BY <2>1, <2>2, <2>3
<1> QED BY <1>1, <1>2, <1>3, <1>4, <1>5 DEF StoreStep

(* A job is done only together with its completion marker.                  *)
THEOREM DoneMarked == Spec => []DoneIsMarked
<1>1. Init => DoneIsMarked
  BY DEF Init, StoreInit, DoneIsMarked
<1>2. TypeInv /\ DoneIsMarked /\ [Next]_vars => DoneIsMarked'
  BY StoreSteps, DoneStep DEF DoneIsMarked
<1> QED BY <1>1, <1>2, TypeInvariant, PTL DEF Spec

(* Nothing ever touches a job that is done.                                 *)
THEOREM DoneFinal == Spec => DoneIsFinal
<1>1. TypeInv /\ [Next]_vars => [\A j \in Jobs : row[j].status = "done" => row'[j] = row[j]]_vars
  BY StoreSteps, DoneStep
<1> QED BY <1>1, TypeInvariant, PTL DEF Spec, DoneIsFinal

-----------------------------------------------------------------------------
(* One settler: the holders known to two workers are never the same.       *)
RunHolders(w) == {run[w][j].holder : j \in {i \in Jobs : run[w][i].at # "off"}}

KnownTo(w) == RunHolders(w) \cup {p[2] : p \in releasing[w]}

HoldersApart == \A v, w \in Workers : v # w => KnownTo(v) \cap KnownTo(w) = {}

LEMMA ReleasesAreOfRuns ==
    ASSUME TypeInv, [Next]_vars, NEW v \in Workers, NEW p \in releasing'[v]
    PROVE  p \in releasing[v] \/ p[2] \in RunHolders(v)
<1>0. releasing \in [Workers -> SUBSET (Jobs \X Holders)]
  BY DEF TypeInv, TypeOK
<1>1. CASE releasing'[v] \subseteq releasing[v]
  BY <1>1
<1>2. ASSUME NEW w \in Workers, ClaimReturns(w) PROVE p \in releasing[v] \/ p[2] \in RunHolders(v)
  <2>1. \/ releasing'[v] \subseteq releasing[v]
        \/ v = w /\ releasing'[v] = releasing[v] \cup {<<j, run[v][j].holder>> : j \in pass[v].rows}
    BY <1>0, <1>2 DEF ClaimReturns
  <2>2. v = w => \A j \in pass[v].rows : j \in Jobs /\ run[v][j].at = "claimed"
    BY <1>2 DEF ClaimReturns, TypeInv, TypeOK, ClaimedRowsAreRuns
  <2> QED BY <2>1, <2>2 DEF RunHolders
<1>3. ASSUME NEW w \in Workers, GraceElapses(w) PROVE p \in releasing[v] \/ p[2] \in RunHolders(v)
  <2>1. \/ releasing'[v] \subseteq releasing[v]
        \/ releasing'[v] = releasing[v] \cup {<<j, run[v][j].holder>> : j \in Active(v)}
    BY <1>0, <1>3 DEF GraceElapses
  <2> QED BY <2>1 DEF RunHolders, Active
<1>4. ASSUME NEW w \in Workers, PassStep(w) PROVE p \in releasing[v] \/ p[2] \in RunHolders(v)
  BY <1>1, <1>2, <1>4 DEF PassStep, Scan, Claim, EndPass
<1>5. ASSUME NEW w \in Workers, Fault(w) PROVE releasing'[v] \subseteq releasing[v]
  BY <1>0, <1>5 DEF Fault, ScanFails, ClaimFails, CheckFails, SettleFails, OnDeadFails, ReleaseFails
<1>6. ASSUME NEW w \in Workers,
             Shutdown(w) \/ DrainSettles(w) \/ Crash(w) \/ Exit(w) \/ Restart(w)
      PROVE  releasing'[v] \subseteq releasing[v]
  BY <1>0, <1>6 DEF Shutdown, DrainSettles, Crash, Exit, Restart, GoesDown
<1>7. ASSUME NEW w \in Workers, NEW j \in Jobs,
             RunStep(w, j) \/ TimeoutFires(w, j) \/ HandlerStep(w, j) \/ ReleaseStep(w, j)
      PROVE  releasing'[v] \subseteq releasing[v]
  BY <1>0, <1>7 DEF RunStep, LockKey, CheckReturns, StartHandler, SettleReturns, OnDeadReturns,
                    TimeoutFires, HandlerStep, HandlerReturns, ReleaseStep, ReleaseReturns
<1>8. ASSUME NEW j \in Jobs, EnqueueJob(j) \/ ReplayJob(j) \/ LeaseExpires(j) \/ LeaseExpiresUnderRun(j)
      PROVE  releasing'[v] \subseteq releasing[v]
  BY <1>8 DEF EnqueueJob, ReplayJob, LeaseExpires, LeaseExpiresUnderRun, workerVars
<1> QED BY <1>1, <1>3, <1>4, <1>5, <1>6, <1>7, <1>8 DEF Next, vars

LEMMA HoldersApartStep == TypeInv /\ HoldersApart /\ [Next]_vars => HoldersApart'
<1> SUFFICES ASSUME TypeInv, HoldersApart, [Next]_vars PROVE HoldersApart'
  OBVIOUS
<1>0. /\ run \in [Workers -> [Jobs -> Run]]
      /\ releasing \in [Workers -> SUBSET (Jobs \X Holders)]
  BY DEF TypeInv, TypeOK
<1>1. CASE ~ \E w \in Workers, h \in Holders : Claim(w, h)
  <2>1. \A v \in Workers : RunHolders(v)' \subseteq RunHolders(v)
    BY <1>1, StepsEndRuns DEF RunsOnlyEnd, RunHolders
  <2>2. \A v \in Workers : KnownTo(v)' \subseteq KnownTo(v)
    BY <2>1, ReleasesAreOfRuns DEF KnownTo
  <2> QED BY <2>2 DEF HoldersApart
<1>2. ASSUME NEW w \in Workers, NEW h \in Holders, Claim(w, h) PROVE HoldersApart'
  <2>1. \A v \in Workers : h \notin KnownTo(v)
    BY <1>2 DEF Claim, Fresh, KnownTo, RunHolders
  <2>2. \A v \in Workers \ {w} : KnownTo(v)' = KnownTo(v)
    BY <1>0, <1>2 DEF Claim, KnownTo, RunHolders
  <2>3. KnownTo(w)' \subseteq KnownTo(w) \cup {h}
    <3>1. \A j \in Jobs : run'[w][j] = run[w][j] \/ run'[w][j].holder = h
      BY <1>0, <1>2 DEF Claim
    <3>2. releasing' = releasing
      BY <1>2 DEF Claim
    <3> QED BY <3>1, <3>2 DEF KnownTo, RunHolders
  <2> QED BY <2>1, <2>2, <2>3 DEF HoldersApart
<1> QED BY <1>1, <1>2

LEMMA ApartMeansOne == HoldersApart => OneSettler
<1> SUFFICES ASSUME HoldersApart, NEW j \in Jobs PROVE Cardinality(Settlers(j)) <= 1
  BY DEF OneSettler
<1>1. \A w \in Settlers(j) : w \in Workers /\ row[j].owner \in KnownTo(w)
  BY DEF Settlers, KnownTo, RunHolders
<1>2. \A v, w \in Settlers(j) : v = w
  BY <1>1 DEF HoldersApart
<1>3. CASE Settlers(j) = {}
  BY <1>3, FS_EmptySet
<1>4. ASSUME NEW w \in Settlers(j) PROVE Cardinality(Settlers(j)) <= 1
  <2>1. Settlers(j) = {w}
    BY <1>2, <1>4
  <2>2. Cardinality({w}) = 1
    BY FS_Singleton
  <2> QED BY <2>1, <2>2
<1> QED BY <1>3, <1>4

(* However leases expire and workers crash or drain, at most one worker can *)
(* settle or release a row at any moment.                                   *)
THEOREM OneSettlerAtATime == Spec => []OneSettler
<1>1. Init => HoldersApart
  BY DEF Init, HoldersApart, KnownTo, RunHolders, NoRun
<1> QED BY <1>1, HoldersApartStep, ApartMeansOne, TypeInvariant, PTL DEF Spec

-----------------------------------------------------------------------------
(* A row that has an owner is pending.                                     *)
OwnedIsPending == \A j \in Jobs : row[j].owner # NoHolder => row[j].status = "pending"

LEMMA OwnedInit == Init => OwnedIsPending
BY DEF Init, StoreInit, OwnedIsPending

(* What a settlement behind the fence does to the owner of a row.           *)
LEMMA SettleOwner ==
    ASSUME TypeInv, NEW j \in Jobs, NEW h, NEW kind \in {"done", "retry", "dead", "release"}, NEW a,
           Settle(j, h, kind, a), NEW i \in Jobs
    PROVE  \/ row'[i] = row[i]
           \/ i = j /\ row[i].owner = h /\ row'[i].owner = NoHolder
<1>0. row \in [Jobs -> Row] /\ row[j] \in Row
  BY DEF TypeInv, TypeOK, StoreTypeOK
<1>1. CASE Fenced(j, h) /\ i = j
  <2>1. row'[i] = RowAfter(j, kind, a)
    BY <1>0, <1>1 DEF Settle
  <2>2. RowAfter(j, kind, a).owner = NoHolder
    BY <1>0 DEF RowAfter, Row
  <2> QED BY <1>1, <2>1, <2>2 DEF Fenced
<1> QED BY <1>0, <1>1 DEF Settle, storeVars

LEMMA ClaimedOwner ==
    ASSUME TypeInv, NEW h \in Holders, NEW ids \in SUBSET Jobs, ClaimRows(ids, h), NEW i \in Jobs
    PROVE  \/ row'[i] = row[i]
           \/ ~row[i].hidden /\ row'[i].status = "pending" /\ row'[i].owner = h
<1>0. row[i] \in Row
  BY DEF TypeInv, TypeOK, StoreTypeOK
<1>1. \/ row'[i] = row[i]
      \/ /\ row[i].status = "pending" /\ ~row[i].hidden
         /\ row'[i] = [row[i] EXCEPT !.owner = h, !.hidden = TRUE]
  BY DEF ClaimRows, ClaimedRow, Claimable
<1>2. /\ [row[i] EXCEPT !.owner = h, !.hidden = TRUE].status = row[i].status
      /\ [row[i] EXCEPT !.owner = h, !.hidden = TRUE].owner = h
  BY <1>0 DEF Row
<1> QED BY <1>1, <1>2

LEMMA ChangedOwner ==
    ASSUME TypeInv, OwnedIsPending, NEW j \in Jobs, Changed(j), NEW i \in Jobs
    PROVE  /\ row'[i].owner = row[i].owner
           /\ row'[i].status # row[i].status => row'[i].status = "pending"
<1>0. row \in [Jobs -> Row] /\ row[i] \in Row
  BY DEF TypeInv, TypeOK, StoreTypeOK
<1>1. CASE i # j
  BY <1>0, <1>1 DEF Changed, Enqueue, Replay, LeaseUntilPasses
<1>2. CASE i = j /\ LeaseUntilPasses(j)
  <2>1. row'[i] = [row[i] EXCEPT !.hidden = FALSE]
    BY <1>0, <1>2 DEF LeaseUntilPasses
  <2> QED BY <1>0, <2>1 DEF Row
<1>3. CASE i = j /\ ~LeaseUntilPasses(j)
  <2>1. row'[i].status = "pending" /\ row'[i].owner = NoHolder /\ row[i].status # "pending"
    BY <1>0, <1>3 DEF Changed, Enqueue, Replay
  <2> QED BY <1>3, <2>1 DEF OwnedIsPending
<1> QED BY <1>1, <1>2, <1>3

LEMMA OwnedStep == TypeInv /\ OwnedIsPending /\ [Next]_vars => OwnedIsPending'
<1> SUFFICES ASSUME TypeInv, OwnedIsPending, [Next]_vars, NEW i \in Jobs, row'[i].owner # NoHolder
             PROVE  row'[i].status = "pending"
  BY DEF OwnedIsPending
<1>0. StoreStep
  BY StoreSteps
<1>1. CASE KeptOrMarked
  BY <1>1 DEF KeptOrMarked, OwnedIsPending
<1>2. CASE Claimed
  BY <1>2, ClaimedOwner DEF Claimed, OwnedIsPending
<1>3. CASE Settled
  BY <1>3, SettleOwner DEF Settled, SettleRow, Settling, SettlementKind, OwnedIsPending
<1>4. CASE Released
  BY <1>4, SettleOwner DEF Released, OwnedIsPending
<1>5. ASSUME NEW j \in Jobs, Changed(j) PROVE row'[i].status = "pending"
  BY <1>5, ChangedOwner DEF OwnedIsPending
<1> QED BY <1>0, <1>1, <1>2, <1>3, <1>4, <1>5 DEF StoreStep

LEMMA OwnerLosesStep ==
    ASSUME TypeInv, OwnedIsPending, [Next]_vars, NEW i \in Jobs,
           row[i].owner # NoHolder, row'[i].owner # row[i].owner
    PROVE  \/ ~row[i].hidden /\ row'[i].status = "pending" /\ row'[i].owner # NoHolder
           \/ \E w \in Workers :
                 \/ Settling(w, i) /\ run[w][i].holder = row[i].owner
                 \/ <<i, row[i].owner>> \in releasing[w]
<1>0. StoreStep
  BY StoreSteps
<1>1. CASE KeptOrMarked
  BY <1>1 DEF KeptOrMarked
<1>2. CASE Claimed
  BY <1>2, ClaimedOwner, HolderAssumption DEF Claimed
<1>3. CASE Settled
  <2>1. PICK w \in Workers, j \in Jobs : Settling(w, j) /\ SettleRow(w, j)
    BY <1>3 DEF Settled
  <2>2. SettlementKind(w, j) \in {"done", "retry", "dead", "release"}
    BY <2>1 DEF Settling, SettlementKind
  <2>3. i = j /\ row[i].owner = run[w][j].holder
    BY <2>1, <2>2, SettleOwner DEF SettleRow
  <2> QED BY <2>1, <2>3
<1>4. CASE Released
  <2>1. PICK w \in Workers, j \in Jobs, h \in Holders :
            <<j, h>> \in releasing[w] /\ Settle(j, h, "release", 0)
    BY <1>4 DEF Released
  <2>2. i = j /\ row[i].owner = h
    BY <2>1, SettleOwner
  <2> QED BY <2>1, <2>2
<1>5. ASSUME NEW j \in Jobs, Changed(j) PROVE FALSE
  BY <1>5, ChangedOwner
<1> QED BY <1>0, <1>1, <1>2, <1>3, <1>4, <1>5 DEF StoreStep

(* A live lease is taken away by nobody: a row leaves its holder when that  *)
(* holder settles or releases it, or when a claim finds the lease expired.  *)
THEOREM OwnerLosesRow == Spec => OwnerLosesRowOnlyByItselfOrExpiry
<1>1. TypeInv /\ OwnedIsPending /\ [Next]_vars
          => [\A j \in Jobs :
                 row[j].owner # NoHolder /\ row'[j].owner # row[j].owner =>
                    \/ ~row[j].hidden /\ row'[j].status = "pending" /\ row'[j].owner # NoHolder
                    \/ \E w \in Workers :
                          \/ Settling(w, j) /\ run[w][j].holder = row[j].owner
                          \/ <<j, row[j].owner>> \in releasing[w]]_vars
  BY OwnerLosesStep
<1> QED BY <1>1, OwnedInit, OwnedStep, TypeInvariant, PTL DEF Spec, OwnerLosesRowOnlyByItselfOrExpiry

-----------------------------------------------------------------------------
(* How the run of one row changes in one step, a claim apart.              *)
PhaseStep(w, j, p) ==
    LET at == run[w][j].at
    IN  \/ at = "claimed" /\ p = "lock" /\ mode[w] = "open" /\ ClaimReturns(w)
        \/ at = "lock" /\ p = "check"
        \/ at = "check" /\ p = AfterCheck(w, j)
        \/ at = "ready" /\ p = "handle"
        \/ at = "handle" /\ p \in {"done", AfterFailure(run[w][j])}
        \/ at \in {"skip", "handle", "done", "retry", "dead", "notify"} /\ p = "linger"
        \/ at = "dead" /\ p = "notify" /\ Fenced(j, run[w][j].holder) /\ SettleRow(w, j)

Moves(w, j, new) ==
    \/ new = run[w][j]
    \/ new = NoRun
    \/ run[w][j].at # "off" /\ new = [run[w][j] EXCEPT !.abandoned = TRUE]
    \/ \E p \in Phases : PhaseStep(w, j, p) /\ new = [run[w][j] EXCEPT !.at = p]

AllMove == \A w \in Workers, j \in Jobs : Moves(w, j, run'[w][j])

LEMMA OneMoves ==
    ASSUME TypeInv, NEW w \in Workers, NEW j \in Jobs, NEW r,
           run' = [run EXCEPT ![w][j] = r], Moves(w, j, r)
    PROVE  AllMove
<1> SUFFICES ASSUME NEW v \in Workers, NEW i \in Jobs PROVE Moves(v, i, run'[v][i])
  BY DEF AllMove
<1>1. run \in [Workers -> [Jobs -> Run]]
  BY DEF TypeInv, TypeOK
<1>2. CASE v = w /\ i = j
  <2>1. run'[v][i] = r
    BY <1>1, <1>2
  <2> QED BY <1>2, <2>1
<1>3. CASE v # w \/ i # j
  <2>1. run'[v][i] = run[v][i]
    BY <1>1, <1>3
  <2> QED BY <2>1 DEF Moves
<1> QED BY <1>2, <1>3

LEMMA NoneMoves == ASSUME UNCHANGED run PROVE AllMove
BY DEF AllMove, Moves

LEMMA OneDropped ==
    ASSUME TypeInv, NEW w \in Workers, NEW j \in Jobs, run' = [run EXCEPT ![w][j] = NoRun]
    PROVE  AllMove
BY OneMoves DEF Moves

LEMMA OneChangesPhase ==
    ASSUME TypeInv, NEW w \in Workers, NEW j \in Jobs, NEW p \in Phases, PhaseStep(w, j, p),
           run' = [run EXCEPT ![w][j] = [run[w][j] EXCEPT !.at = p]]
    PROVE  AllMove
<1> DEFINE r == [run[w][j] EXCEPT !.at = p]
<1>1. Moves(w, j, r)
  BY DEF Moves
<1>2. run' = [run EXCEPT ![w][j] = r]
  OBVIOUS
<1> HIDE DEF r
<1> QED BY <1>1, <1>2, OneMoves

LEMMA OneFinishes ==
    ASSUME TypeInv, NEW w \in Workers, NEW j \in Jobs,
           run[w][j].at \in {"skip", "done", "retry", "dead", "notify"},
           run' = [run EXCEPT ![w][j] = Finished(w, j)]
    PROVE  AllMove
<1>1. \/ run' = [run EXCEPT ![w][j] = NoRun]
      \/ run' = [run EXCEPT ![w][j] = [run[w][j] EXCEPT !.at = "linger"]]
  BY DEF Finished
<1>2. PhaseStep(w, j, "linger") /\ "linger" \in Phases
  BY DEF PhaseStep, Phases
<1> QED BY <1>1, <1>2, OneDropped, OneChangesPhase

LEMMA AfterFailurePhase == ASSUME NEW r PROVE AfterFailure(r) \in {"retry", "dead"}
BY DEF AfterFailure

LEMMA AfterCheckPhase == ASSUME NEW w, NEW j PROVE AfterCheck(w, j) \in {"skip", "ready", "retry", "dead"}
BY DEF AfterCheck, AfterFailure

LEMMA RunStepMoves ==
    ASSUME TypeInv, NEW w \in Workers, NEW j \in Jobs, RunStep(w, j)
    PROVE  AllMove
<1>0. run \in [Workers -> [Jobs -> Run]]
  BY DEF TypeInv, TypeOK
<1>1. CASE LockKey(w, j)
  <2>1. \/ run' = [run EXCEPT ![w][j] = NoRun]
        \/ run' = [run EXCEPT ![w][j] = [run[w][j] EXCEPT !.at = "check"]]
    BY <1>0, <1>1 DEF LockKey
  <2>2. PhaseStep(w, j, "check") /\ "check" \in Phases
    BY <1>1 DEF LockKey, PhaseStep, Phases
  <2> QED BY <2>1, <2>2, OneDropped, OneChangesPhase
<1>2. CASE CheckReturns(w, j)
  <2>1. \/ run' = [run EXCEPT ![w][j] = NoRun]
        \/ run' = [run EXCEPT ![w][j] = [run[w][j] EXCEPT !.at = AfterCheck(w, j)]]
    BY <1>0, <1>2 DEF CheckReturns
  <2>2. PhaseStep(w, j, AfterCheck(w, j))
    BY <1>2 DEF CheckReturns, PhaseStep
  <2>3. AfterCheck(w, j) \in Phases
    BY AfterCheckPhase DEF Phases
  <2> QED BY <2>1, <2>2, <2>3, OneDropped, OneChangesPhase
<1>3. CASE StartHandler(w, j)
  <2>1. \/ run' = [run EXCEPT ![w][j] = NoRun]
        \/ run' = [run EXCEPT ![w][j] = [run[w][j] EXCEPT !.at = "handle"]]
    BY <1>0, <1>3 DEF StartHandler
  <2>2. PhaseStep(w, j, "handle") /\ "handle" \in Phases
    BY <1>3 DEF StartHandler, PhaseStep, Phases
  <2> QED BY <2>1, <2>2, OneDropped, OneChangesPhase
<1>4. CASE SettleReturns(w, j)
  <2> DEFINE fenced == Fenced(j, run[w][j].holder)
  <2>1. run' = [run EXCEPT ![w][j] = AfterSettle(w, j, fenced)] /\ SettleRow(w, j) /\ Settling(w, j)
    BY <1>4 DEF SettleReturns
  <2>2. CASE run[w][j].at = "dead" /\ fenced
    <3>1. run' = [run EXCEPT ![w][j] = [run[w][j] EXCEPT !.at = "notify"]]
      BY <2>1, <2>2 DEF AfterSettle
    <3>2. PhaseStep(w, j, "notify") /\ "notify" \in Phases
      BY <2>1, <2>2 DEF PhaseStep, Phases
    <3> QED BY <3>1, <3>2, OneChangesPhase
  <2>3. CASE ~(run[w][j].at = "dead" /\ fenced)
    <3>1. run' = [run EXCEPT ![w][j] = Finished(w, j)]
      BY <2>1, <2>3 DEF AfterSettle
    <3> QED BY <2>1, <3>1, OneFinishes DEF Settling
  <2> QED BY <2>2, <2>3
<1>5. CASE OnDeadReturns(w, j)
  BY <1>5, OneFinishes DEF OnDeadReturns
<1> QED BY <1>1, <1>2, <1>3, <1>4, <1>5 DEF RunStep

LEMMA HandlerStepMoves ==
    ASSUME TypeInv, NEW w \in Workers, NEW j \in Jobs, HandlerStep(w, j)
    PROVE  AllMove
<1>1. PICK h \in Holders, resolved \in BOOLEAN, committed \in BOOLEAN :
          HandlerReturns(w, j, h, resolved, committed)
  BY DEF HandlerStep
<1> DEFINE p == IF resolved THEN "done" ELSE AfterFailure(run[w][j])
<1>2. \/ run' = run
      \/ run' = [run EXCEPT ![w][j] = NoRun]
      \/ /\ run[w][j].at = "handle"
         /\ run' = [run EXCEPT ![w][j] = [run[w][j] EXCEPT !.at = p]]
  BY <1>1 DEF HandlerReturns
<1>3. p \in Phases /\ p \in {"done", AfterFailure(run[w][j])}
  BY DEF Phases, AfterFailure
<1>4. run[w][j].at = "handle" => PhaseStep(w, j, p)
  BY <1>3 DEF PhaseStep
<1> HIDE DEF p
<1> QED BY <1>2, <1>3, <1>4, NoneMoves, OneDropped, OneChangesPhase

LEMMA TimeoutMoves ==
    ASSUME TypeInv, NEW w \in Workers, NEW j \in Jobs, TimeoutFires(w, j)
    PROVE  AllMove
<1> DEFINE p == IF run[w][j].abandoned THEN "linger" ELSE AfterFailure(run[w][j])
<1>1. run' = [run EXCEPT ![w][j] = [run[w][j] EXCEPT !.at = p]]
  BY DEF TimeoutFires, TypeInv, TypeOK
<1>2. p \in Phases /\ p \in {"linger", AfterFailure(run[w][j])}
  BY DEF Phases, AfterFailure
<1>3. PhaseStep(w, j, p)
  BY <1>2 DEF PhaseStep, TimeoutFires
<1> HIDE DEF p
<1> QED BY <1>1, <1>2, <1>3, OneChangesPhase

LEMMA RunsMove ==
    ASSUME TypeInv, [Next]_vars,
           ~ \E w \in Workers, h \in Holders : Claim(w, h)
    PROVE  AllMove
<1>0. run \in [Workers -> [Jobs -> Run]]
  BY DEF TypeInv, TypeOK
<1>1. CASE UNCHANGED run
  BY <1>1, NoneMoves
<1>2. ASSUME NEW w \in Workers, ClaimReturns(w) PROVE AllMove
  <2>1. \A j \in Jobs :
            \/ run'[w][j] = run[w][j]
            \/ run'[w][j] = NoRun
            \/ /\ j \in pass[w].rows /\ mode[w] = "open"
               /\ run'[w][j] = [run[w][j] EXCEPT !.at = "lock"]
    BY <1>0, <1>2 DEF ClaimReturns
  <2>2. \A v \in Workers : v # w => run'[v] = run[v]
    BY <1>0, <1>2 DEF ClaimReturns
  <2>3. \A j \in pass[w].rows : run[w][j].at = "claimed"
    BY <1>2 DEF ClaimReturns, TypeInv, ClaimedRowsAreRuns
  <2>4. \A j \in Jobs : Moves(w, j, run'[w][j])
    <3> TAKE j \in Jobs
    <3>1. CASE j \in pass[w].rows /\ mode[w] = "open" /\ run'[w][j] = [run[w][j] EXCEPT !.at = "lock"]
      <4>1. PhaseStep(w, j, "lock") /\ "lock" \in Phases
        BY <1>2, <2>3, <3>1 DEF PhaseStep, Phases
      <4> QED BY <3>1, <4>1 DEF Moves
    <3> QED BY <2>1, <3>1 DEF Moves
  <2> QED BY <2>2, <2>4 DEF AllMove, Moves
<1>3. ASSUME NEW w \in Workers, PassStep(w) PROVE AllMove
  BY <1>1, <1>2, <1>3 DEF PassStep, Scan, EndPass
<1>4. ASSUME NEW w \in Workers, Fault(w) PROVE AllMove
  BY <1>1, <1>4, OneDropped
     DEF Fault, ScanFails, ClaimFails, CheckFails, SettleFails, OnDeadFails, ReleaseFails, RunRejects
<1>5. ASSUME NEW w \in Workers, GraceElapses(w) PROVE AllMove
  <2>1. \A j \in Jobs : \/ run'[w][j] = run[w][j]
                        \/ j \in Active(w) /\ run'[w][j] = [run[w][j] EXCEPT !.abandoned = TRUE]
    BY <1>0, <1>5 DEF GraceElapses
  <2>2. \A v \in Workers : v # w => run'[v] = run[v]
    BY <1>0, <1>5 DEF GraceElapses
  <2> QED BY <2>1, <2>2 DEF AllMove, Moves, Active
<1>6. ASSUME NEW w \in Workers, Crash(w) \/ Exit(w) PROVE AllMove
  <2>1. run' = [run EXCEPT ![w] = [j \in Jobs |-> NoRun]]
    BY <1>6 DEF Crash, Exit, GoesDown
  <2>2. \A v \in Workers, j \in Jobs : run'[v][j] = run[v][j] \/ run'[v][j] = NoRun
    BY <1>0, <2>1
  <2> QED BY <2>2 DEF AllMove, Moves
<1>7. ASSUME NEW w \in Workers, Shutdown(w) \/ DrainSettles(w) \/ Restart(w) PROVE AllMove
  BY <1>1, <1>7 DEF Shutdown, DrainSettles, Restart
<1>8. ASSUME NEW w \in Workers, NEW j \in Jobs, ReleaseStep(w, j) PROVE AllMove
  BY <1>1, <1>8 DEF ReleaseStep, ReleaseReturns
<1>9. ASSUME NEW j \in Jobs, EnqueueJob(j) \/ ReplayJob(j) \/ LeaseExpires(j) \/ LeaseExpiresUnderRun(j)
      PROVE  AllMove
  BY <1>1, <1>9 DEF EnqueueJob, ReplayJob, LeaseExpires, LeaseExpiresUnderRun, workerVars
<1> QED BY <1>1, <1>3, <1>4, <1>5, <1>6, <1>7, <1>8, <1>9, RunStepMoves, HandlerStepMoves, TimeoutMoves
        DEF Next, vars

(* What a run carries along.                                                *)
LEMMA MoveFacts ==
    ASSUME TypeInv, NEW w \in Workers, NEW j \in Jobs, NEW new, Moves(w, j, new), new.at # "off"
    PROVE  /\ run[w][j].at # "off"
           /\ new.holder = run[w][j].holder
           /\ new.marked = run[w][j].marked
           /\ new.attempts = run[w][j].attempts
           /\ run[w][j].abandoned => new.abandoned
           /\ new.at = run[w][j].at \/ PhaseStep(w, j, new.at)
<1>0. run[w][j] \in Run
  BY DEF TypeInv, TypeOK
<1>1. CASE new = run[w][j]
  BY <1>1
<1>2. CASE run[w][j].at # "off" /\ new = [run[w][j] EXCEPT !.abandoned = TRUE]
  BY <1>0, <1>2 DEF Run
<1>3. ASSUME NEW p \in Phases, PhaseStep(w, j, p), new = [run[w][j] EXCEPT !.at = p]
      PROVE  /\ run[w][j].at # "off"
             /\ new.holder = run[w][j].holder
             /\ new.marked = run[w][j].marked
             /\ new.attempts = run[w][j].attempts
             /\ run[w][j].abandoned => new.abandoned
             /\ PhaseStep(w, j, new.at)
  <2>1. new.at = p
    BY <1>0, <1>3 DEF Run
  <2>2. /\ new.holder = run[w][j].holder /\ new.marked = run[w][j].marked
        /\ new.attempts = run[w][j].attempts
    BY <1>0, <1>3 DEF Run
  <2>3. new.abandoned = run[w][j].abandoned
    BY <1>0, <1>3 DEF Run
  <2>4. run[w][j].at # "off"
    BY <1>3 DEF PhaseStep
  <2> QED BY <1>3, <2>1, <2>2, <2>3, <2>4
<1> QED BY <1>1, <1>2, <1>3, OffRun DEF Moves

(* What a claim does to the runs.                                           *)
LEMMA ClaimMoves ==
    ASSUME TypeInv, NEW w \in Workers, NEW h \in Holders, Claim(w, h),
           NEW v \in Workers, NEW i \in Jobs
    PROVE  \/ run'[v][i] = run[v][i]
           \/ /\ v = w /\ i \in pass[w].rows
              /\ run'[v][i].at = "claimed"
              /\ run'[v][i].marked = (Key(i) \in marker)
              /\ ~run'[v][i].abandoned
              /\ run'[v][i].holder = h
BY DEF Claim, TypeInv, TypeOK

LEMMA NextOrClaim ==
    ASSUME TypeInv, [Next]_vars, NEW v \in Workers, NEW i \in Jobs
    PROVE  \/ Moves(v, i, run'[v][i])
           \/ \E h \in Holders : Claim(v, h) /\ i \in pass[v].rows /\ run'[v][i].at = "claimed"
<1>1. CASE \E w \in Workers, h \in Holders : Claim(w, h)
  BY <1>1, ClaimMoves DEF Moves
<1> QED BY <1>1, RunsMove DEF AllMove

-----------------------------------------------------------------------------
(* A call begins where StartHandler makes it.                              *)
LEMMA OnlyStarts ==
    ASSUME TypeInv, [Next]_vars, NEW v \in Workers, NEW p \in executing'[v], p \notin executing[v]
    PROVE  \E j \in Jobs : /\ p = <<j, run[v][j].holder>>
                           /\ run[v][j].at = "ready" /\ ~run[v][j].abandoned
                           /\ run'[v][j].at = "handle" /\ run'[v][j].holder = run[v][j].holder
                           /\ UNCHANGED mode
<1>0. /\ executing \in [Workers -> SUBSET (Jobs \X Holders)]
      /\ run \in [Workers -> [Jobs -> Run]]
  BY DEF TypeInv, TypeOK
<1>1. ASSUME NEW w \in Workers, NEW j \in Jobs, StartHandler(w, j)
      PROVE  /\ w = v /\ p = <<j, run[v][j].holder>>
             /\ run[v][j].at = "ready" /\ ~run[v][j].abandoned
             /\ run'[v][j].at = "handle" /\ run'[v][j].holder = run[v][j].holder
             /\ UNCHANGED mode
  <2>1. run[w][j].abandoned => UNCHANGED executing
    BY <1>1 DEF StartHandler
  <2>2. ~run[w][j].abandoned
    BY <2>1
  <2>3. /\ executing' = [executing EXCEPT ![w] = executing[w] \cup {<<j, run[w][j].holder>>}]
        /\ run' = [run EXCEPT ![w][j].at = "handle"]
        /\ run[w][j].at = "ready" /\ UNCHANGED mode
    BY <1>1, <2>2 DEF StartHandler
  <2>4. w = v /\ p = <<j, run[w][j].holder>>
    BY <1>0, <2>3
  <2>5. /\ w = v /\ p = <<j, run[v][j].holder>>
        /\ run[v][j].at = "ready" /\ ~run[v][j].abandoned /\ UNCHANGED mode
        /\ run'[v][j] = [run[v][j] EXCEPT !.at = "handle"]
    BY <1>0, <2>2, <2>3, <2>4
  <2>6. run[v][j] \in Run
    BY <1>0
  <2> QED BY <2>5, <2>6 DEF Run
<1>2. CASE UNCHANGED executing
  BY <1>2
<1>3. ASSUME NEW w \in Workers, PassStep(w) \/ Fault(w) PROVE UNCHANGED executing
  BY <1>3 DEF PassStep, Scan, ClaimReturns, EndPass, Claim, Fault, ScanFails, ClaimFails,
              CheckFails, SettleFails, OnDeadFails, ReleaseFails
<1>4. ASSUME NEW w \in Workers,
             Shutdown(w) \/ DrainSettles(w) \/ GraceElapses(w) \/ Restart(w)
      PROVE  UNCHANGED executing
  BY <1>4 DEF Shutdown, DrainSettles, GraceElapses, Restart
<1>5. ASSUME NEW w \in Workers, Crash(w) \/ Exit(w) PROVE executing'[v] \subseteq executing[v]
  BY <1>0, <1>5 DEF Crash, Exit, GoesDown
<1>6. ASSUME NEW w \in Workers, NEW j \in Jobs,
             RunStep(w, j) \/ TimeoutFires(w, j) \/ ReleaseStep(w, j), ~StartHandler(w, j)
      PROVE  UNCHANGED executing
  BY <1>6 DEF RunStep, LockKey, CheckReturns, SettleReturns, OnDeadReturns, TimeoutFires,
              ReleaseStep, ReleaseReturns
<1>7. ASSUME NEW w \in Workers, NEW j \in Jobs, HandlerStep(w, j)
      PROVE  executing'[v] \subseteq executing[v]
  BY <1>0, <1>7 DEF HandlerStep, HandlerReturns
<1>8. ASSUME NEW j \in Jobs, EnqueueJob(j) \/ ReplayJob(j) \/ LeaseExpires(j) \/ LeaseExpiresUnderRun(j)
      PROVE  UNCHANGED executing
  BY <1>8 DEF EnqueueJob, ReplayJob, LeaseExpires, LeaseExpiresUnderRun, workerVars
<1> QED BY <1>1, <1>2, <1>3, <1>4, <1>5, <1>6, <1>7, <1>8 DEF Next, vars

(* A job is handed to a handler only after a look at its marker that came   *)
(* after the claim, and only where the worker has the handler.              *)
ReadyIsUnmarked ==
    \A w \in Workers, j \in Jobs :
        /\ run[w][j].at # "off" /\ run[w][j].marked => Key(j) \in marker
        /\ run[w][j].at = "ready" => ~run[w][j].marked /\ Name[j] \in Handles[w]

LEMMA ReadyInit == Init => ReadyIsUnmarked
BY DEF Init, NoRun, ReadyIsUnmarked

LEMMA ReadyStep == TypeInv /\ ReadyIsUnmarked /\ [Next]_vars => ReadyIsUnmarked'
<1> SUFFICES ASSUME TypeInv, ReadyIsUnmarked, [Next]_vars, NEW v \in Workers, NEW i \in Jobs,
                    run'[v][i].at # "off"
             PROVE  /\ run'[v][i].marked => Key(i) \in marker'
                    /\ run'[v][i].at = "ready" => ~run'[v][i].marked /\ Name[i] \in Handles[v]
  BY DEF ReadyIsUnmarked, Key
<1>1. marker \subseteq marker'
  BY StoreSteps, DoneStep
<1>2. CASE Moves(v, i, run'[v][i])
  <2>1. /\ run[v][i].at # "off"
        /\ run'[v][i].marked = run[v][i].marked
        /\ run'[v][i].at = run[v][i].at \/ PhaseStep(v, i, run'[v][i].at)
    BY <1>2, MoveFacts
  <2>2. ASSUME run'[v][i].at = "ready", PhaseStep(v, i, "ready")
        PROVE  Key(i) \notin marker /\ Name[i] \in Handles[v]
    <3>1. AfterCheck(v, i) = "ready"
      BY <2>2, AfterFailurePhase DEF PhaseStep
    <3> QED BY <3>1 DEF AfterCheck, AfterFailure
  <2> QED BY <1>1, <2>1, <2>2 DEF ReadyIsUnmarked
<1>3. ASSUME NEW h \in Holders, Claim(v, h), run'[v][i].at = "claimed", ~Moves(v, i, run'[v][i])
      PROVE  run'[v][i].marked => Key(i) \in marker'
  <2>1. run'[v][i].marked = (Key(i) \in marker)
    BY <1>3, ClaimMoves DEF Moves
  <2> QED BY <1>1, <2>1
<1>4. CASE ~Moves(v, i, run'[v][i])
  <2>1. \E h \in Holders : Claim(v, h) /\ run'[v][i].at = "claimed"
    BY <1>4, NextOrClaim
  <2> QED BY <1>3, <1>4, <2>1
<1> QED BY <1>2, <1>4

LEMMA ReadyInvariant == Spec => []ReadyIsUnmarked
BY ReadyInit, ReadyStep, TypeInvariant, PTL DEF Spec

(* Completed work is never repeated: no handler is called for a job whose   *)
(* marker was there when the job was claimed.                               *)
THEOREM MarkedNotRepeated == Spec => MarkedWorkIsNotRepeated
<1>1. TypeInv /\ ReadyIsUnmarked /\ [Next]_vars
          => [\A w \in Workers, j \in Jobs : Starts(w, j) => ~run[w][j].marked]_vars
  <2> SUFFICES ASSUME TypeInv, ReadyIsUnmarked, [Next]_vars,
                      NEW w \in Workers, NEW j \in Jobs, Starts(w, j)
               PROVE  ~run[w][j].marked
    OBVIOUS
  <2>1. PICK h \in Holders : <<j, h>> \in executing'[w] /\ <<j, h>> \notin executing[w]
    BY DEF Starts
  <2>2. PICK i \in Jobs : <<j, h>> = <<i, run[w][i].holder>> /\ run[w][i].at = "ready"
    BY <2>1, OnlyStarts
  <2> QED BY <2>2 DEF ReadyIsUnmarked
<1> QED BY <1>1, TypeInvariant, ReadyInvariant, PTL DEF Spec, MarkedWorkIsNotRepeated

-----------------------------------------------------------------------------
(* What a run settles is earned: a run on its way to dead has used up the   *)
(* attempts of its row or has a payload that is refused, a refused payload  *)
(* never reaches a handler, and a job is skipped only after its marker was  *)
(* seen.                                                                    *)
IsRefused(j) == j \in Unparsable \cup Rejected

RunsAreEarned ==
    \A w \in Workers, j \in Jobs :
        /\ run[w][j].at = "dead" => IsRefused(j) \/ run[w][j].attempts + 1 >= MaxAttempts
        /\ run[w][j].at \in {"ready", "handle", "done"} => ~IsRefused(j)
        /\ run[w][j].at = "skip" => Key(j) \in marker

LEMMA EarnedInit == Init => RunsAreEarned
BY DEF Init, NoRun, RunsAreEarned

LEMMA EarnedStep == TypeInv /\ RunsAreEarned /\ [Next]_vars => RunsAreEarned'
<1> SUFFICES ASSUME TypeInv, RunsAreEarned, [Next]_vars, NEW v \in Workers, NEW i \in Jobs
             PROVE  /\ run'[v][i].at = "dead" => IsRefused(i) \/ run'[v][i].attempts + 1 >= MaxAttempts
                    /\ run'[v][i].at \in {"ready", "handle", "done"} => ~IsRefused(i)
                    /\ run'[v][i].at = "skip" => Key(i) \in marker'
  BY DEF RunsAreEarned, IsRefused, Key
<1>1. marker \subseteq marker'
  BY StoreSteps, DoneStep
<1>2. CASE run'[v][i].at = "claimed" \/ run'[v][i].at = "off"
  BY <1>2
<1>3. CASE run'[v][i].at # "claimed" /\ run'[v][i].at # "off"
  <2>1. /\ run'[v][i].attempts = run[v][i].attempts
        /\ run'[v][i].at = run[v][i].at \/ PhaseStep(v, i, run'[v][i].at)
    BY <1>3, NextOrClaim, MoveFacts
  <2>2. CASE run'[v][i].at = run[v][i].at
    BY <1>1, <2>1, <2>2 DEF RunsAreEarned
  <2>3. ASSUME run'[v][i].at = "dead", PhaseStep(v, i, "dead")
        PROVE  IsRefused(i) \/ run[v][i].attempts + 1 >= MaxAttempts
    <3>1. AfterCheck(v, i) = "dead" \/ AfterFailure(run[v][i]) = "dead"
      BY <2>3 DEF PhaseStep
    <3> QED BY <3>1 DEF AfterCheck, AfterFailure, IsRefused
  <2>4. ASSUME PhaseStep(v, i, "ready") PROVE ~IsRefused(i)
    <3>1. AfterCheck(v, i) = "ready"
      BY <2>4, AfterFailurePhase DEF PhaseStep
    <3> QED BY <3>1 DEF AfterCheck, AfterFailure, IsRefused
  <2>5. ASSUME PhaseStep(v, i, "skip") PROVE Key(i) \in marker
    <3>1. AfterCheck(v, i) = "skip"
      BY <2>5, AfterFailurePhase DEF PhaseStep
    <3> QED BY <3>1 DEF AfterCheck, AfterFailure
  <2>6. ASSUME PhaseStep(v, i, run'[v][i].at), run'[v][i].at \in {"handle", "done"}
        PROVE  run[v][i].at \in {"ready", "handle"}
    BY <2>6, AfterCheckPhase DEF PhaseStep
  <2> QED BY <1>1, <2>1, <2>2, <2>3, <2>4, <2>5, <2>6 DEF RunsAreEarned
<1> QED BY <1>2, <1>3

LEMMA EarnedInvariant == Spec => []RunsAreEarned
BY EarnedInit, EarnedStep, TypeInvariant, PTL DEF Spec

-----------------------------------------------------------------------------
(* Refinement of JobLifecycle.                                             *)
LEMMA LifecycleInit == Init => Lifecycle!Init
BY DEF Init, StoreInit, Lifecycle!Init

(* Steps that leave status and count of every row alone map to stutters.    *)
LEMMA LifeKept ==
    ASSUME \A i \in Jobs : row'[i].status = row[i].status /\ row'[i].attempts = row[i].attempts,
           marker' = marker
    PROVE  UNCHANGED <<[j \in Jobs |-> row[j].status], [j \in Jobs |-> row[j].attempts], marker>>
OBVIOUS

LEMMA LifeChanged ==
    ASSUME NEW j \in Jobs, NEW r, TypeInv, row' = [row EXCEPT ![j] = r]
    PROVE  /\ [i \in Jobs |-> row[i].status]' = [[i \in Jobs |-> row[i].status] EXCEPT ![j] = r.status]
           /\ [i \in Jobs |-> row[i].attempts]' = [[i \in Jobs |-> row[i].attempts] EXCEPT ![j] = r.attempts]
BY DEF TypeInv, TypeOK, StoreTypeOK

LEMMA LifecycleStep ==
    ASSUME TypeInv, SnapshotIsCurrent, RunsAreEarned, StoreStep
    PROVE  [Lifecycle!Next]_<<[j \in Jobs |-> row[j].status], [j \in Jobs |-> row[j].attempts], marker>>
<1> DEFINE life == [j \in Jobs |-> row[j].status]
           tries == [j \in Jobs |-> row[j].attempts]
<1> SUFFICES [Lifecycle!Next]_<<life, tries, marker>>
  OBVIOUS
<1>0. row \in [Jobs -> Row]
  BY DEF TypeInv, TypeOK, StoreTypeOK
<1>1. CASE KeptOrMarked
  <2>1. CASE marker' = marker
    BY <1>1, <2>1 DEF KeptOrMarked
  <2>2. ASSUME NEW j \in Jobs, marker' = marker \cup {Key(j)} PROVE Lifecycle!CommitEffect(j)
    BY <1>1, <2>2 DEF KeptOrMarked, Lifecycle!CommitEffect
  <2> QED BY <1>1, <2>1, <2>2 DEF KeptOrMarked, Lifecycle!Next
<1>2. CASE Claimed
  <2>1. PICK h \in Holders, ids \in SUBSET Jobs : ClaimRows(ids, h) /\ UNCHANGED marker
    BY <1>2 DEF Claimed
  <2>2. \A i \in Jobs : /\ [row[i] EXCEPT !.owner = h, !.hidden = TRUE].status = row[i].status
                         /\ [row[i] EXCEPT !.owner = h, !.hidden = TRUE].attempts = row[i].attempts
    BY <1>0 DEF Row
  <2>3. \A i \in Jobs : row'[i] = row[i] \/ row'[i] = [row[i] EXCEPT !.owner = h, !.hidden = TRUE]
    BY <2>1 DEF ClaimRows, ClaimedRow
  <2>4. \A i \in Jobs : row'[i].status = row[i].status /\ row'[i].attempts = row[i].attempts
    BY <2>2, <2>3
  <2> QED BY <2>1, <2>4, LifeKept
<1>3. CASE Settled
  <2>1. PICK w \in Workers, j \in Jobs : Settling(w, j) /\ SettleRow(w, j)
    BY <1>3 DEF Settled
  <2>2. CASE ~Fenced(j, run[w][j].holder)
    BY <2>1, <2>2 DEF SettleRow, Settle, storeVars
  <2>3. CASE Fenced(j, run[w][j].holder)
    <3> DEFINE kind == SettlementKind(w, j)
               r == RowAfter(j, kind, run[w][j].attempts + 1)
    <3>1. run[w][j].at # "off" /\ kind \in {"done", "retry", "dead"}
      BY <2>1 DEF Settling, SettlementKind
    <3>2. run[w][j].attempts = row[j].attempts /\ row[j].status = "pending" /\ row[j] \in Row
      BY <1>0, <2>3, <3>1 DEF SnapshotIsCurrent, Fenced
    <3>3. row' = [row EXCEPT ![j] = r] /\ marker' = MarkersAfter(j, kind)
      BY <2>1, <2>3 DEF SettleRow, Settle
    <3>4. /\ r.attempts = row[j].attempts + 1
          /\ r.status = IF kind = "retry" THEN "pending" ELSE kind
      BY <3>1, <3>2 DEF RowAfter, Row
    <3>5. life' = [life EXCEPT ![j] = r.status] /\ tries' = [tries EXCEPT ![j] = r.attempts]
      BY <3>3, LifeChanged
    <3>6. life[j] = "pending" /\ tries[j] = row[j].attempts /\ life \in [Jobs -> {"absent", "pending", "done", "dead"}]
      BY <1>0, <3>2 DEF Row
    <3> HIDE DEF r, life, tries
    <3>7. CASE kind = "done"
      <4>1. IsRefused(j) => Key(j) \in marker
        BY <2>1, <3>7 DEF RunsAreEarned, Settling, SettlementKind
      <4>2. Lifecycle!Complete(j)
        BY <3>3, <3>4, <3>5, <3>6, <3>7, <4>1
           DEF Lifecycle!Complete, MarkersAfter, life, tries, Key, IsRefused
      <4> QED BY <4>2 DEF Lifecycle!Next
    <3>8. CASE kind = "retry"
      <4>1. row[j].attempts + 1 < MaxAttempts
        BY <3>1, <3>2, <3>8, RunFacts DEF SettlementKind
      <4>2. life' = life
        BY <3>4, <3>5, <3>6, <3>8
      <4>3. Lifecycle!RecordFailure(j)
        BY <3>3, <3>4, <3>5, <3>6, <3>8, <4>1, <4>2 DEF Lifecycle!RecordFailure, MarkersAfter, life, tries
      <4> QED BY <4>3 DEF Lifecycle!Next
    <3>9. CASE kind = "dead"
      <4>1. IsRefused(j) \/ row[j].attempts + 1 >= MaxAttempts
        BY <3>2, <3>9 DEF RunsAreEarned, SettlementKind
      <4>2. row[j].attempts + 1 >= MaxAttempts => row[j].attempts + 1 = MaxAttempts
        BY <3>1, <3>2, RunFacts, AttemptsAssumption DEF Row
      <4>3. Lifecycle!Bury(j)
        BY <3>3, <3>4, <3>5, <3>6, <3>9, <4>1, <4>2
           DEF Lifecycle!Bury, MarkersAfter, life, tries, IsRefused
      <4> QED BY <4>3 DEF Lifecycle!Next
    <3> QED BY <3>1, <3>7, <3>8, <3>9
  <2> QED BY <2>2, <2>3
<1>4. CASE Released
  <2>1. PICK j \in Jobs, h \in Holders : Settle(j, h, "release", 0)
    BY <1>4 DEF Released
  <2>2. marker' = marker /\ (row' = row \/ row' = [row EXCEPT ![j] = [row[j] EXCEPT !.owner = NoHolder, !.hidden = FALSE]])
    BY <2>1 DEF Settle, RowAfter, MarkersAfter, storeVars
  <2>3. row[j] \in Row
    BY <1>0
  <2>4. /\ [row[j] EXCEPT !.owner = NoHolder, !.hidden = FALSE].status = row[j].status
        /\ [row[j] EXCEPT !.owner = NoHolder, !.hidden = FALSE].attempts = row[j].attempts
    BY <2>3 DEF Row
  <2>5. \A i \in Jobs : row'[i].status = row[i].status /\ row'[i].attempts = row[i].attempts
    BY <1>0, <2>2, <2>4
  <2> QED BY <2>2, <2>5, LifeKept
<1>5. ASSUME NEW j \in Jobs, Changed(j) PROVE [Lifecycle!Next]_<<life, tries, marker>>
  <2> DEFINE fresh(d) == [status |-> "pending", owner |-> NoHolder, hidden |-> d, attempts |-> 0]
  <2>0. \A d \in BOOLEAN : fresh(d).status = "pending" /\ fresh(d).attempts = 0
    OBVIOUS
  <2> HIDE DEF fresh
  <2>1. ASSUME NEW d \in BOOLEAN, Enqueue(j, d) PROVE Lifecycle!Submit(j)
    <3>1. row' = [row EXCEPT ![j] = fresh(d)]
      BY <2>1 DEF Enqueue, fresh
    <3>2. life' = [life EXCEPT ![j] = fresh(d).status] /\ tries' = [tries EXCEPT ![j] = fresh(d).attempts]
      BY <3>1, LifeChanged
    <3> QED BY <2>0, <2>1, <3>2 DEF Enqueue, Lifecycle!Submit
  <2>2. CASE Replay(j)
    <3>0. row' = [row EXCEPT ![j] = fresh(FALSE)]
      BY <2>2 DEF Replay, fresh
    <3>1. life' = [life EXCEPT ![j] = fresh(FALSE).status] /\ tries' = [tries EXCEPT ![j] = fresh(FALSE).attempts]
      BY <3>0, LifeChanged
    <3>2. Lifecycle!Revive(j)
      BY <2>0, <2>2, <3>1 DEF Replay, Lifecycle!Revive
    <3> QED BY <3>2 DEF Lifecycle!Next
  <2>3. CASE LeaseUntilPasses(j)
    <3>1. row' = [row EXCEPT ![j] = [row[j] EXCEPT !.hidden = FALSE]] /\ marker' = marker
      BY <1>0, <2>3 DEF LeaseUntilPasses
    <3>2. row[j] \in Row
      BY <1>0
    <3>3. /\ [row[j] EXCEPT !.hidden = FALSE].status = row[j].status
          /\ [row[j] EXCEPT !.hidden = FALSE].attempts = row[j].attempts
      BY <3>2 DEF Row
    <3>4. \A i \in Jobs : row'[i].status = row[i].status /\ row'[i].attempts = row[i].attempts
      BY <1>0, <3>1, <3>3
    <3> QED BY <3>1, <3>4, LifeKept
  <2> QED BY <1>5, <2>1, <2>2, <2>3 DEF Changed, Lifecycle!Next
<1> QED BY <1>1, <1>2, <1>3, <1>4, <1>5 DEF StoreStep

(* The queue implements the life cycle: whatever workers, leases, crashes    *)
(* and lost answers do, each recorded attempt counts once, a job ends once,  *)
(* dead only with its attempts used up or its payload refused, and only a   *)
(* dead job comes back.                                                     *)
THEOREM Implements == Spec => ImplementsLifecycle
<1>1. TypeInv /\ SnapshotIsCurrent /\ RunsAreEarned /\ [Next]_vars =>
        [Lifecycle!Next]_<<[j \in Jobs |-> row[j].status], [j \in Jobs |-> row[j].attempts], marker>>
  BY LifecycleStep, StoreSteps
<1> QED BY <1>1, LifecycleInit, TypeInvariant, SnapshotCurrent, EarnedInvariant, PTL
        DEF Spec, ImplementsLifecycle, Lifecycle!Spec

-----------------------------------------------------------------------------
(* Shutdown.  A run that onShutdown left behind is abandoned.              *)
LEMMA ResolvedBy ==
    ASSUME TypeInv, [Next]_vars, NEW v \in Workers, mode'[v] = "resolved"
    PROVE  mode[v] = "resolved" \/ DrainSettles(v) \/ GraceElapses(v)
<1>0. mode \in [Workers -> Modes]
  BY DEF TypeInv, TypeOK
<1>1. CASE UNCHANGED mode
  BY <1>1
<1>2. ASSUME NEW w \in Workers, DrainSettles(w) \/ GraceElapses(w)
      PROVE  mode[v] = "resolved" \/ DrainSettles(v) \/ GraceElapses(v)
  BY <1>0, <1>2 DEF DrainSettles, GraceElapses
<1>3. ASSUME NEW w \in Workers, Shutdown(w) \/ Crash(w) \/ Exit(w) \/ Restart(w)
      PROVE  mode[v] = "resolved"
  BY <1>0, <1>3 DEF Shutdown, Crash, Exit, Restart, GoesDown
<1>4. ASSUME NEW w \in Workers, PassStep(w) PROVE UNCHANGED mode
  BY <1>4 DEF PassStep, Scan, ClaimReturns, EndPass, Claim
<1>5. ASSUME NEW w \in Workers, Fault(w) PROVE mode[v] = "resolved"
  BY <1>0, <1>5 DEF Fault, ScanFails, ClaimFails, CheckFails, SettleFails, OnDeadFails, ReleaseFails,
                    PassRejects, RunRejects
<1>6. ASSUME NEW w \in Workers, NEW j \in Jobs,
             RunStep(w, j) \/ TimeoutFires(w, j) \/ HandlerStep(w, j) \/ ReleaseStep(w, j)
      PROVE  UNCHANGED mode
  BY <1>6 DEF RunStep, LockKey, CheckReturns, StartHandler, SettleReturns, OnDeadReturns, TimeoutFires,
              HandlerStep, HandlerReturns, ReleaseStep, ReleaseReturns
<1>7. ASSUME NEW j \in Jobs, EnqueueJob(j) \/ ReplayJob(j) \/ LeaseExpires(j) \/ LeaseExpiresUnderRun(j)
      PROVE  UNCHANGED mode
  BY <1>7 DEF EnqueueJob, ReplayJob, LeaseExpires, LeaseExpiresUnderRun, workerVars
<1> QED BY <1>1, <1>2, <1>3, <1>4, <1>5, <1>6, <1>7 DEF Next, vars

LeftIsAbandoned ==
    \A w \in Workers : mode[w] = "resolved" => \A j \in Active(w) : run[w][j].abandoned

(* A worker that is not open makes no claimed row an active run.            *)
LEMMA ActiveStays ==
    ASSUME TypeInv, [Next]_vars, NEW v \in Workers, NEW i \in Active(v)', mode[v] # "open"
    PROVE  i \in Active(v) /\ Moves(v, i, run'[v][i]) /\ run'[v][i].at # "off"
<1>1. i \in Jobs /\ run'[v][i].at \notin {"off", "claimed"}
  BY DEF Active
<1>2. Moves(v, i, run'[v][i])
  BY <1>1, NextOrClaim
<1>3. run[v][i].at # "off" /\ (run'[v][i].at = run[v][i].at \/ PhaseStep(v, i, run'[v][i].at))
  BY <1>1, <1>2, MoveFacts
<1>4. run[v][i].at # "claimed"
  BY <1>1, <1>3 DEF PhaseStep
<1> QED BY <1>1, <1>2, <1>3, <1>4 DEF Active

LEMMA AbandonedStep == TypeInv /\ LeftIsAbandoned /\ [Next]_vars => LeftIsAbandoned'
<1> SUFFICES ASSUME TypeInv, LeftIsAbandoned, [Next]_vars,
                    NEW v \in Workers, mode'[v] = "resolved", NEW i \in Active(v)'
             PROVE  run'[v][i].abandoned
  BY DEF LeftIsAbandoned
<1>0. run \in [Workers -> [Jobs -> Run]]
  BY DEF TypeInv, TypeOK
<1>1. CASE mode[v] = "resolved"
  <2>1. i \in Active(v) /\ Moves(v, i, run'[v][i]) /\ run'[v][i].at # "off"
    BY <1>1, ActiveStays
  <2>2. i \in Jobs /\ run[v][i].abandoned
    BY <1>1, <2>1 DEF LeftIsAbandoned, Active
  <2> QED BY <2>1, <2>2, MoveFacts
<1>2. CASE DrainSettles(v)
  BY <1>2 DEF DrainSettles, Active
<1>3. CASE GraceElapses(v)
  <2>1. i \in Active(v) /\ i \in Jobs
    BY <1>3, ActiveStays DEF GraceElapses, Active
  <2>2. run'[v][i] = [run[v][i] EXCEPT !.abandoned = TRUE] /\ run[v][i] \in Run
    BY <1>0, <1>3, <2>1 DEF GraceElapses
  <2> QED BY <2>2 DEF Run
<1> QED BY <1>1, <1>2, <1>3, ResolvedBy

LEMMA AbandonedInvariant == Spec => []LeftIsAbandoned
<1>1. Init => LeftIsAbandoned
  BY DEF Init, LeftIsAbandoned
<1> QED BY <1>1, AbandonedStep, TypeInvariant, PTL DEF Spec

(* Once onShutdown has resolved, the worker calls no handler.               *)
THEOREM NoStartAfter == Spec => NoStartAfterShutdown
<1>1. TypeInv /\ LeftIsAbandoned /\ [Next]_vars
          => [\A w \in Workers, j \in Jobs : Starts(w, j) => mode[w] # "resolved"]_vars
  <2> SUFFICES ASSUME TypeInv, LeftIsAbandoned, [Next]_vars,
                      NEW w \in Workers, NEW j \in Jobs, Starts(w, j)
               PROVE  mode[w] # "resolved"
    OBVIOUS
  <2>1. PICK h \in Holders : <<j, h>> \in executing'[w] /\ <<j, h>> \notin executing[w]
    BY DEF Starts
  <2>2. PICK i \in Jobs : run[w][i].at = "ready" /\ ~run[w][i].abandoned
    BY <2>1, OnlyStarts
  <2> QED BY <2>2 DEF LeftIsAbandoned, Active
<1> QED BY <1>1, TypeInvariant, AbandonedInvariant, PTL DEF Spec, NoStartAfterShutdown

(* onDead is called by the run whose settlement made the row dead.          *)
THEOREM OnDeadEarned == Spec => OnDeadIsEarned
<1>1. TypeInv /\ [Next]_vars
          => [\A w \in Workers, j \in Jobs :
                 run[w][j].at # "notify" /\ run'[w][j].at = "notify" =>
                    row[j].status = "pending" /\ row'[j].status = "dead"]_vars
  <2> SUFFICES ASSUME TypeInv, [Next]_vars, NEW w \in Workers, NEW j \in Jobs,
                      run[w][j].at # "notify", run'[w][j].at = "notify"
               PROVE  row[j].status = "pending" /\ row'[j].status = "dead"
    OBVIOUS
  <2>1. PhaseStep(w, j, "notify")
    BY NextOrClaim, MoveFacts
  <2>2. run[w][j].at = "dead" /\ Fenced(j, run[w][j].holder) /\ SettleRow(w, j)
    BY <2>1, AfterCheckPhase, AfterFailurePhase DEF PhaseStep
  <2>3. row' = [row EXCEPT ![j] = RowAfter(j, "dead", run[w][j].attempts + 1)]
    BY <2>2 DEF SettleRow, SettlementKind, Settle
  <2>4. row \in [Jobs -> Row] /\ row[j] \in Row
    BY DEF TypeInv, TypeOK, StoreTypeOK
  <2>5. row'[j] = [row[j] EXCEPT !.status = "dead", !.owner = NoHolder,
                                 !.hidden = FALSE, !.attempts = run[w][j].attempts + 1]
    BY <2>3, <2>4 DEF RowAfter
  <2> QED BY <2>2, <2>4, <2>5 DEF Fenced, Row
<1> QED BY <1>1, TypeInvariant, PTL DEF Spec, OnDeadIsEarned

-----------------------------------------------------------------------------
(* The rows a shutdown leaves behind are given back.                       *)
LEMMA ReleaseStays ==
    ASSUME TypeInv, [Next]_vars, Bound["fault"] = 0,
           NEW v \in Workers, NEW i \in Jobs, NEW h \in Holders, <<i, h>> \in releasing[v]
    PROVE  \/ <<i, h>> \in releasing'[v]
           \/ Settle(i, h, "release", 0)
           \/ \A j \in Jobs : run'[v][j] = NoRun
<1>0. /\ releasing \in [Workers -> SUBSET (Jobs \X Holders)]
      /\ run \in [Workers -> [Jobs -> Run]]
      /\ spent["fault"] \in Nat
  BY DEF TypeInv, TypeOK, Disturbances
<1>1. CASE UNCHANGED releasing
  BY <1>1
<1>2. ASSUME NEW w \in Workers, Fault(w) PROVE FALSE
  <2>1. ~Spend("fault")
    BY <1>0 DEF Spend
  <2> QED BY <1>2, <2>1 DEF Fault, ScanFails, ClaimFails, CheckFails, SettleFails, OnDeadFails, ReleaseFails
<1>3. ASSUME NEW w \in Workers, ClaimReturns(w) \/ GraceElapses(w) PROVE <<i, h>> \in releasing'[v]
  BY <1>0, <1>3 DEF ClaimReturns, GraceElapses
<1>4. ASSUME NEW w \in Workers, PassStep(w), ~ClaimReturns(w) PROVE UNCHANGED releasing
  BY <1>4 DEF PassStep, Scan, EndPass, Claim
<1>5. ASSUME NEW w \in Workers, Shutdown(w) \/ DrainSettles(w) \/ Restart(w) PROVE UNCHANGED releasing
  BY <1>5 DEF Shutdown, DrainSettles, Restart
<1>6. ASSUME NEW w \in Workers, Crash(w) \/ Exit(w)
      PROVE  <<i, h>> \in releasing'[v] \/ \A j \in Jobs : run'[v][j] = NoRun
  BY <1>0, <1>6 DEF Crash, Exit, GoesDown
<1>7. ASSUME NEW w \in Workers, NEW j \in Jobs, RunStep(w, j) \/ TimeoutFires(w, j) \/ HandlerStep(w, j)
      PROVE  UNCHANGED releasing
  BY <1>7 DEF RunStep, LockKey, CheckReturns, StartHandler, SettleReturns, OnDeadReturns, TimeoutFires,
              HandlerStep, HandlerReturns
<1>8. ASSUME NEW w \in Workers, NEW j \in Jobs, NEW g \in Holders, ReleaseReturns(w, j, g)
      PROVE  <<i, h>> \in releasing'[v] \/ Settle(i, h, "release", 0)
  BY <1>0, <1>8 DEF ReleaseReturns
<1>9. ASSUME NEW j \in Jobs, EnqueueJob(j) \/ ReplayJob(j) \/ LeaseExpires(j) \/ LeaseExpiresUnderRun(j)
      PROVE  UNCHANGED releasing
  BY <1>9 DEF EnqueueJob, ReplayJob, LeaseExpires, LeaseExpiresUnderRun, workerVars
<1> QED BY <1>1, <1>2, <1>3, <1>4, <1>5, <1>6, <1>7, <1>8, <1>9 DEF Next, vars, ReleaseStep

LEMMA GivenBackStep ==
    ASSUME TypeInv, ShutdownGivesRowsBack, [Next]_vars, Bound["fault"] = 0
    PROVE  ShutdownGivesRowsBack'
<1> SUFFICES ASSUME NEW v \in Workers, NEW i \in Active(v)', mode'[v] = "resolved",
                    row'[i].status = "pending", row'[i].owner = run'[v][i].holder
             PROVE  <<i, row'[i].owner>> \in releasing'[v]
  BY DEF ShutdownGivesRowsBack, Fenced
<1>0. /\ releasing \in [Workers -> SUBSET (Jobs \X Holders)]
      /\ run \in [Workers -> [Jobs -> Run]] /\ row \in [Jobs -> Row]
  BY DEF TypeInv, TypeOK, StoreTypeOK
<1> DEFINE h == run[v][i].holder
<1>1. mode[v] # "open"
  BY ResolvedBy DEF DrainSettles, GraceElapses
<1>2. i \in Active(v) /\ Moves(v, i, run'[v][i]) /\ run'[v][i].at # "off" /\ i \in Jobs
  BY <1>1, ActiveStays DEF Active
<1>3. run[v][i].at # "off" /\ run'[v][i].holder = h
  BY <1>2, MoveFacts
<1>4. h \in Holders
  BY <1>2, <1>3, RunFacts
<1>5. CASE mode[v] = "resolved"
  <2>1. row[i].status = "pending" /\ row[i].owner = h
    BY <1>2, <1>3, <1>4, StoreSteps, OwnedRowKept DEF Fresh
  <2>2. <<i, h>> \in releasing[v]
    BY <1>2, <1>5, <2>1 DEF ShutdownGivesRowsBack, Fenced
  <2>3. ASSUME Settle(i, h, "release", 0) PROVE FALSE
    <3>1. row'[i] = [row[i] EXCEPT !.owner = NoHolder, !.hidden = FALSE] /\ row[i] \in Row
      BY <1>0, <1>2, <2>1, <2>3 DEF Settle, Fenced, RowAfter
    <3>2. row'[i].owner = NoHolder
      BY <3>1 DEF Row
    <3> QED BY <1>3, <1>4, <3>2, HolderAssumption
  <2>4. run'[v][i] # NoRun
    BY <1>2, OffRun
  <2> QED BY <1>2, <1>3, <1>4, <2>2, <2>3, <2>4, ReleaseStays
<1>6. CASE DrainSettles(v)
  BY <1>2, <1>6 DEF DrainSettles
<1>7. CASE GraceElapses(v)
  BY <1>0, <1>2, <1>3, <1>7 DEF GraceElapses
<1> QED BY <1>5, <1>6, <1>7, ResolvedBy

(* Where no store call fails, every row that a run of a stopped worker      *)
(* still holds has its release on the way.                                  *)
THEOREM RowsGivenBack == ASSUME Bound["fault"] = 0 PROVE Spec => []ShutdownGivesRowsBack
<1>1. Init => ShutdownGivesRowsBack
  BY DEF Init, ShutdownGivesRowsBack
<1>2. TypeInv /\ ShutdownGivesRowsBack /\ [Next]_vars => ShutdownGivesRowsBack'
  BY GivenBackStep
<1> QED BY <1>1, <1>2, TypeInvariant, PTL DEF Spec

-----------------------------------------------------------------------------
(* The pass of a worker and the rows it is about to start.                 *)
LEMMA PassMoves ==
    ASSUME TypeInv, [Next]_vars, NEW v \in Workers
    PROVE  \/ pass'[v] = pass[v]
           \/ /\ pass'[v] = NoPass
              /\ pass[v].at # "claimed" \/ \A j \in Jobs : run'[v][j] = NoRun
           \/ Scan(v) \/ ClaimReturns(v) \/ \E h \in Holders : Claim(v, h)
<1>0. /\ pass \in [Workers -> [at : {"none", "claim", "claimed", "requeue", "work"}, rows : SUBSET Jobs]]
      /\ run \in [Workers -> [Jobs -> Run]]
  BY DEF TypeInv, TypeOK
<1> DEFINE Goal == \/ pass'[v] = pass[v]
                   \/ /\ pass'[v] = NoPass
                      /\ pass[v].at # "claimed" \/ \A j \in Jobs : run'[v][j] = NoRun
<1>1. CASE UNCHANGED pass
  BY <1>1
<1>2. ASSUME NEW w \in Workers, w # v,
             Scan(w) \/ ClaimReturns(w) \/ (\E h \in Holders : Claim(w, h))
      PROVE  pass'[v] = pass[v]
  <2>1. ASSUME NEW r, pass' = [pass EXCEPT ![w] = r] PROVE pass'[v] = pass[v]
    BY <1>0, <1>2, <2>1
  <2> QED BY <1>2, <2>1 DEF Scan, ClaimReturns, Claim
<1>3. ASSUME NEW w \in Workers, EndPass(w) PROVE Goal
  <2>1. pass' = [pass EXCEPT ![w] = NoPass] /\ pass[w].at # "claimed"
    BY <1>3 DEF EndPass
  <2> QED BY <1>0, <2>1
<1>4. ASSUME NEW w \in Workers, Fault(w) PROVE Goal
  <2>1. \/ UNCHANGED pass
        \/ pass' = [pass EXCEPT ![w] = NoPass] /\ pass[w].at # "claimed"
    BY <1>4 DEF Fault, ScanFails, ClaimFails, CheckFails, SettleFails, OnDeadFails, ReleaseFails,
                PassRejects, RunRejects
  <2> QED BY <1>0, <2>1
<1>5. ASSUME NEW w \in Workers, Crash(w) \/ Exit(w) PROVE Goal
  <2>1. /\ pass' = [pass EXCEPT ![w] = NoPass]
        /\ run' = [run EXCEPT ![w] = [j \in Jobs |-> NoRun]]
    BY <1>5 DEF Crash, Exit, GoesDown
  <2> QED BY <1>0, <2>1
<1>6. ASSUME NEW w \in Workers,
             Shutdown(w) \/ DrainSettles(w) \/ GraceElapses(w) \/ Restart(w)
      PROVE  UNCHANGED pass
  BY <1>6 DEF Shutdown, DrainSettles, GraceElapses, Restart
<1>7. ASSUME NEW w \in Workers, NEW j \in Jobs,
             RunStep(w, j) \/ TimeoutFires(w, j) \/ HandlerStep(w, j) \/ ReleaseStep(w, j)
      PROVE  UNCHANGED pass
  BY <1>7 DEF RunStep, LockKey, CheckReturns, StartHandler, SettleReturns, OnDeadReturns, TimeoutFires,
              HandlerStep, HandlerReturns, ReleaseStep, ReleaseReturns
<1>8. ASSUME NEW j \in Jobs, EnqueueJob(j) \/ ReplayJob(j) \/ LeaseExpires(j) \/ LeaseExpiresUnderRun(j)
      PROVE  UNCHANGED pass
  BY <1>8 DEF EnqueueJob, ReplayJob, LeaseExpires, LeaseExpiresUnderRun, workerVars
<1> QED BY <1>1, <1>2, <1>3, <1>4, <1>5, <1>6, <1>7, <1>8 DEF Next, vars, PassStep

(* What a pass selects is not active, and a run that waits for its claim    *)
(* belongs to the pass.                                                     *)
PassIsSound ==
    \A w \in Workers :
        /\ pass[w].at = "claim" => pass[w].rows \cap Active(w) = {}
        /\ \A j \in Jobs : run[w][j].at = "claimed" => pass[w].at = "claimed" /\ j \in pass[w].rows

LEMMA SelectedAreIdle ==
    ASSUME NEW w, NEW n
    PROVE  Selected(w, FirstOf(Claimable, n)) \cap Active(w) = {}
BY DEF Selected, FirstOf

(* Active runs come from active runs and from the rows of an answered claim.*)
LEMMA ActiveFrom ==
    ASSUME TypeInv, PassIsSound, [Next]_vars, NEW v \in Workers, NEW i \in Active(v)'
    PROVE  i \in Active(v) \/ (ClaimReturns(v) /\ i \in pass[v].rows /\ pass[v].at = "claimed")
<1>0. run \in [Workers -> [Jobs -> Run]]
  BY DEF TypeInv, TypeOK
<1>1. i \in Jobs /\ run'[v][i].at \notin {"off", "claimed"}
  BY DEF Active
<1>2. Moves(v, i, run'[v][i])
  BY <1>1, NextOrClaim
<1>3. run[v][i].at # "off" /\ (run'[v][i].at = run[v][i].at \/ PhaseStep(v, i, run'[v][i].at))
  BY <1>1, <1>2, MoveFacts
<1>4. CASE run[v][i].at # "claimed"
  BY <1>1, <1>3, <1>4 DEF Active
<1>5. CASE run[v][i].at = "claimed"
  BY <1>1, <1>3, <1>5 DEF PhaseStep, PassIsSound
<1> QED BY <1>4, <1>5

LEMMA PassInit == Init => PassIsSound
BY DEF Init, NoPass, NoRun, PassIsSound

LEMMA PassSoundStep == TypeInv /\ PassIsSound /\ [Next]_vars => PassIsSound'
<1> SUFFICES ASSUME TypeInv, PassIsSound, [Next]_vars, NEW v \in Workers
             PROVE  /\ pass'[v].at = "claim" => \A i \in Active(v)' : i \notin pass'[v].rows
                    /\ \A j \in Jobs : run'[v][j].at = "claimed" =>
                           pass'[v].at = "claimed" /\ j \in pass'[v].rows
  BY DEF PassIsSound
<1>0. /\ pass \in [Workers -> [at : {"none", "claim", "claimed", "requeue", "work"}, rows : SUBSET Jobs]]
      /\ run \in [Workers -> [Jobs -> Run]]
  BY DEF TypeInv, TypeOK
<1>1. ASSUME pass'[v].at = "claim", NEW i \in Active(v)' PROVE i \notin pass'[v].rows
  <2>1. CASE Scan(v)
    <3>1. /\ pass'[v].rows = Selected(v, FirstOf(Claimable, ScanLimit(v)))
          /\ UNCHANGED run
      BY <1>0, <2>1 DEF Scan
    <3>2. i \in Active(v)
      BY <3>1 DEF Active
    <3> QED BY <3>1, <3>2, SelectedAreIdle
  <2>2. CASE pass'[v] = pass[v]
    <3>1. i \in Active(v)
      BY <1>1, <2>2, ActiveFrom
    <3> QED BY <1>1, <2>2, <3>1 DEF PassIsSound
  <2>3. CASE ClaimReturns(v) \/ \E h \in Holders : Claim(v, h)
    BY <1>0, <1>1, <2>3 DEF ClaimReturns, Claim
  <2> QED BY <1>1, <2>1, <2>2, <2>3, PassMoves DEF NoPass
<1>2. ASSUME NEW j \in Jobs, run'[v][j].at = "claimed"
      PROVE  pass'[v].at = "claimed" /\ j \in pass'[v].rows
  <2>1. CASE \E h \in Holders : Claim(v, h)
    <3>1. PICK h \in Holders : Claim(v, h)
      BY <2>1
    <3>2. pass'[v] = [at |-> "claimed", rows |-> pass[v].rows \cap Claimable] /\ pass[v].at = "claim"
      BY <1>0, <3>1 DEF Claim
    <3>3. j \notin pass[v].rows \cap Claimable => run'[v][j] = run[v][j]
      BY <1>0, <3>1 DEF Claim
    <3> QED BY <1>2, <3>2, <3>3 DEF PassIsSound
  <2>2. CASE ~ \E h \in Holders : Claim(v, h)
    <3>1. Moves(v, j, run'[v][j])
      BY <2>2, NextOrClaim
    <3>2. run[v][j].at = "claimed"
      BY <1>2, <3>1, MoveFacts, AfterCheckPhase, AfterFailurePhase DEF PhaseStep
    <3>3. pass[v].at = "claimed" /\ j \in pass[v].rows
      BY <3>2 DEF PassIsSound
    <3>4. ~ClaimReturns(v)
      <4>1. SUFFICES ASSUME ClaimReturns(v) PROVE FALSE
        OBVIOUS
      <4>2. run'[v][j] = NoRun \/ run'[v][j] = [run[v][j] EXCEPT !.at = "lock"]
        BY <1>0, <3>3, <4>1 DEF ClaimReturns
      <4>3. run[v][j] \in Run
        BY <1>0
      <4> QED BY <1>2, <4>2, <4>3 DEF Run, NoRun
    <3>5. run'[v][j] # NoRun /\ ~Scan(v)
      BY <1>2, <3>3 DEF NoRun, Scan
    <3> QED BY <2>2, <3>3, <3>4, <3>5, PassMoves
  <2> QED BY <2>1, <2>2
<1> QED BY <1>1, <1>2

LEMMA PassInvariant == Spec => []PassIsSound
BY PassInit, PassSoundStep, TypeInvariant, PTL DEF Spec

-----------------------------------------------------------------------------
(* Counting.  Of a set whose members each have fewer than c - a smaller     *)
(* ones there are at most c - a.                                            *)
Smaller(S, j) == {i \in S : i < j}

LEMMA Ranked ==
    ASSUME NEW S \in SUBSET Nat, IsFiniteSet(S), NEW T \in SUBSET S, T # {},
           NEW a \in Int, NEW c \in Int,
           \A j \in T : a + Cardinality(Smaller(S, j)) < c
    PROVE  a + Cardinality(T) <= c
<1> DEFINE Before(j) == Smaller(S, j)
           Left == {Cardinality(S) - Cardinality(Before(j)) : j \in T}
           Below == {ss \in Nat \X Nat : ss[1] < ss[2]}
<1>1. \A j \in T : /\ IsFiniteSet(Before(j)) /\ Cardinality(Before(j)) \in Nat
                   /\ Cardinality(S) \in Nat /\ Cardinality(Before(j)) <= Cardinality(S)
  <2> TAKE j \in T
  <2>1. Before(j) \in SUBSET S
    BY DEF Smaller
  <2> QED BY <2>1, FS_Subset, FS_CardinalityType
<1>2. Left \subseteq Nat /\ Left # {}
  <2>1. \A j \in T : Cardinality(S) - Cardinality(Before(j)) \in Nat
    <3> HIDE DEF Before
    <3> QED BY <1>1
  <2> HIDE DEF Before
  <2> QED BY <2>1
<1>3. IsWellFoundedOn(Below, Nat)
  BY NatLessThanWellFounded, Zenon DEF OpToRel
<1>4. PICK x \in Left : \A y \in Left : ~(<<y, x>> \in Below)
  <2> HIDE DEF Below, Left
  <2> QED BY <1>2, <1>3, WFMin
<1>5. PICK m \in T : x = Cardinality(S) - Cardinality(Before(m))
  OBVIOUS
<1>6. \A j \in T : Cardinality(Before(j)) <= Cardinality(Before(m))
  <2> TAKE j \in T
  <2>1. Cardinality(S) - Cardinality(Before(j)) \in Left
    OBVIOUS
  <2>2. ~(Cardinality(S) - Cardinality(Before(j)) < Cardinality(S) - Cardinality(Before(m)))
    BY <1>1, <1>2, <1>4, <1>5, <2>1
  <2> QED BY <1>1, <2>2
<1>7. T \ {m} \subseteq Before(m)
  <2> SUFFICES ASSUME NEW j \in T, j # m, ~(j < m) PROVE FALSE
    BY DEF Smaller
  <2>1. m < j /\ m \in Nat /\ j \in Nat
    OBVIOUS
  <2>2. Before(m) \subseteq Before(j) /\ m \in Before(j) /\ m \notin Before(m)
    <3>1. \A i \in S : i < m => i < j
      BY <2>1
    <3>2. m \in S /\ ~(m < m)
      BY <2>1
    <3> QED BY <2>1, <3>1, <3>2 DEF Smaller
  <2>3. Before(m) \in SUBSET Before(j) /\ Before(m) # Before(j)
    BY <2>2
  <2>4. /\ Cardinality(Before(m)) <= Cardinality(Before(j))
        /\ Cardinality(Before(m)) # Cardinality(Before(j))
    <3> HIDE DEF Before
    <3> QED BY <1>1, <2>3, FS_Subset
  <2> HIDE DEF Before
  <2> QED BY <1>1, <1>6, <2>4
<1>8. T \ {m} \in SUBSET Before(m)
  BY <1>7
<1>9. Cardinality(T \ {m}) <= Cardinality(Before(m))
  <2> HIDE DEF Before
  <2> QED BY <1>1, <1>8, FS_Subset
<1>10. IsFiniteSet(T)
  <2>1. T \in SUBSET S
    OBVIOUS
  <2> QED BY <2>1, FS_Subset
<1>11. Cardinality(T \ {m}) = Cardinality(T) - 1 /\ Cardinality(T) \in Nat
  BY <1>10, FS_RemoveElement, FS_CardinalityType
<1>12. a + Cardinality(Before(m)) < c
  OBVIOUS
<1> HIDE DEF Before
<1> QED BY <1>1, <1>9, <1>11, <1>12

(* What a pass selects fits into the slots and the caps that are free.      *)
OfName(S, n) == {j \in S : Name[j] = n}

Fits(w, S) ==
    /\ Cardinality(S) <= Concurrency
    /\ \A n \in Handles[w] : Cap[n] > 0 => Cardinality(OfName(S, n)) <= Cap[n]

LEMMA SubsetFits ==
    ASSUME IsFiniteSet(Jobs), NEW w \in Workers, NEW S \in SUBSET Jobs, Fits(w, S), NEW T \in SUBSET S
    PROVE  Fits(w, T)
<1>0. IsFiniteSet(S) /\ IsFiniteSet(T) /\ Cardinality(S) \in Nat /\ Cardinality(T) \in Nat
  BY FS_Subset, FS_CardinalityType
<1>1. Cardinality(T) <= Concurrency
  <2>1. Cardinality(T) <= Cardinality(S)
    BY <1>0, FS_Subset
  <2> QED BY <1>0, <2>1, WorkerAssumption DEF Fits
<1>2. ASSUME NEW n \in Handles[w], Cap[n] > 0 PROVE Cardinality(OfName(T, n)) <= Cap[n]
  <2>1. OfName(T, n) \in SUBSET OfName(S, n) /\ OfName(S, n) \in SUBSET S
    BY DEF OfName
  <2>2. IsFiniteSet(OfName(S, n))
    BY <1>0, <2>1, FS_Subset
  <2>3. /\ Cardinality(OfName(T, n)) <= Cardinality(OfName(S, n))
        /\ Cardinality(OfName(T, n)) \in Nat /\ Cardinality(OfName(S, n)) \in Nat
    BY <2>1, <2>2, FS_Subset, FS_CardinalityType
  <2>4. Cardinality(OfName(S, n)) <= Cap[n]
    BY <1>2 DEF Fits
  <2>5. Cap[n] \in Nat
    BY WorkerAssumption
  <2> QED BY <2>3, <2>4, <2>5
<1> QED BY <1>1, <1>2 DEF Fits

LEMMA UnionCount ==
    ASSUME NEW A, IsFiniteSet(A), NEW B, IsFiniteSet(B)
    PROVE  Cardinality(A \cup B) <= Cardinality(A) + Cardinality(B)
<1>1. A \cap B \in SUBSET A
  OBVIOUS
<1>2. IsFiniteSet(A \cap B)
  BY <1>1, FS_Subset
<1>3. /\ Cardinality(A) \in Nat /\ Cardinality(B) \in Nat /\ Cardinality(A \cap B) \in Nat
      /\ Cardinality(A \cup B) = Cardinality(A) + Cardinality(B) - Cardinality(A \cap B)
  BY <1>2, FS_Union, FS_CardinalityType
<1> QED BY <1>3

LEMMA SelectionFits ==
    ASSUME IsFiniteSet(Jobs), NEW w \in Workers, NEW A \in SUBSET Jobs, A = Active(w), Fits(w, A),
           NEW k, NEW T, T = Selected(w, FirstOf(Claimable, k))
    PROVE  Fits(w, A \cup T)
<1> DEFINE eligible == FirstOf(Claimable, k) \ A
           WithinCap(j) ==
               \/ Name[j] \notin Handles[w] \/ Cap[Name[j]] = 0
               \/ Cardinality({i \in A : Name[i] = Name[j]})
                  + Cardinality({i \in eligible : i < j /\ Name[i] = Name[j]}) < Cap[Name[j]]
           S == {j \in eligible : WithinCap(j)}
<1>1. T = FirstOf(S, PassLimit(w))
  BY DEF Selected
<1>2. eligible \subseteq Jobs /\ S \subseteq Jobs /\ T \subseteq S
  BY <1>1 DEF FirstOf, Claimable
<1>3. IsFiniteSet(A) /\ Cardinality(A) \in Nat /\ IsFiniteSet(T) /\ Cardinality(T) \in Nat
      /\ IsFiniteSet(S) /\ IsFiniteSet(eligible)
  BY <1>2, FS_Subset, FS_CardinalityType
<1>4. Cardinality(A \cup T) <= Concurrency
  <2>1. CASE T = {}
    <3>1. A \cup T = A
      BY <2>1
    <3> QED BY <3>1 DEF Fits
  <2>2. CASE T # {}
    <3>1. PassLimit(w) \in Int /\ PassLimit(w) <= Concurrency - Cardinality(A)
      BY <1>3, WorkerAssumption DEF PassLimit, FreeSlots
    <3>2. \A j \in T : 0 + Cardinality(Smaller(S, j)) < PassLimit(w)
      <4> TAKE j \in T
      <4>1. Cardinality(Smaller(S, j)) < PassLimit(w)
        BY <1>1 DEF FirstOf, Smaller
      <4>2. Smaller(S, j) \in SUBSET S
        BY DEF Smaller
      <4>3. Cardinality(Smaller(S, j)) \in Nat
        BY <1>3, <4>2, FS_Subset, FS_CardinalityType
      <4> QED BY <4>1, <4>3
    <3>3. S \in SUBSET Nat /\ T \in SUBSET S /\ IsFiniteSet(S)
      BY <1>2, <1>3, JobsAssumption
    <3>4. 0 + Cardinality(T) <= PassLimit(w)
      <4> HIDE DEF S
      <4> QED BY <2>2, <3>1, <3>2, <3>3, Ranked
    <3>5. Cardinality(A \cup T) <= Cardinality(A) + Cardinality(T) /\ Cardinality(A \cup T) \in Nat
      BY <1>3, UnionCount, FS_Union, FS_CardinalityType
    <3> QED BY <1>3, <3>1, <3>4, <3>5, WorkerAssumption
  <2> QED BY <2>1, <2>2
<1>5. ASSUME NEW n \in Handles[w], Cap[n] > 0 PROVE Cardinality(OfName(A \cup T, n)) <= Cap[n]
  <2> DEFINE An == OfName(A, n)
             Tn == OfName(T, n)
             En == OfName(eligible, n)
  <2>1. An \in SUBSET A /\ En \in SUBSET eligible /\ Tn \subseteq En /\ OfName(A \cup T, n) = An \cup Tn
    BY <1>2 DEF OfName
  <2>2. IsFiniteSet(An) /\ IsFiniteSet(En) /\ Cardinality(An) \in Nat
    BY <1>3, <2>1, FS_Subset, FS_CardinalityType
  <2>3. IsFiniteSet(Tn) /\ Cardinality(Tn) \in Nat
    <3>1. Tn \in SUBSET En
      BY <2>1
    <3> QED BY <2>2, <3>1, FS_Subset, FS_CardinalityType
  <2>4. CASE Tn = {}
    <3>1. An \cup Tn = An
      BY <2>4
    <3> QED BY <1>5, <2>1, <3>1 DEF Fits
  <2>5. CASE Tn # {}
    <3>1. \A j \in Tn : Cardinality(An) + Cardinality(Smaller(En, j)) < Cap[n]
      <4> TAKE j \in Tn
      <4>1. WithinCap(j) /\ Name[j] = n
        BY <1>2 DEF OfName
      <4>2. Cap[n] \in Nat
        BY WorkerAssumption
      <4>3. {i \in A : Name[i] = Name[j]} = An
        BY <4>1 DEF OfName
      <4>4. {i \in eligible : i < j /\ Name[i] = Name[j]} = Smaller(En, j)
        BY <4>1 DEF OfName, Smaller
      <4>5. Cap[n] # 0
        BY <1>5, <4>2
      <4> HIDE DEF eligible, An, En
      <4> QED BY <4>1, <4>3, <4>4, <4>5
    <3>2. En \in SUBSET Nat /\ Tn \in SUBSET En /\ Cap[n] \in Nat
      <4>1. n \in Names
        BY WorkerAssumption
      <4>2. Cap[n] \in Nat
        BY <4>1, WorkerAssumption
      <4>3. En \in SUBSET Nat /\ Tn \in SUBSET En
        BY <1>2, <2>1, JobsAssumption
      <4> QED BY <4>2, <4>3
    <3>3. Cardinality(An) + Cardinality(Tn) <= Cap[n]
      <4>1. Cardinality(An) \in Int /\ Cap[n] \in Int
        BY <2>2, <3>2
      <4> HIDE DEF An, Tn, En
      <4> QED BY <2>2, <2>5, <3>1, <3>2, <4>1, Ranked
    <3>4. Cardinality(An \cup Tn) <= Cardinality(An) + Cardinality(Tn) /\ Cardinality(An \cup Tn) \in Nat
      <4> HIDE DEF An, Tn
      <4> QED BY <2>2, <2>3, UnionCount, FS_Union, FS_CardinalityType
    <3>5. Cardinality(An \cup Tn) <= Cap[n]
      <4> HIDE DEF An, Tn
      <4> QED BY <2>2, <2>3, <3>2, <3>3, <3>4
    <3> QED BY <2>1, <3>5
  <2> QED BY <2>4, <2>5
<1> QED BY <1>4, <1>5 DEF Fits

-----------------------------------------------------------------------------
(* The active runs of a worker, with the rows its pass is about to add,     *)
(* fit into its slots and its caps: a slot is taken when the row is         *)
(* selected, and given back only when the run ends.                         *)
Due(w) == IF pass[w].at \in {"claim", "claimed"} THEN pass[w].rows ELSE {}

Busy(w) == Active(w) \cup Due(w)

BusyFits == \A w \in Workers : Fits(w, Busy(w))

LEMMA EmptyFits == ASSUME NEW w \in Workers PROVE Fits(w, {})
<1>1. \A n : OfName({}, n) = {}
  BY DEF OfName
<1>2. \A n \in Handles[w] : Cap[n] \in Nat
  BY WorkerAssumption
<1> QED BY <1>1, <1>2, FS_EmptySet, WorkerAssumption DEF Fits

LEMMA BusyInit == Init => BusyFits
<1> SUFFICES ASSUME Init, NEW w \in Workers PROVE Fits(w, Busy(w))
  BY DEF BusyFits
<1>1. Busy(w) = {}
  BY DEF Init, Busy, Due, Active, NoRun, NoPass
<1> QED BY <1>1, EmptyFits

LEMMA BusyStep ==
    ASSUME TypeInv, PassIsSound, BusyFits, [Next]_vars, IsFiniteSet(Jobs)
    PROVE  BusyFits'
<1> SUFFICES ASSUME NEW w \in Workers PROVE Fits(w, Busy(w)')
  BY DEF BusyFits, Fits, OfName
<1>0. /\ pass \in [Workers -> [at : {"none", "claim", "claimed", "requeue", "work"}, rows : SUBSET Jobs]]
      /\ run \in [Workers -> [Jobs -> Run]]
      /\ Active(w) \in SUBSET Jobs /\ Busy(w) \in SUBSET Jobs
  BY DEF TypeInv, TypeOK, Active, Busy, Due
<1>1. CASE Scan(w)
  <2> DEFINE T == Selected(w, FirstOf(Claimable, ScanLimit(w)))
  <2>1. UNCHANGED run /\ pass'[w] = [at |-> "claim", rows |-> T] /\ pass[w].at = "none"
    BY <1>0, <1>1 DEF Scan
  <2>2. Busy(w)' = Active(w) \cup T /\ Busy(w) = Active(w)
    <3>1. Active(w)' = Active(w)
      BY <2>1 DEF Active
    <3> HIDE DEF T
    <3>2. pass'[w].at = "claim" /\ pass'[w].rows = T
      BY <2>1
    <3>3. Due(w)' = T /\ Due(w) = {}
      BY <2>1, <3>2 DEF Due
    <3> QED BY <3>1, <3>3 DEF Busy
  <2>3. Fits(w, Active(w))
    BY <2>2 DEF BusyFits
  <2>4. Fits(w, Active(w) \cup T)
    BY <1>0, <2>3, SelectionFits
  <2> HIDE DEF T
  <2> QED BY <2>2, <2>4
<1>2. CASE ~Scan(w)
  <2>1. Busy(w)' \in SUBSET Busy(w)
    <3> SUFFICES ASSUME NEW i \in Busy(w)' PROVE i \in Busy(w)
      OBVIOUS
    <3>1. CASE i \in Active(w)'
      BY <3>1, ActiveFrom DEF Busy, Due
    <3>2. CASE i \in Due(w)'
      <4>1. pass'[w].at \in {"claim", "claimed"} /\ i \in pass'[w].rows
        BY <3>2 DEF Due
      <4>2. pass'[w] # NoPass /\ ~ClaimReturns(w)
        BY <1>0, <4>1 DEF NoPass, ClaimReturns
      <4>3. CASE pass'[w] = pass[w]
        BY <4>1, <4>3 DEF Busy, Due
      <4>4. ASSUME NEW h \in Holders, Claim(w, h) PROVE i \in Busy(w)
        <5>1. pass'[w].rows = pass[w].rows \cap Claimable /\ pass[w].at = "claim"
          BY <1>0, <4>4 DEF Claim
        <5> QED BY <4>1, <5>1 DEF Busy, Due
      <4> QED BY <1>2, <4>2, <4>3, <4>4, PassMoves
    <3> QED BY <3>1, <3>2 DEF Busy
  <2>2. Fits(w, Busy(w))
    BY DEF BusyFits
  <2> QED BY <1>0, <2>1, <2>2, SubsetFits
<1> QED BY <1>1, <1>2

-----------------------------------------------------------------------------
(* Every handler call in progress is that of an active run of a name the    *)
(* worker handles.                                                          *)
Callers == {"handle", "retry", "dead", "notify", "linger"}

CallsAreRuns ==
    \A w \in Workers : \A p \in executing[w] :
        /\ run[w][p[1]].holder = p[2]
        /\ run[w][p[1]].at \in Callers
        /\ Name[p[1]] \in Handles[w]

(* A run does not end while its call is in progress, if no store call fails.*)
LEMMA CallKept ==
    ASSUME TypeInv, PassIsSound, [Next]_vars, Bound["fault"] = 0,
           NEW v \in Workers, NEW i \in Jobs, run[v][i].at \in Callers,
           <<i, run[v][i].holder>> \in executing[v], <<i, run[v][i].holder>> \in executing'[v]
    PROVE  run'[v][i].at \in Callers /\ run'[v][i].holder = run[v][i].holder
<1> DEFINE Goal == run'[v][i].at \in Callers /\ run'[v][i].holder = run[v][i].holder
<1>0. /\ run \in [Workers -> [Jobs -> Run]] /\ run[v][i] \in Run
      /\ executing \in [Workers -> SUBSET (Jobs \X Holders)]
      /\ spent["fault"] \in Nat
  BY DEF TypeInv, TypeOK, Disturbances
<1>1. CASE run'[v][i] = run[v][i]
  BY <1>1
<1>2. ASSUME NEW p \in Callers, run'[v][i] = [run[v][i] EXCEPT !.at = p] PROVE Goal
  BY <1>0, <1>2 DEF Run
<1>3. i \in Active(v)
  BY DEF Active, Callers
<1>4. ASSUME NEW w \in Workers, NEW h \in Holders, Claim(w, h) PROVE Goal
  BY <1>1, <1>3, <1>4, ClaimMoves DEF PassIsSound, Claim
<1>5. ASSUME NEW w \in Workers, ClaimReturns(w) PROVE Goal
  <2>1. v = w => i \notin pass[w].rows
    BY <1>5 DEF ClaimReturns, TypeInv, ClaimedRowsAreRuns, Callers
  <2>2. run'[v][i] = run[v][i]
    BY <1>0, <1>5, <2>1 DEF ClaimReturns
  <2> QED BY <1>1, <2>2
<1>6. ASSUME NEW w \in Workers, Fault(w) PROVE FALSE
  <2>1. ~Spend("fault")
    BY <1>0 DEF Spend
  <2> QED BY <1>6, <2>1 DEF Fault, ScanFails, ClaimFails, CheckFails, SettleFails, OnDeadFails, ReleaseFails
<1>7. ASSUME NEW w \in Workers, GraceElapses(w) PROVE Goal
  <2>1. run'[v][i] = run[v][i] \/ run'[v][i] = [run[v][i] EXCEPT !.abandoned = TRUE]
    BY <1>0, <1>7 DEF GraceElapses
  <2> QED BY <1>0, <1>1, <2>1 DEF Run
<1>8. ASSUME NEW w \in Workers, Crash(w) \/ Exit(w) PROVE Goal
  <2>1. v # w
    BY <1>0, <1>8 DEF Crash, Exit, GoesDown
  <2>2. run'[v][i] = run[v][i]
    BY <1>0, <1>8, <2>1 DEF Crash, Exit, GoesDown
  <2> QED BY <1>1, <2>2
<1>9. ASSUME NEW w \in Workers, NEW j \in Jobs, NEW r, run' = [run EXCEPT ![w][j] = r], v # w \/ i # j
      PROVE  Goal
  BY <1>0, <1>1, <1>9
<1>10. ASSUME NEW w \in Workers, NEW j \in Jobs, RunStep(w, j) PROVE Goal
  <2>1. CASE v = w /\ i = j
    <3>1. SettleReturns(v, i) \/ OnDeadReturns(v, i)
      BY <1>10, <2>1 DEF RunStep, LockKey, CheckReturns, StartHandler, Callers
    <3>2. Finished(v, i) = [run[v][i] EXCEPT !.at = "linger"]
      BY DEF Finished, Executing
    <3> DEFINE settled == Fenced(i, run[v][i].holder)
    <3>3. \/ run' = [run EXCEPT ![v][i] = Finished(v, i)]
          \/ run' = [run EXCEPT ![v][i] = AfterSettle(v, i, settled)]
      BY <3>1 DEF SettleReturns, OnDeadReturns
    <3>4. \/ AfterSettle(v, i, settled) = Finished(v, i)
          \/ AfterSettle(v, i, settled) = [run[v][i] EXCEPT !.at = "notify"]
      BY DEF AfterSettle
    <3> HIDE DEF settled
    <3>5. \/ run' = [run EXCEPT ![v][i] = [run[v][i] EXCEPT !.at = "linger"]]
          \/ run' = [run EXCEPT ![v][i] = [run[v][i] EXCEPT !.at = "notify"]]
      BY <3>2, <3>3, <3>4
    <3>6. ASSUME NEW p \in {"linger", "notify"},
                 run' = [run EXCEPT ![v][i] = [run[v][i] EXCEPT !.at = p]]
          PROVE  Goal
      <4> DEFINE r == [run[v][i] EXCEPT !.at = p]
      <4>1. run' = [run EXCEPT ![v][i] = r]
        BY <3>6
      <4> HIDE DEF r
      <4>2. run'[v][i] = r
        BY <1>0, <4>1
      <4> QED BY <1>2, <4>2 DEF r, Callers
    <3> QED BY <3>5, <3>6
  <2>2. CASE v # w \/ i # j
    <3>1. \E r : run' = [run EXCEPT ![w][j] = r]
      BY <1>10 DEF RunStep, LockKey, CheckReturns, StartHandler, SettleReturns, OnDeadReturns
    <3> QED BY <1>9, <2>2, <3>1
  <2> QED BY <2>1, <2>2
<1>11. ASSUME NEW w \in Workers, NEW j \in Jobs, TimeoutFires(w, j) PROVE Goal
  <2> DEFINE p == IF run[w][j].abandoned THEN "linger" ELSE AfterFailure(run[w][j])
  <2>1. run' = [run EXCEPT ![w][j] = [run[w][j] EXCEPT !.at = p]]
    BY <1>0, <1>11 DEF TimeoutFires
  <2>2. p \in Callers
    BY DEF Callers, AfterFailure
  <2> HIDE DEF p
  <2> QED BY <1>0, <1>2, <1>9, <2>1, <2>2
<1>12. ASSUME NEW w \in Workers, NEW j \in Jobs, HandlerStep(w, j) PROVE Goal
  <2>1. PICK h \in Holders, resolved \in BOOLEAN, committed \in BOOLEAN :
            HandlerReturns(w, j, h, resolved, committed)
    BY <1>12 DEF HandlerStep
  <2>2. CASE v = w /\ i = j
    <3>1. run[v][i].holder # h
      BY <1>0, <2>1, <2>2 DEF HandlerReturns
    <3>2. UNCHANGED run
      BY <2>1, <2>2, <3>1 DEF HandlerReturns
    <3> QED BY <1>1, <3>2
  <2>3. CASE v # w \/ i # j
    <3>1. UNCHANGED run \/ \E r : run' = [run EXCEPT ![w][j] = r]
      BY <2>1 DEF HandlerReturns
    <3> QED BY <1>1, <1>9, <2>3, <3>1
  <2> QED BY <2>2, <2>3
<1>13. CASE UNCHANGED run
  BY <1>1, <1>13
<1>14. ASSUME NEW w \in Workers, PassStep(w) PROVE Goal
  BY <1>4, <1>5, <1>13, <1>14 DEF PassStep, Scan, EndPass
<1>15. ASSUME NEW w \in Workers, Shutdown(w) \/ DrainSettles(w) \/ Restart(w) PROVE UNCHANGED run
  BY <1>15 DEF Shutdown, DrainSettles, Restart
<1>16. ASSUME NEW w \in Workers, NEW j \in Jobs, ReleaseStep(w, j) PROVE UNCHANGED run
  BY <1>16 DEF ReleaseStep, ReleaseReturns
<1>17. ASSUME NEW j \in Jobs, EnqueueJob(j) \/ ReplayJob(j) \/ LeaseExpires(j) \/ LeaseExpiresUnderRun(j)
      PROVE  UNCHANGED run
  BY <1>17 DEF EnqueueJob, ReplayJob, LeaseExpires, LeaseExpiresUnderRun, workerVars
<1>18. ASSUME NEW w \in Workers, NEW j \in Jobs,
              RunStep(w, j) \/ TimeoutFires(w, j) \/ HandlerStep(w, j) \/ ReleaseStep(w, j)
       PROVE  Goal
  BY <1>10, <1>11, <1>12, <1>13, <1>16, <1>18
<1>19. ASSUME NEW w \in Workers,
              \/ PassStep(w) \/ Fault(w)
              \/ Shutdown(w) \/ DrainSettles(w) \/ GraceElapses(w)
              \/ Crash(w) \/ Exit(w) \/ Restart(w)
       PROVE  Goal
  BY <1>6, <1>7, <1>8, <1>13, <1>14, <1>15, <1>19
<1> QED BY <1>13, <1>17, <1>18, <1>19 DEF Next, vars

LEMMA CallsStep ==
    ASSUME TypeInv, PassIsSound, ReadyIsUnmarked, CallsAreRuns, [Next]_vars, Bound["fault"] = 0
    PROVE  CallsAreRuns'
<1> SUFFICES ASSUME NEW w \in Workers, NEW p \in executing'[w]
             PROVE  /\ run'[w][p[1]].holder = p[2]
                    /\ run'[w][p[1]].at \in Callers
                    /\ Name[p[1]] \in Handles[w]
  BY DEF CallsAreRuns, Callers
<1>1. CASE p \in executing[w]
  <2>1. p \in Jobs \X Holders
    BY <1>1 DEF TypeInv, TypeOK
  <2>2. PICK i \in Jobs, h \in Holders : p = <<i, h>>
    BY <2>1
  <2>3. run[w][i].holder = h /\ run[w][i].at \in Callers /\ Name[i] \in Handles[w]
    BY <1>1, <2>2 DEF CallsAreRuns
  <2> QED BY <1>1, <2>2, <2>3, CallKept
<1>2. CASE p \notin executing[w]
  <2>1. PICK j \in Jobs : /\ p = <<j, run[w][j].holder>> /\ run[w][j].at = "ready"
                          /\ run'[w][j].at = "handle" /\ run'[w][j].holder = run[w][j].holder
    BY <1>2, OnlyStarts
  <2> QED BY <2>1 DEF ReadyIsUnmarked, Callers
<1> QED BY <1>1, <1>2

LEMMA BusyInvariant == ASSUME IsFiniteSet(Jobs) PROVE Spec => []BusyFits
<1>1. TypeInv /\ PassIsSound /\ BusyFits /\ [Next]_vars => BusyFits'
  BY BusyStep
<1> QED BY <1>1, BusyInit, TypeInvariant, PassInvariant, PTL DEF Spec

LEMMA CallsInvariant == ASSUME Bound["fault"] = 0 PROVE Spec => []CallsAreRuns
<1>1. Init => CallsAreRuns
  BY DEF Init, CallsAreRuns
<1>2. TypeInv /\ PassIsSound /\ ReadyIsUnmarked /\ CallsAreRuns /\ [Next]_vars => CallsAreRuns'
  BY CallsStep
<1> QED BY <1>1, <1>2, TypeInvariant, PassInvariant, ReadyInvariant, PTL DEF Spec

(* One active run for each call: calls of a set of names are no more than   *)
(* the active runs of these names.                                          *)
LEMMA CallsCounted ==
    ASSUME IsFiniteSet(Jobs), TypeInv, CallsAreRuns, NEW w \in Workers,
           NEW S \in SUBSET executing[w], NEW A \in SUBSET Active(w),
           \A p \in S : p[1] \in Active(w) => p[1] \in A
    PROVE  Cardinality(S) <= Cardinality(A) /\ Cardinality(S) \in Nat /\ Cardinality(A) \in Nat
<1> DEFINE f == [p \in S |-> p[1]]
<1>1. S \subseteq Jobs \X Holders
  BY DEF TypeInv, TypeOK
<1>2. \A p \in S : p[1] \in A
  <2> TAKE p \in S
  <2>1. p[1] \in Jobs /\ run[w][p[1]].at \in Callers
    BY <1>1 DEF CallsAreRuns
  <2> QED BY <2>1 DEF Active, Callers
<1>3. \A p, q \in S : p[1] = q[1] => p = q
  BY <1>1 DEF CallsAreRuns
<1>4. f \in Injection(S, A)
  BY <1>2, <1>3 DEF Injection, IsInjective
<1>5. A \in SUBSET Jobs
  BY DEF Active
<1> QED BY <1>4, <1>5, FS_Subset, FS_Injection, FS_CardinalityType

(* A worker whose store calls do not fail never has more handler calls in   *)
(* progress than its concurrency, timed-out ones included.                  *)
THEOREM SlotsBound ==
    ASSUME IsFiniteSet(Jobs), Bound["fault"] = 0 PROVE Spec => []SlotsBoundHandlers
<1>1. TypeInv /\ BusyFits /\ CallsAreRuns => SlotsBoundHandlers
  <2> SUFFICES ASSUME TypeInv, BusyFits, CallsAreRuns, NEW w \in Workers
               PROVE  Cardinality(executing[w]) <= Concurrency
    BY DEF SlotsBoundHandlers
  <2>1. Cardinality(executing[w]) <= Cardinality(Active(w))
        /\ Cardinality(executing[w]) \in Nat /\ Cardinality(Active(w)) \in Nat
    BY CallsCounted
  <2>2. Active(w) \in SUBSET Busy(w) /\ Busy(w) \in SUBSET Jobs
    BY DEF Busy, Due, Active, TypeInv, TypeOK
  <2>3. Fits(w, Active(w))
    BY <2>2, SubsetFits DEF BusyFits
  <2> QED BY <2>1, <2>3, WorkerAssumption DEF Fits
<1> QED BY <1>1, TypeInvariant, BusyInvariant, CallsInvariant, PTL

(* ... nor more calls of one capped name than the handler's cap.            *)
THEOREM CapsBound ==
    ASSUME IsFiniteSet(Jobs), Bound["fault"] = 0 PROVE Spec => []CapsBoundHandlers
<1>1. TypeInv /\ BusyFits /\ CallsAreRuns => CapsBoundHandlers
  <2> SUFFICES ASSUME TypeInv, BusyFits, CallsAreRuns, NEW w \in Workers, NEW n \in Names, Cap[n] > 0
               PROVE  Cardinality({p \in executing[w] : Name[p[1]] = n}) <= Cap[n]
    BY DEF CapsBoundHandlers
  <2> DEFINE S == {p \in executing[w] : Name[p[1]] = n}
             A == OfName(Active(w), n)
  <2>1. A \in SUBSET Active(w) /\ S \in SUBSET executing[w]
    BY DEF OfName
  <2>2. \A p \in S : p[1] \in Active(w) => p[1] \in A
    BY DEF OfName
  <2>3. Cardinality(S) <= Cardinality(A) /\ Cardinality(S) \in Nat /\ Cardinality(A) \in Nat
    <3> HIDE DEF S, A
    <3> QED BY <2>1, <2>2, CallsCounted
  <2>4. Cap[n] \in Nat
    BY WorkerAssumption
  <2>5. CASE n \in Handles[w]
    <3>1. Active(w) \in SUBSET Busy(w) /\ Busy(w) \in SUBSET Jobs
      BY DEF Busy, Due, Active, TypeInv, TypeOK
    <3>2. Fits(w, Active(w))
      BY <3>1, SubsetFits DEF BusyFits
    <3>3. Cardinality(A) <= Cap[n]
      BY <2>5, <3>2 DEF Fits
    <3> HIDE DEF S, A
    <3>4. Cardinality(S) <= Cap[n]
      BY <2>3, <2>4, <3>3
    <3> QED BY <3>4 DEF S
  <2>6. CASE n \notin Handles[w]
    <3>1. S = {}
      BY <2>6 DEF CallsAreRuns
    <3>2. Cardinality(S) = 0
      BY <3>1, FS_EmptySet
    <3> QED BY <2>4, <3>2
  <2> QED BY <2>5, <2>6
<1> QED BY <1>1, TypeInvariant, BusyInvariant, CallsInvariant, PTL
=============================================================================
