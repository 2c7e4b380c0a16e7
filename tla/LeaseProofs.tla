----------------------------- MODULE LeaseProofs -----------------------------
(***************************************************************************)
(* Proofs about the lease-coordinated schedulers, for any number of        *)
(* schedulers, tasks and instants and any bounds on the disturbances.      *)
(***************************************************************************)
EXTENDS LeaseSchedulerProperties, TLAPS

-----------------------------------------------------------------------------
(* Types.                                                                  *)

(* The helpers of a session return runs.                                   *)
LEMMA AfterRenewalType ==
    ASSUME NEW r \in Run
    PROVE  AfterRenewal(r) \in Run
BY DEF AfterRenewal, Run

LEMMA ReleaseType ==
    ASSUME NEW r \in Run, NEW who \in {"run", "stop"}
    PROVE  /\ AfterRenewal(r) \in Run
           /\ Release(r, who) \in Run
           /\ Ended(r) \in Run
<1>1. AfterRenewal(r) \in Run
  BY AfterRenewalType
<1>2. Ended(r) \in Run
  BY DEF Ended, Run
<1>3. Release(r, who) \in Run
  <2>1. CASE r.giving # "no"
    BY <2>1 DEF Release
  <2>2. CASE r.giving = "no" /\ r.renewal = "ask"
    BY <2>2 DEF Release, Run
  <2>3. CASE r.giving = "no" /\ r.renewal # "ask"
    <3> DEFINE off == [r EXCEPT !.renewal = "off", !.by = who]
    <3>1. off \in Run
      BY DEF Run
    <3>2. Release(r, who) = AfterRenewal(off)
      BY <2>3 DEF Release
    <3> QED
      BY <3>1, <3>2, AfterRenewalType
  <2> QED
    BY <2>1, <2>2, <2>3
<1> QED
  BY <1>1, <1>2, <1>3

LEMMA LostType ==
    ASSUME NEW r \in Run
    PROVE  Lost(r) \in Run
<1> DEFINE off == [r EXCEPT !.held = FALSE, !.renewal = "off", !.aborted = TRUE]
<1>1. off \in Run
  BY DEF Run
<1>2. AfterRenewal(off) \in Run
  BY <1>1, ReleaseType
<1>3. Ended(AfterRenewal(off)) \in Run
  BY <1>2, ReleaseType
<1> QED
  BY <1>1, <1>3 DEF Lost

LEMMA SetType ==
    ASSUME TypeOK, NEW s \in Schedulers, NEW t \in Tasks, NEW r \in Run, Set(s, t, r)
    PROVE  run' \in [Schedulers -> [Tasks -> Run]]
BY DEF Set, TypeOK

(* What Set leaves in the slot it writes.                                  *)
LEMMA SetAt ==
    ASSUME TypeOK, NEW s \in Schedulers, NEW t \in Tasks, NEW v, Set(s, t, v)
    PROVE  run'[s][t] = v
BY DEF Set, TypeOK

LEMMA SpendType ==
    ASSUME TypeOK, NEW d \in Disturbances, Spend(d)
    PROVE  spent' \in [Disturbances -> Nat]
BY DEF Spend, TypeOK

LEMMA LeaseType ==
    ASSUME TypeOK, NEW s \in Schedulers, NEW t \in Tasks
    PROVE  /\ Obtained(s, t) \in [Tasks -> Lease]
           /\ Deleted(s, t) \in [Tasks -> Lease]
           /\ [lease EXCEPT ![t].live = FALSE] \in [Tasks -> Lease]
BY DEF Obtained, Deleted, TypeOK, Lease, NoLease

(* A store request leaves the table as it was, or executes.                *)
LEMMA LeaseKept ==
    ASSUME TypeOK, NEW s \in Schedulers, NEW t \in Tasks,
           lease' = lease \/ lease' = Obtained(s, t) \/ lease' = Deleted(s, t)
    PROVE  lease' \in [Tasks -> Lease]
<1>1. lease \in [Tasks -> Lease]
  BY DEF TypeOK
<1>2. Obtained(s, t) \in [Tasks -> Lease] /\ Deleted(s, t) \in [Tasks -> Lease]
  BY LeaseType
<1> QED
  BY <1>1, <1>2

LEMMA StrayType ==
    ASSUME TypeOK, NEW s \in Schedulers, NEW t \in Tasks,
           NEW request \in {"acquire", "release"}
    PROVE  /\ [stray EXCEPT ![s][t] = @ \cup {request}]
                  \in [Schedulers -> [Tasks -> SUBSET {"acquire", "release"}]]
           /\ [stray EXCEPT ![s][t] = @ \ {request}]
                  \in [Schedulers -> [Tasks -> SUBSET {"acquire", "release"}]]
<1>1. /\ stray \in [Schedulers -> [Tasks -> SUBSET {"acquire", "release"}]]
      /\ stray[s] \in [Tasks -> SUBSET {"acquire", "release"}]
      /\ stray[s][t] \in SUBSET {"acquire", "release"}
  BY DEF TypeOK
<1>2. ASSUME NEW R \in SUBSET {"acquire", "release"}
      PROVE  [stray EXCEPT ![s][t] = R]
                \in [Schedulers -> [Tasks -> SUBSET {"acquire", "release"}]]
  BY <1>1
<1>3. /\ stray[s][t] \cup {request} \in SUBSET {"acquire", "release"}
      /\ stray[s][t] \ {request} \in SUBSET {"acquire", "release"}
  BY <1>1
<1> QED
  BY <1>2, <1>3

LEMMA FiresType ==
    ASSUME TypeOK, NEW s \in Schedulers, NEW t \in Tasks, NEW i
    PROVE  [fires EXCEPT ![t][i] = @ \cup {s}]
              \in [Tasks -> [Instants -> SUBSET Schedulers]]
<1>1. /\ fires \in [Tasks -> [Instants -> SUBSET Schedulers]]
      /\ fires[t] \in [Instants -> SUBSET Schedulers]
  BY DEF TypeOK
<1>2. CASE i \in Instants
  <2>1. fires[t][i] \in SUBSET Schedulers
    BY <1>1, <1>2
  <2>2. fires[t][i] \cup {s} \in SUBSET Schedulers
    BY <2>1
  <2>3. ASSUME NEW R \in SUBSET Schedulers
        PROVE  [fires EXCEPT ![t][i] = R] \in [Tasks -> [Instants -> SUBSET Schedulers]]
    BY <1>1
  <2> QED
    BY <2>2, <2>3
<1>3. CASE i \notin Instants
  BY <1>1, <1>3
<1> QED
  BY <1>2, <1>3

(* Every step keeps every variable in its type.                            *)
LEMMA TypeStep == TypeOK /\ [Next]_vars => TypeOK'
<1> SUFFICES ASSUME TypeOK, [Next]_vars PROVE TypeOK'
  OBVIOUS
<1>1. ASSUME NEW s \in Schedulers, NEW t \in Tasks, Launch(s, t)
      PROVE  TypeOK'
  <2>1. /\ run[s][t] \in Run /\ next[s][t] \in Instants
        /\ next[s][t] \in 0 .. Last
        /\ next[s][t] + 1 \in 1 .. Last + 1
    BY <1>1, SchedulerAssumption DEF Launch, TypeOK, Instants
  <2>2. run' \in [Schedulers -> [Tasks -> Run]]
    <3>1. /\ [NoRun EXCEPT !.at = "acquire", !.instant = next[s][t]] \in Run
          /\ [NoRun EXCEPT !.at = "body", !.instant = next[s][t]] \in Run
      BY <2>1 DEF NoRun, Run
    <3> QED
      BY <1>1, <3>1, SetType DEF Launch
  <2>3. next' \in [Schedulers -> [Tasks -> 1 .. Last + 1]]
    BY <1>1, <2>1 DEF Launch, TypeOK
  <2>4. fires' \in [Tasks -> [Instants -> SUBSET Schedulers]]
    <3>1. [fires EXCEPT ![t][next[s][t]] = @ \cup {s}]
             \in [Tasks -> [Instants -> SUBSET Schedulers]]
      BY <2>1, FiresType
    <3>2. fires \in [Tasks -> [Instants -> SUBSET Schedulers]]
      BY DEF TypeOK
    <3> QED
      BY <1>1, <3>1, <3>2 DEF Launch
  <2> QED
    BY <1>1, <2>2, <2>3, <2>4 DEF Launch, TypeOK
<1>2. ASSUME NEW s \in Schedulers, NEW t \in Tasks, Skip(s, t)
      PROVE  TypeOK'
  <2>1. next[s][t] + 1 \in 1 .. Last + 1
    BY <1>2, SchedulerAssumption DEF Skip, TypeOK, Instants
  <2> QED
    BY <1>2, <2>1 DEF Skip, TypeOK
<1>3. ASSUME NEW s \in Schedulers, NEW t \in Tasks, StoreAnswers(s, t)
      PROVE  TypeOK'
  <2> DEFINE r == run[s][t]
  <2>1. r \in Run /\ "fault" \in Disturbances
    BY DEF TypeOK, Disturbances
  <2>2. \A x \in {"acquire", "acquired", "undo", "body", "end", "idle"} :
           [r EXCEPT !.at = x] \in Run
    BY <2>1 DEF Run
  <2>3. \A q \in Run : [q EXCEPT !.at = "idle"] \in Run
    BY DEF Run
  <2> HIDE DEF r
  <2>4. CASE AcquireGranted(s, t)
    BY <2>2, <2>4, SetType, LeaseType DEF AcquireGranted, TypeOK, r
  <2>5. CASE AcquireRefused(s, t)
    <3>1. [Release(r, "run") EXCEPT !.at = "idle"] \in Run
      BY <2>1, <2>3, ReleaseType
    <3> QED
      BY <2>5, <3>1, SetType DEF AcquireRefused, TypeOK, r
  <2>6. CASE AcquireFails(s, t)
    <3>1. [Release(r, "run") EXCEPT !.at = "idle"] \in Run
      BY <2>1, <2>3, ReleaseType
    <3>2. stray' \in [Schedulers -> [Tasks -> SUBSET {"acquire", "release"}]]
      BY <2>6, StrayType DEF AcquireFails, TypeOK
    <3> QED
      BY <2>1, <2>6, <3>1, <3>2, SetType, SpendType DEF AcquireFails, TypeOK, r
  <2>7. CASE AcquireReturns(s, t)
    <3>1. [r EXCEPT !.at = "body", !.held = TRUE, !.renewal = "sleep"] \in Run
      BY <2>1 DEF Run
    <3>2. run' \in [Schedulers -> [Tasks -> Run]]
      BY <2>2, <2>7, <3>1, SetType DEF AcquireReturns, r
    <3>3. fires' \in [Tasks -> [Instants -> SUBSET Schedulers]]
      <4>1. fires \in [Tasks -> [Instants -> SUBSET Schedulers]]
        BY DEF TypeOK
      <4>2. CASE run[s][t].giving = "no"
        BY <2>7, <4>2, FiresType DEF AcquireReturns
      <4>3. CASE run[s][t].giving # "no"
        BY <2>7, <4>1, <4>3 DEF AcquireReturns
      <4> QED
        BY <4>2, <4>3
    <3> QED
      BY <2>7, <3>2, <3>3 DEF AcquireReturns, TypeOK
  <2>8. CASE UndoReturns(s, t)
    <3>1. run' \in [Schedulers -> [Tasks -> Run]]
      BY <2>2, <2>8, SetType DEF UndoReturns, r
    <3>2. /\ stray' \in [Schedulers -> [Tasks -> SUBSET {"acquire", "release"}]]
          /\ lease' \in [Tasks -> Lease]
          /\ spent' \in [Disturbances -> Nat]
      <4>1. CASE /\ lease' = Deleted(s, t)
                 /\ UNCHANGED <<stray, spent>>
        BY <4>1, LeaseType DEF TypeOK
      <4>2. CASE /\ Spend("fault")
                 /\ stray' = [stray EXCEPT ![s][t] = @ \cup {"release"}]
                 /\ UNCHANGED lease
        <5>1. lease' \in [Tasks -> Lease]
          BY <4>2 DEF TypeOK
        <5> QED
          BY <2>1, <4>2, <5>1, SpendType, StrayType
      <4> QED
        BY <2>8, <4>1, <4>2 DEF UndoReturns
    <3> QED
      BY <2>8, <3>1, <3>2 DEF UndoReturns, TypeOK
  <2>9. CASE RenewReturns(s, t)
    <3>1. /\ [r EXCEPT !.renewal = "off"] \in Run
          /\ [r EXCEPT !.renewal = "sleep"] \in Run
      BY <2>1 DEF Run
    <3>2. AfterRenewal([r EXCEPT !.renewal = "off"]) \in Run
      BY <3>1, ReleaseType
    <3> QED
      BY <2>9, <3>1, <3>2, SetType DEF RenewReturns, TypeOK, r
  <2>10. CASE RenewRefused(s, t)
    BY <2>1, <2>10, LostType, SetType DEF RenewRefused, TypeOK, r
  <2>11. CASE RenewFails(s, t)
    BY <2>1, <2>11, LostType, SetType, SpendType DEF RenewFails, TypeOK, r
  <2>12. CASE ReleaseReturns(s, t)
    <3>1. Ended([r EXCEPT !.giving = "done"]) \in Run
      <4>1. [r EXCEPT !.giving = "done"] \in Run
        BY <2>1 DEF Run
      <4> QED
        BY <4>1, ReleaseType
    <3>2. run' \in [Schedulers -> [Tasks -> Run]]
      BY <2>12, <3>1, SetType DEF ReleaseReturns, r
    <3>3. /\ stray' \in [Schedulers -> [Tasks -> SUBSET {"acquire", "release"}]]
          /\ lease' \in [Tasks -> Lease]
          /\ spent' \in [Disturbances -> Nat]
      <4>1. CASE /\ lease' = Deleted(s, t)
                 /\ UNCHANGED <<stray, spent>>
        BY <4>1, LeaseType DEF TypeOK
      <4>2. CASE /\ Spend("fault")
                 /\ stray' = [stray EXCEPT ![s][t] = @ \cup {"release"}]
                 /\ UNCHANGED lease
        <5>1. lease' \in [Tasks -> Lease]
          BY <4>2 DEF TypeOK
        <5> QED
          BY <2>1, <4>2, <5>1, SpendType, StrayType
      <4> QED
        BY <2>12, <4>1, <4>2 DEF ReleaseReturns
    <3> QED
      BY <2>12, <3>2, <3>3 DEF ReleaseReturns, TypeOK
  <2> QED
    BY <1>3, <2>4, <2>5, <2>6, <2>7, <2>8, <2>9, <2>10, <2>11, <2>12 DEF StoreAnswers
<1>4. ASSUME NEW s \in Schedulers, NEW t \in Tasks,
             RenewSent(s, t) \/ Timeout(s, t) \/ BodySettles(s, t)
      PROVE  TypeOK'
  <2> DEFINE r == run[s][t]
  <2>1. r \in Run
    BY DEF TypeOK
  <2>2. /\ [r EXCEPT !.renewal = "ask"] \in Run
        /\ [r EXCEPT !.aborted = TRUE] \in Run
        /\ [r EXCEPT !.at = "end"] \in Run
    BY <2>1 DEF Run
  <2>3. Ended(Release([r EXCEPT !.at = "end"], "run")) \in Run
    BY <2>2, ReleaseType
  <2>4. run' \in [Schedulers -> [Tasks -> Run]]
    BY <1>4, <2>2, <2>3, SetType DEF RenewSent, Timeout, BodySettles
  <2> QED
    BY <1>4, <2>4 DEF RenewSent, Timeout, BodySettles, TypeOK
<1>5. ASSUME NEW s \in Schedulers, NEW t \in Tasks,
             NEW request \in {"acquire", "release"},
             StrayExecutes(s, t, request) \/ StrayIsLost(s, t, request)
      PROVE  TypeOK'
  <2>1. stray' \in [Schedulers -> [Tasks -> SUBSET {"acquire", "release"}]]
    BY <1>5, StrayType DEF StrayExecutes, StrayIsLost
  <2>2. lease' \in [Tasks -> Lease]
    <3>1. lease' = lease \/ lease' = Obtained(s, t) \/ lease' = Deleted(s, t)
      BY <1>5 DEF StrayExecutes, StrayIsLost
    <3> QED
      BY <3>1, LeaseKept
  <2>3. spent' \in [Disturbances -> Nat]
    BY <1>5, SpendType DEF StrayExecutes, StrayIsLost, TypeOK, Disturbances
  <2> QED
    BY <1>5, <2>1, <2>2, <2>3 DEF StrayExecutes, StrayIsLost, TypeOK
<1>6. ASSUME NEW s \in Schedulers, Shutdown(s) PROVE TypeOK'
  BY <1>6, SpendType DEF Shutdown, TypeOK, Modes, Disturbances
<1>7. ASSUME NEW s \in Schedulers, StopStep(s) PROVE TypeOK'
  <2>1. CASE DrainSettles(s)
    BY <2>1 DEF DrainSettles, TypeOK, Modes
  <2>2. CASE GraceElapses(s)
    <3>1. left' \in [Schedulers -> SUBSET Tasks]
      BY <2>2 DEF GraceElapses, TypeOK
    <3> QED
      BY <2>2, <3>1 DEF GraceElapses, TypeOK, Modes
  <2>3. ASSUME NEW t \in Tasks, StopRun(s, t) PROVE TypeOK'
    <3> DEFINE r == run[s][t]
    <3>0. r \in Run
      BY DEF TypeOK
    <3>1. r \in Run /\ [r EXCEPT !.aborted = TRUE] \in Run
      BY <3>0 DEF Run
    <3>2. Release([r EXCEPT !.aborted = TRUE], "stop") \in Run
      BY <3>1, ReleaseType
    <3>3. run' \in [Schedulers -> [Tasks -> Run]]
      BY <2>3, <3>1, <3>2, SetType DEF StopRun
    <3>4. left' \in [Schedulers -> SUBSET Tasks]
      BY <2>3 DEF StopRun, TypeOK
    <3> QED
      BY <2>3, <3>3, <3>4 DEF StopRun, TypeOK
  <2>4. CASE StopReturns(s)
    BY <2>4 DEF StopReturns, TypeOK, Modes
  <2> QED
    BY <1>7, <2>1, <2>2, <2>3, <2>4 DEF StopStep
<1>8. ASSUME NEW s \in Schedulers, Crash(s) PROVE TypeOK'
  <2>1. NoRun \in Run
    BY SchedulerAssumption DEF NoRun, Run
  <2>2. run' \in [Schedulers -> [Tasks -> Run]]
    BY <1>8, <2>1 DEF Crash, TypeOK
  <2>3. \A t \in Tasks : InFlight(s, t) \subseteq {"acquire", "release"}
    BY DEF InFlight
  <2>4. stray' \in [Schedulers -> [Tasks -> SUBSET {"acquire", "release"}]]
    BY <1>8, <2>3 DEF Crash, TypeOK
  <2>5. left' \in [Schedulers -> SUBSET Tasks]
    BY <1>8 DEF Crash, TypeOK
  <2>6. mode' \in [Schedulers -> Modes]
    BY <1>8 DEF Crash, TypeOK, Modes
  <2>7. spent' \in [Disturbances -> Nat]
    BY <1>8, SpendType DEF Crash, Disturbances
  <2> QED
    BY <1>8, <2>2, <2>4, <2>5, <2>6, <2>7 DEF Crash, TypeOK
<1>9. ASSUME NEW t \in Tasks, LeaseExpires(t) PROVE TypeOK'
  <2>1. lease' \in [Tasks -> Lease]
    BY <1>9 DEF LeaseExpires, Expired, TypeOK, Lease
  <2>2. spent' \in [Disturbances -> Nat]
    BY <1>9, SpendType DEF LeaseExpires, Disturbances, TypeOK
  <2> QED
    BY <1>9, <2>1, <2>2 DEF LeaseExpires, TypeOK
<1>10. CASE UNCHANGED vars
  BY <1>10 DEF vars, TypeOK, Lease, Run
<1> QED
  BY <1>1, <1>2, <1>3, <1>4, <1>5, <1>6, <1>7, <1>8, <1>9, <1>10 DEF Next

LEMMA TypeInit == Init => TypeOK
BY LeaseAssumption, SchedulerAssumption
   DEF Init, LeaseInit, NoLease, Lease, TypeOK, NoRun, Run, Modes, Instants, Disturbances

(* THEOREM: every reachable state is well typed.                           *)
THEOREM TypeCorrect == Spec => []TypeOK
<1>1. Init => TypeOK
  BY TypeInit
<1>2. TypeOK /\ [Next]_vars => TypeOK'
  BY TypeStep
<1> QED
  BY <1>1, <1>2, PTL DEF Spec

-----------------------------------------------------------------------------
(* The shape of a run.                                                     *)

(* What a run in any phase keeps, whatever the store and the other          *)
(* schedulers do: it holds and renews nothing before its grant arrives; its *)
(* release is sent only after its renewal is over; and a method that was    *)
(* not told to stop is one whose session was not released and, for a        *)
(* cluster task, is being renewed.                                         *)
Sound(r, t) ==
    /\ r.at \in {"acquire", "acquired", "undo"} =>
          ~r.held /\ r.renewal = "off" /\ r.giving # "sent"
    /\ r.giving = "sent" => r.renewal = "off"
    /\ r.at = "body" /\ r.giving # "no" => r.aborted
    /\ t \in Clustered /\ r.at = "body" /\ ~r.aborted => r.renewal # "off"
    /\ r.at \in {"acquire", "acquired"} /\ r.giving = "no" => ~r.aborted

LEMMA SoundAfterRenewal ==
    ASSUME NEW r \in Run, NEW t, Sound(r, t),
           r.renewal = "off", r.giving # "no" \/ r.at = "end", r.aborted \/ r.at # "body"
    PROVE  Sound(AfterRenewal(r), t)
BY DEF Sound, AfterRenewal, Run

LEMMA SoundRelease ==
    ASSUME NEW r \in Run, NEW t, NEW who \in {"run", "stop"}, Sound(r, t),
           r.aborted \/ r.at # "body"
    PROVE  Sound(Release(r, who), t)
BY DEF Sound, AfterRenewal, Release, Run

LEMMA SoundEnded ==
    ASSUME NEW r \in Run, NEW t, Sound(r, t)
    PROVE  Sound(Ended(r), t)
BY DEF Sound, Ended, Run

LEMMA SoundLost ==
    ASSUME NEW r \in Run, NEW t, Sound(r, t), r.renewal = "ask"
    PROVE  Sound(Lost(r), t)
<1> DEFINE off == [r EXCEPT !.held = FALSE, !.renewal = "off", !.aborted = TRUE]
<1>1. off \in Run /\ Sound(off, t)
  BY DEF Sound, Run
<1>2. AfterRenewal(off) \in Run /\ Sound(AfterRenewal(off), t)
  BY <1>1 DEF Sound, AfterRenewal, Run
<1>3. Sound(Ended(AfterRenewal(off)), t)
  BY <1>2, SoundEnded
<1> QED
  BY <1>1, <1>3 DEF Lost

SoundRuns == \A s \in Schedulers, t \in Tasks : Sound(run[s][t], t)

LEMMA SoundSet ==
    ASSUME TypeOK, SoundRuns, NEW s \in Schedulers, NEW t \in Tasks,
           NEW r \in Run, Set(s, t, r), Sound(r, t)
    PROVE  SoundRuns'
<1> SUFFICES ASSUME NEW u \in Schedulers, NEW v \in Tasks
             PROVE  Sound(run'[u][v], v)
  BY DEF SoundRuns
<1>1. run'[u][v] = IF u = s /\ v = t THEN r ELSE run[u][v]
  BY DEF Set, TypeOK
<1>2. Sound(run[u][v], v)
  BY DEF SoundRuns
<1> QED
  BY <1>1, <1>2

LEMMA SoundStep == TypeOK /\ SoundRuns /\ [Next]_vars => SoundRuns'
<1> SUFFICES ASSUME TypeOK, SoundRuns, [Next]_vars PROVE SoundRuns'
  OBVIOUS
<1>1. ASSUME NEW s \in Schedulers, NEW t \in Tasks,
             \/ Launch(s, t) \/ StoreAnswers(s, t)
             \/ RenewSent(s, t) \/ Timeout(s, t) \/ BodySettles(s, t)
             \/ StopRun(s, t)
      PROVE  SoundRuns'
  <2> DEFINE r == run[s][t]
  <2>1. r \in Run /\ Sound(r, t)
    BY DEF TypeOK, SoundRuns
  <2>2. \A q \in Run : run' = [run EXCEPT ![s][t] = q] /\ Sound(q, t) => SoundRuns'
    BY SoundSet DEF Set
  <2> HIDE DEF r
  <2>3. CASE Launch(s, t)
    <3>1. next[s][t] \in 0 .. Last
      BY <2>3, SchedulerAssumption DEF Launch, TypeOK, Instants
    <3> DEFINE a == [NoRun EXCEPT !.at = "acquire", !.instant = next[s][t]]
               b == [NoRun EXCEPT !.at = "body", !.instant = next[s][t]]
    <3>2. /\ a \in Run /\ Sound(a, t)
          /\ b \in Run /\ (t \notin Clustered => Sound(b, t))
      BY <3>1 DEF NoRun, Run, Sound
    <3> QED
      BY <2>2, <2>3, <3>2 DEF Launch, Set
  <2>4. CASE AcquireGranted(s, t)
    <3>1. [r EXCEPT !.at = "acquired"] \in Run /\ Sound([r EXCEPT !.at = "acquired"], t)
      BY <2>1, <2>4 DEF AcquireGranted, Run, Sound, r
    <3> QED
      BY <2>2, <2>4, <3>1 DEF AcquireGranted, Set, r
  <2>5. CASE AcquireRefused(s, t) \/ AcquireFails(s, t)
    <3>1. r.at \in {"acquire", "acquired"}
      BY <2>5 DEF AcquireRefused, AcquireFails, r
    <3>2. Release(r, "run") \in Run /\ Sound(Release(r, "run"), t)
      BY <2>1, <3>1, SoundRelease, ReleaseType
    <3>3. Release(r, "run").giving = "sent" => Release(r, "run").renewal = "off"
      BY <3>2 DEF Sound
    <3>4. /\ [Release(r, "run") EXCEPT !.at = "idle"] \in Run
          /\ Sound([Release(r, "run") EXCEPT !.at = "idle"], t)
      BY <3>2, <3>3 DEF Run, Sound
    <3> QED
      BY <2>2, <2>5, <3>4 DEF AcquireRefused, AcquireFails, Set, r
  <2>6. CASE AcquireReturns(s, t)
    <3> DEFINE a == [r EXCEPT !.at = "body", !.held = TRUE, !.renewal = "sleep"]
               b == [r EXCEPT !.at = "undo"]
    <3>1. /\ a \in Run /\ b \in Run /\ Sound(b, t)
          /\ r.giving = "no" => Sound(a, t)
      BY <2>1, <2>6 DEF AcquireReturns, Run, Sound, r
    <3> QED
      BY <2>2, <2>6, <3>1 DEF AcquireReturns, Set, r
  <2>7. CASE UndoReturns(s, t)
    <3>1. [r EXCEPT !.at = "idle"] \in Run /\ Sound([r EXCEPT !.at = "idle"], t)
      BY <2>1, <2>7 DEF UndoReturns, Run, Sound, r
    <3> QED
      BY <2>2, <2>7, <3>1 DEF UndoReturns, Set, r
  <2>8. CASE RenewReturns(s, t)
    <3> DEFINE a == [r EXCEPT !.renewal = "off"]
               b == [r EXCEPT !.renewal = "sleep"]
    <3>1. /\ a \in Run /\ b \in Run /\ Sound(b, t)
          /\ r.giving = "wait" => Sound(a, t)
      BY <2>1, <2>8 DEF RenewReturns, Run, Sound, r
    <3>2. r.giving = "wait" => AfterRenewal(a) \in Run /\ Sound(AfterRenewal(a), t)
      <4> SUFFICES ASSUME r.giving = "wait"
                   PROVE  AfterRenewal(a) \in Run /\ Sound(AfterRenewal(a), t)
        OBVIOUS
      <4>1. /\ a.renewal = "off" /\ a.giving = "wait"
            /\ a.aborted \/ a.at # "body"
        BY <2>1 DEF Run, Sound
      <4> QED
        BY <3>1, <4>1, ReleaseType, SoundAfterRenewal
    <3> QED
      BY <2>2, <2>8, <3>1, <3>2 DEF RenewReturns, Set, r
  <2>9. CASE RenewRefused(s, t) \/ RenewFails(s, t)
    <3>1. Lost(r) \in Run /\ Sound(Lost(r), t)
      BY <2>1, <2>9, LostType, SoundLost DEF RenewRefused, RenewFails, r
    <3> QED
      BY <2>2, <2>9, <3>1 DEF RenewRefused, RenewFails, Set, r
  <2>10. CASE ReleaseReturns(s, t)
    <3> DEFINE a == [r EXCEPT !.giving = "done"]
    <3>1. a \in Run /\ Sound(a, t)
      BY <2>1, <2>10 DEF ReleaseReturns, Run, Sound, r
    <3>2. Ended(a) \in Run /\ Sound(Ended(a), t)
      BY <3>1, ReleaseType, SoundEnded
    <3> QED
      BY <2>2, <2>10, <3>2 DEF ReleaseReturns, Set, r
  <2>11. CASE RenewSent(s, t)
    <3>1. [r EXCEPT !.renewal = "ask"] \in Run /\ Sound([r EXCEPT !.renewal = "ask"], t)
      BY <2>1, <2>11 DEF RenewSent, Run, Sound, r
    <3> QED
      BY <2>2, <2>11, <3>1 DEF RenewSent, Set, r
  <2>12. CASE Timeout(s, t)
    <3>1. [r EXCEPT !.aborted = TRUE] \in Run /\ Sound([r EXCEPT !.aborted = TRUE], t)
      BY <2>1, <2>12 DEF Timeout, Run, Sound, r
    <3> QED
      BY <2>2, <2>12, <3>1 DEF Timeout, Set, r
  <2>13. CASE BodySettles(s, t)
    <3> DEFINE a == [r EXCEPT !.at = "end"]
    <3>1. a \in Run /\ Sound(a, t) /\ a.at # "body"
      BY <2>1, <2>13 DEF BodySettles, Run, Sound, r
    <3>2. Release(a, "run") \in Run /\ Sound(Release(a, "run"), t)
      BY <3>1, SoundRelease, ReleaseType
    <3>3. Ended(Release(a, "run")) \in Run /\ Sound(Ended(Release(a, "run")), t)
      BY <3>2, SoundEnded, ReleaseType
    <3> QED
      BY <2>2, <2>13, <3>3 DEF BodySettles, Set, r
  <2>14. CASE StopRun(s, t)
    <3> DEFINE a == [r EXCEPT !.aborted = TRUE]
               b == Release(a, "stop")
    <3>1. a \in Run /\ a.aborted /\ a.at = r.at /\ a.giving = r.giving
          /\ a.renewal = r.renewal /\ a.held = r.held
      BY <2>1 DEF Run
    <3>2. b \in Run /\ b.giving # "no" /\ Sound(b, t)
      <4>1. b \in Run
        BY <3>1, ReleaseType
      <4>2. CASE r.giving # "no"
        <5>1. b = a
          BY <3>1, <4>2 DEF Release
        <5> QED
          BY <2>1, <3>1, <4>1, <4>2, <5>1 DEF Sound
      <4>3. CASE r.giving = "no" /\ r.renewal = "ask"
        <5>1. b = [a EXCEPT !.giving = "wait", !.by = "stop"]
          BY <3>1, <4>3 DEF Release
        <5> QED
          BY <2>1, <3>1, <4>1, <4>3, <5>1 DEF Sound, Run
      <4>4. CASE r.giving = "no" /\ r.renewal # "ask"
        <5> DEFINE c == [a EXCEPT !.renewal = "off", !.by = "stop"]
        <5>1. b = AfterRenewal(c)
          BY <3>1, <4>4 DEF Release
        <5>2. c \in Run /\ c.at = r.at /\ c.held = r.held
              /\ c.renewal = "off" /\ c.aborted
          BY <3>1 DEF Run
        <5> HIDE DEF a, b, c
        <5>3. CASE c.held
          <6>1. b = [c EXCEPT !.held = FALSE, !.giving = "sent"]
            BY <5>1, <5>3 DEF AfterRenewal
          <6>2. /\ b.at = r.at /\ ~b.held /\ b.giving = "sent"
                /\ b.renewal = "off" /\ b.aborted
            BY <5>2, <6>1 DEF Run
          <6>3. r.at \notin {"acquire", "acquired", "undo"}
            BY <2>1, <5>2, <5>3 DEF Sound
          <6> QED
            BY <4>1, <6>2, <6>3 DEF Sound
        <5>4. CASE ~c.held
          <6>1. b = [c EXCEPT !.giving = "done"]
            BY <5>1, <5>4 DEF AfterRenewal
          <6>2. /\ b.at = r.at /\ ~b.held /\ b.giving = "done"
                /\ b.renewal = "off" /\ b.aborted
            BY <5>2, <5>4, <6>1 DEF Run
          <6> QED
            BY <4>1, <6>2 DEF Sound
        <5> QED
          BY <5>3, <5>4
      <4> QED
        BY <4>2, <4>3, <4>4
    <3> QED
      BY <2>1, <2>2, <2>14, <3>2 DEF StopRun, Set, r
  <2> QED
    BY <1>1, <2>3, <2>4, <2>5, <2>6, <2>7, <2>8, <2>9, <2>10, <2>11, <2>12,
       <2>13, <2>14 DEF StoreAnswers
<1>2. ASSUME NEW s \in Schedulers, Crash(s) PROVE SoundRuns'
  <2>1. \A t \in Tasks : Sound(NoRun, t)
    BY DEF Sound, NoRun
  <2> QED
    BY <1>2, <2>1 DEF Crash, SoundRuns, TypeOK
<1>3. CASE UNCHANGED run
  BY <1>3 DEF SoundRuns
<1> QED
  BY <1>1, <1>2, <1>3
     DEF Next, vars, Skip, StrayExecutes, StrayIsLost, Shutdown, StopStep,
         DrainSettles, GraceElapses, StopReturns, LeaseExpires

(* A runner that lost its lease without knowing is still renewing, for a    *)
(* run whose method goes on untold is always being renewed.                *)
THEOREM LoserRenews == Spec => []LoserIsRenewing
<1>1. Init => SoundRuns
  BY DEF Init, SoundRuns, Sound, NoRun
<1>2. SoundRuns => LoserIsRenewing
  BY SchedulerAssumption DEF SoundRuns, Sound, LoserIsRenewing, Running
<1> QED
  BY <1>1, <1>2, TypeInit, TypeStep, SoundStep, PTL DEF Spec

-----------------------------------------------------------------------------
(* One runner.                                                             *)

HoldingRun(r) == r.at = "acquired" \/ (r.at = "body" /\ r.renewal # "off")

Holding(s, t) == HoldingRun(run[s][t])

Quiet == Undisturbed({"early", "late"})

(* Undisturbed, whoever was granted a lease and renews it, or is about to,  *)
(* is the holder the live row names.                                       *)
HoldersOwn ==
    Quiet => \A s \in Schedulers, t \in Tasks : Holding(s, t) => Owns(s, t)

LEMMA QuietBefore == TypeOK /\ [Next]_vars /\ Quiet' => Quiet
<1> SUFFICES ASSUME TypeOK, [Next]_vars, Quiet' PROVE Quiet
  OBVIOUS
<1>1. \/ spent' = spent
      \/ Spend("fault") \/ Spend("crash") \/ Spend("early")
      \/ Spend("late") \/ Spend("shutdown")
  <2>1. ASSUME NEW s \in Schedulers, NEW t \in Tasks, StoreAnswers(s, t)
        PROVE  spent' = spent \/ Spend("fault")
    BY <2>1 DEF StoreAnswers, AcquireGranted, AcquireRefused, AcquireFails,
                AcquireReturns, UndoReturns, RenewReturns, RenewRefused,
                RenewFails, ReleaseReturns
  <2>2. ASSUME NEW s \in Schedulers, NEW t \in Tasks,
               \/ Launch(s, t) \/ Skip(s, t) \/ RenewSent(s, t)
               \/ Timeout(s, t) \/ BodySettles(s, t)
        PROVE  spent' = spent
    BY <2>2 DEF Launch, Skip, RenewSent, Timeout, BodySettles
  <2>3. ASSUME NEW s \in Schedulers, NEW t \in Tasks, NEW request,
               StrayExecutes(s, t, request) \/ StrayIsLost(s, t, request)
        PROVE  spent' = spent \/ Spend("late")
    BY <2>3 DEF StrayExecutes, StrayIsLost
  <2>4. ASSUME NEW s \in Schedulers, Shutdown(s) \/ StopStep(s) \/ Crash(s)
        PROVE  spent' = spent \/ Spend("shutdown") \/ Spend("crash")
    BY <2>4 DEF Shutdown, StopStep, DrainSettles, GraceElapses, StopRun,
                StopReturns, Crash
  <2>5. ASSUME NEW t \in Tasks, LeaseExpires(t)
        PROVE  spent' = spent \/ Spend("early")
    BY <2>5 DEF LeaseExpires
  <2> QED
    BY <2>1, <2>2, <2>3, <2>4, <2>5 DEF Next, vars
<1>2. \A d \in Disturbances : spent'[d] = 0 => spent[d] = 0
  BY <1>1 DEF Spend, TypeOK, Disturbances
<1> QED
  BY <1>2 DEF Quiet, Undisturbed, Disturbances

LEMMA HolderSet ==
    ASSUME TypeOK, NEW s \in Schedulers, NEW t \in Tasks, NEW r,
           Set(s, t, r), HoldingRun(r) => Holding(s, t)
    PROVE  \A u \in Schedulers, v \in Tasks : Holding(u, v)' => Holding(u, v)
<1> SUFFICES ASSUME NEW u \in Schedulers, NEW v \in Tasks, HoldingRun(run'[u][v])
             PROVE  HoldingRun(run[u][v])
  BY DEF Holding
<1>1. run'[u][v] = IF u = s /\ v = t THEN r ELSE run[u][v]
  BY DEF Set, TypeOK
<1> QED
  BY <1>1 DEF Holding

(* The session's helpers never make a holder of a run that was none.        *)
LEMMA HolderKept ==
    ASSUME NEW r \in Run, NEW who \in {"run", "stop"}
    PROVE  /\ HoldingRun(AfterRenewal(r)) => HoldingRun(r)
           /\ HoldingRun(Release(r, who)) => HoldingRun(r)
           /\ HoldingRun(Ended(r)) => HoldingRun(r)
           /\ HoldingRun([r EXCEPT !.aborted = TRUE]) => HoldingRun(r)
           /\ ~HoldingRun([r EXCEPT !.at = "end"])
           /\ ~HoldingRun([r EXCEPT !.at = "idle"])
           /\ ~HoldingRun([r EXCEPT !.at = "undo"])
BY DEF HoldingRun, AfterRenewal, Release, Ended, Run

NoNewHolder ==
    \A u \in Schedulers, v \in Tasks : Holding(u, v)' => Holding(u, v)

(* What a step does to the lease table and to its holders.                 *)
LeaseKeeps == lease' = lease /\ NoNewHolder
LeaseDeletes(s, t) == lease' = Deleted(s, t) /\ ~Holding(s, t)' /\ NoNewHolder
LeaseGrants(s, t) ==
    /\ Obtainable(s, t) /\ lease' = Obtained(s, t)
    /\ \A u \in Schedulers, v \in Tasks :
          Holding(u, v)' => Holding(u, v) \/ (u = s /\ v = t)
LeaseRunsOut(t) ==
    /\ lease' = [lease EXCEPT ![t].live = FALSE]
    /\ NoNewHolder
    /\ \A s \in Schedulers : lease[t].holder = s => ~Holding(s, t)

LeaseStep ==
    \/ LeaseKeeps
    \/ \E s \in Schedulers, t \in Tasks : LeaseDeletes(s, t) \/ LeaseGrants(s, t)
    \/ \E t \in Tasks : LeaseRunsOut(t)

LEMMA QuietSpends ==
    ASSUME TypeOK, Quiet', NEW d \in {"early", "late"}, Spend(d)
    PROVE  FALSE
<1>1. d \in Disturbances /\ spent[d] \in Nat
  BY DEF TypeOK, Disturbances
<1>2. spent'[d] = spent[d] + 1
  BY <1>1 DEF Spend, TypeOK
<1> QED
  BY <1>1, <1>2 DEF Quiet, Undisturbed

LEMMA LeaseSteps == TypeOK /\ SoundRuns /\ [Next]_vars /\ Quiet' => LeaseStep
<1> SUFFICES ASSUME TypeOK, SoundRuns, [Next]_vars, Quiet' PROVE LeaseStep
  OBVIOUS
<1>1. ASSUME NEW s \in Schedulers, NEW t \in Tasks,
             \/ Launch(s, t) \/ StoreAnswers(s, t) \/ RenewSent(s, t)
             \/ Timeout(s, t) \/ BodySettles(s, t) \/ StopRun(s, t)
      PROVE  LeaseStep
  <2> DEFINE r == run[s][t]
  <2>1. r \in Run /\ Sound(r, t)
    BY DEF TypeOK, SoundRuns
  <2>2. \A q : run' = [run EXCEPT ![s][t] = q] /\ (HoldingRun(q) => HoldingRun(r))
               => NoNewHolder
    BY HolderSet DEF Set, NoNewHolder, Holding
  <2>3. \A q : run' = [run EXCEPT ![s][t] = q] /\ ~HoldingRun(q)
               => NoNewHolder /\ ~Holding(s, t)'
    <3> SUFFICES ASSUME NEW q, run' = [run EXCEPT ![s][t] = q], ~HoldingRun(q)
                 PROVE  NoNewHolder /\ ~Holding(s, t)'
      OBVIOUS
    <3>1. run'[s][t] = q
      BY DEF TypeOK
    <3> QED
      BY <2>2, <3>1 DEF Holding
  <2> HIDE DEF r
  <2>4. CASE Launch(s, t)
    <3>1. /\ ~HoldingRun([NoRun EXCEPT !.at = "acquire", !.instant = next[s][t]])
          /\ ~HoldingRun([NoRun EXCEPT !.at = "body", !.instant = next[s][t]])
      BY DEF HoldingRun, NoRun
    <3> QED
      BY <2>3, <2>4, <3>1 DEF Launch, Set, LeaseStep, LeaseKeeps
  <2>5. CASE AcquireGranted(s, t)
    <3>1. \A u \in Schedulers, v \in Tasks :
             Holding(u, v)' => Holding(u, v) \/ (u = s /\ v = t)
      <4> SUFFICES ASSUME NEW u \in Schedulers, NEW v \in Tasks, ~ (u = s /\ v = t)
                   PROVE  run'[u][v] = run[u][v]
        BY DEF Holding
      <4> QED
        BY <2>5 DEF AcquireGranted, Set, TypeOK
    <3> QED
      BY <2>5, <3>1 DEF AcquireGranted, LeaseStep, LeaseGrants
  <2>6. CASE AcquireRefused(s, t) \/ AcquireFails(s, t)
    <3>1. Release(r, "run") \in Run
      BY <2>1, ReleaseType
    <3>2. ~HoldingRun([Release(r, "run") EXCEPT !.at = "idle"])
      BY <3>1, HolderKept
    <3> QED
      BY <2>3, <2>6, <3>2
         DEF AcquireRefused, AcquireFails, Set, LeaseStep, LeaseKeeps, r
  <2>7. CASE AcquireReturns(s, t)
    <3>1. HoldingRun(r)
      BY <2>7 DEF AcquireReturns, HoldingRun, r
    <3> QED
      BY <2>2, <2>7, <3>1 DEF AcquireReturns, Set, LeaseStep, LeaseKeeps
  <2>8. CASE UndoReturns(s, t)
    <3>1. ~HoldingRun([r EXCEPT !.at = "idle"])
      BY <2>1, HolderKept
    <3>2. NoNewHolder /\ ~Holding(s, t)'
      BY <2>3, <2>8, <3>1 DEF UndoReturns, Set, r
    <3>3. lease' = Deleted(s, t) \/ lease' = lease
      BY <2>8 DEF UndoReturns
    <3> QED
      BY <3>2, <3>3 DEF LeaseStep, LeaseKeeps, LeaseDeletes
  <2>9. CASE RenewReturns(s, t)
    <3> DEFINE a == [r EXCEPT !.renewal = "off"]
               b == [r EXCEPT !.renewal = "sleep"]
    <3>1. a \in Run /\ (HoldingRun(a) => HoldingRun(r))
      BY <2>1 DEF HoldingRun, Run
    <3>2. HoldingRun(AfterRenewal(a)) => HoldingRun(r)
      BY <3>1, HolderKept
    <3>3. HoldingRun(b) => HoldingRun(r)
      BY <2>1, <2>9 DEF HoldingRun, Run, RenewReturns, r
    <3> QED
      BY <2>2, <2>9, <3>2, <3>3 DEF RenewReturns, Set, LeaseStep, LeaseKeeps, r
  <2>10. CASE RenewRefused(s, t) \/ RenewFails(s, t)
    <3> DEFINE off == [r EXCEPT !.held = FALSE, !.renewal = "off", !.aborted = TRUE]
    <3>1. off \in Run /\ (HoldingRun(off) => HoldingRun(r))
      BY <2>1 DEF HoldingRun, Run
    <3>2. AfterRenewal(off) \in Run /\ (HoldingRun(AfterRenewal(off)) => HoldingRun(r))
      BY <3>1, HolderKept, ReleaseType
    <3>3. HoldingRun(Ended(AfterRenewal(off))) => HoldingRun(r)
      BY <3>2, HolderKept
    <3>4. HoldingRun(Lost(r)) => HoldingRun(r)
      BY <3>1, <3>3 DEF Lost
    <3> QED
      BY <2>2, <2>10, <3>4 DEF RenewRefused, RenewFails, Set, LeaseStep, LeaseKeeps, r
  <2>11. CASE ReleaseReturns(s, t)
    <3> DEFINE a == [r EXCEPT !.giving = "done"]
    <3>1. a \in Run /\ ~HoldingRun(a)
      BY <2>1, <2>11 DEF ReleaseReturns, HoldingRun, Run, Sound, r
    <3>2. ~HoldingRun(Ended(a))
      BY <3>1, HolderKept
    <3>3. NoNewHolder /\ ~Holding(s, t)'
      BY <2>3, <2>11, <3>2 DEF ReleaseReturns, Set, r
    <3>4. lease' = Deleted(s, t) \/ lease' = lease
      BY <2>11 DEF ReleaseReturns
    <3> QED
      BY <3>3, <3>4 DEF LeaseStep, LeaseKeeps, LeaseDeletes
  <2>12. CASE RenewSent(s, t)
    <3>1. HoldingRun([r EXCEPT !.renewal = "ask"]) => HoldingRun(r)
      BY <2>1, <2>12 DEF RenewSent, HoldingRun, Run, r
    <3> QED
      BY <2>2, <2>12, <3>1 DEF RenewSent, Set, LeaseStep, LeaseKeeps, r
  <2>13. CASE Timeout(s, t)
    <3>1. HoldingRun([r EXCEPT !.aborted = TRUE]) => HoldingRun(r)
      BY <2>1, HolderKept
    <3> QED
      BY <2>2, <2>13, <3>1 DEF Timeout, Set, LeaseStep, LeaseKeeps, r
  <2>14. CASE BodySettles(s, t)
    <3> DEFINE a == [r EXCEPT !.at = "end"]
    <3>1. a \in Run /\ ~HoldingRun(a)
      BY <2>1 DEF HoldingRun, Run
    <3>2. Release(a, "run") \in Run /\ ~HoldingRun(Release(a, "run"))
      BY <3>1, HolderKept, ReleaseType
    <3>3. ~HoldingRun(Ended(Release(a, "run")))
      BY <3>2, HolderKept
    <3> QED
      BY <2>3, <2>14, <3>3 DEF BodySettles, Set, LeaseStep, LeaseKeeps, r
  <2>15. CASE StopRun(s, t)
    <3> DEFINE a == [r EXCEPT !.aborted = TRUE]
    <3>1. a \in Run /\ (HoldingRun(a) => HoldingRun(r))
      BY <2>1 DEF HoldingRun, Run
    <3>2. HoldingRun(Release(a, "stop")) => HoldingRun(r)
      BY <3>1, HolderKept
    <3> QED
      BY <2>2, <2>15, <3>2 DEF StopRun, Set, LeaseStep, LeaseKeeps, r
  <2> QED
    BY <1>1, <2>4, <2>5, <2>6, <2>7, <2>8, <2>9, <2>10, <2>11, <2>12, <2>13,
       <2>14, <2>15 DEF StoreAnswers
<1>2. ASSUME NEW s \in Schedulers, Crash(s) PROVE LeaseStep
  <2>1. \A u \in Schedulers, v \in Tasks :
           run'[u][v] = NoRun \/ run'[u][v] = run[u][v]
    BY <1>2 DEF Crash, TypeOK
  <2>2. NoNewHolder
    BY <2>1 DEF NoNewHolder, Holding, HoldingRun, NoRun
  <2> QED
    BY <1>2, <2>2 DEF Crash, LeaseStep, LeaseKeeps
<1>3. ASSUME NEW s \in Schedulers, NEW t \in Tasks, NEW request,
             StrayExecutes(s, t, request)
      PROVE  LeaseStep
  <2>1. UNCHANGED run /\ NoNewHolder
    BY <1>3 DEF StrayExecutes, NoNewHolder, Holding
  <2>2. CASE request = "acquire"
    <3>1. (Obtainable(s, t) /\ lease' = Obtained(s, t)) \/ lease' = lease
      BY <1>3, <2>2 DEF StrayExecutes
    <3> QED
      BY <2>1, <3>1 DEF LeaseStep, LeaseKeeps, LeaseGrants, NoNewHolder
  <2>3. CASE request # "acquire"
    <3>1. run[s][t].at = "idle" /\ lease' = Deleted(s, t)
      BY <1>3, <2>3, QuietSpends DEF StrayExecutes
    <3>2. ~Holding(s, t)'
      BY <2>1, <3>1 DEF Holding, HoldingRun
    <3> QED
      BY <2>1, <3>1, <3>2 DEF LeaseStep, LeaseDeletes
  <2> QED
    BY <2>2, <2>3
<1>4. ASSUME NEW t \in Tasks, LeaseExpires(t) PROVE LeaseStep
  <2>1. UNCHANGED run /\ NoNewHolder /\ lease' = [lease EXCEPT ![t].live = FALSE]
    BY <1>4 DEF LeaseExpires, Expired, NoNewHolder, Holding
  <2>2. \A s \in Schedulers : lease[t].holder = s => ~Engaged(s, t)
    BY <1>4, QuietSpends DEF LeaseExpires
  <2>3. \A s \in Schedulers : Holding(s, t) => Engaged(s, t)
    BY DEF Holding, HoldingRun, Engaged
  <2> QED
    BY <2>1, <2>2, <2>3 DEF LeaseStep, LeaseRunsOut
<1>5. CASE UNCHANGED <<lease, run>>
  BY <1>5 DEF LeaseStep, LeaseKeeps, NoNewHolder, Holding
<1> QED
  BY <1>1, <1>2, <1>3, <1>4, <1>5
     DEF Next, vars, Skip, StrayIsLost, Shutdown, StopStep, DrainSettles,
         GraceElapses, StopReturns

LEMMA HoldersOwnStep ==
    TypeOK /\ SoundRuns /\ HoldersOwn /\ [Next]_vars => HoldersOwn'
<1> SUFFICES ASSUME TypeOK, SoundRuns, HoldersOwn, [Next]_vars, Quiet',
                    NEW u \in Schedulers, NEW v \in Tasks, Holding(u, v)'
             PROVE  Owns(u, v)'
  BY DEF HoldersOwn
<1>1. \A s \in Schedulers, t \in Tasks : Holding(s, t) => Owns(s, t)
  BY QuietBefore DEF HoldersOwn
<1>2. LeaseStep
  BY LeaseSteps
<1>3. CASE LeaseKeeps
  BY <1>1, <1>3 DEF LeaseKeeps, NoNewHolder, Owns
<1>4. ASSUME NEW s \in Schedulers, NEW t \in Tasks, LeaseDeletes(s, t)
      PROVE  Owns(u, v)'
  <2>1. Owns(u, v) /\ (u # s \/ v # t)
    BY <1>1, <1>4 DEF LeaseDeletes, NoNewHolder
  <2> QED
    BY <1>4, <2>1 DEF LeaseDeletes, Deleted, Owns, TypeOK
<1>5. ASSUME NEW s \in Schedulers, NEW t \in Tasks, LeaseGrants(s, t)
      PROVE  Owns(u, v)'
  <2>1. CASE u = s /\ v = t
    BY <1>5, <2>1 DEF LeaseGrants, Obtained, Owns, TypeOK
  <2>2. CASE ~ (u = s /\ v = t)
    <3>1. Owns(u, v)
      BY <1>1, <1>5, <2>2 DEF LeaseGrants
    <3>2. v # t
      BY <1>5, <2>2, <3>1 DEF LeaseGrants, Obtainable, Owns
    <3> QED
      BY <1>5, <3>1, <3>2 DEF LeaseGrants, Obtained, Owns, TypeOK
  <2> QED
    BY <2>1, <2>2
<1>6. ASSUME NEW t \in Tasks, LeaseRunsOut(t) PROVE Owns(u, v)'
  <2>1. Holding(u, v) /\ Owns(u, v)
    BY <1>1, <1>6 DEF LeaseRunsOut, NoNewHolder
  <2>2. v # t
    BY <1>6, <2>1 DEF LeaseRunsOut, Owns
  <2> QED
    BY <1>6, <2>1, <2>2 DEF LeaseRunsOut, Owns, TypeOK
<1> QED
  BY <1>2, <1>3, <1>4, <1>5, <1>6 DEF LeaseStep

(* THEOREM: for any number of schedulers, a cluster task has at most one    *)
(* runner that was not told to stop, unless a lease expired under a         *)
(* renewing holder or a request ran late.                                  *)
THEOREM OneRunnerHolds == Spec => []OneRunner
<1>1. Init => HoldersOwn
  BY DEF Init, HoldersOwn, Holding, HoldingRun, NoRun
<1>2. Init => SoundRuns
  BY DEF Init, SoundRuns, Sound, NoRun
<1>3. SoundRuns /\ HoldersOwn => OneRunner
  <2> SUFFICES ASSUME SoundRuns, HoldersOwn, Quiet, NEW t \in Clustered,
                      NEW s \in Schedulers, NEW u \in Schedulers,
                      Running(s, t), Running(u, t)
               PROVE  s = u
    BY DEF OneRunner, Quiet
  <2>1. t \in Tasks
    BY SchedulerAssumption
  <2>2. Holding(s, t) /\ Holding(u, t)
    BY <2>1 DEF SoundRuns, Sound, Running, Holding, HoldingRun
  <2>3. Owns(s, t) /\ Owns(u, t)
    BY <2>1, <2>2 DEF HoldersOwn
  <2> QED
    BY <2>3 DEF Owns
<1> QED
  BY <1>1, <1>2, <1>3, TypeInit, TypeStep, SoundStep, HoldersOwnStep, PTL DEF Spec

-----------------------------------------------------------------------------
(* Action properties.                                                      *)

(* The steps that begin a method.                                          *)
LEMMA StartSteps ==
    ASSUME TypeOK, [Next]_vars, NEW s \in Schedulers, NEW t \in Tasks, Starts(s, t)
    PROVE  (Launch(s, t) /\ t \notin Clustered) \/ AcquireReturns(s, t)
<1>1. ASSUME NEW u \in Schedulers, NEW v \in Tasks, NEW r, Set(u, v, r),
             r.at = "body" => run[u][v].at = "body"
      PROVE  FALSE
  <2>1. run'[s][t] = IF u = s /\ v = t THEN r ELSE run[s][t]
    BY <1>1 DEF Set, TypeOK
  <2> QED
    BY <1>1, <2>1 DEF Starts
<1>2. ASSUME NEW u \in Schedulers, NEW v \in Tasks, NEW r, Set(u, v, r)
      PROVE  u = s /\ v = t
  <2>1. run'[s][t] = IF u = s /\ v = t THEN r ELSE run[s][t]
    BY <1>2 DEF Set, TypeOK
  <2> QED
    BY <2>1 DEF Starts
<1>3. \A r \in Run :
         /\ AfterRenewal(r).at = r.at
         /\ \A who \in {"run", "stop"} : Release(r, who).at = r.at
         /\ Ended(r).at = "body" => r.at = "body"
  BY DEF AfterRenewal, Release, Ended, Run
<1>4. \A r \in Run : Lost(r).at = "body" => r.at = "body"
  <2> SUFFICES ASSUME NEW r \in Run, Lost(r).at = "body" PROVE r.at = "body"
    OBVIOUS
  <2> DEFINE off == [r EXCEPT !.held = FALSE, !.renewal = "off", !.aborted = TRUE]
  <2>1. off \in Run /\ off.at = r.at
    BY DEF Run
  <2>2. AfterRenewal(off) \in Run
    BY <2>1, ReleaseType
  <2>3. Ended(AfterRenewal(off)).at = "body" => r.at = "body"
    BY <1>3, <2>1, <2>2
  <2> QED
    BY <2>1, <2>3 DEF Lost
<1>5. ASSUME NEW u \in Schedulers, NEW v \in Tasks,
             \/ Launch(u, v) \/ StoreAnswers(u, v) \/ RenewSent(u, v)
             \/ Timeout(u, v) \/ BodySettles(u, v) \/ StopRun(u, v)
      PROVE  (Launch(s, t) /\ t \notin Clustered) \/ AcquireReturns(s, t)
  <2> DEFINE r == run[u][v]
  <2>1. r \in Run
    BY DEF TypeOK
  <2>2. \A q : run' = [run EXCEPT ![u][v] = q] /\ (q.at = "body" => r.at = "body")
               => FALSE
    BY <1>1 DEF Set
  <2> HIDE DEF r
  <2>3. CASE Launch(u, v)
    <3>1. v \notin Clustered
      <4> SUFFICES ASSUME v \in Clustered PROVE FALSE
        OBVIOUS
      <4>1. [NoRun EXCEPT !.at = "acquire", !.instant = next[u][v]].at # "body"
        BY DEF NoRun
      <4> QED
        BY <2>2, <2>3, <4>1 DEF Launch, Set
    <3>2. u = s /\ v = t
      BY <1>2, <2>3 DEF Launch
    <3> QED
      BY <2>3, <3>1, <3>2
  <2>4. CASE AcquireReturns(u, v)
    BY <1>2, <2>4 DEF AcquireReturns
  <2>5. CASE AcquireGranted(u, v)
    <3>1. [r EXCEPT !.at = "acquired"].at # "body"
      BY <2>1 DEF Run
    <3> QED
      BY <2>2, <2>5, <3>1 DEF AcquireGranted, Set, r
  <2>6. CASE AcquireRefused(u, v) \/ AcquireFails(u, v)
    <3>1. Release(r, "run") \in Run
      BY <2>1, ReleaseType
    <3>2. [Release(r, "run") EXCEPT !.at = "idle"].at # "body"
      BY <3>1 DEF Run
    <3> QED
      BY <2>2, <2>6, <3>2 DEF AcquireRefused, AcquireFails, Set, r
  <2>7. CASE UndoReturns(u, v)
    <3>1. [r EXCEPT !.at = "idle"].at # "body"
      BY <2>1 DEF Run
    <3> QED
      BY <2>2, <2>7, <3>1 DEF UndoReturns, Set, r
  <2>8. CASE RenewReturns(u, v)
    <3>1. /\ [r EXCEPT !.renewal = "off"] \in Run
          /\ [r EXCEPT !.renewal = "off"].at = r.at
          /\ [r EXCEPT !.renewal = "sleep"].at = r.at
      BY <2>1 DEF Run
    <3>2. AfterRenewal([r EXCEPT !.renewal = "off"]).at = r.at
      BY <1>3, <3>1
    <3> QED
      BY <2>2, <2>8, <3>1, <3>2 DEF RenewReturns, Set, r
  <2>9. CASE RenewRefused(u, v) \/ RenewFails(u, v)
    BY <1>4, <2>1, <2>2, <2>9 DEF RenewRefused, RenewFails, Set, r
  <2>10. CASE ReleaseReturns(u, v)
    <3>1. /\ [r EXCEPT !.giving = "done"] \in Run
          /\ [r EXCEPT !.giving = "done"].at = r.at
      BY <2>1 DEF Run
    <3> QED
      BY <1>3, <2>2, <2>10, <3>1 DEF ReleaseReturns, Set, r
  <2>11. CASE RenewSent(u, v)
    <3>1. [r EXCEPT !.renewal = "ask"].at = r.at
      BY <2>1 DEF Run
    <3> QED
      BY <2>2, <2>11, <3>1 DEF RenewSent, Set, r
  <2>12. CASE Timeout(u, v)
    <3>1. [r EXCEPT !.aborted = TRUE].at = r.at
      BY <2>1 DEF Run
    <3> QED
      BY <2>2, <2>12, <3>1 DEF Timeout, Set, r
  <2>13. CASE BodySettles(u, v)
    <3> DEFINE a == [r EXCEPT !.at = "end"]
    <3>1. a \in Run /\ a.at # "body"
      BY <2>1 DEF Run
    <3>2. Release(a, "run") \in Run /\ Release(a, "run").at # "body"
      BY <1>3, <3>1, ReleaseType
    <3>3. Ended(Release(a, "run")).at # "body"
      BY <1>3, <3>2
    <3> QED
      BY <2>2, <2>13, <3>3 DEF BodySettles, Set, r
  <2>14. CASE StopRun(u, v)
    <3> DEFINE a == [r EXCEPT !.aborted = TRUE]
    <3>1. a \in Run /\ a.at = r.at
      BY <2>1 DEF Run
    <3>2. Release(a, "stop").at = r.at
      BY <1>3, <3>1
    <3> QED
      BY <2>2, <2>14, <3>2 DEF StopRun, Set, r
  <2> QED
    BY <1>5, <2>3, <2>4, <2>5, <2>6, <2>7, <2>8, <2>9, <2>10, <2>11, <2>12,
       <2>13, <2>14 DEF StoreAnswers
<1>6. ASSUME NEW u \in Schedulers, Crash(u) PROVE FALSE
  <2>1. run'[s][t] = NoRun \/ run'[s][t] = run[s][t]
    BY <1>6 DEF Crash, TypeOK
  <2> QED
    BY <2>1 DEF Starts, NoRun
<1>7. ~ (UNCHANGED run)
  BY DEF Starts
<1> QED
  BY <1>5, <1>6, <1>7
     DEF Next, vars, Skip, StrayExecutes, StrayIsLost, Shutdown, StopStep,
         DrainSettles, GraceElapses, StopReturns, LeaseExpires

(* THEOREM: undisturbed, the method of a cluster task is invoked only by    *)
(* the scheduler whose live lease the table shows.                         *)
THEOREM StartsHoldingHolds == Spec => StartsHolding
<1>1. ASSUME TypeOK, HoldersOwn, [Next]_vars,
             NEW s \in Schedulers, NEW t \in Clustered, Starts(s, t), Quiet
      PROVE  lease'[t] = [holder |-> s, live |-> TRUE]
  <2>1. t \in Tasks
    BY SchedulerAssumption
  <2>2. AcquireReturns(s, t)
    BY <1>1, <2>1, StartSteps
  <2>3. lease' = lease /\ Holding(s, t)
    BY <2>2 DEF AcquireReturns, Holding, HoldingRun
  <2>4. Owns(s, t)
    BY <1>1, <2>1, <2>3 DEF HoldersOwn
  <2>5. lease[t] \in Lease
    BY <1>1, <2>1 DEF TypeOK
  <2> QED
    BY <2>3, <2>4, <2>5 DEF Owns, Lease
<1>2. TypeOK /\ HoldersOwn /\ [Next]_vars =>
        [\A s \in Schedulers, t \in Clustered :
           Starts(s, t) /\ Undisturbed({"early", "late"})
              => lease'[t] = [holder |-> s, live |-> TRUE]]_vars
  BY <1>1 DEF Quiet
<1>3. Init => SoundRuns /\ HoldersOwn
  BY DEF Init, SoundRuns, Sound, HoldersOwn, Holding, HoldingRun, NoRun
<1> QED
  BY <1>2, <1>3, TypeInit, TypeStep, SoundStep, HoldersOwnStep, PTL
     DEF Spec, StartsHolding

(* THEOREM: nothing but a release request of its holder takes a live lease. *)
THEOREM LeaseFreedHolds == Spec => LeaseFreedByItsHolder
<1>1. ASSUME TypeOK, [Next]_vars, NEW t \in Tasks,
             lease[t].live, lease'[t].holder # lease[t].holder
      PROVE  /\ lease'[t].holder = Nobody
             /\ "release" \in stray[lease[t].holder][t] \cup InFlight(lease[t].holder, t)
  <2>1. ASSUME NEW s \in Schedulers, NEW v \in Tasks, lease' = Deleted(s, v),
               "release" \in stray[s][v] \cup InFlight(s, v)
        PROVE  /\ lease'[t].holder = Nobody
               /\ "release" \in stray[lease[t].holder][t] \cup InFlight(lease[t].holder, t)
    <3>1. v = t /\ lease[t].holder = s /\ lease'[t] = NoLease
      BY <1>1, <2>1 DEF Deleted, TypeOK
    <3> QED
      BY <2>1, <3>1 DEF NoLease
  <2>2. ASSUME NEW s \in Schedulers, NEW v \in Tasks, Obtainable(s, v),
               lease' = Obtained(s, v)
        PROVE  FALSE
    BY <1>1, <2>2 DEF Obtainable, Obtained, TypeOK
  <2>3. ASSUME NEW s \in Schedulers, NEW v \in Tasks,
               UndoReturns(s, v) \/ ReleaseReturns(s, v)
        PROVE  /\ lease'[t].holder = Nobody
               /\ "release" \in stray[lease[t].holder][t] \cup InFlight(lease[t].holder, t)
    <3>1. "release" \in InFlight(s, v)
      BY <2>3 DEF UndoReturns, ReleaseReturns, InFlight
    <3>2. lease' = Deleted(s, v)
      BY <1>1, <2>3 DEF UndoReturns, ReleaseReturns
    <3> QED
      BY <2>1, <3>1, <3>2
  <2>4. ASSUME NEW s \in Schedulers, NEW v \in Tasks, NEW request,
               request \in {"acquire", "release"}, StrayExecutes(s, v, request)
        PROVE  /\ lease'[t].holder = Nobody
               /\ "release" \in stray[lease[t].holder][t] \cup InFlight(lease[t].holder, t)
    <3>1. CASE request = "acquire"
      BY <1>1, <2>2, <2>4, <3>1 DEF StrayExecutes
    <3>2. CASE request = "release"
      BY <2>1, <2>4, <3>2 DEF StrayExecutes
    <3> QED
      BY <2>4, <3>1, <3>2
  <2>5. ASSUME NEW v \in Tasks, LeaseExpires(v) PROVE FALSE
    BY <1>1, <2>5 DEF LeaseExpires, Expired, TypeOK, Lease
  <2>6. ASSUME NEW s \in Schedulers, NEW v \in Tasks, AcquireGranted(s, v) PROVE FALSE
    BY <2>2, <2>6 DEF AcquireGranted
  <2>7. CASE UNCHANGED lease
    BY <1>1, <2>7
  <2>8. ASSUME NEW s \in Schedulers, NEW v \in Tasks, StoreAnswers(s, v),
               lease' # lease
        PROVE  \/ AcquireGranted(s, v)
               \/ UndoReturns(s, v) \/ ReleaseReturns(s, v)
    BY <2>8 DEF StoreAnswers, AcquireRefused, AcquireFails, AcquireReturns,
                RenewReturns, RenewRefused, RenewFails
  <2>9. ASSUME NEW s \in Schedulers, NEW v \in Tasks,
               \/ Launch(s, v) \/ Skip(s, v) \/ RenewSent(s, v) \/ Timeout(s, v)
               \/ BodySettles(s, v) \/ StopRun(s, v)
               \/ \E request \in {"acquire", "release"} : StrayIsLost(s, v, request)
        PROVE  UNCHANGED lease
    BY <2>9 DEF Launch, Skip, RenewSent, Timeout, BodySettles, StrayIsLost, StopRun
  <2>10. ASSUME NEW s \in Schedulers,
                \/ Shutdown(s) \/ DrainSettles(s) \/ GraceElapses(s)
                \/ StopReturns(s) \/ Crash(s)
         PROVE  UNCHANGED lease
    BY <2>10 DEF Shutdown, DrainSettles, GraceElapses, StopReturns, Crash
  <2>11. CASE \E s \in Schedulers, v \in Tasks : StoreAnswers(s, v)
    BY <2>3, <2>6, <2>7, <2>8, <2>11
  <2>12. CASE \E s \in Schedulers, v \in Tasks :
                \E request \in {"acquire", "release"} : StrayExecutes(s, v, request)
    BY <2>4, <2>12
  <2> QED
    BY <1>1, <2>5, <2>7, <2>9, <2>10, <2>11, <2>12 DEF Next, vars, StopStep
<1>2. TypeOK /\ [Next]_vars =>
        [\A t \in Tasks :
           lease[t].live /\ lease'[t].holder # lease[t].holder =>
              LET s == lease[t].holder IN
              /\ lease'[t].holder = Nobody
              /\ "release" \in stray[s][t] \cup InFlight(s, t)]_vars
  BY <1>1
<1> QED
  BY <1>2, TypeInit, TypeStep, PTL DEF Spec, LeaseFreedByItsHolder

(* A task that lost its lease has no acquisition in flight.                *)
AcquiringEnabled ==
    \A s \in Schedulers, t \in Tasks :
        run[s][t].at \in {"acquire", "acquired"} => ~disabled[s][t]

LEMMA AcquiringStep ==
    TypeOK /\ SoundRuns /\ AcquiringEnabled /\ [Next]_vars => AcquiringEnabled'
<1> SUFFICES ASSUME TypeOK, SoundRuns, AcquiringEnabled, [Next]_vars,
                    NEW s \in Schedulers, NEW t \in Tasks,
                    run'[s][t].at \in {"acquire", "acquired"}
             PROVE  ~disabled'[s][t]
  BY DEF AcquiringEnabled
<1>1. \A r \in Run :
         /\ AfterRenewal(r) \in Run /\ AfterRenewal(r).at = r.at
         /\ Ended(r).at \in {r.at, "idle"}
         /\ Release(r, "run").at = r.at /\ Release(r, "stop").at = r.at
  <2> SUFFICES ASSUME NEW r \in Run
               PROVE  /\ AfterRenewal(r) \in Run /\ AfterRenewal(r).at = r.at
                      /\ Ended(r).at \in {r.at, "idle"}
                      /\ Release(r, "run").at = r.at /\ Release(r, "stop").at = r.at
    OBVIOUS
  <2>1. AfterRenewal(r) \in Run /\ AfterRenewal(r).at = r.at
    BY DEF AfterRenewal, Run
  <2>2. Ended(r).at \in {r.at, "idle"}
    BY DEF Ended, Run
  <2>3. Release(r, "run").at = r.at
    BY DEF Release, AfterRenewal, Run
  <2>4. Release(r, "stop").at = r.at
    BY DEF Release, AfterRenewal, Run
  <2> QED
    BY <2>1, <2>2, <2>3, <2>4
<1>2. \A r \in Run : Lost(r).at \in {r.at, "idle"}
  <2> SUFFICES ASSUME NEW r \in Run PROVE Lost(r).at \in {r.at, "idle"}
    OBVIOUS
  <2> DEFINE off == [r EXCEPT !.held = FALSE, !.renewal = "off", !.aborted = TRUE]
  <2>1. off \in Run /\ off.at = r.at
    BY DEF Run
  <2>2. Ended(AfterRenewal(off)).at \in {r.at, "idle"}
    BY <1>1, <2>1
  <2> QED
    BY <2>1, <2>2 DEF Lost
<1>3. ASSUME NEW u \in Schedulers, NEW v \in Tasks,
             \/ Launch(u, v) \/ StoreAnswers(u, v) \/ RenewSent(u, v)
             \/ Timeout(u, v) \/ BodySettles(u, v) \/ StopRun(u, v)
      PROVE  ~disabled'[s][t]
  <2> DEFINE r == run[u][v]
  <2>1. r \in Run /\ Sound(r, v) /\ run[s][t] \in Run
    BY DEF TypeOK, SoundRuns
  <2>2. ASSUME NEW q, Set(u, v, q), q.at \in {r.at, "acquired", "body", "undo", "end", "idle"},
               q.at = "acquired" => r.at \in {"acquire", "acquired"},
               disabled' = disabled
        PROVE  ~disabled'[s][t]
    <3>1. run'[s][t] = IF u = s /\ v = t THEN q ELSE run[s][t]
      BY <2>2 DEF Set, TypeOK
    <3>2. run[s][t].at \in {"acquire", "acquired"}
      BY <2>2, <3>1
    <3> QED
      BY <2>2, <3>2 DEF AcquiringEnabled
  <2>3. CASE Launch(u, v)
    <3>1. ~disabled[u][v] /\ disabled' = disabled
      BY <2>3 DEF Launch
    <3>2. PICK q : Set(u, v, q)
      BY <2>3 DEF Launch
    <3>3. run'[s][t] = run[s][t] \/ (u = s /\ v = t)
      BY <3>2 DEF Set, TypeOK
    <3> QED
      BY <3>1, <3>3 DEF AcquiringEnabled
  <2>4. CASE RenewRefused(u, v) \/ RenewFails(u, v)
    <3>1. r.at \notin {"acquire", "acquired"}
      BY <2>1, <2>4 DEF RenewRefused, RenewFails, Sound
    <3>2. Lost(r).at \notin {"acquire", "acquired"}
      BY <1>2, <2>1, <3>1
    <3>3. Set(u, v, Lost(r)) /\ disabled' = [disabled EXCEPT ![u][v] = TRUE]
      BY <2>4 DEF RenewRefused, RenewFails
    <3> HIDE DEF r
    <3>6. run'[s][t] = IF u = s /\ v = t THEN Lost(r) ELSE run[s][t]
      BY <3>3 DEF Set, TypeOK
    <3>4. ~ (u = s /\ v = t) /\ run[s][t].at \in {"acquire", "acquired"}
      BY <3>2, <3>6
    <3>5. disabled'[s][t] = disabled[s][t]
      BY <3>3, <3>4 DEF TypeOK
    <3> QED
      BY <3>4, <3>5 DEF AcquiringEnabled
  <2>5. CASE AcquireGranted(u, v)
    <3>1. [r EXCEPT !.at = "acquired"].at = "acquired"
      BY <2>1 DEF Run
    <3> QED
      BY <2>2, <2>5, <3>1 DEF AcquireGranted
  <2>6. CASE AcquireRefused(u, v) \/ AcquireFails(u, v)
    <3>1. [Release(r, "run") EXCEPT !.at = "idle"].at = "idle"
      BY <1>1, <2>1 DEF Run
    <3> QED
      BY <2>2, <2>6, <3>1 DEF AcquireRefused, AcquireFails
  <2>7. CASE AcquireReturns(u, v)
    <3>1. /\ [r EXCEPT !.at = "body", !.held = TRUE, !.renewal = "sleep"].at = "body"
          /\ [r EXCEPT !.at = "undo"].at = "undo"
      BY <2>1 DEF Run
    <3> QED
      BY <2>2, <2>7, <3>1 DEF AcquireReturns
  <2>8. CASE UndoReturns(u, v)
    <3>1. [r EXCEPT !.at = "idle"].at = "idle"
      BY <2>1 DEF Run
    <3> QED
      BY <2>2, <2>8, <3>1 DEF UndoReturns
  <2>9. CASE RenewReturns(u, v)
    <3>1. /\ [r EXCEPT !.renewal = "off"] \in Run
          /\ [r EXCEPT !.renewal = "off"].at = r.at
          /\ [r EXCEPT !.renewal = "sleep"].at = r.at
      BY <2>1 DEF Run
    <3>2. AfterRenewal([r EXCEPT !.renewal = "off"]).at = r.at
      BY <1>1, <3>1
    <3> QED
      BY <2>2, <2>9, <3>1, <3>2 DEF RenewReturns
  <2>10. CASE ReleaseReturns(u, v)
    <3>1. /\ [r EXCEPT !.giving = "done"] \in Run
          /\ [r EXCEPT !.giving = "done"].at = r.at
      BY <2>1 DEF Run
    <3>2. Ended([r EXCEPT !.giving = "done"]).at \in {r.at, "idle"}
      BY <1>1, <3>1
    <3> QED
      BY <2>2, <2>10, <3>2 DEF ReleaseReturns
  <2>11. CASE RenewSent(u, v) \/ Timeout(u, v)
    <3>1. /\ [r EXCEPT !.renewal = "ask"].at = r.at
          /\ [r EXCEPT !.aborted = TRUE].at = r.at
      BY <2>1 DEF Run
    <3> QED
      BY <2>2, <2>11, <3>1 DEF RenewSent, Timeout
  <2>12. CASE BodySettles(u, v)
    <3>1. /\ [r EXCEPT !.at = "end"] \in Run
          /\ [r EXCEPT !.at = "end"].at = "end"
      BY <2>1 DEF Run
    <3> DEFINE q == [r EXCEPT !.at = "end"]
    <3>3. q \in Run /\ q.at = "end"
      BY <3>1
    <3> HIDE DEF q
    <3>4. Release(q, "run") \in Run /\ Release(q, "run").at = "end"
      BY <1>1, <3>3, ReleaseType
    <3>2. Ended(Release(q, "run")).at \in {"end", "idle"}
      BY <1>1, <3>4
    <3> USE DEF q
    <3> QED
      BY <2>2, <2>12, <3>2 DEF BodySettles
  <2>13. CASE StopRun(u, v)
    <3>1. /\ [r EXCEPT !.aborted = TRUE] \in Run
          /\ [r EXCEPT !.aborted = TRUE].at = r.at
      BY <2>1 DEF Run
    <3>2. Release([r EXCEPT !.aborted = TRUE], "stop").at = r.at
      BY <1>1, <3>1
    <3> QED
      BY <2>2, <2>13, <3>2 DEF StopRun
  <2> QED
    BY <1>3, <2>3, <2>4, <2>5, <2>6, <2>7, <2>8, <2>9, <2>10, <2>11, <2>12,
       <2>13 DEF StoreAnswers
<1>4. ASSUME NEW u \in Schedulers, Crash(u) PROVE ~disabled'[s][t]
  <2>1. run'[s][t] = NoRun \/ run'[s][t] = run[s][t]
    BY <1>4 DEF Crash, TypeOK
  <2> QED
    BY <1>4, <2>1 DEF Crash, AcquiringEnabled, NoRun
<1>5. CASE UNCHANGED <<run, disabled>>
  BY <1>5 DEF AcquiringEnabled
<1> QED
  BY <1>3, <1>4, <1>5
     DEF Next, vars, Skip, StrayExecutes, StrayIsLost, Shutdown, StopStep,
         DrainSettles, GraceElapses, StopReturns, LeaseExpires

(* THEOREM: no method is invoked for a run that #stop aborted, nor for a    *)
(* task whose lease this scheduler once lost.                              *)
THEOREM NoStartHolds == Spec => NoStartOnceStopped
<1>1. ASSUME TypeOK, SoundRuns, AcquiringEnabled, [Next]_vars,
             NEW s \in Schedulers, NEW t \in Tasks, Starts(s, t)
      PROVE  ~run'[s][t].aborted /\ ~disabled[s][t]
  <2>1. CASE Launch(s, t) /\ t \notin Clustered
    <3>1. run'[s][t] = [NoRun EXCEPT !.at = "body", !.instant = next[s][t]]
      BY <1>1, <2>1 DEF Launch, Set, TypeOK
    <3> QED
      BY <2>1, <3>1 DEF Launch, NoRun
  <2>2. CASE AcquireReturns(s, t)
    <3> DEFINE r == run[s][t]
    <3>1. r \in Run /\ Sound(r, t) /\ r.at = "acquired" /\ ~disabled[s][t]
      BY <1>1, <2>2 DEF TypeOK, SoundRuns, AcquireReturns, AcquiringEnabled
    <3>2. r.giving = "no"
      <4> SUFFICES ASSUME r.giving # "no" PROVE FALSE
        OBVIOUS
      <4>1. Set(s, t, [r EXCEPT !.at = "undo"])
        BY <2>2 DEF AcquireReturns
      <4>2. run'[s][t] = [r EXCEPT !.at = "undo"]
        BY <1>1, <4>1, SetAt
      <4> QED
        BY <1>1, <3>1, <4>2 DEF Starts, Run
    <3>3. Set(s, t, [r EXCEPT !.at = "body", !.held = TRUE, !.renewal = "sleep"])
      BY <2>2, <3>2 DEF AcquireReturns
    <3>4. run'[s][t] = [r EXCEPT !.at = "body", !.held = TRUE, !.renewal = "sleep"]
      BY <1>1, <3>3, SetAt
    <3> QED
      BY <3>1, <3>2, <3>4 DEF Sound, Run
  <2> QED
    BY <1>1, <2>1, <2>2, StartSteps
<1>2. TypeOK /\ SoundRuns /\ AcquiringEnabled /\ [Next]_vars =>
        [\A s \in Schedulers, t \in Tasks :
           Starts(s, t) => ~run'[s][t].aborted /\ ~disabled[s][t]]_vars
  BY <1>1
<1>3. Init => SoundRuns /\ AcquiringEnabled
  BY DEF Init, SoundRuns, Sound, AcquiringEnabled, NoRun
<1> QED
  BY <1>2, <1>3, TypeInit, TypeStep, SoundStep, AcquiringStep, PTL
     DEF Spec, NoStartOnceStopped

-----------------------------------------------------------------------------
(* What a run owes before it is over.                                      *)

(* A step changes a run only by an action of that very run, or by the       *)
(* death of its process.                                                   *)
LEMMA RunSteps ==
    ASSUME TypeOK, [Next]_vars, NEW s \in Schedulers, NEW t \in Tasks,
           run'[s][t] # run[s][t]
    PROVE  \/ Launch(s, t) \/ StoreAnswers(s, t) \/ RenewSent(s, t)
           \/ Timeout(s, t) \/ BodySettles(s, t) \/ StopRun(s, t)
           \/ Crash(s)
<1>1. ASSUME NEW u \in Schedulers, NEW v \in Tasks, NEW r, Set(u, v, r)
      PROVE  u = s /\ v = t
  <2>1. run'[s][t] = IF u = s /\ v = t THEN r ELSE run[s][t]
    BY <1>1 DEF Set, TypeOK
  <2> QED
    BY <2>1
<1>2. ASSUME NEW u \in Schedulers, NEW v \in Tasks, StoreAnswers(u, v)
      PROVE  u = s /\ v = t
  BY <1>1, <1>2
     DEF StoreAnswers, AcquireGranted, AcquireRefused, AcquireFails, AcquireReturns,
         UndoReturns, RenewReturns, RenewRefused, RenewFails, ReleaseReturns
<1>3. ASSUME NEW u \in Schedulers, NEW v \in Tasks,
             \/ Launch(u, v) \/ RenewSent(u, v) \/ Timeout(u, v)
             \/ BodySettles(u, v) \/ StopRun(u, v)
      PROVE  u = s /\ v = t
  BY <1>1, <1>3 DEF Launch, RenewSent, Timeout, BodySettles, StopRun
<1>4. ASSUME NEW u \in Schedulers, Crash(u) PROVE u = s
  BY <1>4 DEF Crash, TypeOK
<1>5. ~ UNCHANGED run
  OBVIOUS
<1> QED
  BY <1>2, <1>3, <1>4, <1>5
     DEF Next, vars, Skip, StrayExecutes, StrayIsLost, Shutdown, StopStep,
         DrainSettles, GraceElapses, StopReturns, LeaseExpires

(* A session that sent its release no longer holds; and a run is over       *)
(* before its session is only when #stop was the first to release it.       *)
Thrifty(r) ==
    /\ r.giving \in {"sent", "done"} => ~r.held
    /\ r.at = "idle" /\ (r.held \/ r.giving = "sent")
          => r.by = "stop" /\ r.giving \in {"wait", "sent"}
    /\ r.giving = "no" => r.by # "stop"

(* The method of the run was told to stop, or is not to be invoked.         *)
Told(r) == r.at \in {"acquire", "acquired", "body"} => r.aborted

(* #stop awaits its release.                                               *)
AwaitedRun(r) == r.by = "stop" /\ r.giving \in {"wait", "sent"}

(* The lease that the run may have is held, or about to be known of, or on  *)
(* its way back.                                                           *)
Accounts(r) == r.held \/ r.at \in {"acquired", "undo"} \/ r.giving = "sent"

LEMMA AfterRenewalOwes ==
    ASSUME NEW r \in Run, Thrifty(r), r.giving # "no" \/ r.at # "idle"
    PROVE  /\ AfterRenewal(r) \in Run /\ Thrifty(AfterRenewal(r))
           /\ ~AfterRenewal(r).held
           /\ AfterRenewal(r).at = r.at /\ AfterRenewal(r).aborted = r.aborted
           /\ AfterRenewal(r).by = r.by
           /\ AfterRenewal(r).giving \in {"sent", "done"}
           /\ r.held => AfterRenewal(r).giving = "sent"
BY DEF AfterRenewal, Thrifty, Run

LEMMA ReleaseOwes ==
    ASSUME NEW r \in Run, Thrifty(r), r.at # "idle", NEW who \in {"run", "stop"}
    PROVE  /\ Release(r, who) \in Run /\ Thrifty(Release(r, who))
           /\ Release(r, who).at = r.at /\ Release(r, who).aborted = r.aborted
           /\ r.held => Release(r, who).held \/ Release(r, who).giving = "sent"
           /\ r.giving = "sent" => Release(r, who).giving = "sent"
           /\ ~r.held /\ r.giving # "sent" =>
                 ~Release(r, who).held /\ Release(r, who).giving # "sent"
           /\ Release(r, who).giving # "no"
           /\ AwaitedRun(Release(r, who)) => AwaitedRun(r) \/ who = "stop"
<1>1. CASE r.giving # "no"
  BY <1>1 DEF Release
<1>2. CASE r.giving = "no" /\ r.renewal = "ask"
  BY <1>2 DEF Release, Thrifty, AwaitedRun, Run
<1>3. CASE r.giving = "no" /\ r.renewal # "ask"
  <2> DEFINE off == [r EXCEPT !.renewal = "off", !.by = who]
  <2>1. /\ off \in Run /\ off.held = r.held /\ off.giving = "no" /\ off.at = r.at
        /\ off.aborted = r.aborted /\ off.by = who
    BY <1>3 DEF Run
  <2>2. Release(r, who) = AfterRenewal(off)
    BY <1>3 DEF Release
  <2> DEFINE b == AfterRenewal(off)
  <2> HIDE DEF off
  <2>3. /\ b \in Run /\ ~b.held /\ b.at = r.at /\ b.aborted = r.aborted /\ b.by = who
        /\ b.giving = IF r.held THEN "sent" ELSE "done"
    BY <2>1 DEF AfterRenewal, Run
  <2> HIDE DEF b
  <2> QED
    BY <1>3, <2>2, <2>3 DEF Thrifty, AwaitedRun, b
<1> QED
  BY <1>1, <1>2, <1>3

LEMMA EndedOwes ==
    ASSUME NEW r \in Run, Thrifty(r), r.at # "end" \/ r.giving # "no"
    PROVE  /\ Thrifty(Ended(r)) /\ Ended(r).at \in {r.at, "idle"}
           /\ Ended(r).held = r.held /\ Ended(r).giving = r.giving
           /\ Ended(r).aborted = r.aborted /\ Ended(r).by = r.by
<1>1. CASE r.at = "end" /\ (r.giving = "done" \/ r.by = "stop")
  <2>1. /\ Ended(r) = [r EXCEPT !.at = "idle"]
        /\ Ended(r).at = "idle" /\ Ended(r).held = r.held /\ Ended(r).giving = r.giving
        /\ Ended(r).by = r.by /\ Ended(r).aborted = r.aborted
    BY <1>1 DEF Ended, Run
  <2>2. r.giving \in {"wait", "sent", "done"}
    BY <1>1 DEF Run
  <2> QED
    BY <1>1, <2>1, <2>2 DEF Thrifty
<1>2. CASE ~ (r.at = "end" /\ (r.giving = "done" \/ r.by = "stop"))
  BY <1>2 DEF Ended
<1> QED
  BY <1>1, <1>2

LEMMA LostOwes ==
    ASSUME NEW r \in Run, Thrifty(r)
    PROVE  /\ Thrifty(Lost(r)) /\ Told(Lost(r))
           /\ AwaitedRun(Lost(r)) => AwaitedRun(r)
<1> DEFINE off == [r EXCEPT !.held = FALSE, !.renewal = "off", !.aborted = TRUE]
<1>1. /\ off \in Run /\ ~off.held /\ off.aborted /\ off.giving = r.giving
      /\ off.at = r.at /\ off.by = r.by
  BY DEF Run
<1>2. Thrifty(off) /\ Told(off)
  BY <1>1 DEF Thrifty, Told
<1>3. CASE r.giving = "wait"
  <2> DEFINE a == AfterRenewal(off)
  <2>1. Lost(r) = Ended(a)
    BY <1>3 DEF Lost
  <2>2. a \in Run /\ Thrifty(a) /\ a.aborted /\ a.giving = "done" /\ a.by = r.by
    BY <1>1, <1>2, <1>3 DEF AfterRenewal, Thrifty, Run
  <2> HIDE DEF a
  <2> QED
    BY <2>1, <2>2, EndedOwes DEF Told, AwaitedRun
<1>4. CASE r.giving # "wait"
  BY <1>1, <1>2, <1>4 DEF Lost, AwaitedRun
<1> QED
  BY <1>3, <1>4

(* The steps that settle what became of a request for a lease, or start     *)
(* afresh.                                                                 *)
Settles(s, t) ==
    \/ AcquireRefused(s, t) \/ AcquireFails(s, t) \/ UndoReturns(s, t)
    \/ RenewRefused(s, t) \/ RenewFails(s, t) \/ ReleaseReturns(s, t)
    \/ Launch(s, t) \/ Crash(s)

(* Any other keeps the lease accounted for.  What was told stays told; the  *)
(* loop of #stop tells what it comes to, and awaits nothing else.           *)
Owes(s, t) ==
    LET r == run[s][t]  q == run'[s][t]
    IN  /\ Thrifty(q)
        /\ Told(r) /\ ~Launch(s, t) => Told(q)
        /\ StopRun(s, t) => Told(q)
        /\ AwaitedRun(q) => AwaitedRun(r) \/ StopRun(s, t)
        /\ Accounts(r) /\ ~Settles(s, t) => Accounts(q)

LEMMA OwesStep ==
    ASSUME TypeOK, SoundRuns, [Next]_vars, NEW s \in Schedulers, NEW t \in Tasks,
           Thrifty(run[s][t])
    PROVE  Owes(s, t)
<1> DEFINE r == run[s][t]
           Kept == /\ Thrifty(run'[s][t])
                   /\ Told(r) => Told(run'[s][t])
                   /\ AwaitedRun(run'[s][t]) => AwaitedRun(r)
                   /\ Accounts(r) /\ ~Settles(s, t) => Accounts(run'[s][t])
<1>1. r \in Run /\ Sound(r, t)
  BY DEF TypeOK, SoundRuns
<1>2. \A q : Set(s, t, q) => run'[s][t] = q
  BY SetAt
<1>3. ASSUME StopRun(s, t) PROVE Owes(s, t)
  <2>1. Set(s, t, IF r.at = "idle" THEN r ELSE Release([r EXCEPT !.aborted = TRUE], "stop"))
    BY <1>3 DEF StopRun
  <2>2. CASE r.at = "idle"
    BY <1>2, <1>3, <2>1, <2>2 DEF Owes, Told
  <2>3. CASE r.at # "idle"
    <3> DEFINE a == [r EXCEPT !.aborted = TRUE]
    <3>1. /\ a \in Run /\ a.aborted /\ a.at = r.at /\ a.held = r.held /\ a.giving = r.giving
          /\ a.by = r.by
      BY <1>1 DEF Run
    <3>2. Thrifty(a)
      BY <3>1 DEF Thrifty
    <3>3. run'[s][t] = Release(a, "stop")
      BY <1>2, <2>1, <2>3
    <3> HIDE DEF a
    <3> QED
      BY <1>3, <2>3, <3>1, <3>2, <3>3, ReleaseOwes DEF Owes, Told, Accounts
  <2> QED
    BY <2>2, <2>3
<1>4. ASSUME Launch(s, t), ~StopRun(s, t) PROVE Owes(s, t)
  <2>1. PICK a \in {"acquire", "body"} :
           run'[s][t] = [NoRun EXCEPT !.at = a, !.instant = next[s][t]]
    BY <1>2, <1>4 DEF Launch
  <2> QED
    BY <1>4, <2>1 DEF NoRun, Owes, Thrifty, AwaitedRun, Settles
<1>5. ASSUME Crash(s), ~StopRun(s, t) PROVE Owes(s, t)
  <2>1. run'[s][t] = NoRun
    BY <1>5 DEF Crash, TypeOK
  <2> QED
    BY <1>5, <2>1 DEF NoRun, Owes, Thrifty, Told, AwaitedRun, Settles
<1>6. ASSUME run'[s][t] = r, ~StopRun(s, t) PROVE Owes(s, t)
  BY <1>6 DEF Owes
<1>7. SUFFICES ASSUME ~StopRun(s, t), ~Launch(s, t), ~Crash(s), run'[s][t] # r
               PROVE  Kept
  BY <1>3, <1>4, <1>5, <1>6 DEF Owes
<1>8. \/ StoreAnswers(s, t) \/ RenewSent(s, t) \/ Timeout(s, t) \/ BodySettles(s, t)
  BY <1>7, RunSteps
<1> HIDE DEF r
<1>9. CASE AcquireGranted(s, t)
  <2>1. run'[s][t] = [r EXCEPT !.at = "acquired"] /\ r.at = "acquire"
    BY <1>2, <1>9 DEF AcquireGranted, r
  <2> QED
    BY <1>1, <2>1 DEF Thrifty, Told, AwaitedRun, Accounts, Run, r
<1>10. CASE AcquireRefused(s, t) \/ AcquireFails(s, t)
  <2> DEFINE a == Release(r, "run")
  <2>1. run'[s][t] = [a EXCEPT !.at = "idle"]
    BY <1>2, <1>10 DEF AcquireRefused, AcquireFails, r
  <2>2. r.at \in {"acquire", "acquired"} /\ ~r.held /\ r.giving # "sent"
    BY <1>1, <1>10 DEF AcquireRefused, AcquireFails, Sound, r
  <2>3. /\ a \in Run /\ Thrifty(a) /\ ~a.held /\ a.giving # "sent"
        /\ AwaitedRun(a) => AwaitedRun(r)
    BY <1>1, <2>2, ReleaseOwes DEF r
  <2> HIDE DEF a
  <2>4. Settles(s, t)
    BY <1>10 DEF Settles
  <2> QED
    BY <2>1, <2>3, <2>4 DEF Thrifty, Told, AwaitedRun, Run
<1>11. CASE AcquireReturns(s, t)
  <2>1. CASE r.giving = "no"
    <3>1. run'[s][t] = [r EXCEPT !.at = "body", !.held = TRUE, !.renewal = "sleep"]
      BY <1>2, <1>11, <2>1 DEF AcquireReturns, r
    <3>2. r.at = "acquired"
      BY <1>11 DEF AcquireReturns, r
    <3> QED
      BY <1>1, <2>1, <3>1, <3>2 DEF Thrifty, Told, AwaitedRun, Accounts, Run, r
  <2>2. CASE r.giving # "no"
    <3>1. run'[s][t] = [r EXCEPT !.at = "undo"]
      BY <1>2, <1>11, <2>2 DEF AcquireReturns, r
    <3> QED
      BY <1>1, <3>1 DEF Thrifty, Told, AwaitedRun, Accounts, Run, r
  <2> QED
    BY <2>1, <2>2
<1>12. CASE UndoReturns(s, t)
  <2>1. run'[s][t] = [r EXCEPT !.at = "idle"] /\ r.at = "undo"
    BY <1>2, <1>12 DEF UndoReturns, r
  <2> QED
    BY <1>1, <1>12, <2>1 DEF Thrifty, Told, AwaitedRun, Settles, Run, Sound, r
<1>13. CASE RenewReturns(s, t)
  <2> DEFINE a == [r EXCEPT !.renewal = "off"]
  <2>1. CASE r.giving = "wait"
    <3>1. run'[s][t] = AfterRenewal(a)
      BY <1>2, <1>13, <2>1 DEF RenewReturns, r
    <3>2. a \in Run /\ Thrifty(a) /\ a.giving = "wait" /\ a.aborted = r.aborted /\ a.at = r.at
          /\ a.by = r.by /\ a.held = r.held
      BY <1>1, <2>1 DEF Thrifty, Run, r
    <3> HIDE DEF a
    <3> QED
      BY <2>1, <3>1, <3>2, AfterRenewalOwes DEF Told, AwaitedRun, Accounts
  <2>2. CASE r.giving # "wait"
    <3>1. run'[s][t] = [r EXCEPT !.renewal = "sleep"]
      BY <1>2, <1>13, <2>2 DEF RenewReturns, r
    <3> QED
      BY <1>1, <3>1 DEF Thrifty, Told, AwaitedRun, Accounts, Run, r
  <2> QED
    BY <2>1, <2>2
<1>14. CASE RenewRefused(s, t) \/ RenewFails(s, t)
  <2>1. run'[s][t] = Lost(r)
    BY <1>2, <1>14 DEF RenewRefused, RenewFails, r
  <2> QED
    BY <1>1, <1>14, <2>1, LostOwes DEF Settles, r
<1>15. CASE ReleaseReturns(s, t)
  <2> DEFINE a == [r EXCEPT !.giving = "done"]
  <2>1. run'[s][t] = Ended(a) /\ r.giving = "sent"
    BY <1>2, <1>15 DEF ReleaseReturns, r
  <2>2. /\ a \in Run /\ a.giving = "done" /\ a.aborted = r.aborted /\ a.at = r.at
        /\ a.held = r.held /\ a.by = r.by
    BY <1>1 DEF Run
  <2> HIDE DEF a
  <2>3. Thrifty(a)
    BY <2>1, <2>2 DEF Thrifty, r
  <2> QED
    BY <1>15, <2>1, <2>2, <2>3, EndedOwes DEF Told, AwaitedRun, Settles
<1>16. CASE RenewSent(s, t)
  <2>1. run'[s][t] = [r EXCEPT !.renewal = "ask"]
    BY <1>2, <1>16 DEF RenewSent, r
  <2> QED
    BY <1>1, <2>1 DEF Thrifty, Told, AwaitedRun, Accounts, Run, r
<1>17. CASE Timeout(s, t)
  <2>1. run'[s][t] = [r EXCEPT !.aborted = TRUE]
    BY <1>2, <1>17 DEF Timeout, r
  <2> QED
    BY <1>1, <2>1 DEF Thrifty, Told, AwaitedRun, Accounts, Run, r
<1>18. CASE BodySettles(s, t)
  <2> DEFINE a == [r EXCEPT !.at = "end"]
             b == Release(a, "run")
  <2>1. run'[s][t] = Ended(b)
    BY <1>2, <1>18 DEF BodySettles, r
  <2>2. /\ a \in Run /\ Thrifty(a) /\ a.at = "end" /\ (Accounts(r) => Accounts(a))
        /\ AwaitedRun(a) => AwaitedRun(r)
    BY <1>1, <1>18 DEF BodySettles, Thrifty, Accounts, AwaitedRun, Run, r
  <2> HIDE DEF a
  <2>3. /\ b \in Run /\ Thrifty(b) /\ b.at = "end" /\ b.giving # "no"
        /\ AwaitedRun(b) => AwaitedRun(a)
        /\ Accounts(a) => b.held \/ b.giving = "sent"
    BY <2>2, ReleaseOwes DEF Accounts
  <2> HIDE DEF b
  <2> QED
    BY <2>1, <2>2, <2>3, EndedOwes DEF Told, AwaitedRun, Accounts
<1> QED
  BY <1>8, <1>9, <1>10, <1>11, <1>12, <1>13, <1>14, <1>15, <1>16, <1>17, <1>18
     DEF StoreAnswers

-----------------------------------------------------------------------------
(* No lease is kept by an idle scheduler; no method is left untold.        *)

ThriftyRuns == \A s \in Schedulers, t \in Tasks : Thrifty(run[s][t])

(* #stop waits for the release that it awaits.                             *)
AwaitedInStop ==
    \A s \in Schedulers, t \in Tasks : Awaited(s, t) => mode[s] = "releasing"

(* The runs that the loop of #stop has passed, and after it all runs, were  *)
(* told.                                                                   *)
StoppedAreTold ==
    \A s \in Schedulers, t \in Tasks :
        /\ mode[s] = "releasing" => t \in left[s] \/ Told(run[s][t])
        /\ mode[s] = "resolved" => Told(run[s][t])

LEMMA ThriftyStep ==
    TypeOK /\ SoundRuns /\ ThriftyRuns /\ [Next]_vars => ThriftyRuns'
BY OwesStep DEF ThriftyRuns, Owes

(* A mode is left only as #stop proceeds.                                  *)
LEMMA ModeSteps ==
    ASSUME TypeOK, [Next]_vars, NEW s \in Schedulers
    PROVE  \/ mode'[s] = mode[s]
           \/ mode[s] = "open" /\ mode'[s] = "draining"
           \/ DrainSettles(s) \/ GraceElapses(s) \/ StopReturns(s) \/ Crash(s)
<1>1. ASSUME NEW u \in Schedulers, NEW m, mode' = [mode EXCEPT ![u] = m], u # s
      PROVE  mode'[s] = mode[s]
  BY <1>1 DEF TypeOK
<1>2. ASSUME NEW u \in Schedulers,
             Shutdown(u) \/ DrainSettles(u) \/ GraceElapses(u) \/ StopReturns(u) \/ Crash(u)
      PROVE  mode'[s] = mode[s] \/ u = s
  BY <1>1, <1>2 DEF Shutdown, DrainSettles, GraceElapses, StopReturns, Crash
<1>3. Shutdown(s) => mode[s] = "open" /\ mode'[s] = "draining"
  BY DEF Shutdown, TypeOK
<1>4. ASSUME NEW u \in Schedulers, NEW t \in Tasks, StoreAnswers(u, t)
      PROVE  UNCHANGED mode
  BY <1>4 DEF StoreAnswers, AcquireGranted, AcquireRefused, AcquireFails, AcquireReturns,
              UndoReturns, RenewReturns, RenewRefused, RenewFails, ReleaseReturns
<1>5. ASSUME NEW u \in Schedulers, NEW t \in Tasks,
             \/ Launch(u, t) \/ Skip(u, t) \/ RenewSent(u, t) \/ Timeout(u, t)
             \/ BodySettles(u, t) \/ StopRun(u, t)
      PROVE  UNCHANGED mode
  BY <1>5 DEF Launch, Skip, RenewSent, Timeout, BodySettles, StopRun
<1>6. ASSUME NEW u \in Schedulers, NEW t \in Tasks, NEW request,
             StrayExecutes(u, t, request) \/ StrayIsLost(u, t, request)
      PROVE  UNCHANGED mode
  BY <1>6 DEF StrayExecutes, StrayIsLost
<1>7. ASSUME NEW t \in Tasks, LeaseExpires(t) PROVE UNCHANGED mode
  BY <1>7 DEF LeaseExpires
<1>8. CASE UNCHANGED mode
  BY <1>8
<1> QED
  BY <1>2, <1>3, <1>4, <1>5, <1>6, <1>7, <1>8 DEF Next, vars, StopStep

(* The runs #stop has still to come to are taken from the list one by one.  *)
LEMMA LeftSteps ==
    ASSUME TypeOK, [Next]_vars, NEW s \in Schedulers, NEW t \in Tasks, t \in left[s]
    PROVE  t \in left'[s] \/ StopRun(s, t) \/ GraceElapses(s) \/ Crash(s)
<1>1. ASSUME NEW u \in Schedulers, GraceElapses(u) \/ Crash(u)
      PROVE  left'[s] = left[s] \/ u = s
  BY <1>1 DEF GraceElapses, Crash, TypeOK
<1>2. ASSUME NEW u \in Schedulers, NEW v \in Tasks, StopRun(u, v)
      PROVE  t \in left'[s] \/ (u = s /\ v = t)
  BY <1>2 DEF StopRun, TypeOK
<1>3. ASSUME NEW u \in Schedulers, NEW v \in Tasks, StoreAnswers(u, v)
      PROVE  UNCHANGED left
  BY <1>3 DEF StoreAnswers, AcquireGranted, AcquireRefused, AcquireFails, AcquireReturns,
              UndoReturns, RenewReturns, RenewRefused, RenewFails, ReleaseReturns
<1>4. ASSUME NEW u \in Schedulers, NEW v \in Tasks,
             \/ Launch(u, v) \/ Skip(u, v) \/ RenewSent(u, v) \/ Timeout(u, v)
             \/ BodySettles(u, v)
      PROVE  UNCHANGED left
  BY <1>4 DEF Launch, Skip, RenewSent, Timeout, BodySettles
<1>5. ASSUME NEW u \in Schedulers, NEW v \in Tasks, NEW request,
             StrayExecutes(u, v, request) \/ StrayIsLost(u, v, request)
      PROVE  UNCHANGED left
  BY <1>5 DEF StrayExecutes, StrayIsLost
<1>6. ASSUME NEW u \in Schedulers, Shutdown(u) \/ DrainSettles(u) \/ StopReturns(u)
      PROVE  UNCHANGED left
  BY <1>6 DEF Shutdown, DrainSettles, StopReturns
<1>7. ASSUME NEW v \in Tasks, LeaseExpires(v) PROVE UNCHANGED left
  BY <1>7 DEF LeaseExpires
<1>8. CASE UNCHANGED left
  BY <1>8
<1> QED
  BY <1>1, <1>2, <1>3, <1>4, <1>5, <1>6, <1>7, <1>8 DEF Next, vars, StopStep

LEMMA ToldStep ==
    TypeOK /\ SoundRuns /\ ThriftyRuns /\ StoppedAreTold /\ [Next]_vars => StoppedAreTold'
<1> SUFFICES ASSUME TypeOK, SoundRuns, ThriftyRuns, StoppedAreTold, [Next]_vars,
                    NEW s \in Schedulers, NEW t \in Tasks
             PROVE  /\ mode'[s] = "releasing" => t \in left'[s] \/ Told(run'[s][t])
                    /\ mode'[s] = "resolved" => Told(run'[s][t])
  BY DEF StoppedAreTold, Told
<1>1. /\ Told(run[s][t]) /\ ~Launch(s, t) => Told(run'[s][t])
      /\ StopRun(s, t) => Told(run'[s][t])
  BY OwesStep DEF ThriftyRuns, Owes
<1>2. Launch(s, t) => mode'[s] = "open"
  BY DEF Launch
<1>3. CASE Crash(s)
  BY <1>3 DEF Crash, TypeOK
<1>4. CASE DrainSettles(s)
  BY <1>4 DEF DrainSettles, TypeOK, Told
<1>5. CASE GraceElapses(s)
  BY <1>5 DEF GraceElapses, TypeOK, Told
<1>6. CASE StopReturns(s)
  <2>1. Told(run[s][t]) /\ run' = run
    BY <1>6 DEF StopReturns, StoppedAreTold
  <2> QED
    BY <2>1
<1>7. CASE mode'[s] = mode[s] /\ ~Crash(s) /\ ~GraceElapses(s)
  <2>1. t \in left[s] => t \in left'[s] \/ StopRun(s, t)
    BY <1>7, LeftSteps
  <2> QED
    BY <1>1, <1>2, <1>7, <2>1 DEF StoppedAreTold
<1> QED
  BY <1>3, <1>4, <1>5, <1>6, <1>7, ModeSteps

(* THEOREM: once onShutdown has resolved, no method runs that was not told  *)
(* to stop, however many runs #stop had to come to and however their        *)
(* releases went.                                                          *)
THEOREM ResolvedUntold == Spec => []ResolvedLeavesNoneUntold
<1>1. Init => SoundRuns /\ ThriftyRuns /\ StoppedAreTold
  BY DEF Init, SoundRuns, Sound, ThriftyRuns, Thrifty, StoppedAreTold, NoRun
<1>2. StoppedAreTold => ResolvedLeavesNoneUntold
  BY DEF StoppedAreTold, Told, ResolvedLeavesNoneUntold, Running
<1> QED
  BY <1>1, <1>2, TypeInit, TypeStep, SoundStep, ThriftyStep, ToldStep, PTL DEF Spec

-----------------------------------------------------------------------------
(* No store call was rejected and no process died.                         *)
Untroubled == Undisturbed({"fault", "crash"})

(* Then no request is left without a caller, and whoever owns a lease has a *)
(* run that holds it, is about to learn of the grant, or gives it back.     *)
NoStray == Untroubled => \A s \in Schedulers, t \in Tasks : stray[s][t] = {}

OwnersAccount ==
    Untroubled => \A s \in Schedulers, t \in Tasks : Owns(s, t) => Accounts(run[s][t])

LEMMA UntroubledSpends ==
    ASSUME TypeOK, Untroubled', NEW d \in {"fault", "crash"}, Spend(d)
    PROVE  FALSE
<1>1. d \in Disturbances /\ spent[d] \in Nat
  BY DEF TypeOK, Disturbances
<1>2. spent'[d] = spent[d] + 1
  BY <1>1 DEF Spend, TypeOK
<1> QED
  BY <1>1, <1>2 DEF Untroubled, Undisturbed

LEMMA UntroubledBefore == TypeOK /\ [Next]_vars /\ Untroubled' => Untroubled
<1> SUFFICES ASSUME TypeOK, [Next]_vars, Untroubled' PROVE Untroubled
  OBVIOUS
<1>1. \/ spent' = spent
      \/ Spend("fault") \/ Spend("crash") \/ Spend("early")
      \/ Spend("late") \/ Spend("shutdown")
  <2>1. ASSUME NEW s \in Schedulers, NEW t \in Tasks, StoreAnswers(s, t)
        PROVE  spent' = spent \/ Spend("fault")
    BY <2>1 DEF StoreAnswers, AcquireGranted, AcquireRefused, AcquireFails,
                AcquireReturns, UndoReturns, RenewReturns, RenewRefused,
                RenewFails, ReleaseReturns
  <2>2. ASSUME NEW s \in Schedulers, NEW t \in Tasks,
               \/ Launch(s, t) \/ Skip(s, t) \/ RenewSent(s, t)
               \/ Timeout(s, t) \/ BodySettles(s, t)
        PROVE  spent' = spent
    BY <2>2 DEF Launch, Skip, RenewSent, Timeout, BodySettles
  <2>3. ASSUME NEW s \in Schedulers, NEW t \in Tasks, NEW request,
               StrayExecutes(s, t, request) \/ StrayIsLost(s, t, request)
        PROVE  spent' = spent \/ Spend("late")
    BY <2>3 DEF StrayExecutes, StrayIsLost
  <2>4. ASSUME NEW s \in Schedulers, Shutdown(s) \/ StopStep(s) \/ Crash(s)
        PROVE  spent' = spent \/ Spend("shutdown") \/ Spend("crash")
    BY <2>4 DEF Shutdown, StopStep, DrainSettles, GraceElapses, StopRun, StopReturns, Crash
  <2>5. ASSUME NEW t \in Tasks, LeaseExpires(t)
        PROVE  spent' = spent \/ Spend("early")
    BY <2>5 DEF LeaseExpires
  <2> QED
    BY <2>1, <2>2, <2>3, <2>4, <2>5 DEF Next, vars
<1>2. \A d \in Disturbances : spent'[d] = 0 => spent[d] = 0
  BY <1>1 DEF Spend, TypeOK, Disturbances
<1> QED
  BY <1>2 DEF Untroubled, Undisturbed, Disturbances

LEMMA NoStrayStep == TypeOK /\ NoStray /\ [Next]_vars => NoStray'
<1> SUFFICES ASSUME TypeOK, NoStray, [Next]_vars, Untroubled',
                    NEW s \in Schedulers, NEW t \in Tasks
             PROVE  stray'[s][t] = {}
  BY DEF NoStray
<1>1. stray[s][t] = {}
  BY UntroubledBefore DEF NoStray
<1>2. ASSUME NEW u \in Schedulers, NEW v \in Tasks, StoreAnswers(u, v)
      PROVE  stray' = stray
  BY <1>2, UntroubledSpends
     DEF StoreAnswers, AcquireGranted, AcquireRefused, AcquireFails, AcquireReturns,
         UndoReturns, RenewReturns, RenewRefused, RenewFails, ReleaseReturns
<1>3. ASSUME NEW u \in Schedulers, Crash(u) PROVE FALSE
  BY <1>3, UntroubledSpends DEF Crash
<1>4. ASSUME NEW u \in Schedulers, NEW v \in Tasks, NEW request,
             StrayExecutes(u, v, request) \/ StrayIsLost(u, v, request)
      PROVE  FALSE
  BY <1>4, UntroubledBefore DEF StrayExecutes, StrayIsLost, NoStray
<1>5. ASSUME NEW u \in Schedulers, NEW v \in Tasks,
             \/ Launch(u, v) \/ Skip(u, v) \/ RenewSent(u, v) \/ Timeout(u, v)
             \/ BodySettles(u, v) \/ StopRun(u, v)
      PROVE  stray' = stray
  BY <1>5 DEF Launch, Skip, RenewSent, Timeout, BodySettles, StopRun
<1>6. ASSUME NEW u \in Schedulers,
             Shutdown(u) \/ DrainSettles(u) \/ GraceElapses(u) \/ StopReturns(u)
      PROVE  stray' = stray
  BY <1>6 DEF Shutdown, DrainSettles, GraceElapses, StopReturns
<1>7. ASSUME NEW v \in Tasks, LeaseExpires(v) PROVE stray' = stray
  BY <1>7 DEF LeaseExpires
<1>8. CASE stray' = stray
  BY <1>1, <1>8
<1> QED
  BY <1>2, <1>3, <1>4, <1>5, <1>6, <1>7, <1>8 DEF Next, vars, StopStep

(* The table gives a scheduler a lease only by granting its request.        *)
LEMMA NewOwner ==
    ASSUME TypeOK, NoStray, [Next]_vars, Untroubled',
           NEW s \in Schedulers, NEW t \in Tasks, Owns(s, t)'
    PROVE  Owns(s, t) \/ AcquireGranted(s, t)
<1>1. ASSUME NEW u \in Schedulers, NEW v \in Tasks, lease' = Deleted(u, v)
      PROVE  Owns(s, t)
  BY <1>1, LeaseAssumption DEF Deleted, NoLease, Owns, TypeOK
<1>2. ASSUME NEW u \in Schedulers, NEW v \in Tasks, AcquireGranted(u, v)
      PROVE  Owns(s, t) \/ AcquireGranted(s, t)
  <2>1. lease'[t] = IF t = v THEN [holder |-> u, live |-> TRUE] ELSE lease[t]
    BY <1>2 DEF AcquireGranted, Obtained, TypeOK
  <2> QED
    BY <1>2, <2>1 DEF Owns
<1>3. ASSUME NEW v \in Tasks, LeaseExpires(v) PROVE Owns(s, t)
  <2>1. lease'[t] = IF t = v THEN [lease[t] EXCEPT !.live = FALSE] ELSE lease[t]
    BY <1>3 DEF LeaseExpires, Expired, TypeOK
  <2> QED
    BY <2>1 DEF Owns, TypeOK, Lease
<1>4. ASSUME NEW u \in Schedulers, NEW v \in Tasks, StoreAnswers(u, v), ~AcquireGranted(u, v)
      PROVE  lease' = lease \/ lease' = Deleted(u, v)
  BY <1>4 DEF StoreAnswers, AcquireRefused, AcquireFails, AcquireReturns,
              UndoReturns, RenewReturns, RenewRefused, RenewFails, ReleaseReturns
<1>5. ASSUME NEW u \in Schedulers, NEW v \in Tasks, NEW request,
             StrayExecutes(u, v, request)
      PROVE  FALSE
  BY <1>5, UntroubledBefore DEF StrayExecutes, NoStray
<1>6. CASE UNCHANGED lease
  BY <1>6 DEF Owns
<1>7. ASSUME NEW u \in Schedulers, NEW v \in Tasks,
             \/ Launch(u, v) \/ Skip(u, v) \/ RenewSent(u, v) \/ Timeout(u, v)
             \/ BodySettles(u, v) \/ StopRun(u, v)
             \/ \E request \in {"acquire", "release"} : StrayIsLost(u, v, request)
      PROVE  UNCHANGED lease
  BY <1>7 DEF Launch, Skip, RenewSent, Timeout, BodySettles, StopRun, StrayIsLost
<1>8. ASSUME NEW u \in Schedulers,
             \/ Shutdown(u) \/ DrainSettles(u) \/ GraceElapses(u) \/ StopReturns(u)
             \/ Crash(u)
      PROVE  UNCHANGED lease
  BY <1>8 DEF Shutdown, DrainSettles, GraceElapses, StopReturns, Crash
<1>9. ASSUME NEW u \in Schedulers, NEW v \in Tasks, StoreAnswers(u, v)
      PROVE  Owns(s, t) \/ AcquireGranted(s, t)
  BY <1>1, <1>2, <1>4, <1>6, <1>9
<1> QED
  BY <1>3, <1>5, <1>6, <1>7, <1>8, <1>9 DEF Next, vars, StopStep

LEMMA AwaitedStep ==
    TypeOK /\ SoundRuns /\ ThriftyRuns /\ AwaitedInStop /\ [Next]_vars => AwaitedInStop'
<1> SUFFICES ASSUME TypeOK, SoundRuns, ThriftyRuns, AwaitedInStop, [Next]_vars,
                    NEW s \in Schedulers, NEW t \in Tasks, AwaitedRun(run'[s][t])
             PROVE  mode'[s] = "releasing"
  BY DEF AwaitedInStop, Awaited, AwaitedRun
<1>1. AwaitedRun(run[s][t]) \/ StopRun(s, t)
  BY OwesStep DEF ThriftyRuns, Owes
<1>2. mode[s] = "releasing"
  BY <1>1 DEF AwaitedInStop, Awaited, AwaitedRun, StopRun
<1>3. ~Crash(s)
  <2> SUFFICES ASSUME Crash(s) PROVE FALSE
    OBVIOUS
  <2>1. run'[s][t] = NoRun
    BY DEF Crash, TypeOK
  <2> QED
    BY <2>1 DEF AwaitedRun, NoRun
<1>4. ~StopReturns(s)
  <2> SUFFICES ASSUME StopReturns(s) PROVE FALSE
    OBVIOUS
  <2>1. run' = run /\ ~Awaited(s, t)
    BY DEF StopReturns
  <2> QED
    BY <2>1 DEF Awaited, AwaitedRun
<1> QED
  BY <1>2, <1>3, <1>4, ModeSteps DEF DrainSettles, GraceElapses

LEMMA OwnersStep ==
    /\ TypeOK /\ SoundRuns /\ ThriftyRuns /\ AwaitedInStop /\ NoStray /\ OwnersAccount
    /\ [Next]_vars
    => OwnersAccount'
<1> SUFFICES ASSUME TypeOK, SoundRuns, ThriftyRuns, AwaitedInStop, NoStray, OwnersAccount,
                    [Next]_vars, Untroubled',
                    NEW s \in Schedulers, NEW t \in Tasks, Owns(s, t)'
             PROVE  Accounts(run'[s][t])
  BY DEF OwnersAccount
<1>1. CASE AcquireGranted(s, t)
  <2>1. run'[s][t] = [run[s][t] EXCEPT !.at = "acquired"] /\ run[s][t] \in Run
    BY <1>1, SetAt DEF AcquireGranted, TypeOK
  <2> QED
    BY <2>1 DEF Accounts, Run
<1>2. CASE ~AcquireGranted(s, t)
  <2>1. Owns(s, t)
    BY <1>2, NewOwner
  <2>2. Accounts(run[s][t])
    BY <2>1, UntroubledBefore DEF OwnersAccount
  <2>3. ~Settles(s, t)
    <3>1. ~AcquireRefused(s, t) /\ ~RenewRefused(s, t)
      BY <2>1 DEF AcquireRefused, RenewRefused, Obtainable, Renewable, Owns
    <3>2. ~AcquireFails(s, t) /\ ~RenewFails(s, t) /\ ~Crash(s)
      BY UntroubledSpends DEF AcquireFails, RenewFails, Crash
    <3>3. ~UndoReturns(s, t) /\ ~ReleaseReturns(s, t)
      <4>1. lease' # Deleted(s, t)
        BY LeaseAssumption DEF Deleted, NoLease, Owns, TypeOK
      <4> QED
        BY <4>1, UntroubledSpends DEF UndoReturns, ReleaseReturns
    <3>4. ~Launch(s, t)
      BY <2>2 DEF Launch, Accounts, ThriftyRuns, Thrifty, AwaitedInStop, Awaited
    <3> QED
      BY <3>1, <3>2, <3>3, <3>4 DEF Settles
  <2> QED
    BY <2>2, <2>3, OwesStep DEF ThriftyRuns, Owes
<1> QED
  BY <1>1, <1>2

(* THEOREM: as long as every store call is answered and no process dies, a  *)
(* scheduler with no run of a task in progress does not keep its lease,     *)
(* except for a release that #stop awaits.                                 *)
THEOREM IdleKeepsNone == Spec => []IdleKeepsNoLease
<1>1. Init => SoundRuns /\ ThriftyRuns /\ AwaitedInStop
  BY DEF Init, SoundRuns, Sound, ThriftyRuns, Thrifty, AwaitedInStop, Awaited, NoRun
<1>2. Init => NoStray /\ OwnersAccount
  BY LeaseAssumption DEF Init, LeaseInit, NoLease, NoStray, OwnersAccount, Owns
<1>3. ThriftyRuns /\ AwaitedInStop /\ OwnersAccount => IdleKeepsNoLease
  BY DEF ThriftyRuns, Thrifty, AwaitedInStop, Awaited, OwnersAccount, Accounts,
         Untroubled, IdleKeepsNoLease
<1> QED
  BY <1>1, <1>2, <1>3, TypeInit, TypeStep, SoundStep, ThriftyStep, AwaitedStep,
     NoStrayStep, OwnersStep, PTL DEF Spec
=============================================================================
