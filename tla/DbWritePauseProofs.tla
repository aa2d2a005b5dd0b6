-------------------------- MODULE DbWritePauseProofs --------------------------
(***************************************************************************)
(* The write pause of a database's move, with one delivery at a time: a    *)
(* row in CUTOVER has somebody who will bring it out, whatever ended       *)
(* before the promote left the source open, and an abort is final.         *)
(***************************************************************************)
EXTENDS DbPhysicalMigrationProofs

\* What runs, and what may come of it, before the write pause.
Making == {"provision", "buildLink", "enterReplicating", "stream", "synced", "copyFailed",
           "teardown"}
\* The fence is written, or about to be taken away.
Fencing == {"fencePersist", "fenceReload", "terminate", "verify", "fenceLsn", "replay",
            "claimPromote", "unfence"}

USE ActorAssumption, BoundAssumption
    DEF rowVars, localVars, srcVars, dbVars, Go, Done, Spend, Enqueue, Move, Save, Actor,
        Kind, Status, Fence, NoFence, Copying, Cutting, Leaving, Aborting, PC,
        Reason, NoJobs, Budget, LetFenceGo, TearDownLink, Enter, InCutover, AfterStart,
        RunIsHeld, Held, TypeOK, RowOK, WaitingOK, StalledOK, PlacesOK, RecordsOK, CopiesOK,
        WorkOK, SourceOK, LinkOK, BudgetOK, Safe, IInv, RecordInv, FenceInv, CopyInv,
        PlaceInv, OperatorInv, CutoverInv, Promised, Unfencing, Undoing, Promoting,
        Completing, Undecided, BeforePromise, Limits, Making, Fencing

-----------------------------------------------------------------------------
\* At most one process is killed, the reads before the try of a cutover succeed, and
\* the queue has room for a job.
OneCrash ==
  /\ PrepareFails = FALSE /\ MaxJobs # 0
  /\ \A b \in Budgets : b["crashes"] \in {0, 1}

\* A job is given back by the queue at most once: there is no second crash.
StallInv ==
  /\ budget["crashes"] \in {0, 1}
  /\ \A j \in Job :
       /\ stalled[j] > 0 => j.stalls = 0 /\ budget["crashes"] = 0
       /\ waiting[j] > 0 /\ j.stalls = 1 => budget["crashes"] = 0
  /\ \A w \in Worker : pc[w] # "idle" /\ job[w].stalls = 1 => budget["crashes"] = 0
\* A delivery that may end without a successor works on a row outside CUTOVER.
AwayInv ==
  \A w \in Worker :
    \/ pc[w] \in Making \cup {"claim", "saveFailed"}
    \/ pc[w] \in Unfencing /\ why[w] = "aborted"
    => row.status # "CUTOVER"

HeldInv == StallInv /\ AwayInv /\ CutoverIsHeld

USE DEF OneCrash, StallInv, AwayInv, HeldInv, CutoverIsHeld

\* A job asked for is there, and no other job is touched.
LEMMA EnqueueHolds ==
  ASSUME TypeOK, NEW k \in Kind, Enqueue(k)
  PROVE  /\ NewJob(k) \in Job /\ NewJob(k).stalls = 0
         /\ MaxJobs # 0 => waiting'[NewJob(k)] > 0
         /\ \A j \in Job : j # NewJob(k) => waiting'[j] = waiting[j]
         /\ \A j \in Job : waiting[j] > 0 => waiting'[j] > 0
<1>1. NewJob(k) \in Job /\ NewJob(k).stalls = 0
  BY DEF NewJob, Job
<1> HIDE DEF Job, NewJob
<1> QED
  BY <1>1

\* Copying up to the streaming standby.
LEMMA WalkHeld ==
  ASSUME OneCrash, Limits, IInv, HeldInv, TypeOK', NEW w \in Worker,
         BuildLink(w) \/ Stream(w) \/ CopyFailed(w) \/ Teardown(w) \/ CopyFails(w)
  PROVE  HeldInv'
<1> USE DEF BuildLink, Stream, CopyFailed, Teardown, CopyFails
<1>1. StallInv'
  OBVIOUS
<1>2. AwayInv'
  OBVIOUS
<1>3. CutoverIsHeld'
  OBVIOUS
<1> QED
  BY <1>1, <1>2, <1>3

\* The transitions that name the statuses they leave.
LEMMA EnterHeld ==
  ASSUME OneCrash, Limits, IInv, HeldInv, TypeOK', NEW w \in Worker,
         Provision(w) \/ EnterReplicating(w) \/ Synced(w) \/ Claim(w)
  PROVE  HeldInv'
<1> USE DEF Provision, EnterReplicating, Synced, Claim
<1>1. StallInv'
  OBVIOUS
<1>2. AwayInv'
  OBVIOUS
<1>3. CutoverIsHeld'
  OBVIOUS
<1> QED
  BY <1>1, <1>2, <1>3

\* The saves of the whole row.
LEMMA SaveHeld ==
  ASSUME OneCrash, Limits, IInv, HeldInv, TypeOK', NEW w \in Worker,
         SaveStart(w) \/ SaveFailed(w) \/ CompleteSave(w)
  PROVE  HeldInv'
<1>1. CASE SaveStart(w)
  <2> USE <1>1 DEF SaveStart
  <2>1. StallInv'
    OBVIOUS
  <2>2. AwayInv'
    OBVIOUS
  <2>3. CutoverIsHeld'
    OBVIOUS
  <2> QED
    BY <2>1, <2>2, <2>3
<1>2. CASE SaveFailed(w)
  <2> USE <1>2 DEF SaveFailed
  <2>1. StallInv'
    OBVIOUS
  <2>2. AwayInv'
    OBVIOUS
  <2>3. CutoverIsHeld'
    OBVIOUS
  <2> QED
    BY <2>1, <2>2, <2>3
<1>3. CASE CompleteSave(w)
  <2> USE <1>3 DEF CompleteSave
  <2>1. StallInv'
    OBVIOUS
  <2>2. AwayInv'
    OBVIOUS
  <2>3. CutoverIsHeld'
    OBVIOUS
  <2> QED
    BY <2>1, <2>2, <2>3
<1> QED
  BY <1>1, <1>2, <1>3

\* A cutover up to its fence.
LEMMA PrepareHeld ==
  ASSUME OneCrash, Limits, IInv, HeldInv, TypeOK', NEW w \in Worker,
         Prepare(w) \/ Precheck(w) \/ CutoverFails(w) \/ FenceWrite(w) \/ FenceWriteFails(w)
  PROVE  HeldInv'
<1> USE DEF Prepare, Precheck, CutoverFails, FenceWrite, FenceWriteFails
<1>1. StallInv'
  OBVIOUS
<1>2. AwayInv'
  OBVIOUS
<1>3. CutoverIsHeld'
  OBVIOUS
<1> QED
  BY <1>1, <1>2, <1>3

\* The fence and the replay behind it.
LEMMA FenceHeld ==
  ASSUME OneCrash, Limits, IInv, HeldInv, TypeOK', NEW w \in Worker,
         FencePersist(w) \/ FenceReload(w) \/ Terminate(w) \/ Verify(w) \/ FenceLsn(w) \/
         Replay(w)
  PROVE  HeldInv'
<1> USE DEF FencePersist, FenceReload, Terminate, Verify, FenceLsn, Replay
<1>1. StallInv'
  OBVIOUS
<1>2. AwayInv'
  OBVIOUS
<1>3. CutoverIsHeld'
  OBVIOUS
<1> QED
  BY <1>1, <1>2, <1>3

\* The promise and the promote.
LEMMA PromoteHeld ==
  ASSUME OneCrash, Limits, IInv, HeldInv, TypeOK', NEW w \in Worker,
         ClaimPromote(w) \/ Promote(w) \/ PromoteFails(w) \/ PromoteFailed(w)
  PROVE  HeldInv'
<1> USE DEF ClaimPromote, Promote, PromoteFails, PromoteFailed
<1>1. StallInv'
  OBVIOUS
<1>2. AwayInv'
  OBVIOUS
<1>3. CutoverIsHeld'
  OBVIOUS
<1> QED
  BY <1>1, <1>2, <1>3

\* A cutover found, held or cleaned up.
LEMMA ResolveHeld ==
  ASSUME OneCrash, Limits, IInv, HeldInv, TypeOK', NEW w \in Worker,
         ResolveCutover(w) \/ HoldCutover(w) \/ Complete(w)
  PROVE  HeldInv'
<1> USE DEF ResolveCutover, HoldCutover, Complete
<1>1. CASE ResolveCutover(w) \/ Complete(w)
  <2>1. StallInv'
    BY <1>1
  <2>2. AwayInv'
    BY <1>1
  <2>3. CutoverIsHeld'
    BY <1>1
  <2> QED
    BY <2>1, <2>2, <2>3
<1>2. CASE HoldCutover(w)
  <2>1. Enqueue("cutover") /\ UNCHANGED <<row, stalled, job, why, budget>> /\ Done(w)
    BY <1>2
  <2>2. AwayInv'
    BY <1>2
  <2> HIDE DEF Enqueue, HoldCutover
  <2>3. StallInv'
    BY <2>1, EnqueueHolds
  <2>4. CutoverIsHeld'
    BY <2>1, EnqueueHolds
  <2> QED
    BY <2>2, <2>3, <2>4
<1> QED
  BY <1>1, <1>2

\* The fence let go.
LEMMA ReleaseHeld ==
  ASSUME OneCrash, Limits, IInv, HeldInv, TypeOK', NEW a \in Actor,
         Unfence(a) \/ UnfenceReload(a) \/ UnfenceFails(a) \/ UnfencePersist(a) \/ Left(a)
  PROVE  HeldInv'
<1> USE DEF Unfence, UnfenceReload, UnfenceFails, UnfencePersist, Left
<1>1. StallInv'
  OBVIOUS
<1>2. AwayInv'
  OBVIOUS
<1>3. CutoverIsHeld'
  OBVIOUS
<1> QED
  BY <1>1, <1>2, <1>3

\* A process killed.
LEMMA CrashHeld ==
  ASSUME OneCrash, Limits, IInv, HeldInv, TypeOK', NEW a \in Actor,
         Crash(a)
  PROVE  HeldInv'
<1> USE DEF Crash
<1>1. StallInv'
  <2>1. budget["crashes"] = 1 /\ budget'["crashes"] = 0
    OBVIOUS
  <2>2. \A j \in Job : stalled'[j] > 0 => j.stalls = 0
    <3>1. CASE a = Operator
      BY <3>1
    <3>2. CASE a \in Worker
      <4>1. job[a] \in Job /\ job[a].stalls = 0
        BY <2>1, <3>2 DEF Job
      <4> QED
        BY <3>2, <4>1
    <3> QED
      BY <3>1, <3>2
  <2> QED
    BY <2>1, <2>2
<1>2. AwayInv'
  OBVIOUS
<1>3. CutoverIsHeld'
  OBVIOUS
<1> QED
  BY <1>1, <1>2, <1>3

\* The operator's abort.
LEMMA AbortHeld ==
  ASSUME OneCrash, Limits, IInv, HeldInv, TypeOK',
         RequestAbort \/ AbortClaim \/ AbortTeardown \/ AbortLatest \/ AbortSave
  PROVE  HeldInv'
<1>1. CASE RequestAbort
  <2> USE <1>1 DEF RequestAbort
  <2>1. StallInv'
    OBVIOUS
  <2>2. AwayInv'
    OBVIOUS
  <2>3. CutoverIsHeld'
    OBVIOUS
  <2> QED
    BY <2>1, <2>2, <2>3
<1>2. CASE AbortClaim
  <2> USE <1>2 DEF AbortClaim
  <2>1. StallInv'
    OBVIOUS
  <2>2. AwayInv'
    OBVIOUS
  <2>3. CutoverIsHeld'
    OBVIOUS
  <2> QED
    BY <2>1, <2>2, <2>3
<1>3. CASE AbortTeardown
  <2> USE <1>3 DEF AbortTeardown
  <2>1. StallInv'
    OBVIOUS
  <2>2. AwayInv'
    OBVIOUS
  <2>3. CutoverIsHeld'
    OBVIOUS
  <2> QED
    BY <2>1, <2>2, <2>3
<1>4. CASE AbortLatest
  <2> USE <1>4 DEF AbortLatest
  <2>1. StallInv'
    OBVIOUS
  <2>2. AwayInv'
    OBVIOUS
  <2>3. CutoverIsHeld'
    OBVIOUS
  <2> QED
    BY <2>1, <2>2, <2>3
<1>5. CASE AbortSave
  <2> USE <1>5 DEF AbortSave
  <2>1. StallInv'
    OBVIOUS
  <2>2. AwayInv'
    OBVIOUS
  <2>3. CutoverIsHeld'
    OBVIOUS
  <2> QED
    BY <2>1, <2>2, <2>3
<1> QED
  BY <1>1, <1>2, <1>3, <1>4, <1>5

\* A job taken from the queue.
LEMMA DeliverHeld ==
  ASSUME OneCrash, Limits, IInv, HeldInv, TypeOK', NEW w \in Worker, NEW j \in Job,
         Deliver(w, j)
  PROVE  HeldInv'
<1> USE DEF Deliver
<1>1. StallInv'
  OBVIOUS
<1>2. AwayInv'
  OBVIOUS
<1>3. CutoverIsHeld'
  OBVIOUS
<1> QED
  BY <1>1, <1>2, <1>3

\* Jobs asked for.
LEMMA QueueHeld ==
  ASSUME OneCrash, Limits, IInv, HeldInv, TypeOK',
         RequestCutover \/ Recover
  PROVE  HeldInv'
<1> USE DEF RequestCutover, Recover
<1>1. UNCHANGED <<row, stalled, pc, job, why>> /\ budget'["crashes"] = budget["crashes"]
  OBVIOUS
<1>2. \/ Enqueue("run") \/ Enqueue("cutover")
      \/ UNCHANGED waiting /\ (Held \/ row.status # "CUTOVER")
  OBVIOUS
<1>3. AwayInv'
  BY <1>1
<1> HIDE DEF Enqueue, RequestCutover, Recover
<1>4. StallInv'
  BY <1>1, <1>2, EnqueueHolds
<1>5. CutoverIsHeld'
  BY <1>1, <1>2, EnqueueHolds
<1> QED
  BY <1>3, <1>4, <1>5

\* A stalled job given back.
LEMMA StallHeld ==
  ASSUME OneCrash, Limits, IInv, HeldInv, TypeOK', NEW j \in Job,
         StallCheck(j)
  PROVE  HeldInv'
<1> USE DEF StallCheck
<1>1. StallInv'
  OBVIOUS
<1>2. AwayInv'
  OBVIOUS
<1>3. CutoverIsHeld'
  OBVIOUS
<1> QED
  BY <1>1, <1>2, <1>3

\* Clients and the link.
LEMMA ClientHeld ==
  ASSUME OneCrash, Limits, IInv, HeldInv, TypeOK',
         Connect \/ Write \/ Ship \/ LoseSlot
  PROVE  HeldInv'
<1> USE DEF Connect, Write, Ship, LoseSlot
<1>1. StallInv'
  OBVIOUS
<1>2. AwayInv'
  OBVIOUS
<1>3. CutoverIsHeld'
  OBVIOUS
<1> QED
  BY <1>1, <1>2, <1>3

LEMMA NextHeld ==
  ASSUME OneCrash, Limits, IInv, HeldInv, [Next]_vars
  PROVE  HeldInv'
<1>1. TypeOK'
  BY NextType
<1>2. CASE UNCHANGED vars
  BY <1>2 DEF vars
<1> HIDE DEF Limits, TypeOK, Safe, HeldInv, OneCrash
<1>3. ASSUME NEW w \in Worker, Copy(w) \/ Fail(w)
      PROVE  HeldInv'
  BY <1>1, <1>3, WalkHeld, EnterHeld, SaveHeld, PrepareHeld, PromoteHeld DEF Copy, Fail
<1>4. ASSUME NEW w \in Worker, Cutover(w)
      PROVE  HeldInv'
  BY <1>1, <1>4, EnterHeld, SaveHeld, PrepareHeld, FenceHeld, PromoteHeld, ResolveHeld DEF Cutover
<1>5. ASSUME NEW w \in Worker, NEW j \in Job, Deliver(w, j)
      PROVE  HeldInv'
  BY <1>1, <1>5, DeliverHeld
<1>6. ASSUME NEW a \in Actor, Release(a) \/ UnfenceFails(a) \/ Crash(a)
      PROVE  HeldInv'
  BY <1>1, <1>6, ReleaseHeld, CrashHeld DEF Release
<1>7. CASE RequestAbort \/ Abort
  BY <1>1, <1>7, AbortHeld DEF Abort
<1>8. CASE RequestCutover \/ Recover \/ \E j \in Job : StallCheck(j)
  BY <1>1, <1>8, QueueHeld, StallHeld
<1>9. CASE Connect \/ Write \/ Ship \/ LoseSlot
  BY <1>1, <1>9, ClientHeld
<1> QED
  BY <1>1, <1>2, <1>3, <1>4, <1>5, <1>6, <1>7, <1>8, <1>9 DEF Next

\* A row in CUTOVER has somebody who will bring it out: a delivery, a job, a stalled
\* job that the queue gives back, or a starting copy that looks for orphans.
THEOREM CutoverHasAnOwner ==
  ASSUME Limits, OneCrash
  PROVE  Spec => []CutoverIsHeld
<1>1. Init => HeldInv
  BY DEF Init, NewJob, Job
<1>2. IInv /\ HeldInv /\ [Next]_vars => HeldInv'
  BY NextHeld
<1>3. HeldInv => CutoverIsHeld
  BY DEF HeldInv
<1> HIDE DEF IInv, HeldInv, CutoverIsHeld
<1> QED
  BY Inductive, <1>1, <1>2, <1>3, PTL DEF Spec

-----------------------------------------------------------------------------
\* No abort: what a delivery knows of the fence is what the row says, and a fence in
\* force is on record in a row that is still in the cutover.
Unaborted ==
  /\ budget["aborts"] = 0 /\ pc[Operator] = "idle" /\ row.status # "ABORTED"
  /\ fenced => row.fence.at = "applied" /\ row.status \in {"CUTOVER", "COMPLETED"}
  /\ hba => row.status \in {"SYNCED", "FAILED", "CUTOVER", "COMPLETED"}
  /\ \A w \in Worker :
       /\ pc[w] # "idle" => mig[w] = row.fence
       /\ pc[w] \in Making => row.status \in {"PENDING", "PROVISIONING", "REPLICATING"}
       /\ pc[w] = "saveFailed" => row.status \in {"PENDING", "PROVISIONING", "REPLICATING", "FAILED"}
       /\ pc[w] \in (Cutting \ {"claim"}) \cup Unfencing => row.status = "CUTOVER"
       /\ pc[w] = "fenceReload" => mig[w].at = "applied"
       /\ pc[w] \in {"unfenceReload", "unfencePersist"} => ~hba
       /\ pc[w] \in {"unfencePersist", "left"} => ~fenced

HIDE DEF Held
USE DEF Unaborted, Making, Fencing

\* Copying up to the streaming standby.
LEMMA WalkUnaborted ==
  ASSUME Limits, IInv, Unaborted, TypeOK', NEW w \in Worker,
         BuildLink(w) \/ Stream(w) \/ CopyFailed(w) \/ Teardown(w) \/ CopyFails(w)
  PROVE  Unaborted'
BY DEF BuildLink, Stream, CopyFailed, Teardown, CopyFails

\* The transitions that name the statuses they leave.
LEMMA EnterUnaborted ==
  ASSUME Limits, IInv, Unaborted, TypeOK', NEW w \in Worker,
         Provision(w) \/ EnterReplicating(w) \/ Synced(w) \/ Claim(w)
  PROVE  Unaborted'
BY DEF Provision, EnterReplicating, Synced, Claim

\* The saves of the whole row.
LEMMA SaveUnaborted ==
  ASSUME Limits, IInv, Unaborted, TypeOK', NEW w \in Worker,
         SaveStart(w) \/ SaveFailed(w) \/ CompleteSave(w)
  PROVE  Unaborted'
<1>1. CASE SaveStart(w)
  BY <1>1 DEF SaveStart
<1>2. CASE SaveFailed(w)
  BY <1>2 DEF SaveFailed
<1>3. CASE CompleteSave(w)
  BY <1>3 DEF CompleteSave
<1> QED
  BY <1>1, <1>2, <1>3

\* A cutover up to its fence.
LEMMA PrepareUnaborted ==
  ASSUME Limits, IInv, Unaborted, TypeOK', NEW w \in Worker,
         Prepare(w) \/ Precheck(w) \/ CutoverFails(w) \/ FenceWrite(w) \/ FenceWriteFails(w)
  PROVE  Unaborted'
BY DEF Prepare, Precheck, CutoverFails, FenceWrite, FenceWriteFails

\* The fence and the replay behind it.
LEMMA FenceUnaborted ==
  ASSUME Limits, IInv, Unaborted, TypeOK', NEW w \in Worker,
         FencePersist(w) \/ FenceReload(w) \/ Terminate(w) \/ Verify(w) \/ FenceLsn(w) \/
         Replay(w)
  PROVE  Unaborted'
BY DEF FencePersist, FenceReload, Terminate, Verify, FenceLsn, Replay

\* The promise and the promote.
LEMMA PromoteUnaborted ==
  ASSUME Limits, IInv, Unaborted, TypeOK', NEW w \in Worker,
         ClaimPromote(w) \/ Promote(w) \/ PromoteFails(w) \/ PromoteFailed(w)
  PROVE  Unaborted'
BY DEF ClaimPromote, Promote, PromoteFails, PromoteFailed

\* A cutover found, held or cleaned up.
LEMMA ResolveUnaborted ==
  ASSUME Limits, IInv, Unaborted, TypeOK', NEW w \in Worker,
         ResolveCutover(w) \/ HoldCutover(w) \/ Complete(w)
  PROVE  Unaborted'
BY DEF ResolveCutover, HoldCutover, Complete

\* The fence let go.
LEMMA ReleaseUnaborted ==
  ASSUME Limits, IInv, Unaborted, TypeOK', NEW a \in Actor,
         Unfence(a) \/ UnfenceReload(a) \/ UnfenceFails(a) \/ UnfencePersist(a) \/ Left(a)
  PROVE  Unaborted'
BY DEF Unfence, UnfenceReload, UnfenceFails, UnfencePersist, Left

\* A process killed.
LEMMA CrashUnaborted ==
  ASSUME Limits, IInv, Unaborted, TypeOK', NEW a \in Actor,
         Crash(a)
  PROVE  Unaborted'
BY DEF Crash

\* The operator's abort.
LEMMA AbortUnaborted ==
  ASSUME Limits, IInv, Unaborted, TypeOK',
         RequestAbort \/ AbortClaim \/ AbortTeardown \/ AbortLatest \/ AbortSave
  PROVE  Unaborted'
BY DEF RequestAbort, AbortClaim, AbortTeardown, AbortLatest, AbortSave

\* A job taken from the queue.
LEMMA DeliverUnaborted ==
  ASSUME Limits, IInv, Unaborted, TypeOK', NEW w \in Worker, NEW j \in Job,
         Deliver(w, j)
  PROVE  Unaborted'
BY DEF Deliver

\* Jobs asked for.
LEMMA QueueUnaborted ==
  ASSUME Limits, IInv, Unaborted, TypeOK',
         RequestCutover \/ Recover
  PROVE  Unaborted'
BY DEF RequestCutover, Recover

\* A stalled job given back.
LEMMA StallUnaborted ==
  ASSUME Limits, IInv, Unaborted, TypeOK', NEW j \in Job,
         StallCheck(j)
  PROVE  Unaborted'
BY DEF StallCheck

\* Clients and the link.
LEMMA ClientUnaborted ==
  ASSUME Limits, IInv, Unaborted, TypeOK',
         Connect \/ Write \/ Ship \/ LoseSlot
  PROVE  Unaborted'
BY DEF Connect, Write, Ship, LoseSlot

LEMMA NextUnaborted ==
  ASSUME Limits, IInv, Unaborted, [Next]_vars
  PROVE  Unaborted'
<1>1. TypeOK'
  BY NextType
<1>2. CASE UNCHANGED vars
  BY <1>2 DEF vars
<1> HIDE DEF Limits, TypeOK, Safe, Unaborted
<1>3. ASSUME NEW w \in Worker, Copy(w) \/ Fail(w)
      PROVE  Unaborted'
  BY <1>1, <1>3, WalkUnaborted, EnterUnaborted, SaveUnaborted, PrepareUnaborted,
     PromoteUnaborted DEF Copy, Fail
<1>4. ASSUME NEW w \in Worker, Cutover(w)
      PROVE  Unaborted'
  BY <1>1, <1>4, EnterUnaborted, SaveUnaborted, PrepareUnaborted, FenceUnaborted,
     PromoteUnaborted, ResolveUnaborted DEF Cutover
<1>5. ASSUME NEW w \in Worker, NEW j \in Job, Deliver(w, j)
      PROVE  Unaborted'
  BY <1>1, <1>5, DeliverUnaborted
<1>6. ASSUME NEW a \in Actor, Release(a) \/ UnfenceFails(a) \/ Crash(a)
      PROVE  Unaborted'
  BY <1>1, <1>6, ReleaseUnaborted, CrashUnaborted DEF Release
<1>7. CASE RequestAbort \/ Abort
  BY <1>1, <1>7, AbortUnaborted DEF Abort
<1>8. CASE RequestCutover \/ Recover \/ \E j \in Job : StallCheck(j)
  BY <1>1, <1>8, QueueUnaborted, StallUnaborted
<1>9. CASE Connect \/ Write \/ Ship \/ LoseSlot
  BY <1>1, <1>9, ClientUnaborted
<1> QED
  BY <1>1, <1>2, <1>3, <1>4, <1>5, <1>6, <1>7, <1>8, <1>9 DEF Next

-----------------------------------------------------------------------------
\* No failure and no crash: whoever put the fence up is there to take it away.
Unfailing ==
  /\ budget["failures"] = 0 /\ budget["crashes"] = 0
  /\ hba => Promised \/ \E w \in Worker : pc[w] \in Fencing
  /\ fenced => Promised \/ \E w \in Worker : pc[w] \in Fencing \cup {"unfenceReload"}
  /\ \A w \in Worker : pc[w] \in Fencing \ {"fencePersist"} /\ (hba \/ fenced \/ pc[w] # "unfence") =>
       mig[w].at = "applied"

HIDE DEF Unaborted
USE DEF Unfailing

\* Copying up to the streaming standby.
LEMMA WalkUnfailing ==
  ASSUME Limits, IInv, Unfailing, TypeOK', NEW w \in Worker,
         BuildLink(w) \/ Stream(w) \/ CopyFailed(w) \/ Teardown(w) \/ CopyFails(w)
  PROVE  Unfailing'
BY DEF BuildLink, Stream, CopyFailed, Teardown, CopyFails

\* The transitions that name the statuses they leave.
LEMMA EnterUnfailing ==
  ASSUME Limits, IInv, Unfailing, TypeOK', NEW w \in Worker,
         Provision(w) \/ EnterReplicating(w) \/ Synced(w) \/ Claim(w)
  PROVE  Unfailing'
BY DEF Provision, EnterReplicating, Synced, Claim

\* The saves of the whole row.
LEMMA SaveUnfailing ==
  ASSUME Limits, IInv, Unfailing, TypeOK', NEW w \in Worker,
         SaveStart(w) \/ SaveFailed(w) \/ CompleteSave(w)
  PROVE  Unfailing'
<1>1. CASE SaveStart(w)
  BY <1>1 DEF SaveStart
<1>2. CASE SaveFailed(w)
  BY <1>2 DEF SaveFailed
<1>3. CASE CompleteSave(w)
  BY <1>3 DEF CompleteSave
<1> QED
  BY <1>1, <1>2, <1>3

\* A cutover up to its fence.
LEMMA PrepareUnfailing ==
  ASSUME Limits, IInv, Unfailing, TypeOK', NEW w \in Worker,
         Prepare(w) \/ Precheck(w) \/ CutoverFails(w) \/ FenceWrite(w) \/ FenceWriteFails(w)
  PROVE  Unfailing'
BY DEF Prepare, Precheck, CutoverFails, FenceWrite, FenceWriteFails

\* The fence and the replay behind it.
LEMMA FenceUnfailing ==
  ASSUME Limits, IInv, Unfailing, TypeOK', NEW w \in Worker,
         FencePersist(w) \/ FenceReload(w) \/ Terminate(w) \/ Verify(w) \/ FenceLsn(w) \/
         Replay(w)
  PROVE  Unfailing'
BY DEF FencePersist, FenceReload, Terminate, Verify, FenceLsn, Replay

\* The promise and the promote.
LEMMA PromoteUnfailing ==
  ASSUME Limits, IInv, Unfailing, TypeOK', NEW w \in Worker,
         ClaimPromote(w) \/ Promote(w) \/ PromoteFails(w) \/ PromoteFailed(w)
  PROVE  Unfailing'
BY DEF ClaimPromote, Promote, PromoteFails, PromoteFailed

\* A cutover found, held or cleaned up.
LEMMA ResolveUnfailing ==
  ASSUME Limits, IInv, Unfailing, TypeOK', NEW w \in Worker,
         ResolveCutover(w) \/ HoldCutover(w) \/ Complete(w)
  PROVE  Unfailing'
BY DEF ResolveCutover, HoldCutover, Complete

\* The fence let go.
LEMMA ReleaseUnfailing ==
  ASSUME Limits, IInv, Unfailing, TypeOK', NEW a \in Actor,
         Unfence(a) \/ UnfenceReload(a) \/ UnfenceFails(a) \/ UnfencePersist(a) \/ Left(a)
  PROVE  Unfailing'
BY DEF Unfence, UnfenceReload, UnfenceFails, UnfencePersist, Left

\* A process killed.
LEMMA CrashUnfailing ==
  ASSUME Limits, IInv, Unfailing, TypeOK', NEW a \in Actor,
         Crash(a)
  PROVE  Unfailing'
BY DEF Crash

\* The operator's abort.
LEMMA AbortUnfailing ==
  ASSUME Limits, IInv, Unfailing, TypeOK',
         RequestAbort \/ AbortClaim \/ AbortTeardown \/ AbortLatest \/ AbortSave
  PROVE  Unfailing'
BY DEF RequestAbort, AbortClaim, AbortTeardown, AbortLatest, AbortSave

\* A job taken from the queue.
LEMMA DeliverUnfailing ==
  ASSUME Limits, IInv, Unfailing, TypeOK', NEW w \in Worker, NEW j \in Job,
         Deliver(w, j)
  PROVE  Unfailing'
BY DEF Deliver

\* Jobs asked for.
LEMMA QueueUnfailing ==
  ASSUME Limits, IInv, Unfailing, TypeOK',
         RequestCutover \/ Recover
  PROVE  Unfailing'
BY DEF RequestCutover, Recover

\* A stalled job given back.
LEMMA StallUnfailing ==
  ASSUME Limits, IInv, Unfailing, TypeOK', NEW j \in Job,
         StallCheck(j)
  PROVE  Unfailing'
BY DEF StallCheck

\* Clients and the link.
LEMMA ClientUnfailing ==
  ASSUME Limits, IInv, Unfailing, TypeOK',
         Connect \/ Write \/ Ship \/ LoseSlot
  PROVE  Unfailing'
BY DEF Connect, Write, Ship, LoseSlot

LEMMA NextUnfailing ==
  ASSUME Limits, IInv, Unfailing, [Next]_vars
  PROVE  Unfailing'
<1>1. TypeOK'
  BY NextType
<1>2. CASE UNCHANGED vars
  BY <1>2 DEF vars
<1> HIDE DEF Limits, TypeOK, Safe, Unfailing
<1>3. ASSUME NEW w \in Worker, Copy(w) \/ Fail(w)
      PROVE  Unfailing'
  BY <1>1, <1>3, WalkUnfailing, EnterUnfailing, SaveUnfailing, PrepareUnfailing,
     PromoteUnfailing DEF Copy, Fail
<1>4. ASSUME NEW w \in Worker, Cutover(w)
      PROVE  Unfailing'
  BY <1>1, <1>4, EnterUnfailing, SaveUnfailing, PrepareUnfailing, FenceUnfailing,
     PromoteUnfailing, ResolveUnfailing DEF Cutover
<1>5. ASSUME NEW w \in Worker, NEW j \in Job, Deliver(w, j)
      PROVE  Unfailing'
  BY <1>1, <1>5, DeliverUnfailing
<1>6. ASSUME NEW a \in Actor, Release(a) \/ UnfenceFails(a) \/ Crash(a)
      PROVE  Unfailing'
  BY <1>1, <1>6, ReleaseUnfailing, CrashUnfailing DEF Release
<1>7. CASE RequestAbort \/ Abort
  BY <1>1, <1>7, AbortUnfailing DEF Abort
<1>8. CASE RequestCutover \/ Recover \/ \E j \in Job : StallCheck(j)
  BY <1>1, <1>8, QueueUnfailing, StallUnfailing
<1>9. CASE Connect \/ Write \/ Ship \/ LoseSlot
  BY <1>1, <1>9, ClientUnfailing
<1> QED
  BY <1>1, <1>2, <1>3, <1>4, <1>5, <1>6, <1>7, <1>8, <1>9 DEF Next

-----------------------------------------------------------------------------
\* Aborts, or failures and crashes, but not both: an abort that failed is not tried
\* again.
AbortOrFail ==
  \A b \in Budgets : b["aborts"] = 0 \/ (b["failures"] = 0 /\ b["crashes"] = 0)

\* Whatever ended before the promote, the source takes writes again.
THEOREM SourceIsOpenAgain ==
  ASSUME Limits, AbortOrFail
  PROVE  Spec => []SourceServesAgain
<1>1. Init => Unaborted \/ Unfailing
  BY DEF Init, AbortOrFail, Unaborted
<1>2. IInv /\ (Unaborted \/ Unfailing) /\ [Next]_vars => (Unaborted \/ Unfailing)'
  <2> HIDE DEF Unaborted, Unfailing, IInv
  <2> QED
    BY NextUnaborted, NextUnfailing
<1>3. IInv /\ (Unaborted \/ Unfailing) => SourceServesAgain
  BY DEF SourceServesAgain, Settled, Held, Unaborted
<1> HIDE DEF IInv, Unaborted, Unfailing
<1> QED
  BY Inductive, <1>1, <1>2, <1>3, PTL DEF Spec

-----------------------------------------------------------------------------
\* Aborts or failures, but not both: a failure noted late may be written over an
\* abort.
AbortOrNoFailure == \A b \in Budgets : b["aborts"] = 0 \/ b["failures"] = 0

\* An aborted migration stays aborted, whoever dies and however late a delivery or a
\* second abort comes.
THEOREM AbortStaysFinal ==
  ASSUME Limits, AbortOrNoFailure
  PROVE  Spec => AbortIsFinal
<1>1. Init => Unaborted \/ CalmInv
  BY DEF Init, AbortOrNoFailure, Unaborted, CalmInv
<1>2. IInv /\ (Unaborted \/ CalmInv) /\ [Next]_vars =>
        (Unaborted \/ CalmInv)' /\ [AbortStays]_vars
  <2>1. Unaborted => AbortStays
    BY DEF Unaborted, AbortStays
  <2> HIDE DEF Unaborted, CalmInv, IInv, AbortStays, Limits
  <2> QED
    BY <2>1, NextUnaborted, NextCalm
<1>3. AbortIsFinal <=> [][AbortStays]_vars
  BY DEF AbortIsFinal, AbortStays
<1> HIDE DEF IInv, Unaborted, CalmInv, AbortStays
<1> QED
  BY Inductive, <1>1, <1>2, <1>3, PTL DEF Spec
=============================================================================
