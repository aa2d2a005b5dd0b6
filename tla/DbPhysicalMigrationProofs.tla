---------------------- MODULE DbPhysicalMigrationProofs ----------------------
(***************************************************************************)
(* With one delivery processed at a time, the destination is promoted only *)
(* when the promote is on record, the source is fenced and every write it  *)
(* accepted is there, whatever fails, dies, is lost or is asked, and       *)
(* however often.  The same invariant shows the refinement of              *)
(* WriterHandover and of DbLeg.  Where no call fails, nothing is written   *)
(* over an abort (NextCalm, which DbWritePauseProofs takes up).            *)
(***************************************************************************)
EXTENDS DbPhysicalMigration, TLAPS

\* One delivery at a time, and no abort between the first read of a run and its save.
Limits == (\A v, w \in Worker : v = w) /\ AbortAtStart = FALSE

Promised == row.fence.promoteIssued
Unfencing == {"unfence", "unfenceReload", "unfencePersist", "left"}
Undoing == {"abortTeardown", "abortLatest", "abortSave"} \cup Unfencing
Promoting == {"promote", "promoteFailed", "promoteAgain"}
Completing == {"complete", "completeSave"}
Undecided == {"idle", "saveStart", "resolve", "hold"}
BeforePromise == PC \ (Undecided \cup Promoting \cup Completing)

\* The row, the record of the promote and the destination agree.
RecordInv ==
  /\ Promised => row.status \in {"CUTOVER", "COMPLETED"}
  /\ row.status = "COMPLETED" => dst = "primary"
  /\ dst = "primary" => Promised
\* Past the promise, the fence stands, nobody is connected, nothing is missing.
FenceInv ==
  /\ replayed <= written
  /\ Promised => hba /\ fenced /\ ~sessions /\ replayed = written
\* A worker's copy of the row is behind it in nothing that decides.
CopyInv ==
  /\ \A w \in Worker : pc[w] # "idle" => mig[w].promoteIssued = Promised
  /\ \A w \in Worker : pc[w] = "saveStart" =>
       row.status = seen[w] \/ (seen[w] = "FAILED" /\ row.status = "ABORTED")
\* What a worker knows from where it stands.
PlaceInv ==
  /\ \A w \in Worker : pc[w] \in Promoting => Promised
  /\ \A w \in Worker : pc[w] \in Completing => dst = "primary"
  /\ \A w \in Worker : pc[w] \in BeforePromise => ~Promised
  /\ \A w \in Worker : pc[w] \notin Aborting
  /\ \A w \in Worker : pc[w] \in Unfencing => why[w] \in {"rollback", "slotLost", "aborted"}
\* The operator undoes only what the claim of the abort took out of the cutover.
OperatorInv ==
  /\ pc[Operator] \in {"idle", "abortClaim"} \cup Undoing
  /\ pc[Operator] = "abortClaim" => (mig[Operator].promoteIssued => Promised)
  /\ pc[Operator] \in Undoing =>
       row.status \in {"ABORTED", "FAILED"} /\ ~mig[Operator].promoteIssued
  /\ pc[Operator] \in Unfencing => why[Operator] \in {"abort", "abortLatest"}
\* While the row stays in CUTOVER, what the cutover established so far holds.
CutoverInv ==
  row.status = "CUTOVER" => \A w \in Worker :
    /\ pc[w] \in {"fencePersist", "fenceReload"} => hba
    /\ pc[w] \in {"terminate", "verify"} => hba /\ fenced
    /\ pc[w] \in {"fenceLsn", "replay", "claimPromote"} => hba /\ fenced /\ ~sessions
    /\ pc[w] = "replay" => lsn[w] = written
    /\ pc[w] = "claimPromote" => replayed = written

Safe == RecordInv /\ FenceInv /\ CopyInv /\ PlaceInv /\ OperatorInv /\ CutoverInv
IInv == TypeOK /\ Safe

\* The parts of TypeOK, for the steps of its proof.
RowOK == row \in [mode : {"AUTO", "MANUAL"}, status : Status, fence : Fence]
WaitingOK == waiting \in [Job -> Nat]
StalledOK == stalled \in [Job -> Nat]
PlacesOK == pc \in [Actor -> PC]
RecordsOK == mig \in [Actor -> Fence]
CopiesOK == seen \in [Actor -> Status] /\ why \in [Actor -> Reason]
WorkOK == job \in [Worker -> Job] /\ lsn \in [Worker -> Nat]
SourceOK == {hba, fenced, sessions, boot} \subseteq BOOLEAN
LinkOK == /\ link \in {"none", "open", "streaming", "lost", "torn"}
          /\ dst \in {"standby", "primary"} /\ written \in Nat /\ replayed \in Nat
BudgetOK == budget \in Budget

-----------------------------------------------------------------------------
\* What every leaf below may expand: the vocabulary of the module and the parts
\* of the two invariants.
USE ActorAssumption, BoundAssumption
    DEF rowVars, localVars, srcVars, dbVars, Go, Done, Spend, Enqueue, Move, Save, Actor,
        Kind, Status, Fence, NoFence, Copying, Cutting, Leaving, Aborting, PC,
        Reason, NoJobs, Budget, LetFenceGo, TearDownLink, Enter, InCutover, AfterStart,
        RunIsHeld, Held, TypeOK, RowOK, WaitingOK, StalledOK, PlacesOK, RecordsOK, CopiesOK,
        WorkOK, SourceOK, LinkOK, BudgetOK, Safe, IInv, RecordInv, FenceInv, CopyInv,
        PlaceInv, OperatorInv, CutoverInv, Promised, Unfencing, Undoing, Promoting,
        Completing, Undecided, BeforePromise, Limits

\* A job asked for again leaves the queue well-formed.
LEMMA EnqueueType ==
  ASSUME TypeOK, NEW k \in Kind, Enqueue(k)
  PROVE  WaitingOK'
<1> DEFINE n == IF waiting[NewJob(k)] < MaxJobs THEN waiting[NewJob(k)] + 1 ELSE waiting[NewJob(k)]
<1>1. NewJob(k) \in Job
  BY DEF Job, NewJob
<1>2. n \in Nat
  BY <1>1
<1>3. waiting' = [waiting EXCEPT ![NewJob(k)] = n]
  OBVIOUS
<1> HIDE DEF n
<1> QED
  BY <1>1, <1>2, <1>3

\* One actor's record is replaced by another.
LEMMA PutRecord ==
  ASSUME NEW f \in Fence, NEW a \in Actor, mig \in [Actor -> Fence], mig' = [mig EXCEPT ![a] = f]
  PROVE  RecordsOK'
<1> HIDE DEF Fence, Actor
<1> QED
  OBVIOUS

\* The promote is noted in a worker's record.
LEMMA PromiseType ==
  ASSUME TypeOK, NEW w \in Worker, mig' = [mig EXCEPT ![w].promoteIssued = TRUE]
  PROVE  RecordsOK'
<1> DEFINE asked == [mig[w] EXCEPT !.promoteIssued = TRUE]
<1>1. mig[w] \in Fence
  OBVIOUS
<1>2. asked \in Fence
  BY <1>1
<1>3. mig' = [mig EXCEPT ![w] = asked]
  OBVIOUS
<1>4. w \in Actor /\ mig \in [Actor -> Fence]
  OBVIOUS
<1> HIDE DEF asked, Fence
<1> QED
  BY <1>2, <1>3, <1>4, PutRecord

-----------------------------------------------------------------------------
\* Every step keeps the types, for any number of workers.

LEMMA WalkType ==
  ASSUME TypeOK, NEW w \in Worker,
         BuildLink(w) \/ Stream(w) \/ CopyFailed(w) \/ Teardown(w) \/ CopyFails(w)
  PROVE  TypeOK'
<1> USE DEF BuildLink, Stream, CopyFailed, Teardown, CopyFails
<1>1. RowOK'
  OBVIOUS
<1>2. WaitingOK' /\ StalledOK' /\ WorkOK'
  OBVIOUS
<1>3. PlacesOK'
  OBVIOUS
<1>4. RecordsOK' /\ CopiesOK'
  OBVIOUS
<1>5. SourceOK' /\ LinkOK' /\ BudgetOK'
  OBVIOUS
<1> QED
  BY <1>1, <1>2, <1>3, <1>4, <1>5

LEMMA EnterType ==
  ASSUME TypeOK, NEW w \in Worker,
         Provision(w) \/ EnterReplicating(w) \/ Synced(w) \/ Claim(w)
  PROVE  TypeOK'
<1> USE DEF Provision, EnterReplicating, Synced, Claim
<1>1. RowOK'
  OBVIOUS
<1>2. WaitingOK' /\ StalledOK' /\ WorkOK'
  OBVIOUS
<1>3. PlacesOK'
  OBVIOUS
<1>4. RecordsOK'
  OBVIOUS
<1>5. CopiesOK'
  OBVIOUS
<1>6. SourceOK' /\ LinkOK' /\ BudgetOK'
  OBVIOUS
<1> QED
  BY <1>1, <1>2, <1>3, <1>4, <1>5, <1>6

LEMMA SaveType ==
  ASSUME TypeOK, NEW w \in Worker,
         SaveStart(w) \/ SaveFailed(w)
  PROVE  TypeOK'
<1> USE DEF SaveStart, SaveFailed
<1>1. RowOK'
  <2>1. CASE SaveStart(w)
    BY <2>1
  <2>2. CASE SaveFailed(w)
    BY <2>2
  <2> QED
    BY <2>1, <2>2
<1>2. WaitingOK' /\ StalledOK' /\ WorkOK'
  OBVIOUS
<1>3. PlacesOK'
  OBVIOUS
<1>4. RecordsOK' /\ CopiesOK'
  OBVIOUS
<1>5. SourceOK' /\ LinkOK' /\ BudgetOK'
  OBVIOUS
<1> QED
  BY <1>1, <1>2, <1>3, <1>4, <1>5

LEMMA PrepareType ==
  ASSUME TypeOK, NEW w \in Worker,
         Prepare(w) \/ Precheck(w) \/ CutoverFails(w) \/ FenceWrite(w) \/
         FenceWriteFails(w)
  PROVE  TypeOK'
<1> USE DEF Prepare, Precheck, CutoverFails, FenceWrite, FenceWriteFails
<1>1. RowOK'
  OBVIOUS
<1>2. WaitingOK' /\ StalledOK' /\ WorkOK'
  OBVIOUS
<1>3. PlacesOK'
  OBVIOUS
<1>4. RecordsOK' /\ CopiesOK'
  OBVIOUS
<1>5. SourceOK'
  OBVIOUS
<1>6. LinkOK'
  OBVIOUS
<1>7. BudgetOK'
  OBVIOUS
<1> QED
  BY <1>1, <1>2, <1>3, <1>4, <1>5, <1>6, <1>7

LEMMA FenceType ==
  ASSUME TypeOK, NEW w \in Worker,
         FenceReload(w) \/ Terminate(w) \/ Verify(w) \/ FenceLsn(w) \/ Replay(w)
  PROVE  TypeOK'
<1> USE DEF FenceReload, Terminate, Verify, FenceLsn, Replay
<1>1. RowOK'
  OBVIOUS
<1>2. WaitingOK' /\ StalledOK' /\ WorkOK'
  OBVIOUS
<1>3. PlacesOK'
  OBVIOUS
<1>4. RecordsOK' /\ CopiesOK'
  OBVIOUS
<1>5. SourceOK' /\ LinkOK' /\ BudgetOK'
  OBVIOUS
<1> QED
  BY <1>1, <1>2, <1>3, <1>4, <1>5

LEMMA FencePersistType ==
  ASSUME TypeOK, NEW w \in Worker,
         FencePersist(w)
  PROVE  TypeOK'
<1> USE DEF FencePersist
<1>1. RowOK'
  <2>1. mig'[w] \in Fence
    OBVIOUS
  <2> QED
    BY <2>1
<1>2. WaitingOK' /\ StalledOK' /\ WorkOK'
  OBVIOUS
<1>3. PlacesOK'
  OBVIOUS
<1>4. RecordsOK' /\ CopiesOK'
  OBVIOUS
<1>5. SourceOK' /\ LinkOK' /\ BudgetOK'
  OBVIOUS
<1> QED
  BY <1>1, <1>2, <1>3, <1>4, <1>5

LEMMA ClaimPromoteType ==
  ASSUME TypeOK, NEW w \in Worker,
         ClaimPromote(w)
  PROVE  TypeOK'
<1> USE DEF ClaimPromote
<1>1. RowOK'
  <2>1. RecordsOK'
    BY PromiseType
  <2>2. mig'[w] \in Fence
    BY <2>1
  <2> QED
    BY <2>2
<1>2. WaitingOK' /\ StalledOK' /\ WorkOK'
  OBVIOUS
<1>3. PlacesOK'
  OBVIOUS
<1>4. CopiesOK'
  OBVIOUS
<1>5. RecordsOK'
  BY PromiseType
<1>6. SourceOK' /\ LinkOK' /\ BudgetOK'
  OBVIOUS
<1> QED
  BY <1>1, <1>2, <1>3, <1>4, <1>5, <1>6

LEMMA PromoteType ==
  ASSUME TypeOK, NEW w \in Worker,
         Promote(w) \/ PromoteFails(w) \/ PromoteFailed(w) \/ ResolveCutover(w)
  PROVE  TypeOK'
<1> USE DEF Promote, PromoteFails, PromoteFailed, ResolveCutover
<1>1. RowOK'
  OBVIOUS
<1>2. WaitingOK' /\ StalledOK' /\ WorkOK'
  OBVIOUS
<1>3. PlacesOK'
  OBVIOUS
<1>4. RecordsOK' /\ CopiesOK'
  OBVIOUS
<1>5. SourceOK' /\ LinkOK' /\ BudgetOK'
  OBVIOUS
<1> QED
  BY <1>1, <1>2, <1>3, <1>4, <1>5

LEMMA HoldType ==
  ASSUME TypeOK, NEW w \in Worker,
         HoldCutover(w)
  PROVE  TypeOK'
<1> USE DEF HoldCutover
<1>1. RowOK'
  OBVIOUS
<1>2. StalledOK' /\ WorkOK'
  OBVIOUS
<1>3. WaitingOK'
  BY EnqueueType
<1>4. PlacesOK'
  OBVIOUS
<1>5. RecordsOK' /\ CopiesOK'
  OBVIOUS
<1>6. SourceOK' /\ LinkOK' /\ BudgetOK'
  OBVIOUS
<1> QED
  BY <1>1, <1>2, <1>3, <1>4, <1>5, <1>6

LEMMA CompleteType ==
  ASSUME TypeOK, NEW w \in Worker,
         Complete(w) \/ CompleteSave(w)
  PROVE  TypeOK'
<1> USE DEF Complete, CompleteSave
<1>1. RowOK'
  <2>1. CASE Complete(w)
    BY <2>1
  <2>2. CASE CompleteSave(w)
    BY <2>2
  <2> QED
    BY <2>1, <2>2
<1>2. WaitingOK' /\ StalledOK' /\ WorkOK'
  OBVIOUS
<1>3. PlacesOK'
  OBVIOUS
<1>4. RecordsOK' /\ CopiesOK'
  OBVIOUS
<1>5. SourceOK' /\ LinkOK' /\ BudgetOK'
  OBVIOUS
<1> QED
  BY <1>1, <1>2, <1>3, <1>4, <1>5

LEMMA ReleaseType ==
  ASSUME TypeOK, NEW a \in Actor,
         Unfence(a) \/ UnfenceReload(a) \/ UnfenceFails(a) \/ UnfencePersist(a) \/
         Left(a)
  PROVE  TypeOK'
<1> USE DEF Unfence, UnfenceReload, UnfenceFails, UnfencePersist, Left
<1>1. RowOK'
  OBVIOUS
<1>2. WaitingOK' /\ StalledOK' /\ WorkOK'
  OBVIOUS
<1>3. PlacesOK'
  OBVIOUS
<1>4. RecordsOK' /\ CopiesOK'
  OBVIOUS
<1>5. SourceOK'
  OBVIOUS
<1>6. LinkOK'
  OBVIOUS
<1>7. BudgetOK'
  OBVIOUS
<1> QED
  BY <1>1, <1>2, <1>3, <1>4, <1>5, <1>6, <1>7

LEMMA AbortType ==
  ASSUME TypeOK,
         RequestAbort \/ AbortClaim \/ AbortTeardown \/ AbortLatest
  PROVE  TypeOK'
<1> USE DEF RequestAbort, AbortClaim, AbortTeardown, AbortLatest
<1>1. RowOK'
  OBVIOUS
<1>2. WaitingOK' /\ StalledOK' /\ WorkOK'
  OBVIOUS
<1>3. PlacesOK'
  OBVIOUS
<1>4. RecordsOK' /\ CopiesOK'
  OBVIOUS
<1>5. SourceOK' /\ LinkOK' /\ BudgetOK'
  OBVIOUS
<1> QED
  BY <1>1, <1>2, <1>3, <1>4, <1>5

LEMMA AbortSaveType ==
  ASSUME TypeOK,
         AbortSave
  PROVE  TypeOK'
<1> USE DEF AbortSave
<1>1. RowOK'
  OBVIOUS
<1>2. WaitingOK' /\ StalledOK' /\ WorkOK'
  OBVIOUS
<1>3. PlacesOK'
  OBVIOUS
<1>4. RecordsOK' /\ CopiesOK'
  OBVIOUS
<1>5. SourceOK' /\ LinkOK' /\ BudgetOK'
  OBVIOUS
<1> QED
  BY <1>1, <1>2, <1>3, <1>4, <1>5

LEMMA CrashType ==
  ASSUME TypeOK, NEW a \in Actor,
         Crash(a)
  PROVE  TypeOK'
<1> USE DEF Crash
<1>1. RowOK'
  OBVIOUS
<1>2. WaitingOK' /\ WorkOK'
  OBVIOUS
<1>3. StalledOK'
  <2>1. a = Operator \/ job[a] \in Job
    OBVIOUS
  <2> QED
    BY <2>1
<1>4. PlacesOK'
  OBVIOUS
<1>5. RecordsOK' /\ CopiesOK'
  OBVIOUS
<1>6. SourceOK' /\ LinkOK' /\ BudgetOK'
  OBVIOUS
<1> QED
  BY <1>1, <1>2, <1>3, <1>4, <1>5, <1>6

LEMMA DeliverType ==
  ASSUME TypeOK, NEW w \in Worker, NEW j \in Job,
         Deliver(w, j)
  PROVE  TypeOK'
<1> USE DEF Deliver
<1>1. RowOK'
  OBVIOUS
<1>2. StalledOK' /\ WorkOK'
  OBVIOUS
<1>3. WaitingOK'
  <2>1. waiting[j] - 1 \in Nat
    OBVIOUS
  <2> QED
    BY <2>1
<1>4. PlacesOK'
  OBVIOUS
<1>5. RecordsOK' /\ CopiesOK'
  OBVIOUS
<1>6. SourceOK' /\ LinkOK' /\ BudgetOK'
  OBVIOUS
<1> QED
  BY <1>1, <1>2, <1>3, <1>4, <1>5, <1>6

LEMMA StallType ==
  ASSUME TypeOK, NEW j \in Job,
         StallCheck(j)
  PROVE  TypeOK'
<1> USE DEF StallCheck
<1>1. RowOK'
  OBVIOUS
<1>2. WorkOK'
  OBVIOUS
<1>3. WaitingOK'
  <2> DEFINE k == [j EXCEPT !.stalls = 1]
  <2>1. k \in Job
    BY DEF Job
  <2>2. UNCHANGED waiting \/ waiting' = [waiting EXCEPT ![k] = waiting[k] + 1]
    OBVIOUS
  <2>3. waiting[k] + 1 \in Nat
    BY <2>1
  <2> HIDE DEF k
  <2> QED
    BY <2>1, <2>2, <2>3
<1>4. StalledOK'
  <2>1. stalled[j] - 1 \in Nat
    OBVIOUS
  <2> QED
    BY <2>1
<1>5. PlacesOK'
  OBVIOUS
<1>6. RecordsOK' /\ CopiesOK'
  OBVIOUS
<1>7. SourceOK' /\ LinkOK' /\ BudgetOK'
  OBVIOUS
<1> QED
  BY <1>1, <1>2, <1>3, <1>4, <1>5, <1>6, <1>7

LEMMA RequestType ==
  ASSUME TypeOK,
         RequestCutover \/ Recover
  PROVE  TypeOK'
<1> USE DEF RequestCutover, Recover
<1>1. RowOK'
  OBVIOUS
<1>2. StalledOK' /\ WorkOK'
  OBVIOUS
<1>3. WaitingOK'
  BY EnqueueType
<1>4. PlacesOK'
  OBVIOUS
<1>5. RecordsOK' /\ CopiesOK'
  OBVIOUS
<1>6. SourceOK'
  OBVIOUS
<1>7. LinkOK'
  OBVIOUS
<1>8. BudgetOK'
  OBVIOUS
<1> QED
  BY <1>1, <1>2, <1>3, <1>4, <1>5, <1>6, <1>7, <1>8

LEMMA ClientType ==
  ASSUME TypeOK,
         Connect \/ Write \/ Ship \/ LoseSlot
  PROVE  TypeOK'
<1> USE DEF Connect, Write, Ship, LoseSlot
<1>1. RowOK'
  OBVIOUS
<1>2. WaitingOK' /\ StalledOK' /\ WorkOK'
  OBVIOUS
<1>3. PlacesOK'
  OBVIOUS
<1>4. RecordsOK' /\ CopiesOK'
  OBVIOUS
<1>5. SourceOK'
  OBVIOUS
<1>6. LinkOK'
  OBVIOUS
<1>7. BudgetOK'
  OBVIOUS
<1> QED
  BY <1>1, <1>2, <1>3, <1>4, <1>5, <1>6, <1>7

LEMMA NextType ==
  ASSUME TypeOK, [Next]_vars
  PROVE  TypeOK'
<1>1. CASE UNCHANGED vars
  BY <1>1 DEF vars
<1>2. ASSUME NEW w \in Worker, Copy(w)
      PROVE  TypeOK'
  BY <1>2, WalkType, EnterType, SaveType DEF Copy
<1>3. ASSUME NEW w \in Worker, Cutover(w)
      PROVE  TypeOK'
  BY <1>3, EnterType, PrepareType, FenceType, FencePersistType, ClaimPromoteType,
     PromoteType, HoldType, CompleteType DEF Cutover
<1>4. ASSUME NEW w \in Worker, Fail(w)
      PROVE  TypeOK'
  BY <1>4, WalkType, PrepareType, PromoteType DEF Fail
<1>5. ASSUME NEW w \in Worker, NEW j \in Job, Deliver(w, j)
      PROVE  TypeOK'
  BY <1>5, DeliverType
<1>6. ASSUME NEW a \in Actor, Release(a) \/ UnfenceFails(a) \/ Crash(a)
      PROVE  TypeOK'
  BY <1>6, ReleaseType, CrashType DEF Release
<1>7. CASE RequestAbort \/ Abort
  BY <1>7, AbortType, AbortSaveType DEF Abort
<1>8. CASE RequestCutover \/ Recover \/ \E j \in Job : StallCheck(j)
  BY <1>8, RequestType, StallType
<1>9. CASE Connect \/ Write \/ Ship \/ LoseSlot
  BY <1>9, ClientType
<1> QED
  BY <1>1, <1>2, <1>3, <1>4, <1>5, <1>6, <1>7, <1>8, <1>9 DEF Next

LEMMA InitType ==
  ASSUME Init
  PROVE  TypeOK
<1> USE DEF Init
<1>1. RowOK
  <2>1. PICK m \in CutoverModes : row = [mode |-> m, status |-> "PENDING", fence |-> NoFence]
    OBVIOUS
  <2>2. m \in {"AUTO", "MANUAL"}
    OBVIOUS
  <2> QED
    BY <2>1, <2>2
<1>2. WaitingOK /\ StalledOK
  BY DEF NewJob, Job
<1>3. PlacesOK /\ RecordsOK /\ CopiesOK
  OBVIOUS
<1>4. WorkOK
  BY DEF NewJob, Job
<1>5. SourceOK /\ LinkOK /\ BudgetOK
  OBVIOUS
<1> QED
  BY <1>1, <1>2, <1>3, <1>4, <1>5

\* Every variable keeps its type, for any workers, budgets and options.
THEOREM TypeCorrect == Spec => []TypeOK
<1>1. TypeOK /\ [Next]_vars => TypeOK'
  BY NextType
<1> QED
  BY InitType, <1>1, PTL DEF Spec

-----------------------------------------------------------------------------
\* One delivery at a time: every step keeps what the cutover relies on.

\* Copying happens before the promise, where the fence may come and go.
LEMMA WalkSafe ==
  ASSUME Limits, IInv, TypeOK', NEW w \in Worker,
         BuildLink(w) \/ Stream(w) \/ CopyFailed(w) \/ Teardown(w) \/ CopyFails(w)
  PROVE  Safe'
<1> USE DEF BuildLink, Stream, CopyFailed, Teardown, CopyFails
<1>1. RecordInv' /\ FenceInv'
  OBVIOUS
<1>2. CopyInv' /\ PlaceInv'
  OBVIOUS
<1>3. OperatorInv' /\ CutoverInv'
  OBVIOUS
<1> QED
  BY <1>1, <1>2, <1>3

\* A transition names the statuses it leaves, none of them past the promise.
LEMMA EnterSafe ==
  ASSUME Limits, IInv, TypeOK', NEW w \in Worker,
         Provision(w) \/ EnterReplicating(w) \/ Synced(w) \/ Claim(w)
  PROVE  Safe'
<1> USE DEF Provision, EnterReplicating, Synced, Claim
<1>1. RecordInv' /\ FenceInv'
  OBVIOUS
<1>2. CopyInv' /\ PlaceInv'
  OBVIOUS
<1>3. OperatorInv' /\ CutoverInv'
  OBVIOUS
<1> QED
  BY <1>1, <1>2, <1>3

\* The whole row is saved as it was read, which no cutover changed meanwhile.
LEMMA SaveStartSafe ==
  ASSUME Limits, IInv, TypeOK', NEW w \in Worker,
         SaveStart(w)
  PROVE  Safe'
<1> USE DEF SaveStart
<1>1. RecordInv' /\ FenceInv'
  OBVIOUS
<1>2. CopyInv' /\ PlaceInv'
  OBVIOUS
<1>3. OperatorInv' /\ CutoverInv'
  OBVIOUS
<1> QED
  BY <1>1, <1>2, <1>3

\* A run that fails has promised nothing.
LEMMA SaveFailedSafe ==
  ASSUME Limits, IInv, TypeOK', NEW w \in Worker,
         SaveFailed(w)
  PROVE  Safe'
<1> USE DEF SaveFailed
<1>1. RecordInv' /\ FenceInv'
  OBVIOUS
<1>2. CopyInv' /\ PlaceInv'
  OBVIOUS
<1>3. OperatorInv' /\ CutoverInv'
  OBVIOUS
<1> QED
  BY <1>1, <1>2, <1>3

\* Up to the fence, a cutover can fall back.
LEMMA PrepareSafe ==
  ASSUME Limits, IInv, TypeOK', NEW w \in Worker,
         Prepare(w) \/ Precheck(w) \/ CutoverFails(w) \/ FenceWrite(w) \/
         FenceWriteFails(w)
  PROVE  Safe'
<1> USE DEF Prepare, Precheck, CutoverFails, FenceWrite, FenceWriteFails
<1>1. RecordInv' /\ FenceInv'
  OBVIOUS
<1>2. CopyInv' /\ PlaceInv'
  OBVIOUS
<1>3. OperatorInv' /\ CutoverInv'
  OBVIOUS
<1> QED
  BY <1>1, <1>2, <1>3

\* The record of the fence says that nothing is promised, which is true.
LEMMA FencePersistSafe ==
  ASSUME Limits, IInv, TypeOK', NEW w \in Worker,
         FencePersist(w)
  PROVE  Safe'
<1> USE DEF FencePersist
<1>1. RecordInv' /\ FenceInv'
  OBVIOUS
<1>2. PlaceInv'
  OBVIOUS
<1>3. CopyInv'
  <2>1. \A v \in Worker : v = w
    OBVIOUS
  <2>2. mig'[w].promoteIssued = FALSE /\ row'.fence = mig'[w] /\ pc'[w] = "fenceReload"
    OBVIOUS
  <2> HIDE DEF FencePersist, IInv, TypeOK
  <2> QED
    BY <2>1, <2>2
<1>4. OperatorInv' /\ CutoverInv'
  OBVIOUS
<1> QED
  BY <1>1, <1>2, <1>3, <1>4

\* The fence takes effect, then the sessions end.
LEMMA FenceSafe ==
  ASSUME Limits, IInv, TypeOK', NEW w \in Worker,
         FenceReload(w) \/ Terminate(w)
  PROVE  Safe'
<1> USE DEF FenceReload, Terminate
<1>1. RecordInv' /\ FenceInv'
  OBVIOUS
<1>2. CopyInv' /\ PlaceInv'
  OBVIOUS
<1>3. OperatorInv' /\ CutoverInv'
  OBVIOUS
<1> QED
  BY <1>1, <1>2, <1>3

\* The position is read once nobody writes.
LEMMA VerifySafe ==
  ASSUME Limits, IInv, TypeOK', NEW w \in Worker,
         Verify(w) \/ FenceLsn(w)
  PROVE  Safe'
<1> USE DEF Verify, FenceLsn
<1>1. RecordInv' /\ FenceInv'
  OBVIOUS
<1>2. CopyInv' /\ PlaceInv'
  OBVIOUS
<1>3. OperatorInv' /\ CutoverInv'
  OBVIOUS
<1> QED
  BY <1>1, <1>2, <1>3

\* The destination holds everything up to that position.
LEMMA ReplaySafe ==
  ASSUME Limits, IInv, TypeOK', NEW w \in Worker,
         Replay(w)
  PROVE  Safe'
<1> USE DEF Replay
<1>1. RecordInv' /\ FenceInv'
  OBVIOUS
<1>2. CopyInv' /\ PlaceInv'
  OBVIOUS
<1>3. OperatorInv' /\ CutoverInv'
  OBVIOUS
<1> QED
  BY <1>1, <1>2, <1>3

\* The promise is made behind a fence that stands, with nothing missing.
LEMMA ClaimPromoteSafe ==
  ASSUME Limits, IInv, TypeOK', NEW w \in Worker,
         ClaimPromote(w)
  PROVE  Safe'
<1> USE DEF ClaimPromote
<1>1. RecordInv' /\ FenceInv'
  OBVIOUS
<1>2. CopyInv' /\ PlaceInv'
  OBVIOUS
<1>3. OperatorInv' /\ CutoverInv'
  OBVIOUS
<1> QED
  BY <1>1, <1>2, <1>3

\* Only a promise leads to the promote.
LEMMA PromoteSafe ==
  ASSUME Limits, IInv, TypeOK', NEW w \in Worker,
         Promote(w) \/ PromoteFails(w) \/ PromoteFailed(w)
  PROVE  Safe'
<1> USE DEF Promote, PromoteFails, PromoteFailed
<1>1. RecordInv' /\ FenceInv'
  OBVIOUS
<1>2. CopyInv' /\ PlaceInv'
  OBVIOUS
<1>3. OperatorInv' /\ CutoverInv'
  OBVIOUS
<1> QED
  BY <1>1, <1>2, <1>3

\* A delivery that finds a cutover looks at the record and the destination.
LEMMA ResolveSafe ==
  ASSUME Limits, IInv, TypeOK', NEW w \in Worker,
         ResolveCutover(w) \/ HoldCutover(w)
  PROVE  Safe'
<1> USE DEF ResolveCutover, HoldCutover
<1>1. RecordInv' /\ FenceInv'
  OBVIOUS
<1>2. CopyInv' /\ PlaceInv'
  OBVIOUS
<1>3. OperatorInv' /\ CutoverInv'
  OBVIOUS
<1> QED
  BY <1>1, <1>2, <1>3

\* The cleanup leaves the source fenced.
LEMMA CompleteSafe ==
  ASSUME Limits, IInv, TypeOK', NEW w \in Worker,
         Complete(w)
  PROVE  Safe'
<1> USE DEF Complete
<1>1. RecordInv' /\ FenceInv'
  OBVIOUS
<1>2. CopyInv' /\ PlaceInv'
  OBVIOUS
<1>3. OperatorInv' /\ CutoverInv'
  OBVIOUS
<1> QED
  BY <1>1, <1>2, <1>3

\* Only a promoted destination completes the row.
LEMMA CompleteSaveSafe ==
  ASSUME Limits, IInv, TypeOK', NEW w \in Worker,
         CompleteSave(w)
  PROVE  Safe'
<1> USE DEF CompleteSave
<1>1. RecordInv' /\ FenceInv'
  OBVIOUS
<1>2. CopyInv' /\ PlaceInv'
  OBVIOUS
<1>3. OperatorInv' /\ CutoverInv'
  OBVIOUS
<1> QED
  BY <1>1, <1>2, <1>3

\* The fence goes only before the promise, or out of a cutover.
LEMMA UnfenceSafe ==
  ASSUME Limits, IInv, TypeOK', NEW a \in Actor,
         Unfence(a) \/ UnfenceReload(a) \/ UnfenceFails(a)
  PROVE  Safe'
<1> USE DEF Unfence, UnfenceReload, UnfenceFails
<1>1. RecordInv' /\ FenceInv'
  OBVIOUS
<1>2. CopyInv' /\ PlaceInv'
  OBVIOUS
<1>3. OperatorInv' /\ CutoverInv'
  OBVIOUS
<1> QED
  BY <1>1, <1>2, <1>3

\* Without its fence, the row leaves CUTOVER unless it left already.
LEMMA LeftSafe ==
  ASSUME Limits, IInv, TypeOK', NEW a \in Actor,
         UnfencePersist(a) \/ Left(a)
  PROVE  Safe'
<1> USE DEF UnfencePersist, Left
<1>1. RecordInv' /\ FenceInv'
  OBVIOUS
<1>2. CopyInv' /\ PlaceInv'
  OBVIOUS
<1>3. OperatorInv' /\ CutoverInv'
  OBVIOUS
<1> QED
  BY <1>1, <1>2, <1>3

\* The claim of the abort and the promise exclude each other.
LEMMA RequestAbortSafe ==
  ASSUME Limits, IInv, TypeOK',
         RequestAbort \/ AbortClaim
  PROVE  Safe'
<1> USE DEF RequestAbort, AbortClaim
<1>1. RecordInv' /\ FenceInv'
  OBVIOUS
<1>2. CopyInv' /\ PlaceInv'
  OBVIOUS
<1>3. OperatorInv' /\ CutoverInv'
  OBVIOUS
<1> QED
  BY <1>1, <1>2, <1>3

\* An abort in progress holds a row that promised nothing.
LEMMA AbortTeardownSafe ==
  ASSUME Limits, IInv, TypeOK',
         AbortTeardown
  PROVE  Safe'
<1> USE DEF AbortTeardown
<1>1. RecordInv' /\ FenceInv'
  OBVIOUS
<1>2. CopyInv' /\ PlaceInv'
  OBVIOUS
<1>3. OperatorInv' /\ CutoverInv'
  OBVIOUS
<1> QED
  BY <1>1, <1>2, <1>3

LEMMA AbortLatestSafe ==
  ASSUME Limits, IInv, TypeOK',
         AbortLatest
  PROVE  Safe'
<1> USE DEF AbortLatest
<1>1. RecordInv' /\ FenceInv'
  OBVIOUS
<1>2. CopyInv' /\ PlaceInv'
  OBVIOUS
<1>3. OperatorInv' /\ CutoverInv'
  OBVIOUS
<1> QED
  BY <1>1, <1>2, <1>3

LEMMA AbortSaveSafe ==
  ASSUME Limits, IInv, TypeOK',
         AbortSave
  PROVE  Safe'
<1> USE DEF AbortSave
<1>1. RecordInv' /\ FenceInv'
  OBVIOUS
<1>2. CopyInv' /\ PlaceInv'
  OBVIOUS
<1>3. OperatorInv' /\ CutoverInv'
  OBVIOUS
<1> QED
  BY <1>1, <1>2, <1>3

\* A dying process changes nothing outside it, and a delivery reads it all again.
LEMMA CrashSafe ==
  ASSUME Limits, IInv, TypeOK', NEW a \in Actor,
         Crash(a)
  PROVE  Safe'
<1> USE DEF Crash
<1>1. RecordInv' /\ FenceInv'
  OBVIOUS
<1>2. CopyInv' /\ PlaceInv'
  OBVIOUS
<1>3. OperatorInv' /\ CutoverInv'
  OBVIOUS
<1> QED
  BY <1>1, <1>2, <1>3

LEMMA DeliverSafe ==
  ASSUME Limits, IInv, TypeOK', NEW w \in Worker, NEW j \in Job,
         Deliver(w, j)
  PROVE  Safe'
<1> USE DEF Deliver
<1>1. RecordInv' /\ FenceInv'
  OBVIOUS
<1>2. CopyInv' /\ PlaceInv'
  OBVIOUS
<1>3. OperatorInv' /\ CutoverInv'
  OBVIOUS
<1> QED
  BY <1>1, <1>2, <1>3

\* The queue and the recovery touch no row.
LEMMA RequestCutoverSafe ==
  ASSUME Limits, IInv, TypeOK',
         RequestCutover
  PROVE  Safe'
<1> USE DEF RequestCutover
<1>1. RecordInv' /\ FenceInv'
  OBVIOUS
<1>2. CopyInv' /\ PlaceInv'
  OBVIOUS
<1>3. OperatorInv' /\ CutoverInv'
  OBVIOUS
<1> QED
  BY <1>1, <1>2, <1>3

LEMMA RecoverSafe ==
  ASSUME Limits, IInv, TypeOK',
         Recover
  PROVE  Safe'
<1> USE DEF Recover
<1>1. RecordInv' /\ FenceInv'
  OBVIOUS
<1>2. CopyInv' /\ PlaceInv'
  OBVIOUS
<1>3. OperatorInv' /\ CutoverInv'
  OBVIOUS
<1> QED
  BY <1>1, <1>2, <1>3

LEMMA StallSafe ==
  ASSUME Limits, IInv, TypeOK', NEW j \in Job,
         StallCheck(j)
  PROVE  Safe'
<1> USE DEF StallCheck
<1>1. RecordInv' /\ FenceInv'
  OBVIOUS
<1>2. CopyInv' /\ PlaceInv'
  OBVIOUS
<1>3. OperatorInv' /\ CutoverInv'
  OBVIOUS
<1> QED
  BY <1>1, <1>2, <1>3

\* Clients come only where there is no fence, so never past the promise.
LEMMA ClientSafe ==
  ASSUME Limits, IInv, TypeOK',
         Connect \/ Write \/ Ship \/ LoseSlot
  PROVE  Safe'
<1> USE DEF Connect, Write, Ship, LoseSlot
<1>1. RecordInv' /\ FenceInv'
  OBVIOUS
<1>2. CopyInv' /\ PlaceInv'
  OBVIOUS
<1>3. OperatorInv' /\ CutoverInv'
  OBVIOUS
<1> QED
  BY <1>1, <1>2, <1>3

LEMMA InitSafe == Init => Safe
BY DEF Init

LEMMA NextSafe ==
  ASSUME Limits, IInv, [Next]_vars
  PROVE  IInv'
<1>1. TypeOK'
  BY NextType
<1>2. CASE UNCHANGED vars
  BY <1>1, <1>2 DEF vars
<1> HIDE DEF Limits, TypeOK, Safe
<1>3. ASSUME NEW w \in Worker, Copy(w)
      PROVE  Safe'
  BY <1>1, <1>3, WalkSafe, EnterSafe, SaveStartSafe, SaveFailedSafe DEF Copy
<1>4. ASSUME NEW w \in Worker, Cutover(w)
      PROVE  Safe'
  BY <1>1, <1>4, EnterSafe, PrepareSafe, FencePersistSafe, FenceSafe, VerifySafe, ReplaySafe,
     ClaimPromoteSafe, PromoteSafe, ResolveSafe, CompleteSafe, CompleteSaveSafe DEF Cutover
<1>5. ASSUME NEW w \in Worker, Fail(w)
      PROVE  Safe'
  BY <1>1, <1>5, WalkSafe, PrepareSafe, PromoteSafe DEF Fail
<1>6. ASSUME NEW w \in Worker, NEW j \in Job, Deliver(w, j)
      PROVE  Safe'
  BY <1>1, <1>6, DeliverSafe
<1>7. ASSUME NEW a \in Actor, Release(a) \/ UnfenceFails(a) \/ Crash(a)
      PROVE  Safe'
  BY <1>1, <1>7, UnfenceSafe, LeftSafe, CrashSafe DEF Release
<1>8. CASE RequestAbort \/ Abort
  BY <1>1, <1>8, RequestAbortSafe, AbortTeardownSafe, AbortLatestSafe, AbortSaveSafe DEF Abort
<1>9. CASE RequestCutover \/ Recover \/ \E j \in Job : StallCheck(j)
  BY <1>1, <1>9, RequestCutoverSafe, RecoverSafe, StallSafe
<1>10. CASE Connect \/ Write \/ Ship \/ LoseSlot
  BY <1>1, <1>10, ClientSafe
<1> QED
  BY <1>1, <1>2, <1>3, <1>4, <1>5, <1>6, <1>7, <1>8, <1>9, <1>10 DEF Next

LEMMA Inductive ==
  ASSUME Limits
  PROVE  Spec => []IInv
<1>1. Init => IInv
  BY InitType, InitSafe
<1>2. IInv /\ [Next]_vars => IInv'
  BY NextSafe
<1> HIDE DEF IInv
<1> QED
  BY <1>1, <1>2, PTL DEF Spec

\* Whatever fails, dies or gets lost, however often, and whatever is asked: a
\* promoted destination has the promote on record, in a row that stays in the
\* cutover until it is completed.
THEOREM PromoteOnRecord ==
  ASSUME Limits
  PROVE  Spec => []PromoteIsRecorded
<1>1. IInv => PromoteIsRecorded
  BY DEF PromoteIsRecorded
<1> HIDE DEF IInv
<1> QED
  BY Inductive, <1>1, PTL

-----------------------------------------------------------------------------
\* Seen by its clients, every step is one of WriterHandover or none.

\* Only four steps promote the destination or count a write.
LEMMA FewHandOver ==
  ASSUME [Next]_vars
  PROVE  \/ UNCHANGED <<dst, written, replayed>>
         \/ Write \/ Ship
         \/ \E w \in Worker : Promote(w) \/ PromoteFails(w)
<1> HIDE DEF Enter, TypeOK, Save, Move, Spend, Go
<1>1. CASE UNCHANGED vars
  BY <1>1 DEF vars
<1>2. ASSUME NEW w \in Worker, Copy(w)
      PROVE  UNCHANGED <<dst, written, replayed>>
  BY <1>2 DEF Copy, SaveStart, Provision, BuildLink, EnterReplicating, Stream, Synced,
              CopyFailed, Teardown, SaveFailed
<1>3. ASSUME NEW w \in Worker, Cutover(w) \/ Fail(w), ~Promote(w), ~PromoteFails(w)
      PROVE  UNCHANGED <<dst, written, replayed>>
  BY <1>3 DEF Cutover, Claim, Prepare, Precheck, FenceWrite, FencePersist, FenceReload,
              Terminate, Verify, FenceLsn, Replay, ClaimPromote, PromoteFailed,
              ResolveCutover, HoldCutover, Complete, CompleteSave, Fail, CopyFails,
              CutoverFails, FenceWriteFails
<1>4. ASSUME NEW w \in Worker, NEW j \in Job, Deliver(w, j)
      PROVE  UNCHANGED <<dst, written, replayed>>
  BY <1>4 DEF Deliver
<1>5. ASSUME NEW a \in Actor, Release(a) \/ UnfenceFails(a) \/ Crash(a)
      PROVE  UNCHANGED <<dst, written, replayed>>
  BY <1>5 DEF Release, Unfence, UnfenceReload, UnfencePersist, Left, UnfenceFails, Crash
<1>6. CASE RequestCutover \/ RequestAbort \/ Abort \/ Recover \/ \E j \in Job : StallCheck(j)
  BY <1>6 DEF RequestCutover, RequestAbort, Abort, AbortClaim, AbortTeardown, AbortLatest,
              AbortSave, Recover, StallCheck
<1>7. CASE Connect \/ LoseSlot
  BY <1>7 DEF Connect, LoseSlot
<1> QED
  BY <1>1, <1>2, <1>3, <1>4, <1>5, <1>6, <1>7 DEF Next

Writer == IF dst = "primary" /\ SourceWritable THEN "both"
          ELSE IF dst = "primary" THEN "destination"
          ELSE IF SourceWritable THEN "source" ELSE "nobody"

\* Who takes writes, by what the databases are.
LEMMA WriterIs ==
  ASSUME IInv
  PROVE  /\ dst = "primary" => Writer = "destination" /\ replayed = written
         /\ dst = "standby" /\ SourceWritable => Writer = "source"
         /\ dst = "standby" /\ ~SourceWritable => Writer = "nobody"
         /\ dst \in {"primary", "standby"}
BY DEF Writer, SourceWritable

LEMMA HandoverInit ==
  ASSUME Init
  PROVE  Handover!Init
BY DEF Init, Handover!Init, SourceWritable

LEMMA HandoverNext ==
  ASSUME IInv, IInv', [Next]_vars
  PROVE  [Handover!Next]_(Handover!vars)
<1> USE DEF Handover!Next, Handover!vars, Handover!Write, Handover!Copy, Handover!Pause,
            Handover!Resume, Handover!HandOver
<1>1. CASE UNCHANGED <<dst, written, replayed>>
  BY <1>1, WriterIs DEF Writer, SourceWritable
<1>2. CASE Write
  <2>1. dst = "standby" /\ SourceWritable /\ UNCHANGED <<dst, hba, fenced, sessions>>
    BY <1>2 DEF Write, SourceWritable
  <2> QED
    BY <1>2, <2>1 DEF Write, SourceWritable
<1>3. CASE Ship
  BY <1>3 DEF Ship, SourceWritable
<1>4. ASSUME NEW w \in Worker, Promote(w) \/ PromoteFails(w)
      PROVE  [Handover!Next]_(Handover!vars)
  <2>1. UNCHANGED <<written, replayed, hba, fenced, sessions>>
    BY <1>4 DEF Promote, PromoteFails
  <2>2. pc[w] \in Promoting /\ dst' \in {dst, "primary"}
    BY <1>4 DEF Promote, PromoteFails
  <2>3. ~SourceWritable /\ replayed = written
    BY <2>2 DEF SourceWritable
  <2>4. ~SourceWritable'
    BY <2>1, <2>3 DEF SourceWritable
  <2> QED
    BY <2>1, <2>2, <2>3, <2>4
<1> QED
  BY <1>1, <1>2, <1>3, <1>4, FewHandOver

\* Seen by its clients, the migration hands the writes over exactly once and
\* loses none, whatever fails, dies or gets lost on the way.
THEOREM ImplementsHandover ==
  ASSUME Limits
  PROVE  Spec => HandsOverOnce
<1>1. Init => Handover!Init
  BY HandoverInit
<1>2. IInv /\ IInv' /\ [Next]_vars => [Handover!Next]_(Handover!vars)
  BY HandoverNext
<1> HIDE DEF IInv
<1> QED
  BY Inductive, <1>1, <1>2, PTL DEF Spec, HandsOverOnce, Handover!Spec

-----------------------------------------------------------------------------
\* Seen by a full migration, every step is one of DbLeg or none.

USE DEF Promise!Next, Promise!leg, Promise!Copy, Promise!Fail, Promise!Enter,
        Promise!FallBack, Promise!Ask, Promise!Promote, Promise!Complete, Promise!Abort,
        Promise!BeforeCutover

LEMMA WalkLeg ==
  ASSUME Limits, IInv, IInv', NEW w \in Worker,
         BuildLink(w) \/ Stream(w) \/ CopyFailed(w) \/ Teardown(w) \/ CopyFails(w) \/
         Prepare(w) \/ Precheck(w)
  PROVE  [Promise!Next]_(Promise!leg)
BY DEF BuildLink, Stream, CopyFailed, Teardown, CopyFails, Prepare, Precheck

LEMMA CutoverLeg ==
  ASSUME Limits, IInv, IInv', NEW w \in Worker,
         CutoverFails(w) \/ FenceWrite(w) \/ FenceWriteFails(w) \/ FenceReload(w) \/
         Terminate(w) \/ Verify(w) \/ FenceLsn(w) \/ Replay(w)
  PROVE  [Promise!Next]_(Promise!leg)
BY DEF CutoverFails, FenceWrite, FenceWriteFails, FenceReload, Terminate, Verify, FenceLsn,
   Replay

LEMMA ResolveLeg ==
  ASSUME Limits, IInv, IInv', NEW w \in Worker,
         PromoteFailed(w) \/ ResolveCutover(w) \/ HoldCutover(w) \/ Complete(w)
  PROVE  [Promise!Next]_(Promise!leg)
BY DEF PromoteFailed, ResolveCutover, HoldCutover, Complete

LEMMA EnterLeg ==
  ASSUME Limits, IInv, IInv', NEW w \in Worker,
         Provision(w) \/ EnterReplicating(w) \/ Synced(w) \/ Claim(w)
  PROVE  [Promise!Next]_(Promise!leg)
BY DEF Provision, EnterReplicating, Synced, Claim

\* A save writes what the row says, or what a step before the promise may write.
LEMMA SaveLeg ==
  ASSUME Limits, IInv, IInv', NEW w \in Worker,
         SaveStart(w) \/ SaveFailed(w) \/ CompleteSave(w)
  PROVE  [Promise!Next]_(Promise!leg)
<1>1. CASE SaveStart(w)
  <2>1. mig[w].promoteIssued = Promised /\ row' = [row EXCEPT !.status = seen[w], !.fence = mig[w]]
    BY <1>1 DEF SaveStart
  <2>2. pc[w] = "saveStart" /\ UNCHANGED dst
    BY <1>1 DEF SaveStart
  <2>3. row.status = seen[w] \/ (seen[w] = "FAILED" /\ row.status = "ABORTED" /\ ~Promised)
    BY <2>2
  <2>4. row'.status = seen[w] /\ Promised' = Promised
    BY <2>1
  <2> QED
    BY <2>2, <2>3, <2>4
<1>2. CASE SaveFailed(w)
  BY <1>2 DEF SaveFailed
<1>3. CASE CompleteSave(w)
  BY <1>3 DEF CompleteSave
<1> QED
  BY <1>1, <1>2, <1>3

LEMMA FencePersistLeg ==
  ASSUME Limits, IInv, IInv', NEW w \in Worker,
         FencePersist(w)
  PROVE  [Promise!Next]_(Promise!leg)
BY DEF FencePersist

LEMMA ClaimPromoteLeg ==
  ASSUME Limits, IInv, IInv', NEW w \in Worker,
         ClaimPromote(w)
  PROVE  [Promise!Next]_(Promise!leg)
BY DEF ClaimPromote

LEMMA PromoteLeg ==
  ASSUME Limits, IInv, IInv', NEW w \in Worker,
         Promote(w) \/ PromoteFails(w)
  PROVE  [Promise!Next]_(Promise!leg)
BY DEF Promote, PromoteFails

LEMMA UnfenceLeg ==
  ASSUME Limits, IInv, IInv', NEW a \in Actor,
         Unfence(a) \/ UnfenceReload(a) \/ UnfenceFails(a) \/ Crash(a)
  PROVE  [Promise!Next]_(Promise!leg)
BY DEF Unfence, UnfenceReload, UnfenceFails, Crash

LEMMA UnfencePersistLeg ==
  ASSUME Limits, IInv, IInv', NEW a \in Actor,
         UnfencePersist(a)
  PROVE  [Promise!Next]_(Promise!leg)
BY DEF UnfencePersist

LEMMA LeftLeg ==
  ASSUME Limits, IInv, IInv', NEW a \in Actor,
         Left(a)
  PROVE  [Promise!Next]_(Promise!leg)
BY DEF Left

LEMMA AbortLeg ==
  ASSUME Limits, IInv, IInv',
         RequestAbort \/ AbortTeardown \/ AbortLatest
  PROVE  [Promise!Next]_(Promise!leg)
BY DEF RequestAbort, AbortTeardown, AbortLatest

LEMMA AbortClaimLeg ==
  ASSUME Limits, IInv, IInv',
         AbortClaim
  PROVE  [Promise!Next]_(Promise!leg)
BY DEF AbortClaim

LEMMA AbortSaveLeg ==
  ASSUME Limits, IInv, IInv',
         AbortSave
  PROVE  [Promise!Next]_(Promise!leg)
BY DEF AbortSave

LEMMA DeliverLeg ==
  ASSUME Limits, IInv, IInv', NEW w \in Worker, NEW j \in Job,
         Deliver(w, j)
  PROVE  [Promise!Next]_(Promise!leg)
BY DEF Deliver

LEMMA QueueLeg ==
  ASSUME Limits, IInv, IInv',
         RequestCutover \/ Recover
  PROVE  [Promise!Next]_(Promise!leg)
BY DEF RequestCutover, Recover

LEMMA StallLeg ==
  ASSUME Limits, IInv, IInv', NEW j \in Job,
         StallCheck(j)
  PROVE  [Promise!Next]_(Promise!leg)
BY DEF StallCheck

LEMMA ClientLeg ==
  ASSUME Limits, IInv, IInv',
         Connect \/ Write \/ Ship \/ LoseSlot
  PROVE  [Promise!Next]_(Promise!leg)
BY DEF Connect, Write, Ship, LoseSlot

LEMMA PromiseInit ==
  ASSUME Init
  PROVE  Promise!Init
BY DEF Init, Promise!Init

LEMMA PromiseNext ==
  ASSUME Limits, IInv, IInv', [Next]_vars
  PROVE  [Promise!Next]_(Promise!leg)
<1>1. CASE UNCHANGED vars
  BY <1>1 DEF vars
<1> HIDE DEF Limits, IInv, Promise!Next, Promise!leg
<1>2. ASSUME NEW w \in Worker, Copy(w)
      PROVE  [Promise!Next]_(Promise!leg)
  BY <1>2, WalkLeg, EnterLeg, SaveLeg DEF Copy
<1>3. ASSUME NEW w \in Worker, Cutover(w)
      PROVE  [Promise!Next]_(Promise!leg)
  BY <1>3, EnterLeg, WalkLeg, CutoverLeg, FencePersistLeg, ClaimPromoteLeg, PromoteLeg,
     ResolveLeg, SaveLeg DEF Cutover
<1>4. ASSUME NEW w \in Worker, Fail(w)
      PROVE  [Promise!Next]_(Promise!leg)
  BY <1>4, WalkLeg, CutoverLeg, PromoteLeg DEF Fail
<1>5. ASSUME NEW w \in Worker, NEW j \in Job, Deliver(w, j)
      PROVE  [Promise!Next]_(Promise!leg)
  BY <1>5, DeliverLeg
<1>6. ASSUME NEW a \in Actor, Release(a) \/ UnfenceFails(a) \/ Crash(a)
      PROVE  [Promise!Next]_(Promise!leg)
  BY <1>6, UnfenceLeg, UnfencePersistLeg, LeftLeg DEF Release
<1>7. CASE RequestAbort \/ Abort
  BY <1>7, AbortLeg, AbortClaimLeg, AbortSaveLeg DEF Abort
<1>8. CASE RequestCutover \/ Recover \/ \E j \in Job : StallCheck(j)
  BY <1>8, QueueLeg, StallLeg
<1>9. CASE Connect \/ Write \/ Ship \/ LoseSlot
  BY <1>9, ClientLeg
<1> QED
  BY <1>1, <1>2, <1>3, <1>4, <1>5, <1>6, <1>7, <1>8, <1>9 DEF Next

\* The leg keeps its promise to the full migration: only a cutover that put the
\* promote on record promotes, and neither is ever taken back.
THEOREM ImplementsLeg ==
  ASSUME Limits
  PROVE  Spec => KeepsPromise
<1>1. Init => Promise!Init
  BY PromiseInit
<1>2. IInv /\ IInv' /\ [Next]_vars => [Promise!Next]_(Promise!leg)
  BY PromiseNext
<1> HIDE DEF IInv, Promise!Next, Promise!leg
<1> QED
  BY Inductive, <1>1, <1>2, PTL DEF Spec, KeepsPromise, Promise!Spec

-----------------------------------------------------------------------------
\* Where no call fails, the one save that writes over an abort is never reached: the
\* link goes only with the migration, and no run fails.
CalmInv ==
  /\ budget["failures"] = 0
  /\ row.status # "FAILED" /\ link # "lost"
  /\ link = "torn" => row.status = "ABORTED" \/ dst = "primary"
  /\ \A w \in Worker :
       /\ pc[w] \notin {"copyFailed", "teardown", "saveFailed"}
       /\ pc[w] = "saveStart" => seen[w] # "FAILED"
       /\ pc[w] \in {"enterReplicating", "stream"} =>
            link \in {"open", "streaming"} \/ row.status = "ABORTED"
       /\ pc[w] \in Unfencing /\ why[w] = "slotLost" => row.status # "CUTOVER"
AbortStays == row.status = "ABORTED" => row'.status = "ABORTED"

USE DEF CalmInv, AbortStays

LEMMA WalkCalm ==
  ASSUME Limits, IInv, CalmInv, TypeOK', NEW w \in Worker,
         BuildLink(w) \/ Stream(w) \/ CopyFailed(w) \/ Teardown(w) \/ CopyFails(w)
  PROVE  CalmInv' /\ AbortStays
<1> USE DEF BuildLink, Stream, CopyFailed, Teardown, CopyFails
<1>1. CalmInv'
  OBVIOUS
<1>2. AbortStays
  OBVIOUS
<1> QED
  BY <1>1, <1>2

LEMMA EnterCalm ==
  ASSUME Limits, IInv, CalmInv, TypeOK', NEW w \in Worker,
         Provision(w) \/ EnterReplicating(w) \/ Synced(w) \/ Claim(w)
  PROVE  CalmInv' /\ AbortStays
<1> USE DEF Provision, EnterReplicating, Synced, Claim
<1>1. CalmInv'
  OBVIOUS
<1>2. AbortStays
  OBVIOUS
<1> QED
  BY <1>1, <1>2

LEMMA SaveStartCalm ==
  ASSUME Limits, IInv, CalmInv, TypeOK', NEW w \in Worker,
         SaveStart(w)
  PROVE  CalmInv' /\ AbortStays
<1> USE DEF SaveStart
<1>1. CalmInv'
  OBVIOUS
<1>2. AbortStays
  OBVIOUS
<1> QED
  BY <1>1, <1>2

LEMMA SaveFailedCalm ==
  ASSUME Limits, IInv, CalmInv, TypeOK', NEW w \in Worker,
         SaveFailed(w)
  PROVE  CalmInv' /\ AbortStays
<1> USE DEF SaveFailed
<1>1. CalmInv'
  OBVIOUS
<1>2. AbortStays
  OBVIOUS
<1> QED
  BY <1>1, <1>2

LEMMA CompleteSaveCalm ==
  ASSUME Limits, IInv, CalmInv, TypeOK', NEW w \in Worker,
         CompleteSave(w)
  PROVE  CalmInv' /\ AbortStays
<1> USE DEF CompleteSave
<1>1. CalmInv'
  OBVIOUS
<1>2. AbortStays
  OBVIOUS
<1> QED
  BY <1>1, <1>2

LEMMA PrepareCalm ==
  ASSUME Limits, IInv, CalmInv, TypeOK', NEW w \in Worker,
         Prepare(w) \/ Precheck(w) \/ CutoverFails(w) \/ FenceWrite(w) \/
         FenceWriteFails(w)
  PROVE  CalmInv' /\ AbortStays
<1> USE DEF Prepare, Precheck, CutoverFails, FenceWrite, FenceWriteFails
<1>1. CalmInv'
  OBVIOUS
<1>2. AbortStays
  OBVIOUS
<1> QED
  BY <1>1, <1>2

LEMMA FenceCalm ==
  ASSUME Limits, IInv, CalmInv, TypeOK', NEW w \in Worker,
         FencePersist(w) \/ FenceReload(w) \/ Terminate(w) \/ Verify(w) \/ FenceLsn(w)
         \/ Replay(w)
  PROVE  CalmInv' /\ AbortStays
<1> USE DEF FencePersist, FenceReload, Terminate, Verify, FenceLsn, Replay
<1>1. CalmInv'
  OBVIOUS
<1>2. AbortStays
  OBVIOUS
<1> QED
  BY <1>1, <1>2

LEMMA PromoteCalm ==
  ASSUME Limits, IInv, CalmInv, TypeOK', NEW w \in Worker,
         ClaimPromote(w) \/ Promote(w) \/ PromoteFails(w) \/ PromoteFailed(w) \/
         ResolveCutover(w) \/ HoldCutover(w) \/ Complete(w)
  PROVE  CalmInv' /\ AbortStays
<1> USE DEF ClaimPromote, Promote, PromoteFails, PromoteFailed, ResolveCutover,
         HoldCutover, Complete
<1>1. CalmInv'
  OBVIOUS
<1>2. AbortStays
  OBVIOUS
<1> QED
  BY <1>1, <1>2

LEMMA ReleaseCalm ==
  ASSUME Limits, IInv, CalmInv, TypeOK', NEW a \in Actor,
         Unfence(a) \/ UnfenceReload(a) \/ UnfenceFails(a) \/ UnfencePersist(a) \/
         Left(a) \/ Crash(a)
  PROVE  CalmInv' /\ AbortStays
<1> USE DEF Unfence, UnfenceReload, UnfenceFails, UnfencePersist, Left, Crash
<1>1. CalmInv'
  OBVIOUS
<1>2. AbortStays
  OBVIOUS
<1> QED
  BY <1>1, <1>2

LEMMA AbortCalm ==
  ASSUME Limits, IInv, CalmInv, TypeOK',
         RequestAbort \/ AbortClaim
  PROVE  CalmInv' /\ AbortStays
<1> USE DEF RequestAbort, AbortClaim
<1>1. CalmInv'
  OBVIOUS
<1>2. AbortStays
  OBVIOUS
<1> QED
  BY <1>1, <1>2

LEMMA AbortTeardownCalm ==
  ASSUME Limits, IInv, CalmInv, TypeOK',
         AbortTeardown
  PROVE  CalmInv' /\ AbortStays
<1> USE DEF AbortTeardown
<1>1. CalmInv'
  OBVIOUS
<1>2. AbortStays
  OBVIOUS
<1> QED
  BY <1>1, <1>2

LEMMA AbortLatestCalm ==
  ASSUME Limits, IInv, CalmInv, TypeOK',
         AbortLatest
  PROVE  CalmInv' /\ AbortStays
<1> USE DEF AbortLatest
<1>1. CalmInv'
  OBVIOUS
<1>2. AbortStays
  OBVIOUS
<1> QED
  BY <1>1, <1>2

LEMMA AbortSaveCalm ==
  ASSUME Limits, IInv, CalmInv, TypeOK',
         AbortSave
  PROVE  CalmInv' /\ AbortStays
<1> USE DEF AbortSave
<1>1. CalmInv'
  OBVIOUS
<1>2. AbortStays
  OBVIOUS
<1> QED
  BY <1>1, <1>2

LEMMA DeliverCalm ==
  ASSUME Limits, IInv, CalmInv, TypeOK', NEW w \in Worker, NEW j \in Job,
         Deliver(w, j)
  PROVE  CalmInv' /\ AbortStays
<1> USE DEF Deliver
<1>1. CalmInv'
  OBVIOUS
<1>2. AbortStays
  OBVIOUS
<1> QED
  BY <1>1, <1>2

LEMMA QueueCalm ==
  ASSUME Limits, IInv, CalmInv, TypeOK',
         RequestCutover \/ Recover
  PROVE  CalmInv' /\ AbortStays
<1> USE DEF RequestCutover, Recover
<1>1. CalmInv'
  OBVIOUS
<1>2. AbortStays
  OBVIOUS
<1> QED
  BY <1>1, <1>2

LEMMA StallCalm ==
  ASSUME Limits, IInv, CalmInv, TypeOK', NEW j \in Job,
         StallCheck(j)
  PROVE  CalmInv' /\ AbortStays
<1> USE DEF StallCheck
<1>1. CalmInv'
  OBVIOUS
<1>2. AbortStays
  OBVIOUS
<1> QED
  BY <1>1, <1>2

LEMMA ClientCalm ==
  ASSUME Limits, IInv, CalmInv, TypeOK',
         Connect \/ Write \/ Ship \/ LoseSlot
  PROVE  CalmInv' /\ AbortStays
<1> USE DEF Connect, Write, Ship, LoseSlot
<1>1. CalmInv'
  OBVIOUS
<1>2. AbortStays
  OBVIOUS
<1> QED
  BY <1>1, <1>2

LEMMA NextCalm ==
  ASSUME Limits, IInv, CalmInv, [Next]_vars
  PROVE  CalmInv' /\ AbortStays
<1>1. TypeOK'
  BY NextType
<1>2. CASE UNCHANGED vars
  BY <1>2 DEF vars
<1> HIDE DEF Limits, TypeOK, Safe, CalmInv, AbortStays
<1>3. ASSUME NEW w \in Worker, Copy(w) \/ Fail(w)
      PROVE  CalmInv' /\ AbortStays
  BY <1>1, <1>3, WalkCalm, EnterCalm, SaveStartCalm, SaveFailedCalm, PrepareCalm,
     PromoteCalm DEF Copy, Fail
<1>4. ASSUME NEW w \in Worker, Cutover(w)
      PROVE  CalmInv' /\ AbortStays
  BY <1>1, <1>4, EnterCalm, PrepareCalm, FenceCalm, PromoteCalm, CompleteSaveCalm DEF Cutover
<1>5. ASSUME NEW w \in Worker, NEW j \in Job, Deliver(w, j)
      PROVE  CalmInv' /\ AbortStays
  BY <1>1, <1>5, DeliverCalm
<1>6. ASSUME NEW a \in Actor, Release(a) \/ UnfenceFails(a) \/ Crash(a)
      PROVE  CalmInv' /\ AbortStays
  BY <1>1, <1>6, ReleaseCalm DEF Release
<1>7. CASE RequestAbort \/ Abort
  BY <1>1, <1>7, AbortCalm, AbortTeardownCalm, AbortLatestCalm, AbortSaveCalm DEF Abort
<1>8. CASE RequestCutover \/ Recover \/ \E j \in Job : StallCheck(j)
  BY <1>1, <1>8, QueueCalm, StallCalm
<1>9. CASE Connect \/ Write \/ Ship \/ LoseSlot
  BY <1>1, <1>9, ClientCalm
<1> QED
  BY <1>1, <1>2, <1>3, <1>4, <1>5, <1>6, <1>7, <1>8, <1>9 DEF Next
=============================================================================
