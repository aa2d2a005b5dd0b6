------------------------- MODULE DbPhysicalMigration -------------------------
(***************************************************************************)
(* One physical migration of a database to another cluster                 *)
(* (src/src/modules/db-lifecycle): the queue's deliveries that copy and    *)
(* cut over, the operator who asks for a cutover or aborts, the recovery   *)
(* at start-up, and the two databases they act on.                         *)
(*                                                                         *)
(* A worker is one delivery being processed.  It keeps its own copy of the *)
(* row's fence record from the read it started with, and every await of    *)
(* the code that touches shared state is a step of its own.  The source    *)
(* has no pooler here.                                                     *)
(***************************************************************************)
EXTENDS Naturals, FiniteSets

CONSTANTS
  Worker,        \* deliveries that can be processed at once
  Operator,      \* the API request that aborts
  CutoverModes,  \* the modes of the migrations considered
  Budgets,       \* bound: what may happen in one behaviour (see Budget)
  LostReplies,   \* a failed call may have taken effect
  PrepareFails,  \* a read between the claim of CUTOVER and the try may fail
  AbortAtStart,  \* an abort may fall between the run's first read and its save
  MaxJobs        \* bound: jobs of one kind waiting

ASSUME ActorAssumption == Operator \notin Worker

\* Writes by the source's clients, calls to the clusters that fail, processes
\* killed, cutover requests and abort requests.
Budget == [{"writes", "failures", "crashes", "requests", "aborts"} -> Nat]
ASSUME BoundAssumption ==
  /\ \A b \in Budgets : b \in Budget
  /\ MaxJobs \in Nat
  /\ CutoverModes \subseteq {"AUTO", "MANUAL"}
  /\ {LostReplies, PrepareFails, AbortAtStart} \subseteq BOOLEAN

Actor == Worker \cup {Operator}
Kind == {"run", "cutover"}
Job == [kind : Kind, stalls : {0, 1}]
Status == {"PENDING", "PROVISIONING", "REPLICATING", "SYNCED", "CUTOVER",
           "COMPLETED", "FAILED", "ABORTED"}
Fence == [at : {"none", "applied", "released"}, promoteIssued : BOOLEAN]
NoFence == [at |-> "none", promoteIssued |-> FALSE]
NewJob(k) == [kind |-> k, stalls |-> 0]

VARIABLES
  row,        \* the migration's row: its mode, its status and its fence record
  waiting,    \* how many jobs of each form wait in the queue
  stalled,    \* jobs whose worker died, until the queue notices
  pc,         \* where each actor stands
  job,        \* the job a worker processes
  mig,        \* each actor's copy of the row's fence record
  seen,       \* each actor's copy of the row's status
  why,        \* why an actor lets the fence go
  lsn,        \* the source's position a worker captured after the fence
  hba,        \* the fence block is in the source's pg_hba.conf
  fenced,     \* the source rejects new TCP clients
  sessions,   \* the source has TCP sessions open
  link,       \* the replication link
  dst,        \* the destination: "standby" or "primary"
  written,    \* writes the source accepted
  replayed,   \* writes the destination replayed
  boot,       \* an API copy starts and has not looked for orphans yet
  budget      \* what is left of every bound

rowVars == <<row, waiting, stalled>>
localVars == <<pc, job, mig, seen, why, lsn>>
srcVars == <<hba, fenced, sessions>>
dbVars == <<link, dst, written, replayed>>
vars == <<rowVars, localVars, srcVars, dbVars, boot, budget>>

Copying == {"saveStart", "provision", "buildLink", "enterReplicating", "stream", "synced"}
Cutting == {"claim", "prepare", "precheck", "fenceWrite", "fencePersist", "fenceReload",
            "terminate", "verify", "fenceLsn", "replay", "claimPromote", "promote",
            "promoteFailed", "resolve", "promoteAgain", "complete", "completeSave"}
Leaving == {"unfence", "unfenceReload", "unfencePersist", "left", "hold",
            "copyFailed", "teardown", "saveFailed"}
Aborting == {"abortClaim", "abortTeardown", "abortLatest", "abortSave"}
PC == {"idle"} \cup Copying \cup Cutting \cup Leaving \cup Aborting
Reason == {"rollback", "slotLost", "aborted", "abort", "abortLatest"}

TypeOK ==
  /\ row \in [mode : {"AUTO", "MANUAL"}, status : Status, fence : Fence]
  /\ waiting \in [Job -> Nat]
  /\ stalled \in [Job -> Nat]
  /\ pc \in [Actor -> PC]
  /\ job \in [Worker -> Job]
  /\ mig \in [Actor -> Fence]
  /\ seen \in [Actor -> Status]
  /\ why \in [Actor -> Reason]
  /\ lsn \in [Worker -> Nat]
  /\ {hba, fenced, sessions, boot} \subseteq BOOLEAN
  /\ link \in {"none", "open", "streaming", "lost", "torn"}
  /\ dst \in {"standby", "primary"}
  /\ written \in Nat /\ replayed \in Nat
  /\ budget \in Budget

NoJobs == [j \in Job |-> 0]

\* create(): the row is saved PENDING and its run queued.
Init ==
  /\ row \in [mode : CutoverModes, status : {"PENDING"}, fence : {NoFence}]
  /\ waiting = [NoJobs EXCEPT ![NewJob("run")] = 1]
  /\ stalled = NoJobs
  /\ pc = [a \in Actor |-> "idle"]
  /\ job = [w \in Worker |-> NewJob("run")]
  /\ mig = [a \in Actor |-> NoFence]
  /\ seen = [a \in Actor |-> "PENDING"]
  /\ why = [a \in Actor |-> "rollback"]
  /\ lsn = [w \in Worker |-> 0]
  /\ hba = FALSE /\ fenced = FALSE /\ sessions = FALSE
  /\ link = "none" /\ dst = "standby"
  /\ written = 0 /\ replayed = 0
  /\ boot = FALSE
  /\ budget \in Budgets

-----------------------------------------------------------------------------
Go(a, where) == pc' = [pc EXCEPT ![a] = where]
Done(a) == Go(a, "idle")
Spend(what) == budget[what] > 0 /\ budget' = [budget EXCEPT ![what] = @ - 1]
Enqueue(k) ==
  waiting' = [waiting EXCEPT ![NewJob(k)] = IF @ < MaxJobs THEN @ + 1 ELSE @]

\* An update whose WHERE names the statuses it may leave.
Move(from, to) == row.status \in from /\ row' = [row EXCEPT !.status = to]

\* save(): the whole row as the actor knows it.
Save(a, status) == row' = [row EXCEPT !.status = status, !.fence = mig[a]]

\* Only one delivery of the run works at a time; the others are put off.
RunIsHeld == \E w \in Worker : pc[w] # "idle" /\ job[w].kind = "run"

InCutover(w) == CASE row.status = "SYNCED" -> "claim"
                  [] row.status = "CUTOVER" -> "resolve"
                  [] OTHER -> "idle"

Deliver(w, j) ==
  /\ pc[w] = "idle"
  /\ waiting[j] > 0
  /\ j.kind = "run" => ~RunIsHeld
  /\ waiting' = [waiting EXCEPT ![j] = @ - 1]
  /\ job' = [job EXCEPT ![w] = j]
  /\ mig' = [mig EXCEPT ![w] = row.fence]
  /\ seen' = [seen EXCEPT ![w] = row.status]
  /\ Go(w, IF j.kind = "run" THEN "saveStart" ELSE InCutover(w))
  /\ UNCHANGED <<row, stalled, why, lsn, srcVars, dbVars, boot, budget>>

-----------------------------------------------------------------------------
\* The run: startedAt is saved with the whole row, then the status decides.
AfterStart(w) ==
  CASE seen[w] = "CUTOVER" -> "resolve"
    [] seen[w] = "SYNCED" -> IF row.mode = "AUTO" THEN "claim" ELSE "idle"
    [] seen[w] \in {"COMPLETED", "ABORTED", "FAILED"} -> "idle"
    [] OTHER -> "provision"

SaveStart(w) ==
  /\ pc[w] = "saveStart"
  /\ Save(w, seen[w])
  /\ Go(w, AfterStart(w))
  /\ UNCHANGED <<waiting, stalled, job, mig, seen, why, lsn, srcVars, dbVars, boot, budget>>

\* Mutated: the statuses it may leave are not named.
EnterBlindly(w, from, to, next) ==
  /\ row' = [row EXCEPT !.status = to]
  /\ seen' = [seen EXCEPT ![w] = to]
  /\ Go(w, next)

\* enter(): losing the transition to an abort stops the run without failing it.
Enter(w, from, to, next) ==
  \/ /\ Move(from, to)
     /\ seen' = [seen EXCEPT ![w] = to]
     /\ Go(w, next)
  \/ /\ row.status \notin from
     /\ Done(w)
     /\ UNCHANGED <<row, seen>>

Provision(w) ==
  /\ pc[w] = "provision"
  /\ IF seen[w] = "REPLICATING"
       THEN Go(w, "buildLink") /\ UNCHANGED <<row, seen>>
       ELSE Enter(w, {"PENDING", "PROVISIONING"}, "PROVISIONING", "buildLink")
  /\ UNCHANGED <<waiting, stalled, job, mig, why, lsn, srcVars, dbVars, boot, budget>>

BuildLink(w) ==
  /\ pc[w] = "buildLink"
  /\ IF row.status = "ABORTED"
       THEN Done(w) /\ UNCHANGED <<link, fenced>>
       ELSE /\ link' = IF link = "streaming" THEN link ELSE "open"
            /\ fenced' = hba
            /\ Go(w, "enterReplicating")
  /\ UNCHANGED <<rowVars, job, mig, seen, why, lsn, hba, sessions, dst, written, replayed, boot, budget>>

EnterReplicating(w) ==
  /\ pc[w] = "enterReplicating"
  /\ Enter(w, {"PROVISIONING", "REPLICATING"}, "REPLICATING", "stream")
  /\ UNCHANGED <<waiting, stalled, job, mig, why, lsn, srcVars, dbVars, boot, budget>>

\* The wait for a streaming standby ends with an abort, with it, or in time.
Stream(w) ==
  /\ pc[w] = "stream"
  /\ \/ row.status = "ABORTED" /\ Done(w) /\ UNCHANGED link
     \/ /\ row.status # "ABORTED"
        /\ link \in {"open", "streaming"} /\ dst = "standby"
        /\ link' = "streaming"
        /\ Go(w, "synced")
     \/ /\ row.status # "ABORTED"
        /\ ~(link \in {"open", "streaming"} /\ dst = "standby")
        /\ Go(w, "copyFailed")
        /\ UNCHANGED link
  /\ UNCHANGED <<rowVars, job, mig, seen, why, lsn, srcVars, dst, written, replayed, boot, budget>>

Synced(w) ==
  /\ pc[w] = "synced"
  /\ Enter(w, {"REPLICATING"}, "SYNCED", IF row.mode = "AUTO" THEN "claim" ELSE "idle")
  /\ UNCHANGED <<waiting, stalled, job, mig, why, lsn, srcVars, dbVars, boot, budget>>

CopyFails(w) ==
  /\ pc[w] \in {"provision", "buildLink", "stream"}
  /\ Spend("failures")
  /\ Go(w, "copyFailed")
  /\ UNCHANGED <<rowVars, job, mig, seen, why, lsn, srcVars, dbVars, boot>>

\* The catch of the run: an aborted row is left alone, as it is read then.
CopyFailed(w) ==
  /\ pc[w] = "copyFailed"
  /\ Go(w, IF row.status = "ABORTED" THEN "idle" ELSE "teardown")
  /\ UNCHANGED <<rowVars, job, mig, seen, why, lsn, srcVars, dbVars, boot, budget>>

\* Dropping the slot ends the replication, and restoring the source's own
\* pg_hba.conf reloads the whole file.
TearDownLink ==
  /\ link' = IF link = "none" THEN link ELSE "torn"
  /\ fenced' = IF link = "none" THEN fenced ELSE hba

Teardown(w) ==
  /\ pc[w] = "teardown"
  /\ \/ TearDownLink /\ UNCHANGED budget
     \/ Spend("failures") /\ UNCHANGED <<link, fenced>>
  /\ Go(w, "saveFailed")
  /\ UNCHANGED <<rowVars, job, mig, seen, why, lsn, hba, sessions, dst, written, replayed, boot>>

SaveFailed(w) ==
  /\ pc[w] = "saveFailed"
  /\ Save(w, "FAILED")
  /\ Done(w)
  /\ UNCHANGED <<waiting, stalled, job, mig, seen, why, lsn, srcVars, dbVars, boot, budget>>

-----------------------------------------------------------------------------
\* performPhysicalCutover
Claim(w) ==
  /\ pc[w] = "claim"
  /\ Enter(w, {"SYNCED"}, "CUTOVER", "prepare")
  /\ UNCHANGED <<waiting, stalled, job, mig, why, lsn, srcVars, dbVars, boot, budget>>

\* The link and the source's pod are read before the try: a failure ends the job.
Prepare(w) ==
  /\ pc[w] = "prepare"
  /\ \/ Go(w, "precheck") /\ UNCHANGED budget
     \/ PrepareFails /\ Spend("failures") /\ Done(w)
  /\ UNCHANGED <<rowVars, job, mig, seen, why, lsn, srcVars, dbVars, boot>>

LetFenceGo(a, reason) == Go(a, "unfence") /\ why' = [why EXCEPT ![a] = reason]

Precheck(w) ==
  /\ pc[w] = "precheck"
  /\ \/ link \in {"lost", "torn"} /\ LetFenceGo(w, "slotLost")
     \/ link \notin {"lost", "torn"} /\ dst # "standby" /\ LetFenceGo(w, "rollback")
     \/ link \notin {"lost", "torn"} /\ dst = "standby" /\ Go(w, "fenceWrite") /\ UNCHANGED why
  /\ UNCHANGED <<rowVars, job, mig, seen, lsn, srcVars, dbVars, boot, budget>>

\* fence(): the block is written, recorded, made effective, the sessions ended.
FenceWrite(w) ==
  /\ pc[w] = "fenceWrite"
  /\ hba' = TRUE
  /\ Go(w, "fencePersist")
  /\ UNCHANGED <<rowVars, job, mig, seen, why, lsn, fenced, sessions, dbVars, boot, budget>>

\* Mutated: the record is written with a state the reader does not know.
FencePersistPlanned(w) ==
  /\ pc[w] = "fencePersist"
  /\ mig' = [mig EXCEPT ![w] = [at |-> "planned", promoteIssued |-> FALSE]]
  /\ row' = [row EXCEPT !.fence = mig'[w]]
  /\ Go(w, "fenceReload")
  /\ UNCHANGED <<waiting, stalled, job, seen, why, lsn, srcVars, dbVars, boot, budget>>

FencePersist(w) ==
  /\ pc[w] = "fencePersist"
  /\ mig' = [mig EXCEPT ![w] = [at |-> "applied", promoteIssued |-> FALSE]]
  /\ row' = [row EXCEPT !.fence = mig'[w]]
  /\ Go(w, "fenceReload")
  /\ UNCHANGED <<waiting, stalled, job, seen, why, lsn, srcVars, dbVars, boot, budget>>

FenceReload(w) ==
  /\ pc[w] = "fenceReload"
  /\ fenced' = hba
  /\ Go(w, "terminate")
  /\ UNCHANGED <<rowVars, job, mig, seen, why, lsn, hba, sessions, dbVars, boot, budget>>

Terminate(w) ==
  /\ pc[w] = "terminate"
  /\ sessions' = FALSE
  /\ Go(w, "verify")
  /\ UNCHANGED <<rowVars, job, mig, seen, why, lsn, hba, fenced, dbVars, boot, budget>>

Verify(w) ==
  /\ pc[w] = "verify"
  /\ IF hba /\ ~sessions
       THEN row' = [row EXCEPT !.fence = mig[w]] /\ Go(w, "fenceLsn") /\ UNCHANGED why
       ELSE LetFenceGo(w, "rollback") /\ UNCHANGED row
  /\ UNCHANGED <<waiting, stalled, job, mig, seen, lsn, srcVars, dbVars, boot, budget>>

FenceLsn(w) ==
  /\ pc[w] = "fenceLsn"
  /\ lsn' = [lsn EXCEPT ![w] = written]
  /\ row' = [row EXCEPT !.fence = mig[w]]
  /\ Go(w, "replay")
  /\ UNCHANGED <<waiting, stalled, job, mig, seen, why, srcVars, dbVars, boot, budget>>

\* Mutated: a streaming standby is taken for one that has caught up.
ReplayWhileStreaming(w) ==
  /\ pc[w] = "replay"
  /\ \/ link = "streaming" /\ Go(w, "claimPromote") /\ UNCHANGED why
     \/ link # "streaming" /\ LetFenceGo(w, "rollback")
  /\ UNCHANGED <<rowVars, job, mig, seen, lsn, srcVars, dbVars, boot, budget>>

\* waitForReplay(): the source must have sent it and the destination applied it.
Replay(w) ==
  /\ pc[w] = "replay"
  /\ \/ replayed >= lsn[w] /\ link = "streaming" /\ Go(w, "claimPromote") /\ UNCHANGED why
     \/ link # "streaming" /\ LetFenceGo(w, "rollback")
  /\ UNCHANGED <<rowVars, job, mig, seen, lsn, srcVars, dbVars, boot, budget>>

CutoverFails(w) ==
  /\ pc[w] \in {"precheck", "fenceReload", "terminate", "verify", "fenceLsn", "replay"}
  /\ Spend("failures")
  /\ LetFenceGo(w, "rollback")
  /\ UNCHANGED <<rowVars, job, mig, seen, lsn, srcVars, dbVars, boot>>

FenceWriteFails(w) ==
  /\ pc[w] = "fenceWrite"
  /\ Spend("failures")
  /\ hba' \in {hba, hba \/ LostReplies}
  /\ LetFenceGo(w, "rollback")
  /\ UNCHANGED <<rowVars, job, mig, seen, lsn, fenced, sessions, dbVars, boot>>

\* Mutated: the claim stays in the worker's memory.
ClaimPromoteInMemory(w) ==
  /\ pc[w] = "claimPromote"
  /\ IF row.status = "CUTOVER" /\ ~row.fence.promoteIssued
       THEN /\ mig' = [mig EXCEPT ![w].promoteIssued = TRUE]
            /\ Go(w, "promote")
            /\ UNCHANGED <<row, why>>
       ELSE /\ LetFenceGo(w, "aborted")
            /\ UNCHANGED <<mig, row>>
  /\ UNCHANGED <<waiting, stalled, job, seen, lsn, srcVars, dbVars, boot, budget>>

\* claimPromote(): only a row still in CUTOVER for which nobody has asked.
ClaimPromote(w) ==
  /\ pc[w] = "claimPromote"
  /\ IF row.status = "CUTOVER" /\ ~row.fence.promoteIssued
       THEN /\ mig' = [mig EXCEPT ![w].promoteIssued = TRUE]
            /\ row' = [row EXCEPT !.fence = mig'[w]]
            /\ Go(w, "promote")
            /\ UNCHANGED why
       ELSE /\ LetFenceGo(w, "aborted")
            /\ UNCHANGED <<mig, row>>
  /\ UNCHANGED <<waiting, stalled, job, seen, lsn, srcVars, dbVars, boot, budget>>

Promote(w) ==
  /\ pc[w] \in {"promote", "promoteAgain"}
  /\ dst' = "primary"
  /\ Go(w, "complete")
  /\ UNCHANGED <<rowVars, job, mig, seen, why, lsn, srcVars, link, written, replayed, boot, budget>>

\* pg_promote may have taken effect although the call failed.
PromoteFails(w) ==
  /\ pc[w] \in {"promote", "promoteAgain"}
  /\ Spend("failures")
  /\ dst' \in {dst, "primary"}
  /\ Go(w, IF pc[w] = "promote" THEN "promoteFailed"
           ELSE IF dst' = "primary" THEN "complete" ELSE "hold")
  /\ UNCHANGED <<rowVars, job, mig, seen, why, lsn, srcVars, link, written, replayed, boot>>

\* After promote was asked, only the destination can say what happened.
PromoteFailed(w) ==
  /\ pc[w] = "promoteFailed"
  /\ \/ dst = "standby" /\ Go(w, "promoteAgain") /\ UNCHANGED budget
     \/ dst = "primary" /\ Go(w, "complete") /\ UNCHANGED budget
     \/ Spend("failures") /\ Go(w, "hold")
  /\ UNCHANGED <<rowVars, job, mig, seen, why, lsn, srcVars, dbVars, boot>>

\* resolveCutover(): a delivery finds the row in CUTOVER.
ResolveCutover(w) ==
  /\ pc[w] = "resolve"
  /\ \/ dst = "primary" /\ Go(w, "complete") /\ UNCHANGED <<why, budget>>
     \/ dst = "standby" /\ ~mig[w].promoteIssued /\ LetFenceGo(w, "rollback") /\ UNCHANGED budget
     \/ dst = "standby" /\ mig[w].promoteIssued /\ Go(w, "promoteAgain") /\ UNCHANGED <<why, budget>>
     \/ Spend("failures") /\ Go(w, "hold") /\ UNCHANGED why
  /\ UNCHANGED <<rowVars, job, mig, seen, lsn, srcVars, dbVars, boot>>

\* Mutated: the cutover is held without a job that would try again.
HoldWithoutJob(w) ==
  /\ pc[w] = "hold"
  /\ Done(w)
  /\ UNCHANGED <<rowVars, job, mig, seen, why, lsn, srcVars, dbVars, boot, budget>>

\* holdCutover(): the cutover job is queued again, later.
HoldCutover(w) ==
  /\ pc[w] = "hold"
  /\ Enqueue("cutover")
  /\ Done(w)
  /\ UNCHANGED <<row, stalled, job, mig, seen, why, lsn, srcVars, dbVars, boot, budget>>

\* completePhysical(): every cleanup is tried, and a failed one only noted.
Complete(w) ==
  /\ pc[w] = "complete"
  /\ \/ TearDownLink
     \/ UNCHANGED <<link, fenced>>
  /\ Go(w, "completeSave")
  /\ UNCHANGED <<rowVars, job, mig, seen, why, lsn, hba, sessions, dst, written, replayed, boot, budget>>

CompleteSave(w) ==
  /\ pc[w] = "completeSave"
  /\ Save(w, "COMPLETED")
  /\ Done(w)
  /\ UNCHANGED <<waiting, stalled, job, mig, seen, why, lsn, srcVars, dbVars, boot, budget>>

-----------------------------------------------------------------------------
\* releaseFence() and unfence(): nothing to do without a record in force.
Unfence(a) ==
  /\ pc[a] = "unfence"
  /\ IF mig[a].at = "applied"
       THEN hba' = FALSE /\ Go(a, "unfenceReload")
       ELSE Go(a, "left") /\ UNCHANGED hba
  /\ UNCHANGED <<rowVars, job, mig, seen, why, lsn, fenced, sessions, dbVars, boot, budget>>

\* Mutated: the block is removed and the server not told to read the file again.
UnfenceWithoutReload(a) ==
  /\ pc[a] = "unfenceReload"
  /\ Go(a, "unfencePersist")
  /\ UNCHANGED <<rowVars, job, mig, seen, why, lsn, srcVars, dbVars, boot, budget>>

UnfenceReload(a) ==
  /\ pc[a] = "unfenceReload"
  /\ fenced' = hba
  /\ Go(a, "unfencePersist")
  /\ UNCHANGED <<rowVars, job, mig, seen, why, lsn, hba, sessions, dbVars, boot, budget>>

\* The abort keeps the released record for its own save.
UnfencePersist(a) ==
  /\ pc[a] = "unfencePersist"
  /\ mig' = [mig EXCEPT ![a].at = "released"]
  /\ row' = IF a = Operator THEN row ELSE [row EXCEPT !.fence = mig'[a]]
  /\ Go(a, "left")
  /\ UNCHANGED <<waiting, stalled, job, seen, why, lsn, srcVars, dbVars, boot, budget>>

\* A fence that cannot be let go: the cutover is held and tried again, an
\* aborted one is only logged.
UnfenceFails(a) ==
  /\ pc[a] \in {"unfence", "unfenceReload"}
  /\ mig[a].at = "applied"
  /\ Spend("failures")
  /\ hba' \in {hba, hba /\ ~(LostReplies /\ pc[a] = "unfence")}
  /\ fenced' \in {fenced, IF LostReplies /\ pc[a] = "unfenceReload" THEN hba ELSE fenced}
  /\ Go(a, IF why[a] \in {"rollback", "slotLost"} THEN "hold" ELSE "idle")
  /\ UNCHANGED <<rowVars, job, mig, seen, why, lsn, sessions, dbVars, boot>>

\* The fence is gone: back to SYNCED, to FAILED, on with the abort, or nowhere.
Left(a) ==
  /\ pc[a] = "left"
  /\ \/ why[a] = "rollback" /\ Move({"CUTOVER"}, "SYNCED") /\ Done(a)
     \/ why[a] = "slotLost" /\ Move({"CUTOVER"}, "FAILED") /\ Go(a, "saveFailed")
     \/ why[a] \in {"rollback", "slotLost"} /\ row.status # "CUTOVER" /\ Done(a) /\ UNCHANGED row
     \/ why[a] = "aborted" /\ Done(a) /\ UNCHANGED row
     \/ why[a] = "abort" /\ Go(a, "abortTeardown") /\ UNCHANGED row
     \/ why[a] = "abortLatest" /\ Go(a, "abortSave") /\ UNCHANGED row
  /\ UNCHANGED <<waiting, stalled, job, mig, seen, why, lsn, srcVars, dbVars, boot, budget>>

-----------------------------------------------------------------------------
\* cutover(): refused unless SYNCED, otherwise a job.
RequestCutover ==
  /\ row.status = "SYNCED"
  /\ Spend("requests")
  /\ Enqueue("cutover")
  /\ UNCHANGED <<row, stalled, localVars, srcVars, dbVars, boot>>

RequestAbort ==
  /\ pc[Operator] = "idle"
  /\ Spend("aborts")
  /\ mig' = [mig EXCEPT ![Operator] = row.fence]
  /\ Go(Operator, "abortClaim")
  /\ UNCHANGED <<rowVars, job, seen, why, lsn, srcVars, dbVars, boot>>

\* Atomic against claimPromote: a row before promote, whatever its status.
AbortClaim ==
  /\ pc[Operator] = "abortClaim"
  /\ AbortAtStart \/ \A w \in Worker : pc[w] # "saveStart"
  /\ \/ /\ \/ Move({"PENDING", "PROVISIONING", "REPLICATING", "SYNCED", "FAILED"}, "ABORTED")
           \/ ~row.fence.promoteIssued /\ Move({"CUTOVER"}, "ABORTED")
        /\ IF mig[Operator].at = "applied"
             THEN LetFenceGo(Operator, "abort")
             ELSE Go(Operator, "abortTeardown") /\ UNCHANGED why
     \/ /\ \/ row.status \in {"COMPLETED", "ABORTED"}
           \/ row.status = "CUTOVER" /\ row.fence.promoteIssued
        /\ Done(Operator)
        /\ UNCHANGED <<row, why>>
  /\ UNCHANGED <<waiting, stalled, job, mig, seen, lsn, srcVars, dbVars, boot, budget>>

\* A link that cannot be torn down is only noted.
AbortTeardown ==
  /\ pc[Operator] = "abortTeardown"
  /\ \/ TearDownLink /\ UNCHANGED budget
     \/ Spend("failures") /\ UNCHANGED <<link, fenced>>
  /\ Go(Operator, "abortLatest")
  /\ UNCHANGED <<rowVars, job, mig, seen, why, lsn, hba, sessions, dst, written, replayed, boot>>

\* A fence the cutover recorded meanwhile is let go as well.
AbortLatest ==
  /\ pc[Operator] = "abortLatest"
  /\ IF row.fence.at = "applied" /\ mig[Operator].at # "released"
       THEN mig' = [mig EXCEPT ![Operator] = row.fence] /\ LetFenceGo(Operator, "abortLatest")
       ELSE Go(Operator, "abortSave") /\ UNCHANGED <<mig, why>>
  /\ UNCHANGED <<rowVars, job, seen, lsn, srcVars, dbVars, boot, budget>>

AbortSave ==
  /\ pc[Operator] = "abortSave"
  /\ Save(Operator, "ABORTED")
  /\ Done(Operator)
  /\ UNCHANGED <<waiting, stalled, job, mig, seen, why, lsn, srcVars, dbVars, boot, budget>>

-----------------------------------------------------------------------------
\* A process dies.  Its job stays "active" in the queue until it is found stalled.
Crash(a) ==
  /\ pc[a] # "idle"
  /\ Spend("crashes")
  /\ Done(a)
  /\ stalled' = IF a = Operator THEN stalled ELSE [stalled EXCEPT ![job[a]] = @ + 1]
  /\ boot' = TRUE
  /\ UNCHANGED <<row, waiting, job, mig, seen, why, lsn, srcVars, dbVars>>

\* The queue runs a stalled job again once; the second time it is failed.
StallCheck(j) ==
  /\ stalled[j] > 0
  /\ stalled' = [stalled EXCEPT ![j] = @ - 1]
  /\ waiting' = IF j.stalls = 1 THEN waiting
                ELSE [waiting EXCEPT ![[j EXCEPT !.stalls = 1]] = @ + 1]
  /\ UNCHANGED <<row, localVars, srcVars, dbVars, boot, budget>>

\* Some job of the migration is active, waiting or delayed.
Held ==
  \/ \E w \in Worker : pc[w] # "idle"
  \/ \E j \in Job : waiting[j] + stalled[j] > 0

Recover ==
  /\ boot
  /\ boot' = FALSE
  /\ \/ /\ ~Held
        /\ \/ row.status \in {"PENDING", "PROVISIONING", "REPLICATING"} /\ Enqueue("run")
           \/ row.status = "CUTOVER" /\ Enqueue("cutover")
     \/ /\ Held \/ row.status \notin {"PENDING", "PROVISIONING", "REPLICATING", "CUTOVER"}
        /\ UNCHANGED waiting
  /\ UNCHANGED <<row, stalled, localVars, srcVars, dbVars, budget>>

-----------------------------------------------------------------------------
\* The source's clients.  Those of the destination come with promote.
Connect ==
  /\ ~fenced /\ ~sessions
  /\ sessions' = TRUE
  /\ UNCHANGED <<rowVars, localVars, hba, fenced, dbVars, boot, budget>>

Write ==
  /\ sessions
  /\ Spend("writes")
  /\ written' = written + 1
  /\ UNCHANGED <<rowVars, localVars, srcVars, link, dst, replayed, boot>>

Ship ==
  /\ link = "streaming" /\ dst = "standby"
  /\ replayed < written
  /\ replayed' = replayed + 1
  /\ UNCHANGED <<rowVars, localVars, srcVars, link, dst, written, boot, budget>>

\* The source drops WAL that the standby still needed.
LoseSlot ==
  /\ link = "streaming"
  /\ Spend("failures")
  /\ link' = "lost"
  /\ UNCHANGED <<rowVars, localVars, srcVars, dst, written, replayed, boot>>

-----------------------------------------------------------------------------
Copy(w) ==
  \/ SaveStart(w) \/ Provision(w) \/ BuildLink(w) \/ EnterReplicating(w) \/ Stream(w)
  \/ Synced(w) \/ CopyFailed(w) \/ Teardown(w) \/ SaveFailed(w)

Cutover(w) ==
  \/ Claim(w) \/ Prepare(w) \/ Precheck(w) \/ FenceWrite(w) \/ FencePersist(w)
  \/ FenceReload(w) \/ Terminate(w) \/ Verify(w) \/ FenceLsn(w) \/ Replay(w)
  \/ ClaimPromote(w) \/ Promote(w) \/ PromoteFailed(w) \/ ResolveCutover(w)
  \/ HoldCutover(w) \/ Complete(w) \/ CompleteSave(w)

Release(a) == Unfence(a) \/ UnfenceReload(a) \/ UnfencePersist(a) \/ Left(a)

Fail(w) == CopyFails(w) \/ CutoverFails(w) \/ FenceWriteFails(w) \/ PromoteFails(w)

Abort == AbortClaim \/ AbortTeardown \/ AbortLatest \/ AbortSave

Next ==
  \/ \E w \in Worker : Copy(w) \/ Cutover(w) \/ Fail(w) \/ \E j \in Job : Deliver(w, j)
  \/ \E a \in Actor : Release(a) \/ UnfenceFails(a) \/ Crash(a)
  \/ RequestCutover \/ RequestAbort \/ Abort
  \/ Recover \/ \E j \in Job : StallCheck(j)
  \/ Connect \/ Write \/ Ship \/ LoseSlot

\* Deliveries are processed, the queue looks for stalled jobs, a starting copy
\* looks for orphans and the standby catches up.
Fairness ==
  /\ \A w \in Worker : WF_vars(Copy(w) \/ Cutover(w) \/ \E j \in Job : Deliver(w, j))
  /\ \A a \in Actor : WF_vars(Release(a))
  /\ WF_vars(Recover) /\ WF_vars(\E j \in Job : StallCheck(j)) /\ WF_vars(Ship)

Spec == Init /\ [][Next]_vars
FairSpec == Spec /\ Fairness

-----------------------------------------------------------------------------
SourceWritable == sessions \/ ~fenced

\* The migration, seen by its clients, hands the writes over exactly once and
\* loses none ("at most one writable database at any instant").
Handover == INSTANCE WriterHandover WITH
  writer <- IF dst = "primary" /\ SourceWritable THEN "both"
            ELSE IF dst = "primary" THEN "destination"
            ELSE IF SourceWritable THEN "source" ELSE "nobody",
  copied <- replayed
HandsOverOnce == Handover!Spec

\* Seen by a full migration, it keeps the promise of a leg: only a cutover that
\* put the promote on record promotes, and neither is ever taken back.
Promise == INSTANCE DbLeg WITH
  status <- row.status, promised <- row.fence.promoteIssued, primary <- dst = "primary"
KeepsPromise == Promise!Spec

\* The point of no return is on record, so that nobody lets the fence go after it.
PromoteIsRecorded == dst = "primary" => row.fence.promoteIssued /\ row.status \in {"CUTOVER", "COMPLETED"}

\* Nothing is under way for the migration.
Settled == ~Held /\ pc[Operator] = "idle"

\* Whatever ended before promote, the source takes writes again.
SourceServesAgain ==
  Settled /\ row.status \in {"SYNCED", "FAILED", "ABORTED"} => ~fenced

\* A row in CUTOVER has somebody who will bring it out: "any failure before
\* promote is asked unfences the source and returns to SYNCED".
CutoverIsHeld == row.status = "CUTOVER" => Held \/ boot

\* An aborted migration stays aborted ("the operator aborted while this run was
\* waiting: stop without failing").
AbortIsFinal == [][row.status = "ABORTED" => row'.status = "ABORTED"]_vars

\* The write pause ends: forwards, or back to where the source takes writes.
CutoverSettles == row.status = "CUTOVER" ~> row.status # "CUTOVER"
=============================================================================
