---------------------------- MODULE FullMigration ----------------------------
(***************************************************************************)
(* The move of an application together with its database                   *)
(* (src/src/modules/full-migration): the delivery that makes the two legs  *)
(* and waits for them, the joint cutover, the person who asks for it,      *)
(* aborts or destroys the source, and the two legs themselves, known only  *)
(* by what DbLeg and AppLeg promise.                                       *)
(*                                                                         *)
(* The database's leg is physical and its application has no pooler.  The  *)
(* driver and the request each work on their own copy of the row and save  *)
(* it whole.                                                               *)
(***************************************************************************)
EXTENDS Naturals, FiniteSets

CONSTANTS
  Worker,       \* deliveries that can be processed at once
  Caller,       \* the request that aborts or destroys
  Forms,        \* the migrations looked at
  Faults,       \* faults the code does not answer, see below
  MaxFailures,  \* bound: calls and waits that fail
  MaxCrashes,   \* bound: processes killed
  MaxRequests,  \* bound: cutovers asked for
  MaxCalls,     \* bound: aborts and destructions asked for
  MaxJobs       \* bound: jobs of one kind waiting

(***************************************************************************)
(* "race": an abort overlaps a step of the driver that does not look again *)
(* before it saves.  "unlinked": an abort comes when a leg was made and is *)
(* not on the row.  "again": a cutover delivered again asks the database's *)
(* leg while the first request still waits, or takes the message an        *)
(* earlier one left for its own.  "hasty": the wait for the promote ends   *)
(* while the database's leg is still at it.  "busy": the wait for a leg to *)
(* be idle is given up.  "undoing": a call that undoes something fails, or *)
(* its process dies.                                                       *)
(***************************************************************************)
Fault == {"race", "unlinked", "again", "hasty", "busy", "undoing"}
Form == [auto : BOOLEAN, bridgeFirst : BOOLEAN]

ASSUME ActorAssumption == Caller \notin Worker
ASSUME FormAssumption == Forms \subseteq Form /\ Faults \subseteq Fault
ASSUME BoundAssumption ==
  {MaxFailures, MaxCrashes, MaxRequests, MaxCalls, MaxJobs} \subseteq Nat

Actor == Worker \cup {Caller}
Status == {"PENDING", "DB_REPLICATING", "APP_STAGING", "READY", "CUTOVER", "BRIDGING",
           "COMPLETED", "FAILED", "FAILED_FORWARD", "ABORTED"}
Resumable == {"PENDING", "DB_REPLICATING", "APP_STAGING", "READY"}
Abortable == Resumable \cup {"FAILED"}
Row == [status : Status, db : BOOLEAN, app : BOOLEAN]
Job == [kind : {"run", "cutover"}, stalls : {0, 1}]
NewJob(k) == [kind |-> k, stalls |-> 0]
NoJobs == [j \in Job |-> 0]
NewRow == [status |-> "PENDING", db |-> FALSE, app |-> FALSE]

DbStatus == {"PENDING", "PROVISIONING", "REPLICATING", "SYNCED", "CUTOVER", "COMPLETED",
             "FAILED", "ABORTED"}
AppStatus == {"PENDING", "PROVISIONING", "READY", "CUTOVER", "BRIDGING", "COMPLETED",
              "FAILED", "ABORTED"}

VARIABLES
  form,        \* when it cuts over, and whether the bridge may open first; never changes
  row,         \* the migration's row: its status and which legs it names
  waiting,     \* jobs in the queue
  stalled,     \* jobs whose worker died, until the queue notices
  pc,          \* where each actor stands
  job,         \* the job a worker processes
  fm,          \* each actor's copy of the row
  seen,        \* the status of a leg as a worker read it
  ahead,       \* a worker's cutover found or put the bridge open before the fence
  made,        \* how many legs of each kind were made
  dbStatus,    \* the database's leg, as DbLeg has it
  dbPromised,
  dbPrimary,
  dbJobs,      \* cutovers of the database's leg that are queued
  dbNote,      \* its row says that a cutover failed before promote
  appStatus,   \* the application's leg, as AppLeg has it
  appOpen,
  appBound,
  appMode,     \* the application's leg goes by the bridge or by DNS alone
  appJobs,     \* its jobs: opening the bridge, cutting over
  boot,        \* an API copy starts and has not looked for orphans yet
  budget       \* what is left of every bound

queueVars == <<waiting, stalled>>
localVars == <<pc, job, fm, seen, ahead>>
dbVars == <<dbStatus, dbPromised, dbPrimary, dbJobs, dbNote>>
appVars == <<appStatus, appOpen, appBound, appMode, appJobs>>
vars == <<form, row, queueVars, localVars, made, dbVars, appVars, boot, budget>>

Db == INSTANCE DbLeg WITH status <- dbStatus, promised <- dbPromised, primary <- dbPrimary
Leg == INSTANCE AppLeg WITH status <- appStatus, open <- appOpen, bound <- appBound

Staging == {"start", "replicate", "ensureDb", "makeDb", "linkDb", "waitDb", "checkDb", "ensureApp",
            "stage", "makeApp", "linkApp", "waitApp", "checkApp", "ready"}
Undoing == {"undoApp", "undoDb", "leaveApp", "leaveDb", "saveFailed", "saveForward"}
Cutting == {"claim", "readDb", "openBridge", "waitBridge", "waitIdle", "promote", "waitPromote",
            "verdict", "rollBridge", "finalize", "drive", "waitLeg", "finish"}
Calling == {"abort", "tearBridge", "tearApp", "tearDb", "abortSave", "destroyLeg", "destroySave"}
PC == {"idle"} \cup Staging \cup Undoing \cup Cutting \cup Calling

TypeOK ==
  /\ form \in Forms
  /\ row \in Row
  /\ waiting \in [Job -> Nat] /\ stalled \in [Job -> Nat]
  /\ pc \in [Actor -> PC] /\ job \in [Worker -> Job] /\ fm \in [Actor -> Row]
  /\ seen \in [Worker -> DbStatus \cup AppStatus] /\ ahead \in [Worker -> BOOLEAN]
  /\ made \in [{"db", "app"} -> Nat]
  /\ dbStatus \in DbStatus /\ {dbPromised, dbPrimary, dbNote} \subseteq BOOLEAN /\ dbJobs \in Nat
  /\ appStatus \in AppStatus /\ appOpen \in BOOLEAN /\ appBound \in {"src", "dst"}
  /\ appMode \in {"bridge", "dnsOnly"} /\ appJobs \subseteq {"open", "cutover"}
  /\ boot \in BOOLEAN
  /\ budget \in [{"failures", "crashes", "requests", "calls"} -> Nat]

\* create(): the row is saved PENDING and its run queued.
Init ==
  /\ form \in Forms
  /\ row = NewRow
  /\ waiting = [NoJobs EXCEPT ![NewJob("run")] = 1] /\ stalled = NoJobs
  /\ pc = [a \in Actor |-> "idle"]
  /\ job = [w \in Worker |-> NewJob("run")]
  /\ fm = [a \in Actor |-> NewRow]
  /\ seen = [w \in Worker |-> "PENDING"] /\ ahead = [w \in Worker |-> FALSE]
  /\ made = [db |-> 0, app |-> 0]
  /\ Db!Init /\ dbJobs = 0 /\ dbNote = FALSE
  /\ Leg!Init /\ appMode = "bridge" /\ appJobs = {}
  /\ boot = FALSE
  /\ budget = [failures |-> MaxFailures, crashes |-> MaxCrashes,
               requests |-> MaxRequests, calls |-> MaxCalls]

-----------------------------------------------------------------------------
Spend(what) == budget[what] > 0 /\ budget' = [budget EXCEPT ![what] = @ - 1]
Enqueue(k) ==
  waiting' = [waiting EXCEPT ![NewJob(k)] = IF @ < MaxJobs THEN @ + 1 ELSE @]

Goto(a, where) == pc' = [pc EXCEPT ![a] = where]
\* What an actor knew is gone when it is done.
Forget(a) ==
  /\ fm' = [fm EXCEPT ![a] = NewRow]
  /\ seen' = IF a \in Worker THEN [seen EXCEPT ![a] = "PENDING"] ELSE seen
  /\ ahead' = IF a \in Worker THEN [ahead EXCEPT ![a] = FALSE] ELSE ahead
Go(a, where) == Goto(a, where) /\ UNCHANGED <<fm, seen, ahead>>
Done(a) == Goto(a, "idle") /\ Forget(a)

\* Steps that change neither leg, and steps that change nothing but one.
LegsStay == UNCHANGED <<form, queueVars, job, made, dbVars, appVars, boot>>
OnlyDb == UNCHANGED <<form, row, queueVars, job, made, appVars, boot>>
OnlyApp == UNCHANGED <<form, row, queueVars, job, made, dbVars, boot>>

\* save(): the whole row as the actor has it.
Save(a, m, where) ==
  /\ row' = m
  /\ fm' = [fm EXCEPT ![a] = m]
  /\ Goto(a, where)
  /\ UNCHANGED <<seen, ahead>>
SetState(a, status, where) == Save(a, [fm[a] EXCEPT !.status = status], where)

-----------------------------------------------------------------------------
\* Only one run of a migration works at a time; the others are put off.
RunIsHeld == \E w \in Worker : pc[w] # "idle" /\ job[w].kind = "run"

TakenUp(k) ==
  IF k = "run" THEN row.status \in Resumable
  ELSE row.status \in {"READY", "CUTOVER", "FAILED_FORWARD"}

Deliver(w, j) ==
  /\ pc[w] = "idle" /\ waiting[j] > 0
  /\ j.kind = "run" => ~RunIsHeld
  /\ waiting' = [waiting EXCEPT ![j] = @ - 1]
  /\ job' = [job EXCEPT ![w] = j]
  /\ IF TakenUp(j.kind)
       THEN /\ fm' = [fm EXCEPT ![w] = row]
            /\ Goto(w, IF j.kind = "run" THEN "start" ELSE "claim")
            /\ UNCHANGED <<seen, ahead>>
       ELSE Done(w)
  /\ UNCHANGED <<form, row, stalled, made, dbVars, appVars, boot, budget>>

\* drive(): a new migration saves when it started, another goes on where it was.
Start(w) ==
  /\ pc[w] = "start"
  /\ CASE fm[w].status = "PENDING" -> Save(w, fm[w], "replicate")
       [] fm[w].status = "DB_REPLICATING" -> Go(w, "replicate") /\ UNCHANGED row
       [] fm[w].status = "APP_STAGING" -> Go(w, "ensureApp") /\ UNCHANGED row
       [] fm[w].status = "READY" ->
            /\ IF form.auto THEN Go(w, "claim") ELSE Done(w)
            /\ UNCHANGED row
  /\ LegsStay /\ UNCHANGED budget

Replicate(w) ==
  /\ pc[w] = "replicate"
  /\ SetState(w, "DB_REPLICATING", "ensureDb")
  /\ LegsStay /\ UNCHANGED budget

\* Mutated: a leg is looked for by the row's own id alone.
EnsureLegById(w, kind, known, next, make) ==
  Go(w, IF fm[w][kind] THEN next ELSE make) /\ UNCHANGED row

\* ensureDbLeg() and ensureAppLeg(): found by id or by its parent, never made twice.
EnsureLeg(w, kind, known, next, make) ==
  IF made[kind] = 0 THEN Go(w, make) /\ UNCHANGED row
  ELSE IF fm[w][kind] THEN Go(w, next) /\ UNCHANGED row
  ELSE Save(w, known, next)

EnsureDb(w) ==
  /\ pc[w] = "ensureDb"
  /\ EnsureLeg(w, "db", [fm[w] EXCEPT !.db = TRUE], "waitDb", "makeDb")
  /\ LegsStay /\ UNCHANGED budget

MakeDb(w) ==
  /\ pc[w] = "makeDb"
  /\ made' = [made EXCEPT !.db = @ + 1]
  /\ Go(w, "linkDb")
  /\ UNCHANGED <<form, row, queueVars, job, dbVars, appVars, boot, budget>>

LinkDb(w) ==
  /\ pc[w] = "linkDb"
  /\ Save(w, [fm[w] EXCEPT !.db = TRUE], "waitDb")
  /\ LegsStay /\ UNCHANGED budget

\* waitDb(SYNCED): what the driver last reads.
WaitDb(w) ==
  /\ pc[w] = "waitDb"
  /\ \/ dbStatus = "SYNCED" /\ Go(w, "checkDb")
     \/ dbStatus \in {"FAILED", "ABORTED"} /\ Go(w, "undoApp")
  /\ LegsStay /\ UNCHANGED <<row, budget>>

\* Mutated: the driver does not look again after its wait.
CheckNothing(w, next) == Go(w, next)

\* stopIfAborted(): the legs are undone and nothing is saved.
StopIfAborted(w, next) == Go(w, IF row.status = "ABORTED" THEN "leaveApp" ELSE next)

CheckDb(w) ==
  /\ pc[w] = "checkDb"
  /\ StopIfAborted(w, "ensureApp")
  /\ LegsStay /\ UNCHANGED <<row, budget>>

EnsureApp(w) ==
  /\ pc[w] = "ensureApp"
  /\ EnsureLeg(w, "app", [fm[w] EXCEPT !.app = TRUE], "waitApp", "stage")
  /\ LegsStay /\ UNCHANGED budget

\* With the plan for the live form, saved just before.
Stage(w) ==
  /\ pc[w] = "stage"
  /\ SetState(w, "APP_STAGING", "makeApp")
  /\ LegsStay /\ UNCHANGED budget

MakeApp(w) ==
  /\ pc[w] = "makeApp"
  /\ made' = [made EXCEPT !.app = @ + 1]
  /\ Go(w, "linkApp")
  /\ UNCHANGED <<form, row, queueVars, job, dbVars, appVars, boot, budget>>

LinkApp(w) ==
  /\ pc[w] = "linkApp"
  /\ Save(w, [fm[w] EXCEPT !.app = TRUE], "waitApp")
  /\ LegsStay /\ UNCHANGED budget

WaitApp(w) ==
  /\ pc[w] = "waitApp"
  /\ \/ appStatus = "READY" /\ Go(w, "checkApp")
     \/ appStatus \in {"FAILED", "ABORTED"} /\ Go(w, "undoApp")
  /\ LegsStay /\ UNCHANGED <<row, budget>>

CheckApp(w) ==
  /\ pc[w] = "checkApp"
  /\ StopIfAborted(w, "ready")
  /\ LegsStay /\ UNCHANGED <<row, budget>>

\* MANUAL: parked until somebody asks for the cutover.
Park(w) == row' = [fm[w] EXCEPT !.status = "READY"] /\ Done(w)

Ready(w) ==
  /\ pc[w] = "ready"
  /\ IF form.auto THEN SetState(w, "READY", "claim") ELSE Park(w)
  /\ LegsStay /\ UNCHANGED budget

\* A call of the driver fails, or a leg takes too long.
StageFails(w) ==
  /\ pc[w] \in {"replicate", "ensureDb", "makeDb", "waitDb", "ensureApp", "stage", "makeApp", "waitApp"}
  /\ Spend("failures")
  /\ Go(w, "undoApp")
  /\ LegsStay /\ UNCHANGED row

-----------------------------------------------------------------------------
\* Where an actor goes on when it has undone a leg: after a failure, after an
\* abort found on the way, or in the abort itself.
AfterApp == [undoApp |-> "undoDb", leaveApp |-> "leaveDb", tearApp |-> "tearDb"]
AfterDb == [undoDb |-> "saveFailed", leaveDb |-> "idle", tearDb |-> "abortSave"]

\* A bridge is rolled back unless the application has moved; nothing is done without one.
RollBackBridge ==
  IF appOpen /\ appBound = "src" THEN Leg!RollBack ELSE UNCHANGED <<appStatus, appOpen, appBound>>

MayFailToUndo == "undoing" \in Faults /\ Spend("failures")

\* abort() of the application's leg: an open bridge first, then the leg, which
\* may refuse; a failure is only noted.
AbortApp(a) ==
  /\ pc[a] \in DOMAIN AfterApp
  /\ \/ /\ fm[a].app /\ appOpen /\ appBound = "src"
        /\ Leg!RollBack
        /\ Go(a, pc[a]) /\ UNCHANGED budget
     \/ /\ fm[a].app /\ ~appOpen /\ appStatus \in {"PENDING", "PROVISIONING", "READY", "FAILED"}
        /\ Leg!Abort
        /\ Go(a, AfterApp[pc[a]]) /\ UNCHANGED budget
     \/ /\ \/ ~fm[a].app \/ (appOpen /\ appBound = "dst")
           \/ ~appOpen /\ appStatus \in {"CUTOVER", "BRIDGING", "COMPLETED", "ABORTED"}
        /\ Go(a, AfterApp[pc[a]]) /\ UNCHANGED <<appStatus, appOpen, appBound, budget>>
     \/ /\ MayFailToUndo
        /\ Go(a, AfterApp[pc[a]]) /\ UNCHANGED <<appStatus, appOpen, appBound>>
  /\ UNCHANGED <<appMode, appJobs, row>> /\ OnlyApp

\* abort() of the database's leg: refused once the promote is on record.
AbortDb(a) ==
  /\ pc[a] \in DOMAIN AfterDb
  /\ \/ /\ fm[a].db /\ (dbStatus \in Db!BeforeCutover \/ (dbStatus = "CUTOVER" /\ ~dbPromised))
        /\ Db!Abort /\ UNCHANGED budget
     \/ /\ ~fm[a].db \/ dbPromised \/ dbStatus \in {"ABORTED", "COMPLETED"}
        /\ UNCHANGED <<dbStatus, dbPromised, dbPrimary, budget>>
     \/ MayFailToUndo /\ UNCHANGED <<dbStatus, dbPromised, dbPrimary>>
  /\ IF pc[a] = "leaveDb" THEN Done(a) ELSE Go(a, AfterDb[pc[a]])
  /\ UNCHANGED <<dbJobs, dbNote, row>> /\ OnlyDb

\* fail(): FAILED, or FAILED_FORWARD as the verdict on the actor's copy says.
SaveEnd(w, status) ==
  /\ row' = [fm[w] EXCEPT !.status = status]
  /\ Done(w)
  /\ LegsStay /\ UNCHANGED budget

SaveFailed(w) == pc[w] = "saveFailed" /\ SaveEnd(w, "FAILED")
SaveForward(w) == pc[w] = "saveForward" /\ SaveEnd(w, "FAILED_FORWARD")

-----------------------------------------------------------------------------
\* claimCutover(): exactly one of this and the claim of an abort wins the row.
Claim(w) ==
  /\ pc[w] = "claim"
  /\ IF row.status \in {"READY", "CUTOVER", "FAILED_FORWARD"}
       THEN /\ row' = [row EXCEPT !.status = "CUTOVER"]
            /\ fm' = [fm EXCEPT ![w].status = "CUTOVER"]
            /\ Goto(w, "readDb") /\ UNCHANGED <<seen, ahead>>
       ELSE Done(w) /\ UNCHANGED row
  /\ LegsStay /\ UNCHANGED budget

\* Mutated: the bridge waits for the promote in every form.
ReadDbAndPromote(w) ==
  /\ pc[w] = "readDb"
  /\ "again" \in Faults \/ dbJobs = 0
  /\ seen' = [seen EXCEPT ![w] = dbStatus]
  /\ Goto(w, IF dbStatus = "COMPLETED" THEN "finalize" ELSE "promote")
  /\ UNCHANGED <<row, fm, ahead, budget>> /\ LegsStay

\* A promoted database leaves only the application; otherwise the bridge opens
\* before the fence where it may.
ReadDb(w) ==
  /\ pc[w] = "readDb"
  /\ "again" \in Faults \/ dbJobs = 0
  /\ seen' = [seen EXCEPT ![w] = dbStatus]
  /\ Goto(w, IF dbStatus = "COMPLETED" THEN "finalize"
             ELSE IF form.bridgeFirst THEN "openBridge" ELSE "promote")
  /\ UNCHANGED <<row, fm, ahead, budget>> /\ LegsStay

\* openBridgeBeforeFence(): open already, queued, or left to the job that holds
\* the leg; a leg that stands elsewhere gets no bridge.
OpenBridge(w) ==
  /\ pc[w] = "openBridge"
  /\ \/ /\ appOpen
        /\ ahead' = [ahead EXCEPT ![w] = TRUE] /\ Goto(w, "promote")
        /\ UNCHANGED <<fm, seen, appJobs>>
     \/ /\ ~appOpen /\ appMode = "bridge"
        /\ appStatus = "READY" \/ (appStatus = "CUTOVER" /\ appJobs = {})
        /\ appJobs' = appJobs \cup {"open"}
        /\ Go(w, "waitBridge")
     \/ /\ ~appOpen /\ appMode = "bridge" /\ appStatus = "CUTOVER" /\ appJobs # {}
        /\ Go(w, "waitBridge") /\ UNCHANGED appJobs
     \/ /\ ~appOpen /\ (appMode = "dnsOnly" \/ appStatus \notin {"READY", "CUTOVER"})
        /\ Go(w, "promote") /\ UNCHANGED appJobs
  /\ UNCHANGED <<row, appStatus, appOpen, appBound, appMode, budget>> /\ OnlyApp

\* waitAppBridge(): a leg that failed, its bridge, or DNS alone.
WaitBridge(w) ==
  /\ pc[w] = "waitBridge"
  /\ \/ appStatus \in {"FAILED", "ABORTED"} /\ Go(w, "waitIdle")
     \/ /\ appStatus \notin {"FAILED", "ABORTED"} /\ appOpen
        /\ ahead' = [ahead EXCEPT ![w] = TRUE] /\ Goto(w, "promote") /\ UNCHANGED <<fm, seen>>
     \/ /\ appStatus \notin {"FAILED", "ABORTED"} /\ ~appOpen /\ appMode = "dnsOnly"
        /\ Go(w, "promote")
  /\ UNCHANGED <<row, budget>> /\ LegsStay

\* The opening cannot be asked for, or takes too long.
OpeningFails(w) ==
  /\ pc[w] \in {"openBridge", "waitBridge"}
  /\ pc[w] = "openBridge" => ~appOpen /\ appMode = "bridge" /\ appStatus \in {"READY", "CUTOVER"}
  /\ Spend("failures")
  /\ Go(w, "waitIdle")
  /\ LegsStay /\ UNCHANGED row

\* Mutated: the bridge is rolled back while its job may still be opening it.
WaitNotIdle(w) ==
  /\ pc[w] = "waitIdle"
  /\ RollBackBridge
  /\ Go(w, "saveFailed")
  /\ UNCHANGED <<row, appMode, appJobs, budget>> /\ OnlyApp

\* rollbackBridgeWhenIdle(): when no job holds the leg.
WaitIdle(w) ==
  /\ pc[w] = "waitIdle"
  /\ \/ appJobs = {} /\ RollBackBridge
     \/ appJobs # {} /\ "busy" \in Faults /\ UNCHANGED <<appStatus, appOpen, appBound>>
  /\ Go(w, "saveFailed")
  /\ UNCHANGED <<row, appMode, appJobs, budget>> /\ OnlyApp

\* promoteDbLeg(): the plan is saved, and a leg read SYNCED is asked to cut over.
Promote(w) ==
  /\ pc[w] = "promote"
  /\ row' = fm[w]
  /\ \/ /\ seen[w] = "SYNCED" /\ dbStatus = "SYNCED"
        /\ dbJobs' = dbJobs + 1
        /\ dbNote' = (dbNote /\ "again" \in Faults)
        /\ Go(w, "waitPromote")
     \/ /\ seen[w] = "SYNCED" /\ dbStatus # "SYNCED"
        /\ Go(w, "verdict") /\ UNCHANGED <<dbJobs, dbNote>>
     \/ /\ seen[w] # "SYNCED"
        /\ Go(w, "waitPromote") /\ UNCHANGED <<dbJobs, dbNote>>
  /\ UNCHANGED <<form, queueVars, job, made, dbStatus, dbPromised, dbPrimary, appVars, boot, budget>>

\* Mutated: a leg in CUTOVER is taken for a promoted one.
WaitCutover(w) ==
  /\ pc[w] = "waitPromote"
  /\ \/ dbStatus \in {"CUTOVER", "COMPLETED"} /\ Go(w, "finalize")
     \/ dbStatus = "SYNCED" /\ dbNote /\ Go(w, "verdict")
     \/ dbStatus \in {"FAILED", "ABORTED"} /\ Go(w, "verdict")
  /\ LegsStay /\ UNCHANGED <<row, budget>>

\* Mutated: a leg that fell back to SYNCED is waited for.
WaitThroughFallBack(w) ==
  /\ pc[w] = "waitPromote"
  /\ \/ dbStatus = "COMPLETED" /\ Go(w, "finalize")
     \/ dbStatus \in {"FAILED", "ABORTED"} /\ Go(w, "verdict")
  /\ LegsStay /\ UNCHANGED <<row, budget>>

\* waitDb(COMPLETED)
WaitPromote(w) ==
  /\ pc[w] = "waitPromote"
  /\ \/ dbStatus = "COMPLETED" /\ Go(w, "finalize")
     \/ dbStatus = "SYNCED" /\ dbNote /\ Go(w, "verdict")
     \/ dbStatus \in {"FAILED", "ABORTED"} /\ Go(w, "verdict")
  /\ LegsStay /\ UNCHANGED <<row, budget>>

\* The database's leg has yet to decide.
DbUndecided == dbJobs > 0 \/ (dbStatus = "CUTOVER" /\ ~dbPromised)

\* A call fails, or the wait takes too long.
PromoteFails(w) ==
  /\ pc[w] \in {"promote", "waitPromote"}
  /\ "hasty" \in Faults \/ ~DbUndecided
  /\ Spend("failures")
  /\ Go(w, "verdict")
  /\ LegsStay /\ UNCHANGED row

\* promotedDespiteError(): a physical leg, as its row says now.
Promoted == dbStatus = "COMPLETED" \/ (dbStatus = "CUTOVER" /\ dbPromised)

\* Mutated: only a leg that is done counts as promoted.
VerdictByStatus(w) ==
  /\ pc[w] = "verdict"
  /\ Go(w, IF dbStatus = "COMPLETED" THEN "saveForward"
           ELSE IF ahead[w] /\ dbStatus # "CUTOVER" THEN "rollBridge" ELSE "saveFailed")
  /\ LegsStay /\ UNCHANGED <<row, budget>>

Verdict(w) ==
  /\ pc[w] = "verdict"
  /\ Go(w, IF Promoted THEN "saveForward"
           ELSE IF ahead[w] /\ dbStatus # "CUTOVER" THEN "rollBridge" ELSE "saveFailed")
  /\ LegsStay /\ UNCHANGED <<row, budget>>

RollBridge(w) ==
  /\ pc[w] = "rollBridge"
  /\ \/ RollBackBridge /\ UNCHANGED budget
     \/ MayFailToUndo /\ UNCHANGED <<appStatus, appOpen, appBound>>
  /\ Go(w, "saveFailed")
  /\ UNCHANGED <<row, appMode, appJobs>> /\ OnlyApp

\* A read before the first try, or in its catch: the job ends, the row stays.
CutoverLost(w) ==
  /\ pc[w] \in {"readDb", "openBridge", "verdict"}
  /\ Spend("failures")
  /\ Done(w)
  /\ LegsStay /\ UNCHANGED row

-----------------------------------------------------------------------------
\* finalizeAppLeg(): the leg is read, takes the rewired environment, and the
\* application is put on the destination with it.
Finalize(w) ==
  /\ pc[w] = "finalize"
  /\ seen' = [seen EXCEPT ![w] = appStatus]
  /\ Goto(w, "drive")
  /\ UNCHANGED <<row, fm, ahead, budget>> /\ LegsStay

\* driveLegCutover(): a failed leg is armed again, a waiting one asked to cut over.
Drive(w) ==
  /\ pc[w] = "drive"
  /\ \/ /\ seen[w] = "FAILED"
        /\ Leg!EnterCutover /\ appStatus' = "READY"
        /\ seen' = [seen EXCEPT ![w] = "READY"]
        /\ Goto(w, "drive") /\ UNCHANGED <<fm, ahead, appJobs>>
     \/ /\ seen[w] \in {"READY", "CUTOVER"} /\ appStatus \in {"READY", "CUTOVER"}
        /\ appJobs' = appJobs \cup {"cutover"}
        /\ Go(w, "waitLeg") /\ UNCHANGED <<appStatus, appOpen, appBound>>
     \/ /\ seen[w] \in {"READY", "CUTOVER"} /\ appStatus \notin {"READY", "CUTOVER"}
        /\ Go(w, "saveForward") /\ UNCHANGED <<appStatus, appOpen, appBound, appJobs>>
     \/ /\ seen[w] \in {"BRIDGING", "COMPLETED"}
        /\ Go(w, "finish") /\ UNCHANGED <<appStatus, appOpen, appBound, appJobs>>
  /\ UNCHANGED <<row, appMode, budget>> /\ OnlyApp

WaitLeg(w) ==
  /\ pc[w] = "waitLeg"
  /\ \/ appStatus \in {"BRIDGING", "COMPLETED"} /\ Go(w, "finish")
     \/ appStatus \in {"FAILED", "ABORTED"} /\ Go(w, "saveForward")
  /\ LegsStay /\ UNCHANGED <<row, budget>>

Finish(w) ==
  /\ pc[w] = "finish"
  /\ SaveEnd(w, IF appStatus = "BRIDGING" THEN "BRIDGING" ELSE "COMPLETED")

FinalizeFails(w) ==
  /\ pc[w] \in {"finalize", "drive", "waitLeg", "finish"}
  /\ Spend("failures")
  /\ Go(w, "saveForward")
  /\ LegsStay /\ UNCHANGED row

-----------------------------------------------------------------------------
\* Some job of the migration is active, waiting or delayed.
Held ==
  \/ \E w \in Worker : pc[w] # "idle"
  \/ \E j \in Job : waiting[j] + stalled[j] > 0

\* cutover(): in CUTOVER only when no job holds the migration.
RequestCutover ==
  /\ row.status \in {"READY", "FAILED_FORWARD"} \/ (row.status = "CUTOVER" /\ ~Held)
  /\ Spend("requests")
  /\ Enqueue("cutover")
  /\ UNCHANGED <<form, row, stalled, localVars, made, dbVars, appVars, boot>>

\* abort(): refused by what the row and the database's leg say, then claimed.
RequestAbort ==
  /\ pc[Caller] = "idle"
  /\ row.status \in Abortable
  /\ ~(row.db /\ dbStatus \in {"CUTOVER", "COMPLETED"})
  /\ Spend("calls")
  /\ Save(Caller, row, "abort")
  /\ LegsStay

\* Steps of the driver after which it looks again before it saves.
LooksAgain == {"idle", "waitDb", "checkDb", "waitApp", "checkApp", "claim"}
Undisturbed ==
  /\ "race" \in Faults \/ \A w \in Worker : pc[w] \in LooksAgain
  /\ "unlinked" \in Faults \/ ((made.db > 0 => fm[Caller].db) /\ (made.app > 0 => fm[Caller].app))

\* Mutated: the row takes the status of its operation.
AbortClaimCancelled ==
  /\ pc[Caller] = "abort" /\ Undisturbed
  /\ row.status \in Abortable
  /\ row' = [row EXCEPT !.status = "CANCELLED"]
  /\ fm' = [fm EXCEPT ![Caller].status = "CANCELLED"]
  /\ Goto(Caller, "tearBridge") /\ UNCHANGED <<seen, ahead>>
  /\ LegsStay /\ UNCHANGED budget

AbortClaim ==
  /\ pc[Caller] = "abort" /\ Undisturbed
  /\ IF row.status \in Abortable
       THEN /\ row' = [row EXCEPT !.status = "ABORTED"]
            /\ fm' = [fm EXCEPT ![Caller].status = "ABORTED"]
            /\ Goto(Caller, "tearBridge") /\ UNCHANGED <<seen, ahead>>
       ELSE Done(Caller) /\ UNCHANGED row
  /\ LegsStay /\ UNCHANGED budget

\* Mutated: the application's leg is left as the rollback of its bridge leaves it.
TearBridgeAlone ==
  /\ pc[Caller] = "tearBridge"
  /\ IF fm[Caller].app THEN RollBackBridge ELSE UNCHANGED <<appStatus, appOpen, appBound>>
  /\ Go(Caller, "tearDb")
  /\ UNCHANGED <<row, appMode, appJobs, budget>> /\ OnlyApp

\* The source serves again before anything on the destination is torn down.
TearBridge ==
  /\ pc[Caller] = "tearBridge"
  /\ \/ fm[Caller].app /\ RollBackBridge /\ UNCHANGED budget
     \/ ~fm[Caller].app /\ UNCHANGED <<appStatus, appOpen, appBound, budget>>
     \/ MayFailToUndo /\ UNCHANGED <<appStatus, appOpen, appBound>>
  /\ Go(Caller, "tearApp")
  /\ UNCHANGED <<row, appMode, appJobs>> /\ OnlyApp

AbortSave ==
  /\ pc[Caller] = "abortSave"
  /\ SaveEnd(Caller, "ABORTED")

\* destroySource(): the leg closes its bridge and drops the source.
RequestDestroy ==
  /\ pc[Caller] = "idle"
  /\ row.status \in {"BRIDGING", "COMPLETED"}
  /\ Spend("calls")
  /\ Save(Caller, row, "destroyLeg")
  /\ LegsStay

DestroyLeg ==
  /\ pc[Caller] = "destroyLeg"
  /\ \/ appStatus = "BRIDGING" /\ appOpen /\ Leg!CloseBridge /\ Go(Caller, "destroyLeg")
     \/ appStatus = "BRIDGING" /\ ~appOpen /\ Leg!Destroyed /\ Go(Caller, "destroySave")
     \/ /\ appStatus = "COMPLETED" /\ Go(Caller, "destroySave")
        /\ UNCHANGED <<appStatus, appOpen, appBound>>
  /\ UNCHANGED <<row, appMode, appJobs, budget>> /\ OnlyApp

DestroySave ==
  /\ pc[Caller] = "destroySave"
  /\ SaveEnd(Caller, "COMPLETED")

-----------------------------------------------------------------------------
\* The database's leg works by itself; its cutover waits in its own queue.
DbCopies ==
  /\ made.db > 0 /\ Db!Copy
  /\ UNCHANGED <<dbJobs, dbNote, budget, localVars, row>> /\ OnlyDb

DbFails ==
  /\ made.db > 0 /\ Db!Fail /\ dbStatus \notin {"FAILED", "ABORTED"}
  /\ UNCHANGED <<dbJobs, dbNote, budget, localVars, row>> /\ OnlyDb

DbEnters ==
  /\ dbJobs > 0
  /\ dbJobs' = dbJobs - 1
  /\ IF dbStatus = "SYNCED"
       THEN Db!Enter /\ dbNote' = FALSE
       ELSE UNCHANGED <<dbStatus, dbPromised, dbPrimary, dbNote>>
  /\ UNCHANGED <<budget, localVars, row>> /\ OnlyDb

DbFallsBack ==
  /\ Db!FallBack /\ dbNote' = TRUE
  /\ UNCHANGED <<dbJobs, budget, localVars, row>> /\ OnlyDb

DbGoesOn ==
  /\ Db!Ask \/ Db!Promote \/ Db!Complete
  /\ UNCHANGED <<dbJobs, dbNote, budget, localVars, row>> /\ OnlyDb

AppProvisions ==
  /\ made.app > 0 /\ Leg!Provision
  /\ UNCHANGED <<appMode, appJobs, budget, localVars, row>> /\ OnlyApp

AppFails ==
  /\ made.app > 0 /\ Leg!Fail
  /\ appStatus = "PROVISIONING" \/ (appStatus = "CUTOVER" /\ appJobs # {})
  /\ appJobs' = {}
  /\ UNCHANGED <<appMode, budget, localVars, row>> /\ OnlyApp

\* A job that finds a leg it cannot work on is dropped; no job does without one of
\* the faults, and the step is left out.
AppEnters ==
  /\ appJobs # {} /\ appStatus = "READY"
  /\ "open" \in appJobs => ~appOpen
  /\ Leg!EnterCutover /\ appStatus' = "CUTOVER"
  /\ UNCHANGED <<appMode, appJobs, budget, localVars, row>> /\ OnlyApp

\* The bridge opens, in a job of its own, which is then over, or on the way of
\* the cutover.
AppOpens ==
  /\ appJobs # {} /\ appMode = "bridge" /\ Leg!OpenBridge
  /\ appJobs' = appJobs \ {"open"}
  /\ UNCHANGED <<appMode, budget, localVars, row>> /\ OnlyApp

\* The opening finds that it cannot: READY again, to go by DNS alone.
AppLeavesOpening ==
  /\ "open" \in appJobs /\ appMode = "bridge" /\ Leg!LeaveOpening
  /\ appMode' = "dnsOnly" /\ appJobs' = appJobs \ {"open"}
  /\ UNCHANGED <<budget, localVars, row>> /\ OnlyApp

AppBinds ==
  /\ "cutover" \in appJobs /\ (appOpen \/ appMode = "dnsOnly") /\ Leg!Bind
  /\ UNCHANGED <<appMode, appJobs, budget, localVars, row>> /\ OnlyApp

AppFinishes ==
  /\ "cutover" \in appJobs /\ Leg!Finish
  /\ appJobs' = appJobs \ {"cutover"}
  /\ UNCHANGED <<appMode, budget, localVars, row>> /\ OnlyApp

-----------------------------------------------------------------------------
\* A process dies.  Its job stays "active" in the queue until it is found stalled.
Crash(a) ==
  /\ pc[a] # "idle"
  /\ a \in Worker \/ pc[a] \in {"abort", "destroyLeg", "destroySave"} \/ "undoing" \in Faults
  /\ Spend("crashes")
  /\ Done(a)
  /\ stalled' = IF a = Caller THEN stalled ELSE [stalled EXCEPT ![job[a]] = @ + 1]
  /\ boot' = TRUE
  /\ UNCHANGED <<form, row, waiting, job, made, dbVars, appVars>>

\* The queue runs a stalled job again once; the second time it is failed.
StallCheck(j) ==
  /\ stalled[j] > 0
  /\ stalled' = [stalled EXCEPT ![j] = @ - 1]
  /\ waiting' = IF j.stalls = 1 THEN waiting
                ELSE [waiting EXCEPT ![[j EXCEPT !.stalls = 1]] = @ + 1]
  /\ UNCHANGED <<form, row, localVars, made, dbVars, appVars, boot, budget>>

\* At start-up; a parked migration waits for its person.
Recover ==
  /\ boot /\ boot' = FALSE
  /\ IF Held THEN UNCHANGED waiting
     ELSE IF row.status = "CUTOVER" THEN Enqueue("cutover")
     ELSE IF row.status \in Resumable /\ (row.status # "READY" \/ form.auto) THEN Enqueue("run")
     ELSE UNCHANGED waiting
  /\ UNCHANGED <<form, row, stalled, localVars, made, dbVars, appVars, budget>>

-----------------------------------------------------------------------------
StageStep(w) ==
  \/ Start(w) \/ Replicate(w) \/ EnsureDb(w) \/ MakeDb(w) \/ LinkDb(w) \/ WaitDb(w) \/ CheckDb(w)
  \/ EnsureApp(w) \/ Stage(w) \/ MakeApp(w) \/ LinkApp(w) \/ WaitApp(w) \/ CheckApp(w) \/ Ready(w)

CutoverStep(w) ==
  \/ Claim(w) \/ ReadDb(w) \/ OpenBridge(w) \/ WaitBridge(w) \/ WaitIdle(w) \/ Promote(w)
  \/ WaitPromote(w) \/ Verdict(w) \/ RollBridge(w) \/ Finalize(w) \/ Drive(w) \/ WaitLeg(w)
  \/ Finish(w) \/ SaveFailed(w) \/ SaveForward(w)

FailStep(w) ==
  \/ StageFails(w) \/ OpeningFails(w) \/ PromoteFails(w) \/ CutoverLost(w) \/ FinalizeFails(w)

WorkerStep(w) == StageStep(w) \/ CutoverStep(w) \/ \E j \in Job : Deliver(w, j)

UndoStep == \E a \in Actor : AbortApp(a) \/ AbortDb(a)

CallerStep == AbortClaim \/ TearBridge \/ AbortSave \/ DestroyLeg \/ DestroySave

DbStep == DbCopies \/ DbEnters \/ DbFallsBack \/ DbGoesOn
AppStep ==
  \/ AppProvisions \/ AppEnters \/ AppOpens \/ AppLeavesOpening \/ AppBinds \/ AppFinishes

Next ==
  \/ \E w \in Worker : WorkerStep(w) \/ FailStep(w)
  \/ UndoStep \/ CallerStep \/ RequestCutover \/ RequestAbort \/ RequestDestroy
  \/ DbStep \/ DbFails \/ AppStep \/ AppFails
  \/ \E a \in Actor : Crash(a)
  \/ Recover \/ \E j \in Job : StallCheck(j)

\* Deliveries are processed, the legs work, the queue looks for stalled jobs and
\* a starting copy for orphans.
Fairness ==
  /\ \A w \in Worker : WF_vars(WorkerStep(w))
  /\ WF_vars(UndoStep) /\ WF_vars(CallerStep) /\ WF_vars(DbStep) /\ WF_vars(AppStep)
  /\ WF_vars(Recover) /\ WF_vars(\E j \in Job : StallCheck(j))

Spec == Init /\ [][Next]_vars
FairSpec == Spec /\ Fairness

-----------------------------------------------------------------------------
\* "A post-PONR migration must go forward (resume), never be aborted into a
\* strand": once the promote is on record the row stands where a cutover can be
\* asked for, or it is over.
NeverStranded ==
  dbPromised => row.status \in {"CUTOVER", "FAILED_FORWARD", "BRIDGING", "COMPLETED"}

\* FAILED is a "failure BEFORE the DB promote (point of no return) - rolled
\* back": the database of a failed migration was not promoted.
FailedIsRolledBack == row.status = "FAILED" => ~dbPrimary

\* The application's row moves only after its database: a redeploy in between
\* would start the source on the destination's database.
AppFollowsData == appBound = "dst" => dbPrimary

\* "The legs are found again by id or by their parent, never created twice (a
\* second DB leg would be a second replication slot on the live source)".
OneLegEach == made.db <= 1 /\ made.app <= 1

\* Nothing is under way for the migration or its legs.
Settled ==
  /\ ~Held /\ pc[Caller] = "idle"
  /\ dbJobs = 0 /\ dbStatus # "CUTOVER" /\ appJobs = {}

\* When nothing is under way, clients that are sent to the destination find the
\* writable database there, unless a cutover stopped half way and may be resumed.
ClientsReachData ==
  Settled /\ row.status # "CUTOVER" /\ (appOpen \/ appBound = "dst") => dbPrimary

\* An abort leaves no leg at work ("tear both child legs down"), so no
\* replication slot stays on the source.
AbortLeavesNoLeg ==
  Settled /\ row.status = "ABORTED" =>
    /\ made.db > 0 => dbStatus \in {"ABORTED", "FAILED"}
    /\ made.app > 0 => appStatus \in {"ABORTED", "FAILED"}

\* Where the application already runs on the standby, "the bridge opens before
\* the source is fenced": the pause of the writes does not wait for it.
BridgeOpensAhead ==
  [][dbStatus = "SYNCED" /\ dbStatus' = "CUTOVER" /\ form.bridgeFirst /\ appMode = "bridge"
       => appOpen \/ appStatus = "FAILED"]_vars

\* An aborted migration never goes on; a driver may still note its failure.
AbortStops == [][row.status = "ABORTED" => row'.status \in {"ABORTED", "FAILED"}]_vars

\* A joint cutover ends, or nothing holds it and it can be asked for again.
CutoverEndsOrCanBeResumed == row.status = "CUTOVER" ~> (row.status # "CUTOVER" \/ ~Held)
=============================================================================
