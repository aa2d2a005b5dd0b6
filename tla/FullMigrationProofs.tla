------------------------- MODULE FullMigrationProofs -------------------------
(***************************************************************************)
(* The joint cutover for any number of failures, crashes, requests and     *)
(* calls.  Sound holds for any number of deliveries at once and any of the *)
(* faults: one leg of each kind, the application behind its database.      *)
(* Safe needs one delivery at a time and none of the faults: the row never *)
(* strands a promoted database, an abort leaves no leg, the bridge is      *)
(* ahead of the fence.                                                     *)
(***************************************************************************)
EXTENDS FullMigration, TLAPS

\* One delivery at a time.
OneWorker == \A v, w \in Worker : v = w

Forward == {"CUTOVER", "FAILED_FORWARD", "BRIDGING", "COMPLETED"}
Early == {"PENDING", "DB_REPLICATING", "APP_STAGING"}
Drafting == {"replicate", "ensureDb", "makeDb", "linkDb", "ensureApp", "stage", "makeApp",
             "linkApp", "ready"}
Waiting == {"waitDb", "checkDb", "waitApp", "checkApp"}
Finishing == {"finalize", "drive", "waitLeg", "finish"}
Opening == {"openBridge", "waitBridge"}
Asking == {"promote", "waitPromote", "verdict"}
Giving == {"waitIdle", "rollBridge", "saveFailed"}
Tearing == {"tearBridge", "tearApp", "tearDb", "abortSave"}
Down == {"ABORTED", "FAILED"}

\* The cutover of the database's leg has started, or will; or the promote is on record.
InFlight == dbStatus = "CUTOVER" \/ (dbJobs > 0 /\ dbStatus = "SYNCED")
Decisive == InFlight \/ dbPromised
\* The bridge is open or out of the question.
BridgeDone == appOpen \/ appMode = "dnsOnly" \/ appStatus \notin {"READY", "CUTOVER"}
AppDown == made.app > 0 => appStatus \in Down
DbDown == made.db > 0 => dbStatus \in Down

\* What the legs keep between them: the application's cutover is behind the promote.
LegInv ==
  /\ dbPrimary => dbPromised
  /\ dbPromised => dbStatus \in {"CUTOVER", "COMPLETED"}
  /\ dbStatus = "COMPLETED" => dbPrimary
  /\ "cutover" \in appJobs \/ appBound = "dst" \/ appStatus \in {"BRIDGING", "COMPLETED"} =>
       dbStatus = "COMPLETED"
  /\ \A w \in Worker : pc[w] \in Finishing => dbStatus = "COMPLETED"
\* One run of the migration at a time.
RunInv ==
  /\ \A w \in Worker : pc[w] \in Staging => job[w].kind = "run"
  /\ \A v, w \in Worker :
       pc[v] # "idle" /\ pc[w] # "idle" /\ job[v].kind = "run" /\ job[w].kind = "run" => v = w
\* A leg is made only by the run that saw none.
MadeInv ==
  /\ \A w \in Worker : pc[w] = "makeDb" => made.db = 0
  /\ \A w \in Worker : pc[w] \in {"stage", "makeApp"} => made.app = 0
  /\ made.db <= 1 /\ made.app <= 1

\* The row goes forward before the database does, and the bridge opens in between.
RowInv ==
  /\ Decisive => row.status \in Forward
  /\ row.status \in Forward \ {"CUTOVER"} => dbPromised
  /\ row.status \notin Forward => ~appOpen /\ appJobs = {}
  /\ row.status \in Forward \cup {"READY"} =>
       appStatus \notin {"PENDING", "PROVISIONING", "ABORTED"}
\* Where the driver stands, the row says so, in the table and in its copy.
PlaceInv ==
  \A w \in Worker :
    /\ pc[w] \notin Calling
    /\ pc[w] = "start" => row.status \in Resumable /\ fm[w].status = row.status
    /\ pc[w] \in Drafting => row.status \in Early /\ fm[w].status \in Early
    /\ pc[w] \in Waiting => row.status \in Early \cup {"ABORTED"} /\ fm[w].status \in Early
    /\ pc[w] \in {"checkApp", "ready"} /\ row.status # "ABORTED" =>
         appStatus \notin {"PENDING", "PROVISIONING", "ABORTED"}
    /\ pc[w] \in {"undoApp", "undoDb"} => row.status \in Early \cup {"ABORTED"}
    /\ pc[w] \in {"leaveApp", "leaveDb"} => row.status = "ABORTED"
    /\ pc[w] = "claim" => row.status \in {"READY", "CUTOVER", "FAILED_FORWARD", "ABORTED"}
    /\ pc[w] \in (Cutting \ {"claim"}) \cup {"saveForward"} =>
         row.status = "CUTOVER" /\ fm[w].status = "CUTOVER"
    /\ pc[w] = "saveFailed" => row.status \in Early \cup {"ABORTED", "CUTOVER"}
\* The abort holds every leg there is, and leaves none behind it at work.
CallerInv ==
  /\ pc[Caller] \in {"idle"} \cup Calling
  /\ pc[Caller] \in Tearing =>
       /\ row.status \in Down
       /\ (made.db > 0 => fm[Caller].db) /\ (made.app > 0 => fm[Caller].app)
  /\ pc[Caller] \in {"tearDb", "abortSave"} => AppDown
  /\ pc[Caller] = "abortSave" => DbDown
  /\ pc[Caller] \in {"destroyLeg", "destroySave"} => row.status \in {"BRIDGING", "COMPLETED"}
  /\ row.status = "ABORTED" /\ pc[Caller] \notin Tearing => AppDown /\ DbDown
\* The cutover of the database's leg is asked for once, and its driver waits for its answer.
DecideInv ==
  /\ dbJobs <= 1
  /\ dbJobs > 0 => ~dbNote /\ dbStatus \in {"SYNCED", "FAILED", "ABORTED"}
  /\ \A w \in Worker :
    /\ pc[w] \in Opening \cup {"promote"} =>
         dbJobs = 0 /\ (seen[w] = "SYNCED" => dbStatus \in {"SYNCED", "FAILED", "ABORTED"})
    /\ pc[w] \in {"waitBridge"} \cup Giving => ~Decisive
    /\ pc[w] = "verdict" => (InFlight => dbPromised)
    /\ pc[w] = "saveForward" => dbPromised
\* The bridge is opened by a job only before the fence.
JobInv ==
  /\ "open" \in appJobs =>
       /\ form.bridgeFirst /\ appMode = "bridge" /\ ~appOpen /\ ~Decisive
       /\ \A w \in Worker : pc[w] \in {"idle", "claim", "readDb", "waitIdle"} \cup Opening
  /\ appJobs # {} => appStatus \in {"READY", "CUTOVER"}
  /\ appStatus = "CUTOVER" => appOpen \/ appJobs # {}
\* From the fence to the end of the promote the bridge is done where it comes first.
BridgeInv ==
  /\ appMode = "dnsOnly" => ~appOpen
  /\ appOpen /\ ~form.bridgeFirst => dbStatus = "COMPLETED"
  /\ form.bridgeFirst /\ Decisive /\ dbStatus # "COMPLETED" => BridgeDone
\* A driver that could give up knows of the bridge it would roll back.
AheadInv ==
  \A w \in Worker :
    /\ form.bridgeFirst /\ (pc[w] = "promote" \/ (pc[w] = "openBridge" /\ Decisive)) => BridgeDone
    /\ appOpen /\ dbStatus # "COMPLETED" /\ pc[w] \in Asking => ahead[w]
    /\ pc[w] \in Opening => form.bridgeFirst
    /\ pc[w] \in {"rollBridge", "saveFailed"} => appJobs = {}
    /\ pc[w] = "saveFailed" => ~appOpen
\* What holds besides with one delivery at a time and none of the faults.
Safe == RowInv /\ PlaceInv /\ CallerInv /\ DecideInv /\ JobInv /\ BridgeInv /\ AheadInv

\* The parts of TypeOK, for the steps of its proof.
FormOK == form \in Forms
RowsOK == row \in Row /\ fm \in [Actor -> Row]
WaitingOK == waiting \in [Job -> Nat]
StalledOK == stalled \in [Job -> Nat]
PlacesOK == pc \in [Actor -> PC]
WorkOK == job \in [Worker -> Job] /\ ahead \in [Worker -> BOOLEAN]
SeenOK == seen \in [Worker -> DbStatus \cup AppStatus]
\* A run starts from a status its CASE knows.
StartOK == \A w \in Worker : pc[w] = "start" => fm[w].status \in Resumable
MadeOK == made \in [{"db", "app"} -> Nat]
DbOK == dbStatus \in DbStatus /\ {dbPromised, dbPrimary, dbNote} \subseteq BOOLEAN /\ dbJobs \in Nat
AppOK == /\ appStatus \in AppStatus /\ appOpen \in BOOLEAN /\ appBound \in {"src", "dst"}
         /\ appMode \in {"bridge", "dnsOnly"} /\ appJobs \subseteq {"open", "cutover"}
BudgetOK == boot \in BOOLEAN /\ budget \in [{"failures", "crashes", "requests", "calls"} -> Nat]

Typed == TypeOK /\ StartOK
\* What holds for any workers and faults.
Sound == Typed /\ LegInv /\ RunInv /\ MadeInv

-----------------------------------------------------------------------------
\* What every leaf below may expand: the vocabulary of the module and the parts of
\* the invariant.
USE ActorAssumption, FormAssumption, BoundAssumption
    DEF queueVars, localVars, dbVars, appVars, Actor, Status, Resumable, Abortable, Row,
        NewRow, Form, DbStatus, AppStatus, Staging, Undoing, Cutting, Calling, PC, TypeOK,
        FormOK, WaitingOK, StalledOK, PlacesOK, RowsOK, WorkOK, SeenOK, StartOK, MadeOK,
        DbOK, AppOK, BudgetOK, Spend, Enqueue, Goto, Forget, Go, Done, LegsStay, OnlyDb,
        OnlyApp, Save, SetState, Fault, Typed, Sound, Forward, Early, Drafting, Waiting,
        Finishing, Opening, Asking, Giving, Tearing, Down, InFlight, Decisive, BridgeDone,
        AppDown, DbDown, RowInv, PlaceInv, CallerInv, DecideInv, JobInv, BridgeInv,
        AheadInv, Safe, OneWorker, RunIsHeld, TakenUp, EnsureLeg, StopIfAborted, Park,
        RollBackBridge, MayFailToUndo, SaveEnd, AfterApp, AfterDb, DbUndecided, Promoted,
        Held, LooksAgain, Undisturbed, Db!BeforeCutover, Db!Copy, Db!Fail, Db!Enter,
        Db!FallBack, Db!Ask, Db!Promote, Db!Complete, Db!Abort, Leg!Provision, Leg!Fail,
        Leg!EnterCutover, Leg!OpenBridge, Leg!LeaveOpening, Leg!Bind, Leg!Finish,
        Leg!RollBack, Leg!Abort, Leg!CloseBridge, Leg!Destroyed

\* What an actor writes into its copy of the row leaves it a row.
LEMMA RowEdits ==
  ASSUME TypeOK
  PROVE  /\ row \in Row
         /\ \A a \in Actor : fm[a] \in Row
         /\ \A a \in Actor : [fm[a] EXCEPT !.db = TRUE] \in Row
         /\ \A a \in Actor : [fm[a] EXCEPT !.app = TRUE] \in Row
         /\ \A a \in Actor, s \in Status : [fm[a] EXCEPT !.status = s] \in Row
         /\ \A s \in Status : [row EXCEPT !.status = s] \in Row
<1>1. row \in Row /\ \A a \in Actor : fm[a] \in Row
  OBVIOUS
<1>2. ASSUME NEW m \in Row
      PROVE  [m EXCEPT !.db = TRUE] \in Row
  OBVIOUS
<1>3. ASSUME NEW m \in Row
      PROVE  [m EXCEPT !.app = TRUE] \in Row
  OBVIOUS
<1>4. ASSUME NEW m \in Row, NEW s \in Status
      PROVE  [m EXCEPT !.status = s] \in Row
  OBVIOUS
<1> HIDE DEF Row, Status, Actor, TypeOK
<1> QED
  BY <1>1, <1>2, <1>3, <1>4

\* A step that saves a copy of the row, or replaces an actor's.
LEMMA RowMoves ==
  ASSUME TypeOK, NEW a \in Actor, NEW m \in Row, NEW n \in Row,
         row' \in {row, m},
         fm' \in {fm, [fm EXCEPT ![a] = n], [fm EXCEPT ![a] = NewRow]}
  PROVE  RowsOK'
<1>1. NewRow \in Row
  OBVIOUS
<1> HIDE DEF Row, NewRow, Actor
<1> QED
  BY <1>1

\* A job asked for again leaves the queue well-formed.
LEMMA EnqueueType ==
  ASSUME TypeOK, NEW k \in {"run", "cutover"}, Enqueue(k)
  PROVE  WaitingOK'
<1> DEFINE n == IF waiting[NewJob(k)] < MaxJobs THEN waiting[NewJob(k)] + 1 ELSE waiting[NewJob(k)]
<1>1. NewJob(k) \in Job
  BY DEF Job, NewJob
<1>2. n \in Nat
  BY <1>1
<1>3. waiting' = [waiting EXCEPT ![NewJob(k)] = n]
  OBVIOUS
<1> HIDE DEF n
<1> QED
  BY <1>1, <1>2, <1>3

\* A resumed run goes on where its row was.
LEMMA StartGoes ==
  ASSUME Typed, NEW w \in Worker, Start(w)
  PROVE  /\ pc[w] = "start" /\ LegsStay /\ UNCHANGED budget
         /\ \/ fm[w].status = "PENDING" /\ Save(w, fm[w], "replicate")
            \/ fm[w].status = "DB_REPLICATING" /\ Go(w, "replicate") /\ UNCHANGED row
            \/ fm[w].status = "APP_STAGING" /\ Go(w, "ensureApp") /\ UNCHANGED row
            \/ fm[w].status = "READY" /\ (Go(w, "claim") \/ Done(w)) /\ UNCHANGED row
<1> HIDE DEF Save, Go, Done, LegsStay
<1>1. fm[w].status \in Resumable
  BY DEF Start
<1>2. CASE fm[w].status = "PENDING"
  BY <1>2 DEF Start
<1>3. CASE fm[w].status = "DB_REPLICATING"
  BY <1>3 DEF Start
<1>4. CASE fm[w].status = "APP_STAGING"
  BY <1>4 DEF Start
<1>5. CASE fm[w].status = "READY"
  BY <1>5 DEF Start
<1> QED
  BY <1>1, <1>2, <1>3, <1>4, <1>5

\* A run keeps its place, or leaves it.
Keeps == \A v \in Worker : pc'[v] \in Staging => pc[v] \in Staging

LEMMA RunKept ==
  ASSUME RunInv, UNCHANGED job, Keeps, \A v \in Worker : pc'[v] # "idle" => pc[v] # "idle"
  PROVE  RunInv'
<1> HIDE DEF Staging
<1> QED
  BY DEF Keeps, RunInv

-----------------------------------------------------------------------------
\* Every step keeps what holds for any workers and faults.
HIDE DEF PC, Staging, Undoing, Cutting, Calling, DbStatus, AppStatus, Status

\* A run goes on where the row was.
LEMMA StartSound ==
  ASSUME Sound, NEW w \in Worker,
         Start(w)
  PROVE  Sound'
<1> USE StartGoes
<1>1. FormOK' /\ WaitingOK' /\ StalledOK'
  OBVIOUS
<1>2. WorkOK'
  <2>1. UNCHANGED job
    OBVIOUS
  <2>2. UNCHANGED ahead \/ ahead' = [ahead EXCEPT ![w] = FALSE]
    OBVIOUS
  <2> QED
    BY <2>1, <2>2
<1>3. StartOK' /\ MadeOK' /\ BudgetOK'
  OBVIOUS
<1>4. PlacesOK'
  <2>1. \E p \in {"replicate", "ensureApp", "claim", "idle"} : pc' = [pc EXCEPT ![w] = p]
    OBVIOUS
  <2>2. {"replicate", "ensureApp", "claim", "idle"} \subseteq PC
    BY DEF PC, Staging, Cutting
  <2> QED
    BY <2>1, <2>2
<1>5. SeenOK'
  BY DEF DbStatus, AppStatus
<1>6. RowsOK'
  <2>1. fm[w] \in Row
    OBVIOUS
  <2>2. row' \in {row, fm[w]} /\ fm' \in {fm, [fm EXCEPT ![w] = fm[w]], [fm EXCEPT ![w] = NewRow]}
    OBVIOUS
  <2> QED
    BY <2>1, <2>2, RowMoves
<1>7. DbOK'
  BY DEF DbStatus
<1>8. AppOK'
  BY DEF AppStatus
<1>9. LegInv'
  BY DEF LegInv
<1>10. RunInv'
  <2>1. UNCHANGED job /\ \A v \in Worker : pc'[v] # "idle" => pc[v] # "idle"
    OBVIOUS
  <2>2. Keeps
    BY DEF Keeps, Staging
  <2> QED
    BY <2>1, <2>2, RunKept
<1>11. MadeInv'
  BY DEF RunInv, MadeInv
<1> QED
  BY <1>1, <1>2, <1>3, <1>4, <1>5, <1>6, <1>7, <1>8, <1>9, <1>10, <1>11

\* The database's leg is made, or found.
LEMMA ReplicateSound ==
  ASSUME Sound, NEW w \in Worker,
         Replicate(w)
  PROVE  Sound'
<1> USE DEF Replicate
<1>1. FormOK' /\ WaitingOK' /\ StalledOK'
  OBVIOUS
<1>2. WorkOK' /\ StartOK' /\ MadeOK' /\ BudgetOK'
  OBVIOUS
<1>3. PlacesOK'
  BY DEF PC, Staging, Undoing, Cutting, Calling
<1>4. SeenOK'
  BY DEF DbStatus, AppStatus
<1>5. RowsOK'
  <2> DEFINE m == [fm[w] EXCEPT !.status = "DB_REPLICATING"]
             n == [fm[w] EXCEPT !.status = "DB_REPLICATING"]
  <2>1. m \in Row /\ n \in Row
    BY DEF Status
  <2>2. row' \in {row, m} /\ fm' \in {fm, [fm EXCEPT ![w] = n], [fm EXCEPT ![w] = NewRow]}
    OBVIOUS
  <2> HIDE DEF m, n
  <2> QED
    BY <2>1, <2>2, RowMoves
<1>6. DbOK' /\ AppOK'
  BY DEF DbStatus, AppStatus
<1>7. LegInv'
  BY DEF LegInv
<1>8. RunInv'
  BY DEF RunInv, Staging
<1>9. MadeInv'
  BY DEF RunInv, MadeInv
<1> QED
  BY <1>1, <1>2, <1>3, <1>4, <1>5, <1>6, <1>7, <1>8, <1>9

LEMMA EnsureDbSound ==
  ASSUME Sound, NEW w \in Worker,
         EnsureDb(w) \/ LinkDb(w)
  PROVE  Sound'
<1> USE DEF EnsureDb, LinkDb
<1>1. FormOK' /\ WaitingOK' /\ StalledOK'
  OBVIOUS
<1>2. WorkOK' /\ StartOK' /\ MadeOK' /\ BudgetOK'
  OBVIOUS
<1>3. PlacesOK'
  BY DEF PC, Staging, Undoing, Cutting, Calling
<1>4. SeenOK'
  BY DEF DbStatus, AppStatus
<1>5. RowsOK'
  <2> DEFINE m == [fm[w] EXCEPT !.db = TRUE]
             n == [fm[w] EXCEPT !.db = TRUE]
  <2>1. m \in Row /\ n \in Row
    <3> HIDE DEF Row, Status, TypeOK, EnsureLeg, Save, Go, Goto
    <3> QED
      BY RowEdits
  <2>2. row' \in {row, m} /\ fm' \in {fm, [fm EXCEPT ![w] = n], [fm EXCEPT ![w] = NewRow]}
    OBVIOUS
  <2> HIDE DEF m, n
  <2> QED
    BY <2>1, <2>2, RowMoves
<1>6. DbOK' /\ AppOK'
  BY DEF DbStatus, AppStatus
<1>7. LegInv'
  BY DEF LegInv
<1>8. RunInv'
  <2>1. UNCHANGED job /\ \A v \in Worker : pc'[v] # "idle" => pc[v] # "idle"
    OBVIOUS
  <2>2. Keeps
    BY DEF Keeps, Staging
  <2> QED
    BY <2>1, <2>2, RunKept
<1>9. MadeInv'
  BY DEF RunInv, MadeInv
<1> QED
  BY <1>1, <1>2, <1>3, <1>4, <1>5, <1>6, <1>7, <1>8, <1>9

LEMMA EnsureAppSound ==
  ASSUME Sound, NEW w \in Worker,
         EnsureApp(w) \/ LinkApp(w)
  PROVE  Sound'
<1> USE DEF EnsureApp, LinkApp
<1>1. FormOK' /\ WaitingOK' /\ StalledOK'
  OBVIOUS
<1>2. WorkOK' /\ StartOK' /\ MadeOK' /\ BudgetOK'
  OBVIOUS
<1>3. PlacesOK'
  BY DEF PC, Staging, Undoing, Cutting, Calling
<1>4. SeenOK'
  BY DEF DbStatus, AppStatus
<1>5. RowsOK'
  <2> DEFINE m == [fm[w] EXCEPT !.app = TRUE]
             n == [fm[w] EXCEPT !.app = TRUE]
  <2>1. m \in Row /\ n \in Row
    <3> HIDE DEF Row, Status, TypeOK, EnsureLeg, Save, Go, Goto
    <3> QED
      BY RowEdits
  <2>2. row' \in {row, m} /\ fm' \in {fm, [fm EXCEPT ![w] = n], [fm EXCEPT ![w] = NewRow]}
    OBVIOUS
  <2> HIDE DEF m, n
  <2> QED
    BY <2>1, <2>2, RowMoves
<1>6. DbOK' /\ AppOK'
  BY DEF DbStatus, AppStatus
<1>7. LegInv'
  BY DEF LegInv
<1>8. RunInv'
  <2>1. UNCHANGED job /\ \A v \in Worker : pc'[v] # "idle" => pc[v] # "idle"
    OBVIOUS
  <2>2. Keeps
    BY DEF Keeps, Staging
  <2> QED
    BY <2>1, <2>2, RunKept
<1>9. MadeInv'
  BY DEF RunInv, MadeInv
<1> QED
  BY <1>1, <1>2, <1>3, <1>4, <1>5, <1>6, <1>7, <1>8, <1>9

LEMMA MakeSound ==
  ASSUME Sound, NEW w \in Worker,
         MakeDb(w) \/ MakeApp(w)
  PROVE  Sound'
<1> USE DEF MakeDb, MakeApp
<1>1. FormOK' /\ WaitingOK' /\ StalledOK'
  OBVIOUS
<1>2. WorkOK' /\ StartOK' /\ MadeOK' /\ BudgetOK'
  OBVIOUS
<1>3. PlacesOK'
  BY DEF PC, Staging, Undoing, Cutting, Calling
<1>4. SeenOK'
  BY DEF DbStatus, AppStatus
<1>5. RowsOK'
  OBVIOUS
<1>6. DbOK' /\ AppOK'
  BY DEF DbStatus, AppStatus
<1>7. LegInv'
  BY DEF LegInv
<1>8. RunInv'
  BY DEF RunInv, Staging
<1>9. MadeInv'
  <2> USE DEF RunInv, MadeInv, Staging
  <2>1. \A v \in Worker : pc[v] \in Staging => v = w
    OBVIOUS
  <2>2. CASE MakeDb(w)
    <3>1. made.db = 0 /\ made'.db = 1 /\ made'.app = made.app
      BY <2>2
    <3>2. pc' = [pc EXCEPT ![w] = "linkDb"]
      BY <2>2
    <3> QED
      BY <2>1, <3>1, <3>2
  <2>3. CASE MakeApp(w)
    <3>1. made.app = 0 /\ made'.app = 1 /\ made'.db = made.db
      BY <2>3
    <3>2. pc' = [pc EXCEPT ![w] = "linkApp"]
      BY <2>3
    <3> QED
      BY <2>1, <3>1, <3>2
  <2> QED
    BY <2>2, <2>3
<1> QED
  BY <1>1, <1>2, <1>3, <1>4, <1>5, <1>6, <1>7, <1>8, <1>9

\* The application's leg is made, or found, once the database's is in step.
LEMMA StageSound ==
  ASSUME Sound, NEW w \in Worker,
         Stage(w)
  PROVE  Sound'
<1> USE DEF Stage
<1>1. FormOK' /\ WaitingOK' /\ StalledOK'
  OBVIOUS
<1>2. WorkOK' /\ StartOK' /\ MadeOK' /\ BudgetOK'
  OBVIOUS
<1>3. PlacesOK'
  BY DEF PC, Staging, Undoing, Cutting, Calling
<1>4. SeenOK'
  BY DEF DbStatus, AppStatus
<1>5. RowsOK'
  <2> DEFINE m == [fm[w] EXCEPT !.status = "APP_STAGING"]
             n == [fm[w] EXCEPT !.status = "APP_STAGING"]
  <2>1. m \in Row /\ n \in Row
    BY DEF Status
  <2>2. row' \in {row, m} /\ fm' \in {fm, [fm EXCEPT ![w] = n], [fm EXCEPT ![w] = NewRow]}
    OBVIOUS
  <2> HIDE DEF m, n
  <2> QED
    BY <2>1, <2>2, RowMoves
<1>6. DbOK' /\ AppOK'
  BY DEF DbStatus, AppStatus
<1>7. LegInv'
  BY DEF LegInv
<1>8. RunInv'
  BY DEF RunInv, Staging
<1>9. MadeInv'
  BY DEF RunInv, MadeInv
<1> QED
  BY <1>1, <1>2, <1>3, <1>4, <1>5, <1>6, <1>7, <1>8, <1>9

\* A leg is waited for, and the row looked at again.
LEMMA WaitSound ==
  ASSUME Sound, NEW w \in Worker,
         WaitDb(w) \/ CheckDb(w) \/ StageFails(w)
  PROVE  Sound'
<1> USE DEF WaitDb, CheckDb, StageFails
<1>1. FormOK' /\ WaitingOK' /\ StalledOK'
  OBVIOUS
<1>2. WorkOK' /\ StartOK' /\ MadeOK' /\ BudgetOK'
  OBVIOUS
<1>3. PlacesOK'
  BY DEF PC, Staging, Undoing, Cutting, Calling
<1>4. SeenOK'
  BY DEF DbStatus, AppStatus
<1>5. RowsOK'
  OBVIOUS
<1>6. DbOK' /\ AppOK'
  BY DEF DbStatus, AppStatus
<1>7. LegInv'
  BY DEF LegInv
<1>8. RunInv'
  <2>1. UNCHANGED job /\ \A v \in Worker : pc'[v] # "idle" => pc[v] # "idle"
    OBVIOUS
  <2>2. Keeps
    BY DEF Keeps, Staging
  <2> QED
    BY <2>1, <2>2, RunKept
<1>9. MadeInv'
  BY DEF RunInv, MadeInv
<1> QED
  BY <1>1, <1>2, <1>3, <1>4, <1>5, <1>6, <1>7, <1>8, <1>9

LEMMA WaitAppSound ==
  ASSUME Sound, NEW w \in Worker,
         WaitApp(w) \/ CheckApp(w)
  PROVE  Sound'
<1> USE DEF WaitApp, CheckApp
<1>1. FormOK' /\ WaitingOK' /\ StalledOK'
  OBVIOUS
<1>2. WorkOK' /\ StartOK' /\ MadeOK' /\ BudgetOK'
  OBVIOUS
<1>3. PlacesOK'
  BY DEF PC, Staging, Undoing, Cutting, Calling
<1>4. SeenOK'
  BY DEF DbStatus, AppStatus
<1>5. RowsOK'
  OBVIOUS
<1>6. DbOK'
  BY DEF DbStatus
<1>7. AppOK'
  BY DEF AppStatus
<1>8. LegInv'
  BY DEF LegInv
<1>9. RunInv'
  <2>1. UNCHANGED job /\ \A v \in Worker : pc'[v] # "idle" => pc[v] # "idle"
    OBVIOUS
  <2>2. Keeps
    BY DEF Keeps, Staging
  <2> QED
    BY <2>1, <2>2, RunKept
<1>10. MadeInv'
  BY DEF RunInv, MadeInv
<1> QED
  BY <1>1, <1>2, <1>3, <1>4, <1>5, <1>6, <1>7, <1>8, <1>9, <1>10

LEMMA ReadySound ==
  ASSUME Sound, NEW w \in Worker,
         Ready(w)
  PROVE  Sound'
<1> USE DEF Ready
<1>1. FormOK' /\ WaitingOK' /\ StalledOK'
  OBVIOUS
<1>2. WorkOK'
  OBVIOUS
<1>3. StartOK'
  OBVIOUS
<1>4. MadeOK' /\ BudgetOK'
  OBVIOUS
<1>5. PlacesOK'
  <2>1. \E p \in {"claim", "idle"} : pc' = [pc EXCEPT ![w] = p]
    OBVIOUS
  <2>2. {"claim", "idle"} \subseteq PC
    BY DEF PC, Staging, Undoing, Cutting
  <2> QED
    BY <2>1, <2>2
<1>6. SeenOK'
  BY DEF DbStatus, AppStatus
<1>7. RowsOK'
  <2> DEFINE m == [fm[w] EXCEPT !.status = "READY"]
             n == [fm[w] EXCEPT !.status = "READY"]
  <2>1. m \in Row /\ n \in Row
    BY DEF Status
  <2>2. row' \in {row, m} /\ fm' \in {fm, [fm EXCEPT ![w] = n], [fm EXCEPT ![w] = NewRow]}
    OBVIOUS
  <2> HIDE DEF m, n
  <2> QED
    BY <2>1, <2>2, RowMoves
<1>8. DbOK' /\ AppOK'
  BY DEF DbStatus, AppStatus
<1>9. LegInv'
  BY DEF LegInv
<1>10. RunInv'
  <2>1. UNCHANGED job /\ \A v \in Worker : pc'[v] # "idle" => pc[v] # "idle"
    OBVIOUS
  <2>2. Keeps
    BY DEF Keeps, Staging
  <2> QED
    BY <2>1, <2>2, RunKept
<1>11. MadeInv'
  BY DEF RunInv, MadeInv
<1> QED
  BY <1>1, <1>2, <1>3, <1>4, <1>5, <1>6, <1>7, <1>8, <1>9, <1>10, <1>11

\* The legs are undone, each call as its leg allows.
LEMMA AbortAppSound ==
  ASSUME Sound, NEW a \in Actor,
         AbortApp(a)
  PROVE  Sound'
<1> USE DEF AbortApp
<1>1. FormOK' /\ WaitingOK' /\ StalledOK'
  OBVIOUS
<1>2. WorkOK' /\ StartOK' /\ MadeOK' /\ BudgetOK'
  OBVIOUS
<1>3. PlacesOK'
  BY DEF PC, Staging, Undoing, Cutting, Calling
<1>4. SeenOK'
  BY DEF DbStatus, AppStatus
<1>5. RowsOK'
  OBVIOUS
<1>6. DbOK' /\ AppOK'
  BY DEF DbStatus, AppStatus
<1>7. LegInv'
  BY DEF LegInv
<1>8. RunInv'
  <2>1. UNCHANGED job /\ \A v \in Worker : pc'[v] # "idle" => pc[v] # "idle"
    OBVIOUS
  <2>2. Keeps
    BY DEF Keeps, Staging
  <2> QED
    BY <2>1, <2>2, RunKept
<1>9. MadeInv'
  BY DEF RunInv, MadeInv
<1> QED
  BY <1>1, <1>2, <1>3, <1>4, <1>5, <1>6, <1>7, <1>8, <1>9

LEMMA AbortDbSound ==
  ASSUME Sound, NEW a \in Actor,
         AbortDb(a)
  PROVE  Sound'
<1> USE DEF AbortDb
<1>1. FormOK' /\ WaitingOK' /\ StalledOK'
  OBVIOUS
<1>2. WorkOK'
  <2>1. UNCHANGED job
    OBVIOUS
  <2>2. ahead' \in {ahead, [ahead EXCEPT ![a] = FALSE]}
    OBVIOUS
  <2> QED
    BY <2>1, <2>2
<1>3. StartOK' /\ MadeOK'
  OBVIOUS
<1>4. BudgetOK'
  OBVIOUS
<1>5. PlacesOK'
  BY DEF PC, Staging, Undoing, Cutting, Calling
<1>6. SeenOK'
  BY DEF DbStatus, AppStatus
<1>7. RowsOK'
  <2> DEFINE m == row
             n == row
  <2>1. m \in Row /\ n \in Row
    BY DEF Status
  <2>2. row' \in {row, m} /\ fm' \in {fm, [fm EXCEPT ![a] = n], [fm EXCEPT ![a] = NewRow]}
    OBVIOUS
  <2> HIDE DEF m, n
  <2> QED
    BY <2>1, <2>2, RowMoves
<1>8. DbOK' /\ AppOK'
  BY DEF DbStatus, AppStatus
<1>9. LegInv'
  BY DEF LegInv
<1>10. RunInv'
  <2>1. UNCHANGED job /\ \A v \in Worker : pc'[v] # "idle" => pc[v] # "idle"
    OBVIOUS
  <2>2. Keeps
    BY DEF Keeps, Staging
  <2> QED
    BY <2>1, <2>2, RunKept
<1>11. MadeInv'
  BY DEF RunInv, MadeInv
<1> QED
  BY <1>1, <1>2, <1>3, <1>4, <1>5, <1>6, <1>7, <1>8, <1>9, <1>10, <1>11

\* What the driver saves when it is over.
LEMMA SaveFailedSound ==
  ASSUME Sound, NEW w \in Worker,
         SaveFailed(w)
  PROVE  Sound'
<1> USE DEF SaveFailed
<1>1. FormOK' /\ WaitingOK' /\ StalledOK'
  OBVIOUS
<1>2. WorkOK' /\ StartOK' /\ MadeOK' /\ BudgetOK'
  OBVIOUS
<1>3. PlacesOK'
  BY DEF PC, Staging, Undoing, Cutting, Calling
<1>4. SeenOK'
  BY DEF DbStatus, AppStatus
<1>5. RowsOK'
  <2> DEFINE m == [fm[w] EXCEPT !.status = "FAILED"]
             n == [fm[w] EXCEPT !.status = "FAILED"]
  <2>1. m \in Row /\ n \in Row
    BY DEF Status
  <2>2. row' \in {row, m} /\ fm' \in {fm, [fm EXCEPT ![w] = n], [fm EXCEPT ![w] = NewRow]}
    OBVIOUS
  <2> HIDE DEF m, n
  <2> QED
    BY <2>1, <2>2, RowMoves
<1>6. DbOK' /\ AppOK'
  BY DEF DbStatus, AppStatus
<1>7. LegInv'
  BY DEF LegInv
<1>8. RunInv'
  BY DEF RunInv, Staging
<1>9. MadeInv'
  BY DEF RunInv, MadeInv
<1> QED
  BY <1>1, <1>2, <1>3, <1>4, <1>5, <1>6, <1>7, <1>8, <1>9

LEMMA SaveForwardSound ==
  ASSUME Sound, NEW w \in Worker,
         SaveForward(w)
  PROVE  Sound'
<1> USE DEF SaveForward
<1>1. FormOK' /\ WaitingOK' /\ StalledOK'
  OBVIOUS
<1>2. WorkOK' /\ StartOK' /\ MadeOK' /\ BudgetOK'
  OBVIOUS
<1>3. PlacesOK'
  BY DEF PC, Staging, Undoing, Cutting, Calling
<1>4. SeenOK'
  BY DEF DbStatus, AppStatus
<1>5. RowsOK'
  <2> DEFINE m == [fm[w] EXCEPT !.status = "FAILED_FORWARD"]
             n == [fm[w] EXCEPT !.status = "FAILED_FORWARD"]
  <2>1. m \in Row /\ n \in Row
    BY DEF Status
  <2>2. row' \in {row, m} /\ fm' \in {fm, [fm EXCEPT ![w] = n], [fm EXCEPT ![w] = NewRow]}
    OBVIOUS
  <2> HIDE DEF m, n
  <2> QED
    BY <2>1, <2>2, RowMoves
<1>6. DbOK' /\ AppOK'
  BY DEF DbStatus, AppStatus
<1>7. LegInv'
  BY DEF LegInv
<1>8. RunInv'
  BY DEF RunInv, Staging
<1>9. MadeInv'
  BY DEF RunInv, MadeInv
<1> QED
  BY <1>1, <1>2, <1>3, <1>4, <1>5, <1>6, <1>7, <1>8, <1>9

LEMMA FinishSound ==
  ASSUME Sound, NEW w \in Worker,
         Finish(w)
  PROVE  Sound'
<1> USE DEF Finish
<1>1. FormOK' /\ WaitingOK' /\ StalledOK'
  OBVIOUS
<1>2. WorkOK' /\ StartOK' /\ MadeOK' /\ BudgetOK'
  OBVIOUS
<1>3. PlacesOK'
  BY DEF PC, Staging, Undoing, Cutting, Calling
<1>4. SeenOK'
  BY DEF DbStatus, AppStatus
<1>5. RowsOK'
  <2> DEFINE m == [fm[w] EXCEPT !.status = IF appStatus = "BRIDGING" THEN "BRIDGING" ELSE "COMPLETED"]
             n == [fm[w] EXCEPT !.status = IF appStatus = "BRIDGING" THEN "BRIDGING" ELSE "COMPLETED"]
  <2>1. m \in Row /\ n \in Row
    BY DEF Status
  <2>2. row' \in {row, m} /\ fm' \in {fm, [fm EXCEPT ![w] = n], [fm EXCEPT ![w] = NewRow]}
    OBVIOUS
  <2> HIDE DEF m, n
  <2> QED
    BY <2>1, <2>2, RowMoves
<1>6. DbOK' /\ AppOK'
  BY DEF DbStatus, AppStatus
<1>7. LegInv'
  BY DEF LegInv
<1>8. RunInv'
  BY DEF RunInv, Staging
<1>9. MadeInv'
  BY DEF RunInv, MadeInv
<1> QED
  BY <1>1, <1>2, <1>3, <1>4, <1>5, <1>6, <1>7, <1>8, <1>9

\* The row is claimed for the cutover.
LEMMA ClaimSound ==
  ASSUME Sound, NEW w \in Worker,
         Claim(w)
  PROVE  Sound'
<1> USE DEF Claim
<1>1. FormOK' /\ WaitingOK' /\ StalledOK'
  OBVIOUS
<1>2. WorkOK'
  OBVIOUS
<1>3. StartOK'
  OBVIOUS
<1>4. MadeOK' /\ BudgetOK'
  OBVIOUS
<1>5. PlacesOK'
  BY DEF PC, Staging, Undoing, Cutting, Calling
<1>6. SeenOK'
  BY DEF DbStatus, AppStatus
<1>7. RowsOK'
  <2> DEFINE m == [row EXCEPT !.status = "CUTOVER"]
             n == [fm[w] EXCEPT !.status = "CUTOVER"]
  <2>1. m \in Row /\ n \in Row
    BY DEF Status
  <2>2. row' \in {row, m} /\ fm' \in {fm, [fm EXCEPT ![w] = n], [fm EXCEPT ![w] = NewRow]}
    OBVIOUS
  <2> HIDE DEF m, n
  <2> QED
    BY <2>1, <2>2, RowMoves
<1>8. DbOK' /\ AppOK'
  BY DEF DbStatus, AppStatus
<1>9. LegInv'
  BY DEF LegInv
<1>10. RunInv'
  <2>1. UNCHANGED job /\ \A v \in Worker : pc'[v] # "idle" => pc[v] # "idle"
    OBVIOUS
  <2>2. Keeps
    BY DEF Keeps, Staging
  <2> QED
    BY <2>1, <2>2, RunKept
<1>11. MadeInv'
  BY DEF RunInv, MadeInv
<1> QED
  BY <1>1, <1>2, <1>3, <1>4, <1>5, <1>6, <1>7, <1>8, <1>9, <1>10, <1>11

LEMMA ReadDbSound ==
  ASSUME Sound, NEW w \in Worker,
         ReadDb(w)
  PROVE  Sound'
<1> USE DEF ReadDb
<1>1. FormOK' /\ WaitingOK' /\ StalledOK'
  OBVIOUS
<1>2. WorkOK' /\ StartOK' /\ MadeOK' /\ BudgetOK'
  OBVIOUS
<1>3. PlacesOK'
  BY DEF PC, Staging, Undoing, Cutting, Calling
<1>4. SeenOK'
  BY DEF DbStatus, AppStatus
<1>5. RowsOK'
  OBVIOUS
<1>6. DbOK' /\ AppOK'
  BY DEF DbStatus, AppStatus
<1>7. LegInv'
  BY DEF LegInv
<1>8. RunInv'
  BY DEF RunInv, Staging
<1>9. MadeInv'
  BY DEF RunInv, MadeInv
<1> QED
  BY <1>1, <1>2, <1>3, <1>4, <1>5, <1>6, <1>7, <1>8, <1>9

LEMMA CutoverLostSound ==
  ASSUME Sound, NEW w \in Worker,
         CutoverLost(w)
  PROVE  Sound'
<1> USE DEF CutoverLost
<1>1. FormOK' /\ WaitingOK' /\ StalledOK'
  OBVIOUS
<1>2. WorkOK' /\ StartOK' /\ MadeOK' /\ BudgetOK'
  OBVIOUS
<1>3. PlacesOK'
  BY DEF PC, Staging, Undoing, Cutting, Calling
<1>4. SeenOK'
  BY DEF DbStatus, AppStatus
<1>5. RowsOK'
  <2> DEFINE m == row
             n == row
  <2>1. m \in Row /\ n \in Row
    BY DEF Status
  <2>2. row' \in {row, m} /\ fm' \in {fm, [fm EXCEPT ![w] = n], [fm EXCEPT ![w] = NewRow]}
    OBVIOUS
  <2> HIDE DEF m, n
  <2> QED
    BY <2>1, <2>2, RowMoves
<1>6. DbOK' /\ AppOK'
  BY DEF DbStatus, AppStatus
<1>7. LegInv'
  BY DEF LegInv
<1>8. RunInv'
  BY DEF RunInv, Staging
<1>9. MadeInv'
  BY DEF RunInv, MadeInv
<1> QED
  BY <1>1, <1>2, <1>3, <1>4, <1>5, <1>6, <1>7, <1>8, <1>9

\* The bridge opens before the fence.
LEMMA OpenSound ==
  ASSUME Sound, NEW w \in Worker,
         OpenBridge(w) \/ WaitBridge(w) \/ OpeningFails(w)
  PROVE  Sound'
<1> USE DEF OpenBridge, WaitBridge, OpeningFails
<1>1. FormOK' /\ WaitingOK' /\ StalledOK'
  OBVIOUS
<1>2. WorkOK' /\ StartOK'
  OBVIOUS
<1>3. MadeOK' /\ BudgetOK'
  OBVIOUS
<1>4. PlacesOK'
  BY DEF PC, Staging, Undoing, Cutting, Calling
<1>5. SeenOK'
  BY DEF DbStatus, AppStatus
<1>6. RowsOK'
  OBVIOUS
<1>7. DbOK'
  BY DEF DbStatus
<1>8. AppOK'
  BY DEF AppStatus
<1>9. LegInv'
  BY DEF LegInv
<1>10. RunInv'
  <2>1. UNCHANGED job /\ \A v \in Worker : pc'[v] # "idle" => pc[v] # "idle"
    OBVIOUS
  <2>2. Keeps
    BY DEF Keeps, Staging
  <2> QED
    BY <2>1, <2>2, RunKept
<1>11. MadeInv'
  BY DEF RunInv, MadeInv
<1> QED
  BY <1>1, <1>2, <1>3, <1>4, <1>5, <1>6, <1>7, <1>8, <1>9, <1>10, <1>11

LEMMA IdleSound ==
  ASSUME Sound, NEW w \in Worker,
         WaitIdle(w) \/ RollBridge(w)
  PROVE  Sound'
<1> USE DEF WaitIdle, RollBridge
<1>1. FormOK' /\ WaitingOK' /\ StalledOK'
  OBVIOUS
<1>2. WorkOK' /\ StartOK' /\ MadeOK' /\ BudgetOK'
  OBVIOUS
<1>3. PlacesOK'
  <2>1. \E p \in {"saveFailed"} : pc' = [pc EXCEPT ![w] = p]
    OBVIOUS
  <2>2. {"saveFailed"} \subseteq PC
    BY DEF PC, Staging, Undoing, Cutting
  <2> QED
    BY <2>1, <2>2
<1>4. SeenOK'
  BY DEF DbStatus, AppStatus
<1>5. RowsOK'
  OBVIOUS
<1>6. DbOK'
  BY DEF DbStatus
<1>7. AppOK'
  BY DEF AppStatus
<1>8. LegInv'
  BY DEF LegInv
<1>9. RunInv'
  <2>1. UNCHANGED job /\ \A v \in Worker : pc'[v] # "idle" => pc[v] # "idle"
    OBVIOUS
  <2>2. Keeps
    BY DEF Keeps, Staging
  <2> QED
    BY <2>1, <2>2, RunKept
<1>10. MadeInv'
  BY DEF RunInv, MadeInv
<1> QED
  BY <1>1, <1>2, <1>3, <1>4, <1>5, <1>6, <1>7, <1>8, <1>9, <1>10

\* The database's leg is asked, and waited for.
LEMMA PromoteSound ==
  ASSUME Sound, NEW w \in Worker,
         Promote(w)
  PROVE  Sound'
<1> USE DEF Promote
<1>1. FormOK' /\ WaitingOK' /\ StalledOK'
  OBVIOUS
<1>2. WorkOK' /\ StartOK' /\ MadeOK' /\ BudgetOK'
  OBVIOUS
<1>3. PlacesOK'
  BY DEF PC, Staging, Undoing, Cutting, Calling
<1>4. SeenOK'
  BY DEF DbStatus, AppStatus
<1>5. RowsOK'
  <2> DEFINE m == fm[w]
             n == fm[w]
  <2>1. m \in Row /\ n \in Row
    BY DEF Status
  <2>2. row' \in {row, m} /\ fm' \in {fm, [fm EXCEPT ![w] = n], [fm EXCEPT ![w] = NewRow]}
    OBVIOUS
  <2> HIDE DEF m, n
  <2> QED
    BY <2>1, <2>2, RowMoves
<1>6. DbOK'
  <2>1. dbNote' \in BOOLEAN
    OBVIOUS
  <2>2. dbJobs' \in Nat /\ UNCHANGED <<dbStatus, dbPromised, dbPrimary>>
    OBVIOUS
  <2> QED
    BY <2>1, <2>2
<1>7. AppOK'
  BY DEF AppStatus
<1>8. LegInv'
  BY DEF LegInv
<1>9. RunInv'
  BY DEF RunInv, Staging
<1>10. MadeInv'
  BY DEF RunInv, MadeInv
<1> QED
  BY <1>1, <1>2, <1>3, <1>4, <1>5, <1>6, <1>7, <1>8, <1>9, <1>10

LEMMA DecideSound ==
  ASSUME Sound, NEW w \in Worker,
         WaitPromote(w) \/ PromoteFails(w) \/ Verdict(w)
  PROVE  Sound'
<1> USE DEF WaitPromote, PromoteFails, Verdict
<1>1. FormOK' /\ WaitingOK' /\ StalledOK'
  OBVIOUS
<1>2. WorkOK' /\ StartOK' /\ MadeOK' /\ BudgetOK'
  OBVIOUS
<1>3. PlacesOK'
  BY DEF PC, Staging, Undoing, Cutting, Calling
<1>4. SeenOK'
  BY DEF DbStatus, AppStatus
<1>5. RowsOK'
  OBVIOUS
<1>6. DbOK'
  BY DEF DbStatus
<1>7. AppOK'
  BY DEF AppStatus
<1>8. LegInv'
  BY DEF LegInv
<1>9. RunInv'
  <2>1. UNCHANGED job /\ \A v \in Worker : pc'[v] # "idle" => pc[v] # "idle"
    OBVIOUS
  <2>2. Keeps
    BY DEF Keeps, Staging
  <2> QED
    BY <2>1, <2>2, RunKept
<1>10. MadeInv'
  BY DEF RunInv, MadeInv
<1> QED
  BY <1>1, <1>2, <1>3, <1>4, <1>5, <1>6, <1>7, <1>8, <1>9, <1>10

\* The application is moved after its database.
LEMMA FinalizeSound ==
  ASSUME Sound, NEW w \in Worker,
         Finalize(w) \/ WaitLeg(w) \/ FinalizeFails(w)
  PROVE  Sound'
<1> USE DEF Finalize, WaitLeg, FinalizeFails
<1>1. FormOK' /\ WaitingOK' /\ StalledOK'
  OBVIOUS
<1>2. WorkOK' /\ StartOK' /\ MadeOK' /\ BudgetOK'
  OBVIOUS
<1>3. PlacesOK'
  BY DEF PC, Staging, Undoing, Cutting, Calling
<1>4. SeenOK'
  BY DEF DbStatus, AppStatus
<1>5. RowsOK'
  OBVIOUS
<1>6. DbOK' /\ AppOK'
  BY DEF DbStatus, AppStatus
<1>7. LegInv'
  BY DEF LegInv
<1>8. RunInv'
  <2>1. UNCHANGED job /\ \A v \in Worker : pc'[v] # "idle" => pc[v] # "idle"
    OBVIOUS
  <2>2. Keeps
    BY DEF Keeps, Staging
  <2> QED
    BY <2>1, <2>2, RunKept
<1>9. MadeInv'
  BY DEF RunInv, MadeInv
<1> QED
  BY <1>1, <1>2, <1>3, <1>4, <1>5, <1>6, <1>7, <1>8, <1>9

LEMMA DriveSound ==
  ASSUME Sound, NEW w \in Worker,
         Drive(w)
  PROVE  Sound'
<1> USE DEF Drive
<1>1. FormOK' /\ WaitingOK' /\ StalledOK'
  OBVIOUS
<1>2. WorkOK' /\ StartOK' /\ MadeOK' /\ BudgetOK'
  OBVIOUS
<1>3. PlacesOK'
  BY DEF PC, Staging, Undoing, Cutting, Calling
<1>4. SeenOK'
  BY DEF DbStatus, AppStatus
<1>5. RowsOK'
  OBVIOUS
<1>6. DbOK' /\ AppOK'
  BY DEF DbStatus, AppStatus
<1>7. LegInv'
  BY DEF LegInv
<1>8. RunInv'
  BY DEF RunInv, Staging
<1>9. MadeInv'
  BY DEF RunInv, MadeInv
<1> QED
  BY <1>1, <1>2, <1>3, <1>4, <1>5, <1>6, <1>7, <1>8, <1>9

\* The abort claims the row and tears the legs down.
LEMMA RequestAbortSound ==
  ASSUME Sound,
         RequestAbort
  PROVE  Sound'
<1> USE DEF RequestAbort
<1>1. FormOK' /\ WaitingOK' /\ StalledOK'
  OBVIOUS
<1>2. WorkOK' /\ StartOK' /\ MadeOK' /\ BudgetOK'
  OBVIOUS
<1>3. PlacesOK'
  BY DEF PC, Staging, Undoing, Cutting, Calling
<1>4. SeenOK'
  BY DEF DbStatus, AppStatus
<1>5. RowsOK'
  <2> DEFINE m == row
             n == row
  <2>1. m \in Row /\ n \in Row
    BY DEF Status
  <2>2. row' \in {row, m} /\ fm' \in {fm, [fm EXCEPT ![Caller] = n], [fm EXCEPT ![Caller] = NewRow]}
    OBVIOUS
  <2> HIDE DEF m, n
  <2> QED
    BY <2>1, <2>2, RowMoves
<1>6. DbOK' /\ AppOK'
  BY DEF DbStatus, AppStatus
<1>7. LegInv'
  BY DEF LegInv
<1>8. RunInv'
  BY DEF RunInv, Staging
<1>9. MadeInv'
  BY DEF RunInv, MadeInv
<1> QED
  BY <1>1, <1>2, <1>3, <1>4, <1>5, <1>6, <1>7, <1>8, <1>9

LEMMA AbortClaimSound ==
  ASSUME Sound,
         AbortClaim
  PROVE  Sound'
<1> USE DEF AbortClaim
<1>1. FormOK' /\ WaitingOK' /\ StalledOK'
  OBVIOUS
<1>2. WorkOK' /\ StartOK' /\ MadeOK' /\ BudgetOK'
  OBVIOUS
<1>3. PlacesOK'
  BY DEF PC, Staging, Undoing, Cutting, Calling
<1>4. SeenOK'
  BY DEF DbStatus, AppStatus
<1>5. RowsOK'
  <2> DEFINE m == [row EXCEPT !.status = "ABORTED"]
             n == [fm[Caller] EXCEPT !.status = "ABORTED"]
  <2>1. m \in Row /\ n \in Row
    BY DEF Status
  <2>2. row' \in {row, m} /\ fm' \in {fm, [fm EXCEPT ![Caller] = n], [fm EXCEPT ![Caller] = NewRow]}
    OBVIOUS
  <2> HIDE DEF m, n
  <2> QED
    BY <2>1, <2>2, RowMoves
<1>6. DbOK' /\ AppOK'
  BY DEF DbStatus, AppStatus
<1>7. LegInv'
  BY DEF LegInv
<1>8. RunInv'
  <2>1. UNCHANGED job /\ \A v \in Worker : pc'[v] # "idle" => pc[v] # "idle"
    OBVIOUS
  <2>2. Keeps
    BY DEF Keeps, Staging
  <2> QED
    BY <2>1, <2>2, RunKept
<1>9. MadeInv'
  BY DEF RunInv, MadeInv
<1> QED
  BY <1>1, <1>2, <1>3, <1>4, <1>5, <1>6, <1>7, <1>8, <1>9

LEMMA TearBridgeSound ==
  ASSUME Sound,
         TearBridge
  PROVE  Sound'
<1> USE DEF TearBridge
<1>1. FormOK' /\ WaitingOK' /\ StalledOK'
  OBVIOUS
<1>2. WorkOK' /\ StartOK' /\ MadeOK' /\ BudgetOK'
  OBVIOUS
<1>3. PlacesOK'
  BY DEF PC, Staging, Undoing, Cutting, Calling
<1>4. SeenOK'
  BY DEF DbStatus, AppStatus
<1>5. RowsOK'
  OBVIOUS
<1>6. DbOK'
  BY DEF DbStatus
<1>7. AppOK'
  BY DEF AppStatus
<1>8. LegInv'
  BY DEF LegInv
<1>9. RunInv'
  BY DEF RunInv, Staging
<1>10. MadeInv'
  BY DEF RunInv, MadeInv
<1> QED
  BY <1>1, <1>2, <1>3, <1>4, <1>5, <1>6, <1>7, <1>8, <1>9, <1>10

LEMMA AbortSaveSound ==
  ASSUME Sound,
         AbortSave
  PROVE  Sound'
<1> USE DEF AbortSave
<1>1. FormOK' /\ WaitingOK' /\ StalledOK'
  OBVIOUS
<1>2. WorkOK' /\ StartOK' /\ MadeOK' /\ BudgetOK'
  OBVIOUS
<1>3. PlacesOK'
  BY DEF PC, Staging, Undoing, Cutting, Calling
<1>4. SeenOK'
  BY DEF DbStatus, AppStatus
<1>5. RowsOK'
  <2> DEFINE m == [fm[Caller] EXCEPT !.status = "ABORTED"]
             n == [fm[Caller] EXCEPT !.status = "ABORTED"]
  <2>1. m \in Row /\ n \in Row
    BY DEF Status
  <2>2. row' \in {row, m} /\ fm' \in {fm, [fm EXCEPT ![Caller] = n], [fm EXCEPT ![Caller] = NewRow]}
    OBVIOUS
  <2> HIDE DEF m, n
  <2> QED
    BY <2>1, <2>2, RowMoves
<1>6. DbOK' /\ AppOK'
  BY DEF DbStatus, AppStatus
<1>7. LegInv'
  BY DEF LegInv
<1>8. RunInv'
  BY DEF RunInv, Staging
<1>9. MadeInv'
  BY DEF RunInv, MadeInv
<1> QED
  BY <1>1, <1>2, <1>3, <1>4, <1>5, <1>6, <1>7, <1>8, <1>9

\* The source is destroyed.
LEMMA RequestDestroySound ==
  ASSUME Sound,
         RequestDestroy
  PROVE  Sound'
<1> USE DEF RequestDestroy
<1>1. FormOK' /\ WaitingOK' /\ StalledOK'
  OBVIOUS
<1>2. WorkOK' /\ StartOK' /\ MadeOK' /\ BudgetOK'
  OBVIOUS
<1>3. PlacesOK'
  BY DEF PC, Staging, Undoing, Cutting, Calling
<1>4. SeenOK'
  BY DEF DbStatus, AppStatus
<1>5. RowsOK'
  <2> DEFINE m == row
             n == row
  <2>1. m \in Row /\ n \in Row
    BY DEF Status
  <2>2. row' \in {row, m} /\ fm' \in {fm, [fm EXCEPT ![Caller] = n], [fm EXCEPT ![Caller] = NewRow]}
    OBVIOUS
  <2> HIDE DEF m, n
  <2> QED
    BY <2>1, <2>2, RowMoves
<1>6. DbOK' /\ AppOK'
  BY DEF DbStatus, AppStatus
<1>7. LegInv'
  BY DEF LegInv
<1>8. RunInv'
  BY DEF RunInv, Staging
<1>9. MadeInv'
  BY DEF RunInv, MadeInv
<1> QED
  BY <1>1, <1>2, <1>3, <1>4, <1>5, <1>6, <1>7, <1>8, <1>9

LEMMA DestroyLegSound ==
  ASSUME Sound,
         DestroyLeg
  PROVE  Sound'
<1> USE DEF DestroyLeg
<1>1. FormOK' /\ WaitingOK' /\ StalledOK'
  OBVIOUS
<1>2. WorkOK' /\ StartOK' /\ MadeOK' /\ BudgetOK'
  OBVIOUS
<1>3. PlacesOK'
  BY DEF PC, Staging, Undoing, Cutting, Calling
<1>4. SeenOK'
  BY DEF DbStatus, AppStatus
<1>5. RowsOK'
  OBVIOUS
<1>6. DbOK' /\ AppOK'
  BY DEF DbStatus, AppStatus
<1>7. LegInv'
  BY DEF LegInv
<1>8. RunInv'
  BY DEF RunInv, Staging
<1>9. MadeInv'
  BY DEF RunInv, MadeInv
<1> QED
  BY <1>1, <1>2, <1>3, <1>4, <1>5, <1>6, <1>7, <1>8, <1>9

LEMMA DestroySaveSound ==
  ASSUME Sound,
         DestroySave
  PROVE  Sound'
<1> USE DEF DestroySave
<1>1. FormOK' /\ WaitingOK' /\ StalledOK'
  OBVIOUS
<1>2. WorkOK' /\ StartOK' /\ MadeOK' /\ BudgetOK'
  OBVIOUS
<1>3. PlacesOK'
  BY DEF PC, Staging, Undoing, Cutting, Calling
<1>4. SeenOK'
  BY DEF DbStatus, AppStatus
<1>5. RowsOK'
  <2> DEFINE m == [fm[Caller] EXCEPT !.status = "COMPLETED"]
             n == [fm[Caller] EXCEPT !.status = "COMPLETED"]
  <2>1. m \in Row /\ n \in Row
    BY DEF Status
  <2>2. row' \in {row, m} /\ fm' \in {fm, [fm EXCEPT ![Caller] = n], [fm EXCEPT ![Caller] = NewRow]}
    OBVIOUS
  <2> HIDE DEF m, n
  <2> QED
    BY <2>1, <2>2, RowMoves
<1>6. DbOK' /\ AppOK'
  BY DEF DbStatus, AppStatus
<1>7. LegInv'
  BY DEF LegInv
<1>8. RunInv'
  BY DEF RunInv, Staging
<1>9. MadeInv'
  BY DEF RunInv, MadeInv
<1> QED
  BY <1>1, <1>2, <1>3, <1>4, <1>5, <1>6, <1>7, <1>8, <1>9

\* The database's leg works by itself.
LEMMA DbStepSound ==
  ASSUME Sound,
         DbCopies \/ DbFails
  PROVE  Sound'
<1> USE DEF DbCopies, DbFails
<1>1. FormOK' /\ WaitingOK' /\ StalledOK'
  OBVIOUS
<1>2. WorkOK' /\ StartOK' /\ MadeOK' /\ BudgetOK'
  OBVIOUS
<1>3. PlacesOK'
  BY DEF PC, Staging, Undoing, Cutting, Calling
<1>4. SeenOK'
  BY DEF DbStatus, AppStatus
<1>5. RowsOK'
  OBVIOUS
<1>6. DbOK' /\ AppOK'
  BY DEF DbStatus, AppStatus
<1>7. LegInv'
  BY DEF LegInv
<1>8. RunInv'
  BY DEF RunInv, Staging
<1>9. MadeInv'
  BY DEF RunInv, MadeInv
<1> QED
  BY <1>1, <1>2, <1>3, <1>4, <1>5, <1>6, <1>7, <1>8, <1>9

LEMMA DbEntersSound ==
  ASSUME Sound,
         DbEnters
  PROVE  Sound'
<1> USE DEF DbEnters
<1>1. FormOK' /\ WaitingOK' /\ StalledOK'
  OBVIOUS
<1>2. WorkOK' /\ StartOK' /\ MadeOK' /\ BudgetOK'
  OBVIOUS
<1>3. PlacesOK'
  BY DEF PC, Staging, Undoing, Cutting, Calling
<1>4. SeenOK'
  BY DEF DbStatus, AppStatus
<1>5. RowsOK'
  OBVIOUS
<1>6. DbOK'
  <2>1. dbStatus' \in DbStatus /\ dbJobs' \in Nat
    BY DEF DbStatus
  <2>2. dbNote' \in BOOLEAN /\ UNCHANGED <<dbPromised, dbPrimary>>
    OBVIOUS
  <2> QED
    BY <2>1, <2>2
<1>7. AppOK'
  BY DEF AppStatus
<1>8. LegInv'
  BY DEF LegInv
<1>9. RunInv'
  BY DEF RunInv, Staging
<1>10. MadeInv'
  BY DEF RunInv, MadeInv
<1> QED
  BY <1>1, <1>2, <1>3, <1>4, <1>5, <1>6, <1>7, <1>8, <1>9, <1>10

LEMMA DbFallsBackSound ==
  ASSUME Sound,
         DbFallsBack
  PROVE  Sound'
<1> USE DEF DbFallsBack
<1>1. FormOK' /\ WaitingOK' /\ StalledOK'
  OBVIOUS
<1>2. WorkOK' /\ StartOK' /\ MadeOK' /\ BudgetOK'
  OBVIOUS
<1>3. PlacesOK'
  BY DEF PC, Staging, Undoing, Cutting, Calling
<1>4. SeenOK'
  BY DEF DbStatus, AppStatus
<1>5. RowsOK'
  OBVIOUS
<1>6. DbOK' /\ AppOK'
  BY DEF DbStatus, AppStatus
<1>7. LegInv'
  BY DEF LegInv
<1>8. RunInv'
  BY DEF RunInv, Staging
<1>9. MadeInv'
  BY DEF RunInv, MadeInv
<1> QED
  BY <1>1, <1>2, <1>3, <1>4, <1>5, <1>6, <1>7, <1>8, <1>9

LEMMA DbGoesOnSound ==
  ASSUME Sound,
         DbGoesOn
  PROVE  Sound'
<1> USE DEF DbGoesOn
<1>1. FormOK' /\ WaitingOK' /\ StalledOK'
  OBVIOUS
<1>2. WorkOK' /\ StartOK' /\ MadeOK' /\ BudgetOK'
  OBVIOUS
<1>3. PlacesOK'
  BY DEF PC, Staging, Undoing, Cutting, Calling
<1>4. SeenOK'
  BY DEF DbStatus, AppStatus
<1>5. RowsOK'
  OBVIOUS
<1>6. DbOK' /\ AppOK'
  BY DEF DbStatus, AppStatus
<1>7. LegInv'
  BY DEF LegInv
<1>8. RunInv'
  BY DEF RunInv, Staging
<1>9. MadeInv'
  BY DEF RunInv, MadeInv
<1> QED
  BY <1>1, <1>2, <1>3, <1>4, <1>5, <1>6, <1>7, <1>8, <1>9

\* So does the application's.
LEMMA AppProvisionsSound ==
  ASSUME Sound,
         AppProvisions
  PROVE  Sound'
<1> USE DEF AppProvisions
<1>1. FormOK' /\ WaitingOK' /\ StalledOK'
  OBVIOUS
<1>2. WorkOK' /\ StartOK' /\ MadeOK' /\ BudgetOK'
  OBVIOUS
<1>3. PlacesOK'
  BY DEF PC, Staging, Undoing, Cutting, Calling
<1>4. SeenOK'
  BY DEF DbStatus, AppStatus
<1>5. RowsOK'
  OBVIOUS
<1>6. DbOK' /\ AppOK'
  BY DEF DbStatus, AppStatus
<1>7. LegInv'
  BY DEF LegInv
<1>8. RunInv'
  BY DEF RunInv, Staging
<1>9. MadeInv'
  BY DEF RunInv, MadeInv
<1> QED
  BY <1>1, <1>2, <1>3, <1>4, <1>5, <1>6, <1>7, <1>8, <1>9

LEMMA AppFailsSound ==
  ASSUME Sound,
         AppFails
  PROVE  Sound'
<1> USE DEF AppFails
<1>1. FormOK' /\ WaitingOK' /\ StalledOK'
  OBVIOUS
<1>2. WorkOK' /\ StartOK' /\ MadeOK' /\ BudgetOK'
  OBVIOUS
<1>3. PlacesOK'
  BY DEF PC, Staging, Undoing, Cutting, Calling
<1>4. SeenOK'
  BY DEF DbStatus, AppStatus
<1>5. RowsOK'
  OBVIOUS
<1>6. DbOK' /\ AppOK'
  BY DEF DbStatus, AppStatus
<1>7. LegInv'
  BY DEF LegInv
<1>8. RunInv'
  BY DEF RunInv, Staging
<1>9. MadeInv'
  BY DEF RunInv, MadeInv
<1> QED
  BY <1>1, <1>2, <1>3, <1>4, <1>5, <1>6, <1>7, <1>8, <1>9

LEMMA AppEntersSound ==
  ASSUME Sound,
         AppEnters
  PROVE  Sound'
<1> USE DEF AppEnters
<1>1. FormOK' /\ WaitingOK' /\ StalledOK'
  OBVIOUS
<1>2. WorkOK' /\ StartOK' /\ MadeOK' /\ BudgetOK'
  OBVIOUS
<1>3. PlacesOK'
  BY DEF PC, Staging, Undoing, Cutting, Calling
<1>4. SeenOK'
  BY DEF DbStatus, AppStatus
<1>5. RowsOK'
  OBVIOUS
<1>6. DbOK' /\ AppOK'
  BY DEF DbStatus, AppStatus
<1>7. LegInv'
  BY DEF LegInv
<1>8. RunInv'
  BY DEF RunInv, Staging
<1>9. MadeInv'
  BY DEF RunInv, MadeInv
<1> QED
  BY <1>1, <1>2, <1>3, <1>4, <1>5, <1>6, <1>7, <1>8, <1>9

LEMMA AppOpensSound ==
  ASSUME Sound,
         AppOpens
  PROVE  Sound'
<1> USE DEF AppOpens
<1>1. FormOK' /\ WaitingOK' /\ StalledOK'
  OBVIOUS
<1>2. WorkOK' /\ StartOK' /\ MadeOK' /\ BudgetOK'
  OBVIOUS
<1>3. PlacesOK'
  BY DEF PC, Staging, Undoing, Cutting, Calling
<1>4. SeenOK'
  BY DEF DbStatus, AppStatus
<1>5. RowsOK'
  OBVIOUS
<1>6. DbOK' /\ AppOK'
  BY DEF DbStatus, AppStatus
<1>7. LegInv'
  BY DEF LegInv
<1>8. RunInv'
  BY DEF RunInv, Staging
<1>9. MadeInv'
  BY DEF RunInv, MadeInv
<1> QED
  BY <1>1, <1>2, <1>3, <1>4, <1>5, <1>6, <1>7, <1>8, <1>9

LEMMA AppLeavesSound ==
  ASSUME Sound,
         AppLeavesOpening
  PROVE  Sound'
<1> USE DEF AppLeavesOpening
<1>1. FormOK' /\ WaitingOK' /\ StalledOK'
  OBVIOUS
<1>2. WorkOK' /\ StartOK' /\ MadeOK' /\ BudgetOK'
  OBVIOUS
<1>3. PlacesOK'
  BY DEF PC, Staging, Undoing, Cutting, Calling
<1>4. SeenOK'
  BY DEF DbStatus, AppStatus
<1>5. RowsOK'
  OBVIOUS
<1>6. DbOK' /\ AppOK'
  BY DEF DbStatus, AppStatus
<1>7. LegInv'
  BY DEF LegInv
<1>8. RunInv'
  BY DEF RunInv, Staging
<1>9. MadeInv'
  BY DEF RunInv, MadeInv
<1> QED
  BY <1>1, <1>2, <1>3, <1>4, <1>5, <1>6, <1>7, <1>8, <1>9

LEMMA AppBindsSound ==
  ASSUME Sound,
         AppBinds
  PROVE  Sound'
<1> USE DEF AppBinds
<1>1. FormOK' /\ WaitingOK' /\ StalledOK'
  OBVIOUS
<1>2. WorkOK' /\ StartOK' /\ MadeOK' /\ BudgetOK'
  OBVIOUS
<1>3. PlacesOK'
  BY DEF PC, Staging, Undoing, Cutting, Calling
<1>4. SeenOK'
  BY DEF DbStatus, AppStatus
<1>5. RowsOK'
  OBVIOUS
<1>6. DbOK' /\ AppOK'
  BY DEF DbStatus, AppStatus
<1>7. LegInv'
  BY DEF LegInv
<1>8. RunInv'
  BY DEF RunInv, Staging
<1>9. MadeInv'
  BY DEF RunInv, MadeInv
<1> QED
  BY <1>1, <1>2, <1>3, <1>4, <1>5, <1>6, <1>7, <1>8, <1>9

LEMMA AppFinishesSound ==
  ASSUME Sound,
         AppFinishes
  PROVE  Sound'
<1> USE DEF AppFinishes
<1>1. FormOK' /\ WaitingOK' /\ StalledOK'
  OBVIOUS
<1>2. WorkOK' /\ StartOK' /\ MadeOK' /\ BudgetOK'
  OBVIOUS
<1>3. PlacesOK'
  BY DEF PC, Staging, Undoing, Cutting, Calling
<1>4. SeenOK'
  BY DEF DbStatus, AppStatus
<1>5. RowsOK'
  OBVIOUS
<1>6. DbOK' /\ AppOK'
  BY DEF DbStatus, AppStatus
<1>7. LegInv'
  BY DEF LegInv
<1>8. RunInv'
  BY DEF RunInv, Staging
<1>9. MadeInv'
  BY DEF RunInv, MadeInv
<1> QED
  BY <1>1, <1>2, <1>3, <1>4, <1>5, <1>6, <1>7, <1>8, <1>9

\* Processes die, and the queue delivers again.
LEMMA CrashSound ==
  ASSUME Sound, NEW a \in Actor,
         Crash(a)
  PROVE  Sound'
<1> USE DEF Crash
<1>1. StalledOK'
  <2>1. a = Caller \/ job[a] \in Job
    OBVIOUS
  <2> QED
    BY <2>1
<1>2. FormOK' /\ WaitingOK'
  OBVIOUS
<1>3. WorkOK' /\ StartOK' /\ MadeOK' /\ BudgetOK'
  OBVIOUS
<1>4. PlacesOK'
  BY DEF PC, Staging, Undoing, Cutting, Calling
<1>5. SeenOK'
  BY DEF DbStatus, AppStatus
<1>6. RowsOK'
  <2> DEFINE m == row
             n == row
  <2>1. m \in Row /\ n \in Row
    BY DEF Status
  <2>2. row' \in {row, m} /\ fm' \in {fm, [fm EXCEPT ![a] = n], [fm EXCEPT ![a] = NewRow]}
    OBVIOUS
  <2> HIDE DEF m, n
  <2> QED
    BY <2>1, <2>2, RowMoves
<1>7. DbOK' /\ AppOK'
  BY DEF DbStatus, AppStatus
<1>8. LegInv'
  BY DEF LegInv
<1>9. RunInv'
  BY DEF RunInv, Staging
<1>10. MadeInv'
  BY DEF RunInv, MadeInv
<1> QED
  BY <1>1, <1>2, <1>3, <1>4, <1>5, <1>6, <1>7, <1>8, <1>9, <1>10

LEMMA DeliverSound ==
  ASSUME Sound, NEW w \in Worker, NEW j \in Job,
         Deliver(w, j)
  PROVE  Sound'
<1> USE DEF Deliver
<1>1. WaitingOK'
  <2>1. waiting[j] - 1 \in Nat
    OBVIOUS
  <2> QED
    BY <2>1
<1>2. FormOK' /\ StalledOK'
  OBVIOUS
<1>3. WorkOK'
  OBVIOUS
<1>4. StartOK'
  OBVIOUS
<1>5. MadeOK' /\ BudgetOK'
  OBVIOUS
<1>6. PlacesOK'
  BY DEF PC, Staging, Undoing, Cutting, Calling
<1>7. SeenOK'
  BY DEF DbStatus, AppStatus
<1>8. RowsOK'
  <2> DEFINE m == row
             n == row
  <2>1. m \in Row /\ n \in Row
    BY DEF Status
  <2>2. row' \in {row, m} /\ fm' \in {fm, [fm EXCEPT ![w] = n], [fm EXCEPT ![w] = NewRow]}
    OBVIOUS
  <2> HIDE DEF m, n
  <2> QED
    BY <2>1, <2>2, RowMoves
<1>9. DbOK' /\ AppOK'
  BY DEF DbStatus, AppStatus
<1>10. LegInv'
  BY DEF LegInv
<1>11. RunInv'
  BY DEF RunInv, Staging
<1>12. MadeInv'
  BY DEF RunInv, MadeInv
<1> QED
  BY <1>1, <1>2, <1>3, <1>4, <1>5, <1>6, <1>7, <1>8, <1>9, <1>10, <1>11, <1>12

LEMMA StallSound ==
  ASSUME Sound, NEW j \in Job,
         StallCheck(j)
  PROVE  Sound'
<1> USE DEF StallCheck
<1>1. WaitingOK'
  <2> DEFINE k == [j EXCEPT !.stalls = 1]
  <2>1. k \in Job
    BY DEF Job
  <2>2. UNCHANGED waiting \/ waiting' = [waiting EXCEPT ![k] = waiting[k] + 1]
    OBVIOUS
  <2>3. waiting[k] + 1 \in Nat
    BY <2>1
  <2> HIDE DEF k
  <2> QED
    BY <2>1, <2>2, <2>3
<1>2. StalledOK'
  <2>1. stalled[j] - 1 \in Nat
    OBVIOUS
  <2> QED
    BY <2>1
<1>3. FormOK'
  OBVIOUS
<1>4. WorkOK' /\ StartOK' /\ MadeOK' /\ BudgetOK'
  OBVIOUS
<1>5. PlacesOK'
  BY DEF PC, Staging, Undoing, Cutting, Calling
<1>6. SeenOK'
  BY DEF DbStatus, AppStatus
<1>7. RowsOK'
  OBVIOUS
<1>8. DbOK' /\ AppOK'
  BY DEF DbStatus, AppStatus
<1>9. LegInv'
  BY DEF LegInv
<1>10. RunInv'
  BY DEF RunInv, Staging
<1>11. MadeInv'
  BY DEF RunInv, MadeInv
<1> QED
  BY <1>1, <1>2, <1>3, <1>4, <1>5, <1>6, <1>7, <1>8, <1>9, <1>10, <1>11

LEMMA RequestCutoverSound ==
  ASSUME Sound,
         RequestCutover
  PROVE  Sound'
<1> USE DEF RequestCutover
<1>1. WaitingOK'
  BY EnqueueType
<1>2. FormOK' /\ StalledOK'
  OBVIOUS
<1>3. WorkOK' /\ StartOK' /\ MadeOK' /\ BudgetOK'
  OBVIOUS
<1>4. PlacesOK'
  BY DEF PC, Staging, Undoing, Cutting, Calling
<1>5. SeenOK'
  BY DEF DbStatus, AppStatus
<1>6. RowsOK'
  OBVIOUS
<1>7. DbOK' /\ AppOK'
  BY DEF DbStatus, AppStatus
<1>8. LegInv'
  BY DEF LegInv
<1>9. RunInv'
  BY DEF RunInv, Staging
<1>10. MadeInv'
  BY DEF RunInv, MadeInv
<1> QED
  BY <1>1, <1>2, <1>3, <1>4, <1>5, <1>6, <1>7, <1>8, <1>9, <1>10

LEMMA RecoverSound ==
  ASSUME Sound,
         Recover
  PROVE  Sound'
<1> USE DEF Recover
<1>1. WaitingOK'
  BY EnqueueType
<1>2. FormOK' /\ StalledOK'
  OBVIOUS
<1>3. WorkOK' /\ StartOK' /\ MadeOK' /\ BudgetOK'
  OBVIOUS
<1>4. PlacesOK'
  BY DEF PC, Staging, Undoing, Cutting, Calling
<1>5. SeenOK'
  BY DEF DbStatus, AppStatus
<1>6. RowsOK'
  OBVIOUS
<1>7. DbOK' /\ AppOK'
  BY DEF DbStatus, AppStatus
<1>8. LegInv'
  BY DEF LegInv
<1>9. RunInv'
  BY DEF RunInv, Staging
<1>10. MadeInv'
  BY DEF RunInv, MadeInv
<1> QED
  BY <1>1, <1>2, <1>3, <1>4, <1>5, <1>6, <1>7, <1>8, <1>9, <1>10

-----------------------------------------------------------------------------
USE DEF LegInv, RunInv, MadeInv, PC, Staging, Undoing, Cutting, Calling, DbStatus, AppStatus,
        Status

\* At the start nothing is made, nothing is known and nobody is at work.
LEMMA InitSound ==
  ASSUME Init
  PROVE  Sound
<1> USE DEF Init, Db!Init, Leg!Init
<1>1. FormOK /\ PlacesOK /\ SeenOK /\ StartOK
  OBVIOUS
<1>5. MadeOK
  OBVIOUS
<1>6. BudgetOK
  <2>1. MaxFailures \in Nat /\ MaxCrashes \in Nat /\ MaxRequests \in Nat /\ MaxCalls \in Nat
    OBVIOUS
  <2>2. boot = FALSE /\ budget = [failures |-> MaxFailures, crashes |-> MaxCrashes,
                                 requests |-> MaxRequests, calls |-> MaxCalls]
    OBVIOUS
  <2>3. budget \in [{"failures", "crashes", "requests", "calls"} -> Nat]
    <3> HIDE DEF Init
    <3> QED
      BY <2>1, <2>2
  <2> QED
    BY <2>2, <2>3
<1>2. WaitingOK /\ StalledOK /\ WorkOK
  BY DEF NewJob, NoJobs, Job
<1>3. RowsOK /\ DbOK /\ AppOK
  OBVIOUS
<1>4. LegInv /\ RunInv /\ MadeInv
  BY DEF LegInv, RunInv, MadeInv
<1> QED
  BY <1>1, <1>2, <1>3, <1>4, <1>5, <1>6

LEMMA StutterSound ==
  ASSUME Sound, UNCHANGED vars
  PROVE  Sound'
<1> USE DEF vars
<1>1. Typed'
  OBVIOUS
<1>2. LegInv' /\ RunInv' /\ MadeInv'
  BY DEF LegInv, RunInv, MadeInv
<1> QED
  BY <1>1, <1>2

\* Every step of the migration, for any number of workers and any faults.
LEMMA NextSound ==
  ASSUME Sound, [Next]_vars
  PROVE  Sound'
<1> HIDE DEF Sound, RunIsHeld, TakenUp
<1>1. CASE UNCHANGED vars
  BY <1>1, StutterSound
<1>2. ASSUME NEW w \in Worker, StageStep(w)
      PROVE  Sound'
  BY <1>2, StartSound, ReplicateSound, EnsureDbSound, EnsureAppSound, MakeSound, WaitSound,
     WaitAppSound, StageSound, ReadySound DEF StageStep
<1>3. ASSUME NEW w \in Worker, CutoverStep(w)
      PROVE  Sound'
  BY <1>3, ClaimSound, ReadDbSound, OpenSound, IdleSound, PromoteSound, DecideSound,
     FinalizeSound, DriveSound, FinishSound, SaveFailedSound, SaveForwardSound
     DEF CutoverStep
<1>4. ASSUME NEW w \in Worker, FailStep(w)
      PROVE  Sound'
  BY <1>4, WaitSound, OpenSound, DecideSound, CutoverLostSound, FinalizeSound DEF FailStep
<1>5. ASSUME NEW w \in Worker, NEW j \in Job, Deliver(w, j)
      PROVE  Sound'
  BY <1>5, DeliverSound
<1>6. ASSUME NEW a \in Actor, AbortApp(a) \/ AbortDb(a) \/ Crash(a)
      PROVE  Sound'
  BY <1>6, AbortAppSound, AbortDbSound, CrashSound
<1>7. CASE CallerStep \/ RequestCutover \/ RequestAbort \/ RequestDestroy
  BY <1>7, AbortClaimSound, TearBridgeSound, AbortSaveSound, DestroyLegSound,
     DestroySaveSound, RequestCutoverSound, RequestAbortSound, RequestDestroySound
     DEF CallerStep
<1>8. CASE DbStep \/ DbFails
  BY <1>8, DbStepSound, DbEntersSound, DbFallsBackSound, DbGoesOnSound DEF DbStep
<1>9. CASE AppStep \/ AppFails
  BY <1>9, AppProvisionsSound, AppFailsSound, AppEntersSound, AppOpensSound,
     AppLeavesSound, AppBindsSound, AppFinishesSound DEF AppStep
<1>10. CASE Recover \/ \E j \in Job : StallCheck(j)
  BY <1>10, RecoverSound, StallSound
<1> HIDE DEF Actor
<1> QED
  BY <1>1, <1>2, <1>3, <1>4, <1>5, <1>6, <1>7, <1>8, <1>9, <1>10
  DEF Next, WorkerStep, UndoStep

LEMMA AlwaysSound == Spec => []Sound
<1>1. Sound /\ [Next]_vars => Sound'
  BY NextSound
<1> HIDE DEF Sound
<1> QED
  BY InitSound, <1>1, PTL DEF Spec

\* Every variable keeps its type, for any workers, forms, faults and bounds.
THEOREM TypeCorrect == Spec => []TypeOK
<1>1. Sound => TypeOK
  OBVIOUS
<1> HIDE DEF Sound
<1> QED
  BY AlwaysSound, <1>1, PTL

\* However many deliveries run, stop half way and are taken up again: a migration
\* makes one leg of each kind at most.
THEOREM MakesOneLegEach == Spec => []OneLegEach
<1>1. Sound => OneLegEach
  BY DEF OneLegEach, MadeInv
<1> HIDE DEF Sound
<1> QED
  BY AlwaysSound, <1>1, PTL

\* Whatever fails or dies, and whatever of the faults named in FullMigration
\* happens: the application is bound to the destination only when its database is
\* the primary.
THEOREM ApplicationFollowsData == Spec => []AppFollowsData
<1>1. Sound => AppFollowsData
  BY DEF AppFollowsData, LegInv
<1> HIDE DEF Sound
<1> QED
  BY AlwaysSound, <1>1, PTL

-----------------------------------------------------------------------------
\* One delivery at a time and none of the faults: every step keeps the rest.
HIDE DEF PC, DbStatus, AppStatus, Status

\* A leg with jobs has one of the two.
LEMMA OneOfTwo ==
  ASSUME appJobs # {}, appJobs \subseteq {"open", "cutover"}
  PROVE  "open" \in appJobs \/ "cutover" \in appJobs
OBVIOUS

\* Nobody else moves the row while a run starts.
LEMMA StartSafe ==
  ASSUME OneWorker, Faults = {}, Sound, Safe, Sound', NEW w \in Worker,
         Start(w)
  PROVE  Safe'
<1> USE StartGoes
<1>1. PlaceInv'
  <2>1. fm[w].status \in Resumable /\ row.status = fm[w].status /\ pc[w] = "start"
    OBVIOUS
  <2>2. CASE fm[w].status = "PENDING"
    <3>1. pc' = [pc EXCEPT ![w] = "replicate"] /\ row' = fm[w] /\ fm'[w] = fm[w]
      BY <2>2
    <3> HIDE DEF Save, Go, Done, Goto
    <3> QED
      BY <2>1, <2>2, <3>1
  <2>3. CASE fm[w].status # "PENDING"
    BY <2>1, <2>3
  <2> QED
    BY <2>2, <2>3
<1>2. RowInv'
  OBVIOUS
<1>3. CallerInv' /\ DecideInv'
  OBVIOUS
<1>4. JobInv' /\ BridgeInv' /\ AheadInv'
  OBVIOUS
<1> QED
  BY <1>1, <1>2, <1>3, <1>4

\* The first saves come before anything is decided.
LEMMA ReplicateSafe ==
  ASSUME OneWorker, Faults = {}, Sound, Safe, Sound', NEW w \in Worker,
         Replicate(w)
  PROVE  Safe'
<1> USE DEF Replicate
<1>1. RowInv' /\ PlaceInv'
  OBVIOUS
<1>2. CallerInv' /\ DecideInv'
  OBVIOUS
<1>3. JobInv' /\ BridgeInv' /\ AheadInv'
  OBVIOUS
<1> QED
  BY <1>1, <1>2, <1>3

\* A leg is linked in a row that is still early.
LEMMA EnsureDbSafe ==
  ASSUME OneWorker, Faults = {}, Sound, Safe, Sound', NEW w \in Worker,
         EnsureDb(w) \/ LinkDb(w)
  PROVE  Safe'
<1> USE DEF EnsureDb, LinkDb
<1>1. RowInv' /\ PlaceInv'
  OBVIOUS
<1>2. CallerInv' /\ DecideInv'
  OBVIOUS
<1>3. JobInv' /\ BridgeInv' /\ AheadInv'
  OBVIOUS
<1> QED
  BY <1>1, <1>2, <1>3

LEMMA EnsureAppSafe ==
  ASSUME OneWorker, Faults = {}, Sound, Safe, Sound', NEW w \in Worker,
         EnsureApp(w) \/ LinkApp(w)
  PROVE  Safe'
<1> USE DEF EnsureApp, LinkApp
<1>1. RowInv' /\ PlaceInv'
  OBVIOUS
<1>2. CallerInv' /\ DecideInv'
  OBVIOUS
<1>3. JobInv' /\ BridgeInv' /\ AheadInv'
  OBVIOUS
<1> QED
  BY <1>1, <1>2, <1>3

LEMMA MakeSafe ==
  ASSUME OneWorker, Faults = {}, Sound, Safe, Sound', NEW w \in Worker,
         MakeDb(w) \/ MakeApp(w)
  PROVE  Safe'
<1> USE DEF MakeDb, MakeApp
<1>1. RowInv' /\ PlaceInv'
  OBVIOUS
<1>2. CallerInv' /\ DecideInv'
  OBVIOUS
<1>3. JobInv' /\ BridgeInv' /\ AheadInv'
  OBVIOUS
<1> QED
  BY <1>1, <1>2, <1>3

LEMMA StageSafe ==
  ASSUME OneWorker, Faults = {}, Sound, Safe, Sound', NEW w \in Worker,
         Stage(w)
  PROVE  Safe'
<1> USE DEF Stage
<1>1. RowInv' /\ PlaceInv'
  OBVIOUS
<1>2. CallerInv' /\ DecideInv'
  OBVIOUS
<1>3. JobInv' /\ BridgeInv' /\ AheadInv'
  OBVIOUS
<1> QED
  BY <1>1, <1>2, <1>3

\* A wait ends in the status that was waited for, or in undoing.
LEMMA WaitSafe ==
  ASSUME OneWorker, Faults = {}, Sound, Safe, Sound', NEW w \in Worker,
         WaitDb(w) \/ CheckDb(w) \/ StageFails(w)
  PROVE  Safe'
<1> USE DEF WaitDb, CheckDb, StageFails
<1>1. RowInv' /\ PlaceInv'
  OBVIOUS
<1>2. CallerInv' /\ DecideInv'
  OBVIOUS
<1>3. JobInv' /\ BridgeInv' /\ AheadInv'
  OBVIOUS
<1> QED
  BY <1>1, <1>2, <1>3

LEMMA WaitAppSafe ==
  ASSUME OneWorker, Faults = {}, Sound, Safe, Sound', NEW w \in Worker,
         WaitApp(w) \/ CheckApp(w)
  PROVE  Safe'
<1> USE DEF WaitApp, CheckApp
<1>1. RowInv' /\ PlaceInv'
  OBVIOUS
<1>2. CallerInv' /\ DecideInv'
  OBVIOUS
<1>3. JobInv' /\ BridgeInv' /\ AheadInv'
  OBVIOUS
<1> QED
  BY <1>1, <1>2, <1>3

LEMMA ReadySafe ==
  ASSUME OneWorker, Faults = {}, Sound, Safe, Sound', NEW w \in Worker,
         Ready(w)
  PROVE  Safe'
<1> USE DEF Ready
<1>1. RowInv' /\ PlaceInv'
  OBVIOUS
<1>2. CallerInv' /\ DecideInv'
  OBVIOUS
<1>3. JobInv' /\ BridgeInv' /\ AheadInv'
  OBVIOUS
<1> QED
  BY <1>1, <1>2, <1>3

\* A leg is undone only where the promote is not on record.
LEMMA AbortAppSafe ==
  ASSUME OneWorker, Faults = {}, Sound, Safe, Sound', NEW a \in Actor,
         AbortApp(a)
  PROVE  Safe'
<1> USE DEF AbortApp
<1>1. RowInv' /\ PlaceInv'
  OBVIOUS
<1>2. CallerInv'
  <2>1. CASE pc[a] # "tearApp"
    BY <2>1
  <2>2. CASE pc[a] = "tearApp"
    <3>1. a = Caller /\ row.status \in Down /\ (made.app > 0 => fm[Caller].app)
      BY <2>2
    <3>2. ~appOpen /\ appStatus \notin {"CUTOVER", "BRIDGING", "COMPLETED"}
      BY <3>1
    <3>3. made' = made /\ (made.app > 0 => appStatus' \in Down)
      BY <3>1, <3>2
    <3>4. UNCHANGED <<row, fm, made, dbStatus>> /\ pc' = [pc EXCEPT ![Caller] = "tearDb"]
      BY <2>2, <3>1, <3>2
    <3> QED
      BY <3>1, <3>3, <3>4
  <2> QED
    BY <2>1, <2>2
<1>3. DecideInv'
  OBVIOUS
<1>4. JobInv'
  <2>1. row.status \notin Forward /\ ~appOpen /\ appJobs = {}
    OBVIOUS
  <2>2. UNCHANGED appJobs /\ appStatus \notin {"CUTOVER"}
    BY <2>1
  <2>3. appStatus' # "CUTOVER"
    BY <2>1, <2>2
  <2> QED
    BY <2>1, <2>2, <2>3
<1>5. BridgeInv'
  OBVIOUS
<1>6. AheadInv'
  OBVIOUS
<1> QED
  BY <1>1, <1>2, <1>3, <1>4, <1>5, <1>6

LEMMA AbortDbSafe ==
  ASSUME OneWorker, Faults = {}, Sound, Safe, Sound', NEW a \in Actor,
         AbortDb(a)
  PROVE  Safe'
<1> USE DEF AbortDb
<1>1. RowInv' /\ PlaceInv'
  OBVIOUS
<1>2. CallerInv' /\ DecideInv'
  OBVIOUS
<1>3. JobInv' /\ BridgeInv' /\ AheadInv'
  OBVIOUS
<1> QED
  BY <1>1, <1>2, <1>3

LEMMA SaveFailedSafe ==
  ASSUME OneWorker, Faults = {}, Sound, Safe, Sound', NEW w \in Worker,
         SaveFailed(w)
  PROVE  Safe'
<1> USE DEF SaveFailed
<1>1. RowInv' /\ PlaceInv'
  OBVIOUS
<1>2. CallerInv' /\ DecideInv'
  OBVIOUS
<1>3. JobInv' /\ BridgeInv' /\ AheadInv'
  OBVIOUS
<1> QED
  BY <1>1, <1>2, <1>3

LEMMA SaveForwardSafe ==
  ASSUME OneWorker, Faults = {}, Sound, Safe, Sound', NEW w \in Worker,
         SaveForward(w)
  PROVE  Safe'
<1> USE DEF SaveForward
<1>1. RowInv' /\ PlaceInv'
  OBVIOUS
<1>2. CallerInv' /\ DecideInv'
  OBVIOUS
<1>3. JobInv' /\ BridgeInv' /\ AheadInv'
  OBVIOUS
<1> QED
  BY <1>1, <1>2, <1>3

LEMMA FinishSafe ==
  ASSUME OneWorker, Faults = {}, Sound, Safe, Sound', NEW w \in Worker,
         Finish(w)
  PROVE  Safe'
<1> USE DEF Finish
<1>1. RowInv' /\ PlaceInv'
  OBVIOUS
<1>2. CallerInv' /\ DecideInv'
  OBVIOUS
<1>3. JobInv' /\ BridgeInv' /\ AheadInv'
  OBVIOUS
<1> QED
  BY <1>1, <1>2, <1>3

\* Only one of the claims wins the row.
LEMMA ClaimSafe ==
  ASSUME OneWorker, Faults = {}, Sound, Safe, Sound', NEW w \in Worker,
         Claim(w)
  PROVE  Safe'
<1> USE DEF Claim
<1>1. RowInv' /\ PlaceInv'
  OBVIOUS
<1>2. CallerInv' /\ DecideInv'
  OBVIOUS
<1>3. JobInv' /\ BridgeInv' /\ AheadInv'
  OBVIOUS
<1> QED
  BY <1>1, <1>2, <1>3

LEMMA ReadDbSafe ==
  ASSUME OneWorker, Faults = {}, Sound, Safe, Sound', NEW w \in Worker,
         ReadDb(w)
  PROVE  Safe'
<1> USE DEF ReadDb
<1>1. RowInv' /\ PlaceInv'
  OBVIOUS
<1>2. CallerInv' /\ DecideInv'
  OBVIOUS
<1>3. JobInv' /\ BridgeInv' /\ AheadInv'
  OBVIOUS
<1> QED
  BY <1>1, <1>2, <1>3

\* A lost cutover leaves the row where it can be taken up again.
LEMMA CutoverLostSafe ==
  ASSUME OneWorker, Faults = {}, Sound, Safe, Sound', NEW w \in Worker,
         CutoverLost(w)
  PROVE  Safe'
<1> USE DEF CutoverLost
<1>1. RowInv' /\ PlaceInv'
  OBVIOUS
<1>2. CallerInv' /\ DecideInv'
  OBVIOUS
<1>3. JobInv' /\ BridgeInv' /\ AheadInv'
  OBVIOUS
<1> QED
  BY <1>1, <1>2, <1>3

\* The bridge is open, left to DNS or out of the question when the fence comes.
LEMMA OpenSafe ==
  ASSUME OneWorker, Faults = {}, Sound, Safe, Sound', NEW w \in Worker,
         OpenBridge(w) \/ WaitBridge(w) \/ OpeningFails(w)
  PROVE  Safe'
<1> USE DEF OpenBridge, WaitBridge, OpeningFails
<1>1. RowInv' /\ PlaceInv'
  OBVIOUS
<1>2. CallerInv' /\ DecideInv'
  OBVIOUS
<1>3. JobInv' /\ BridgeInv' /\ AheadInv'
  OBVIOUS
<1> QED
  BY <1>1, <1>2, <1>3

\* A bridge is rolled back when no job holds it and nothing is promoted.
LEMMA IdleSafe ==
  ASSUME OneWorker, Faults = {}, Sound, Safe, Sound', NEW w \in Worker,
         WaitIdle(w) \/ RollBridge(w)
  PROVE  Safe'
<1> USE DEF WaitIdle, RollBridge
<1>1. RowInv' /\ PlaceInv'
  OBVIOUS
<1>2. CallerInv' /\ DecideInv'
  OBVIOUS
<1>3. JobInv' /\ BridgeInv' /\ AheadInv'
  OBVIOUS
<1> QED
  BY <1>1, <1>2, <1>3

\* The leg is asked once; its note of an earlier failure is gone.
LEMMA PromoteSafe ==
  ASSUME OneWorker, Faults = {}, Sound, Safe, Sound', NEW w \in Worker,
         Promote(w)
  PROVE  Safe'
<1> USE DEF Promote
<1>1. RowInv' /\ PlaceInv'
  OBVIOUS
<1>2. CallerInv' /\ DecideInv'
  OBVIOUS
<1>3. JobInv' /\ BridgeInv' /\ AheadInv'
  OBVIOUS
<1> QED
  BY <1>1, <1>2, <1>3

\* The verdict comes when the leg has decided.
LEMMA DecideSafe ==
  ASSUME OneWorker, Faults = {}, Sound, Safe, Sound', NEW w \in Worker,
         WaitPromote(w) \/ PromoteFails(w) \/ Verdict(w)
  PROVE  Safe'
<1> USE DEF WaitPromote, PromoteFails, Verdict
<1>1. RowInv' /\ PlaceInv'
  OBVIOUS
<1>2. CallerInv' /\ DecideInv'
  OBVIOUS
<1>3. JobInv'
  OBVIOUS
<1>4. BridgeInv'
  OBVIOUS
<1>5. AheadInv'
  OBVIOUS
<1> QED
  BY <1>1, <1>2, <1>3, <1>4, <1>5

\* The application's cutover starts behind the promote.
LEMMA FinalizeSafe ==
  ASSUME OneWorker, Faults = {}, Sound, Safe, Sound', NEW w \in Worker,
         Finalize(w) \/ WaitLeg(w) \/ FinalizeFails(w)
  PROVE  Safe'
<1> USE DEF Finalize, WaitLeg, FinalizeFails
<1>1. RowInv' /\ PlaceInv'
  OBVIOUS
<1>2. CallerInv' /\ DecideInv'
  OBVIOUS
<1>3. JobInv' /\ BridgeInv' /\ AheadInv'
  OBVIOUS
<1> QED
  BY <1>1, <1>2, <1>3

LEMMA DriveSafe ==
  ASSUME OneWorker, Faults = {}, Sound, Safe, Sound', NEW w \in Worker,
         Drive(w)
  PROVE  Safe'
<1> USE DEF Drive
<1>1. RowInv' /\ PlaceInv'
  OBVIOUS
<1>2. CallerInv' /\ DecideInv'
  OBVIOUS
<1>3. JobInv' /\ BridgeInv' /\ AheadInv'
  OBVIOUS
<1> QED
  BY <1>1, <1>2, <1>3

LEMMA RequestAbortSafe ==
  ASSUME OneWorker, Faults = {}, Sound, Safe, Sound',
         RequestAbort
  PROVE  Safe'
<1> USE DEF RequestAbort
<1>1. RowInv' /\ PlaceInv'
  OBVIOUS
<1>2. CallerInv' /\ DecideInv'
  OBVIOUS
<1>3. JobInv' /\ BridgeInv' /\ AheadInv'
  OBVIOUS
<1> QED
  BY <1>1, <1>2, <1>3

\* The claim finds both legs on the row.
LEMMA AbortClaimSafe ==
  ASSUME OneWorker, Faults = {}, Sound, Safe, Sound',
         AbortClaim
  PROVE  Safe'
<1> USE DEF AbortClaim
<1>1. RowInv' /\ PlaceInv'
  OBVIOUS
<1>2. CallerInv' /\ DecideInv'
  OBVIOUS
<1>3. JobInv' /\ BridgeInv' /\ AheadInv'
  OBVIOUS
<1> QED
  BY <1>1, <1>2, <1>3

\* No bridge is open behind a row that can be aborted.
LEMMA TearBridgeSafe ==
  ASSUME OneWorker, Faults = {}, Sound, Safe, Sound',
         TearBridge
  PROVE  Safe'
<1> USE DEF TearBridge
<1>1. RowInv' /\ PlaceInv'
  OBVIOUS
<1>2. CallerInv' /\ DecideInv'
  OBVIOUS
<1>3. JobInv' /\ BridgeInv' /\ AheadInv'
  OBVIOUS
<1> QED
  BY <1>1, <1>2, <1>3

\* Both legs are down when the abort saves.
LEMMA AbortSaveSafe ==
  ASSUME OneWorker, Faults = {}, Sound, Safe, Sound',
         AbortSave
  PROVE  Safe'
<1> USE DEF AbortSave
<1>1. RowInv'
  OBVIOUS
<1>2. PlaceInv'
  OBVIOUS
<1>3. CallerInv' /\ DecideInv'
  OBVIOUS
<1>4. JobInv' /\ BridgeInv' /\ AheadInv'
  OBVIOUS
<1> QED
  BY <1>1, <1>2, <1>3, <1>4

\* The source goes after the application was bound.
LEMMA RequestDestroySafe ==
  ASSUME OneWorker, Faults = {}, Sound, Safe, Sound',
         RequestDestroy
  PROVE  Safe'
<1> USE DEF RequestDestroy
<1>1. RowInv' /\ PlaceInv'
  OBVIOUS
<1>2. CallerInv' /\ DecideInv'
  OBVIOUS
<1>3. JobInv' /\ BridgeInv' /\ AheadInv'
  OBVIOUS
<1> QED
  BY <1>1, <1>2, <1>3

LEMMA DestroyLegSafe ==
  ASSUME OneWorker, Faults = {}, Sound, Safe, Sound',
         DestroyLeg
  PROVE  Safe'
<1> USE DEF DestroyLeg
<1>1. RowInv' /\ PlaceInv'
  OBVIOUS
<1>2. CallerInv' /\ DecideInv'
  OBVIOUS
<1>3. JobInv' /\ BridgeInv' /\ AheadInv'
  OBVIOUS
<1> QED
  BY <1>1, <1>2, <1>3

LEMMA DestroySaveSafe ==
  ASSUME OneWorker, Faults = {}, Sound, Safe, Sound',
         DestroySave
  PROVE  Safe'
<1> USE DEF DestroySave
<1>1. RowInv' /\ PlaceInv'
  OBVIOUS
<1>2. CallerInv' /\ DecideInv'
  OBVIOUS
<1>3. JobInv' /\ BridgeInv' /\ AheadInv'
  OBVIOUS
<1> QED
  BY <1>1, <1>2, <1>3

\* A leg that copies has not decided.
LEMMA DbStepSafe ==
  ASSUME OneWorker, Faults = {}, Sound, Safe, Sound',
         DbCopies \/ DbFails
  PROVE  Safe'
<1> USE DEF DbCopies, DbFails
<1>1. RowInv' /\ PlaceInv'
  OBVIOUS
<1>2. CallerInv' /\ DecideInv'
  OBVIOUS
<1>3. JobInv' /\ BridgeInv' /\ AheadInv'
  OBVIOUS
<1> QED
  BY <1>1, <1>2, <1>3

\* The cutover of the leg starts behind the bridge.
LEMMA DbEntersSafe ==
  ASSUME OneWorker, Faults = {}, Sound, Safe, Sound',
         DbEnters
  PROVE  Safe'
<1> USE DEF DbEnters
<1>1. RowInv' /\ PlaceInv'
  OBVIOUS
<1>2. DecideInv'
  <2>1. CASE dbStatus = "SYNCED"
    BY <2>1
  <2>2. CASE dbStatus # "SYNCED"
    BY <2>2
  <2> QED
    BY <2>1, <2>2
<1>3. CallerInv'
  OBVIOUS
<1>4. JobInv' /\ BridgeInv' /\ AheadInv'
  OBVIOUS
<1> QED
  BY <1>1, <1>2, <1>3, <1>4

\* A leg that falls back leaves word of it.
LEMMA DbFallsBackSafe ==
  ASSUME OneWorker, Faults = {}, Sound, Safe, Sound',
         DbFallsBack
  PROVE  Safe'
<1> USE DEF DbFallsBack
<1>1. RowInv' /\ PlaceInv'
  OBVIOUS
<1>2. CallerInv' /\ DecideInv'
  OBVIOUS
<1>3. JobInv' /\ BridgeInv' /\ AheadInv'
  OBVIOUS
<1> QED
  BY <1>1, <1>2, <1>3

\* The promise, the promote and the end of the cutover.
LEMMA DbGoesOnSafe ==
  ASSUME OneWorker, Faults = {}, Sound, Safe, Sound',
         DbGoesOn
  PROVE  Safe'
<1> USE DEF DbGoesOn
<1>1. RowInv' /\ PlaceInv'
  OBVIOUS
<1>2. CallerInv' /\ DecideInv'
  OBVIOUS
<1>3. JobInv' /\ BridgeInv' /\ AheadInv'
  OBVIOUS
<1> QED
  BY <1>1, <1>2, <1>3

\* The application's leg gets ready before the row does.
LEMMA AppProvisionsSafe ==
  ASSUME OneWorker, Faults = {}, Sound, Safe, Sound',
         AppProvisions
  PROVE  Safe'
<1> USE DEF AppProvisions
<1>1. RowInv' /\ PlaceInv'
  OBVIOUS
<1>2. CallerInv' /\ DecideInv'
  OBVIOUS
<1>3. JobInv' /\ BridgeInv' /\ AheadInv'
  OBVIOUS
<1> QED
  BY <1>1, <1>2, <1>3

LEMMA AppFailsSafe ==
  ASSUME OneWorker, Faults = {}, Sound, Safe, Sound',
         AppFails
  PROVE  Safe'
<1> USE DEF AppFails
<1>1. RowInv' /\ PlaceInv'
  OBVIOUS
<1>2. CallerInv' /\ DecideInv'
  OBVIOUS
<1>3. JobInv' /\ BridgeInv' /\ AheadInv'
  OBVIOUS
<1> QED
  BY <1>1, <1>2, <1>3

LEMMA AppEntersSafe ==
  ASSUME OneWorker, Faults = {}, Sound, Safe, Sound',
         AppEnters
  PROVE  Safe'
<1> USE DEF AppEnters
<1>1. RowInv' /\ PlaceInv'
  OBVIOUS
<1>2. CallerInv' /\ DecideInv'
  OBVIOUS
<1>3. JobInv' /\ BridgeInv' /\ AheadInv'
  OBVIOUS
<1> QED
  BY <1>1, <1>2, <1>3

\* The bridge opens before the fence, or after the promote.
LEMMA AppOpensSafe ==
  ASSUME OneWorker, Faults = {}, Sound, Safe, Sound',
         AppOpens
  PROVE  Safe'
<1> USE DEF AppOpens
<1>1. RowInv'
  OBVIOUS
<1>2. PlaceInv'
  OBVIOUS
<1>3. CallerInv' /\ DecideInv'
  OBVIOUS
<1>4. BridgeInv'
  <2>1. CASE "open" \in appJobs
    BY <2>1
  <2>2. CASE "cutover" \in appJobs
    <3>1. dbStatus = "COMPLETED" /\ UNCHANGED dbStatus
      BY <2>2
    <3>2. /\ dbPromised /\ appMode = "bridge" /\ appOpen' = TRUE
          /\ UNCHANGED <<pc, form, dbPromised, dbJobs, appMode>>
      BY <3>1
    <3> QED
      BY <3>1, <3>2
  <2>3. appJobs # {} /\ appJobs \subseteq {"open", "cutover"}
    OBVIOUS
  <2> QED
    BY <2>1, <2>2, <2>3, OneOfTwo
<1>5. AheadInv'
  <2>1. CASE "open" \in appJobs
    BY <2>1
  <2>2. CASE "cutover" \in appJobs
    <3>1. dbStatus = "COMPLETED" /\ UNCHANGED dbStatus
      BY <2>2
    <3>2. /\ dbPromised /\ appMode = "bridge" /\ appOpen' = TRUE
          /\ UNCHANGED <<pc, form, dbPromised, dbJobs, appMode>>
      BY <3>1
    <3> QED
      BY <3>1, <3>2
  <2>3. appJobs # {} /\ appJobs \subseteq {"open", "cutover"}
    OBVIOUS
  <2> QED
    BY <2>1, <2>2, <2>3, OneOfTwo
<1>6. JobInv'
  OBVIOUS
<1> QED
  BY <1>1, <1>2, <1>3, <1>4, <1>5, <1>6

LEMMA AppLeavesSafe ==
  ASSUME OneWorker, Faults = {}, Sound, Safe, Sound',
         AppLeavesOpening
  PROVE  Safe'
<1> USE DEF AppLeavesOpening
<1>1. RowInv' /\ PlaceInv'
  OBVIOUS
<1>2. CallerInv' /\ DecideInv'
  OBVIOUS
<1>3. JobInv' /\ BridgeInv' /\ AheadInv'
  OBVIOUS
<1> QED
  BY <1>1, <1>2, <1>3

\* The application is bound after the promote.
LEMMA AppBindsSafe ==
  ASSUME OneWorker, Faults = {}, Sound, Safe, Sound',
         AppBinds
  PROVE  Safe'
<1> USE DEF AppBinds
<1>1. RowInv' /\ PlaceInv'
  OBVIOUS
<1>2. CallerInv' /\ DecideInv'
  OBVIOUS
<1>3. JobInv' /\ BridgeInv' /\ AheadInv'
  OBVIOUS
<1> QED
  BY <1>1, <1>2, <1>3

LEMMA AppFinishesSafe ==
  ASSUME OneWorker, Faults = {}, Sound, Safe, Sound',
         AppFinishes
  PROVE  Safe'
<1> USE DEF AppFinishes
<1>1. RowInv' /\ PlaceInv'
  OBVIOUS
<1>2. CallerInv' /\ DecideInv'
  OBVIOUS
<1>3. JobInv'
  <2>1. "open" \notin appJobs
    OBVIOUS
  <2>2. appJobs' = {}
    BY <2>1
  <2> QED
    BY <2>2
<1>4. BridgeInv' /\ AheadInv'
  OBVIOUS
<1> QED
  BY <1>1, <1>2, <1>3, <1>4

\* A process dies anywhere the faults allow.
LEMMA CrashSafe ==
  ASSUME OneWorker, Faults = {}, Sound, Safe, Sound', NEW a \in Actor,
         Crash(a)
  PROVE  Safe'
<1> USE DEF Crash
<1>1. RowInv' /\ PlaceInv'
  OBVIOUS
<1>2. CallerInv' /\ DecideInv'
  OBVIOUS
<1>3. JobInv' /\ BridgeInv' /\ AheadInv'
  OBVIOUS
<1> QED
  BY <1>1, <1>2, <1>3

\* A job is taken up by what the row says.
LEMMA DeliverSafe ==
  ASSUME OneWorker, Faults = {}, Sound, Safe, Sound', NEW w \in Worker, NEW j \in Job,
         Deliver(w, j)
  PROVE  Safe'
<1> USE DEF Deliver
<1>1. RowInv' /\ PlaceInv'
  OBVIOUS
<1>2. CallerInv' /\ DecideInv'
  OBVIOUS
<1>3. JobInv' /\ BridgeInv' /\ AheadInv'
  OBVIOUS
<1> QED
  BY <1>1, <1>2, <1>3

\* The queue and a starting copy bring jobs back.
LEMMA StallSafe ==
  ASSUME OneWorker, Faults = {}, Sound, Safe, Sound', NEW j \in Job,
         StallCheck(j)
  PROVE  Safe'
<1> USE DEF StallCheck
<1>1. RowInv' /\ PlaceInv'
  OBVIOUS
<1>2. CallerInv' /\ DecideInv'
  OBVIOUS
<1>3. JobInv' /\ BridgeInv' /\ AheadInv'
  OBVIOUS
<1> QED
  BY <1>1, <1>2, <1>3

LEMMA RequestCutoverSafe ==
  ASSUME OneWorker, Faults = {}, Sound, Safe, Sound',
         RequestCutover
  PROVE  Safe'
<1> USE DEF RequestCutover
<1>1. RowInv' /\ PlaceInv'
  OBVIOUS
<1>2. CallerInv' /\ DecideInv'
  OBVIOUS
<1>3. JobInv' /\ BridgeInv' /\ AheadInv'
  OBVIOUS
<1> QED
  BY <1>1, <1>2, <1>3

LEMMA RecoverSafe ==
  ASSUME OneWorker, Faults = {}, Sound, Safe, Sound',
         Recover
  PROVE  Safe'
<1> USE DEF Recover
<1>1. RowInv' /\ PlaceInv'
  OBVIOUS
<1>2. CallerInv' /\ DecideInv'
  OBVIOUS
<1>3. JobInv' /\ BridgeInv' /\ AheadInv'
  OBVIOUS
<1> QED
  BY <1>1, <1>2, <1>3

-----------------------------------------------------------------------------
USE DEF PC, DbStatus, AppStatus, Status

LEMMA InitSafe ==
  ASSUME Init
  PROVE  Safe
<1> USE DEF Init, Db!Init, Leg!Init
<1>1. RowInv /\ PlaceInv /\ CallerInv
  OBVIOUS
<1>2. DecideInv /\ JobInv /\ BridgeInv /\ AheadInv
  OBVIOUS
<1> QED
  BY <1>1, <1>2

LEMMA StutterSafe ==
  ASSUME Safe, UNCHANGED vars
  PROVE  Safe'
<1> USE DEF vars
<1>1. RowInv' /\ PlaceInv' /\ CallerInv'
  OBVIOUS
<1>2. DecideInv' /\ JobInv' /\ BridgeInv' /\ AheadInv'
  OBVIOUS
<1> QED
  BY <1>1, <1>2

IInv == Sound /\ Safe

LEMMA NextSafe ==
  ASSUME OneWorker, Faults = {}, IInv, [Next]_vars
  PROVE  IInv'
<1>0. Sound /\ Safe /\ Sound'
  BY NextSound DEF IInv
<1> HIDE DEF OneWorker, Sound, Safe, RunIsHeld, TakenUp
<1> SUFFICES Safe'
  BY <1>0 DEF IInv
<1> USE <1>0
<1>1. CASE UNCHANGED vars
  BY <1>1, StutterSafe
<1>2. ASSUME NEW w \in Worker, StageStep(w)
      PROVE  Safe'
  BY <1>2, StartSafe, ReplicateSafe, EnsureDbSafe, EnsureAppSafe, MakeSafe, WaitSafe,
     WaitAppSafe, StageSafe, ReadySafe DEF StageStep
<1>3. ASSUME NEW w \in Worker, CutoverStep(w)
      PROVE  Safe'
  BY <1>3, ClaimSafe, ReadDbSafe, OpenSafe, IdleSafe, PromoteSafe, DecideSafe,
     FinalizeSafe, DriveSafe, FinishSafe, SaveFailedSafe, SaveForwardSafe
     DEF CutoverStep
<1>4. ASSUME NEW w \in Worker, FailStep(w)
      PROVE  Safe'
  BY <1>4, WaitSafe, OpenSafe, DecideSafe, CutoverLostSafe, FinalizeSafe DEF FailStep
<1>5. ASSUME NEW w \in Worker, NEW j \in Job, Deliver(w, j)
      PROVE  Safe'
  BY <1>5, DeliverSafe
<1>6. ASSUME NEW a \in Actor, AbortApp(a) \/ AbortDb(a) \/ Crash(a)
      PROVE  Safe'
  BY <1>6, AbortAppSafe, AbortDbSafe, CrashSafe
<1>7. CASE CallerStep \/ RequestCutover \/ RequestAbort \/ RequestDestroy
  BY <1>7, AbortClaimSafe, TearBridgeSafe, AbortSaveSafe, DestroyLegSafe,
     DestroySaveSafe, RequestCutoverSafe, RequestAbortSafe, RequestDestroySafe
     DEF CallerStep
<1>8. CASE DbStep \/ DbFails
  BY <1>8, DbStepSafe, DbEntersSafe, DbFallsBackSafe, DbGoesOnSafe DEF DbStep
<1>9. CASE AppStep \/ AppFails
  BY <1>9, AppProvisionsSafe, AppFailsSafe, AppEntersSafe, AppOpensSafe,
     AppLeavesSafe, AppBindsSafe, AppFinishesSafe DEF AppStep
<1>10. CASE Recover \/ \E j \in Job : StallCheck(j)
  BY <1>10, RecoverSafe, StallSafe
<1> HIDE DEF Actor
<1> QED
  BY <1>1, <1>2, <1>3, <1>4, <1>5, <1>6, <1>7, <1>8, <1>9, <1>10
  DEF Next, WorkerStep, UndoStep

LEMMA Inductive ==
  ASSUME OneWorker, Faults = {}
  PROVE  Spec => []IInv
<1>1. Init => IInv
  BY InitSound, InitSafe DEF IInv
<1>2. IInv /\ [Next]_vars => IInv'
  BY NextSafe
<1> HIDE DEF IInv
<1> QED
  BY <1>1, <1>2, PTL DEF Spec

\* Once the promote is on record, the row stands where a cutover can be asked for,
\* or the migration is over.
THEOREM NobodyStranded ==
  ASSUME OneWorker, Faults = {}
  PROVE  Spec => []NeverStranded
<1>1. IInv => NeverStranded
  BY DEF IInv, NeverStranded
<1> QED
  BY Inductive, <1>1, PTL

\* When nothing is under way and no cutover may be resumed, clients that are sent
\* to the destination find the writable database there.
THEOREM ClientsFindData ==
  ASSUME OneWorker, Faults = {}
  PROVE  Spec => []ClientsReachData
<1>1. IInv => ClientsReachData
  <2> SUFFICES ASSUME IInv, Settled, row.status # "CUTOVER", appOpen \/ appBound = "dst"
               PROVE  dbPrimary
    BY DEF ClientsReachData
  <2>1. Sound /\ Safe /\ dbStatus # "CUTOVER"
    BY DEF IInv, Settled
  <2>2. CASE appBound = "dst"
    BY <2>1, <2>2
  <2>3. CASE appOpen
    <3>1. row.status \in Forward \ {"CUTOVER"}
      BY <2>1, <2>3
    <3> QED
      BY <2>1, <3>1
  <2> QED
    BY <2>2, <2>3
<1> QED
  BY Inductive, <1>1, PTL

\* An abort that is over left no leg at work, so no replication slot on the source.
THEOREM AbortTearsDown ==
  ASSUME OneWorker, Faults = {}
  PROVE  Spec => []AbortLeavesNoLeg
<1>1. IInv => AbortLeavesNoLeg
  BY DEF IInv, AbortLeavesNoLeg, Settled
<1> QED
  BY Inductive, <1>1, PTL

-----------------------------------------------------------------------------
\* Steps that may write the row.
LEMMA FewWriteRow ==
  ASSUME [Next]_vars
  PROVE  \/ UNCHANGED row
         \/ RequestAbort \/ AbortClaim \/ AbortSave \/ RequestDestroy \/ DestroySave
         \/ \E w \in Worker :
              \/ Start(w) \/ Replicate(w) \/ EnsureDb(w) \/ LinkDb(w) \/ EnsureApp(w)
              \/ Stage(w) \/ LinkApp(w) \/ Ready(w) \/ SaveFailed(w) \/ SaveForward(w)
              \/ Finish(w) \/ Claim(w) \/ Promote(w)
<1> HIDE DEF TypeOK, Sound, Safe, Spend, Go, Done, LegsStay, Leg!RollBack, Save, Enqueue
<1>1. CASE UNCHANGED vars
  BY <1>1 DEF vars
<1>2. ASSUME NEW w \in Worker,
             \/ MakeDb(w) \/ MakeApp(w) \/ WaitDb(w) \/ CheckDb(w) \/ WaitApp(w)
             \/ CheckApp(w) \/ StageFails(w)
      PROVE  UNCHANGED row
  BY <1>2 DEF MakeDb, MakeApp, WaitDb, CheckDb, WaitApp, CheckApp, StageFails
<1>3. ASSUME NEW w \in Worker,
             \/ ReadDb(w) \/ OpenBridge(w) \/ WaitBridge(w) \/ WaitIdle(w)
             \/ OpeningFails(w) \/ CutoverLost(w) \/ RollBridge(w)
      PROVE  UNCHANGED row
  BY <1>3 DEF ReadDb, OpenBridge, WaitBridge, WaitIdle, OpeningFails, CutoverLost, RollBridge
<1>4. ASSUME NEW w \in Worker,
             \/ WaitPromote(w) \/ PromoteFails(w) \/ Verdict(w) \/ Finalize(w) \/ Drive(w)
             \/ WaitLeg(w) \/ FinalizeFails(w)
      PROVE  UNCHANGED row
  BY <1>4 DEF WaitPromote, PromoteFails, Verdict, Finalize, Drive, WaitLeg, FinalizeFails
<1>5. ASSUME NEW w \in Worker, NEW j \in Job, Deliver(w, j)
      PROVE  UNCHANGED row
  BY <1>5 DEF Deliver
<1>6. ASSUME NEW a \in Actor, AbortApp(a) \/ AbortDb(a) \/ Crash(a)
      PROVE  UNCHANGED row
  BY <1>6 DEF AbortApp, AbortDb, Crash
<1>7. CASE TearBridge \/ DestroyLeg \/ RequestCutover \/ Recover \/ \E j \in Job : StallCheck(j)
  BY <1>7 DEF TearBridge, DestroyLeg, RequestCutover, Recover, StallCheck
<1>8. CASE DbStep \/ DbFails
  BY <1>8 DEF DbStep, DbCopies, DbEnters, DbFallsBack, DbGoesOn, DbFails
<1>9. CASE AppStep \/ AppFails
  BY <1>9 DEF AppStep, AppProvisions, AppEnters, AppOpens, AppLeavesOpening, AppBinds,
     AppFinishes, AppFails
<1> HIDE DEF Actor
<1>10. ASSUME NEW w \in Worker, WorkerStep(w) \/ FailStep(w)
       PROVE  \/ UNCHANGED row
              \/ Start(w) \/ Replicate(w) \/ EnsureDb(w) \/ LinkDb(w) \/ EnsureApp(w)
              \/ Stage(w) \/ LinkApp(w) \/ Ready(w) \/ SaveFailed(w) \/ SaveForward(w)
              \/ Finish(w) \/ Claim(w) \/ Promote(w)
  BY <1>2, <1>3, <1>4, <1>5, <1>10 DEF WorkerStep, StageStep, CutoverStep, FailStep
<1> QED
  BY <1>1, <1>6, <1>7, <1>8, <1>9, <1>10 DEF Next, UndoStep, CallerStep

\* An aborted migration never goes on: the one thing still written over it is that
\* the driver failed.
THEOREM AbortStands ==
  ASSUME OneWorker, Faults = {}
  PROVE  Spec => AbortStops
<1> DEFINE Stands == row.status = "ABORTED" => row'.status \in {"ABORTED", "FAILED"}
<1>1. ASSUME IInv, [Next]_vars
      PROVE  Stands
  <2>0. Sound /\ Safe
    BY <1>1 DEF IInv
  <2>1. ASSUME NEW w \in Worker, Start(w)
        PROVE  Stands
    BY <2>0, <2>1, StartGoes
  <2>2. ASSUME NEW w \in Worker, Replicate(w) \/ Stage(w) \/ Ready(w)
        PROVE  Stands
    BY <2>0, <2>2 DEF Replicate, Stage, Ready
  <2>3. ASSUME NEW w \in Worker, EnsureDb(w) \/ LinkDb(w) \/ EnsureApp(w) \/ LinkApp(w)
        PROVE  Stands
    BY <2>0, <2>3 DEF EnsureDb, LinkDb, EnsureApp, LinkApp
  <2>4. ASSUME NEW w \in Worker, SaveFailed(w) \/ SaveForward(w) \/ Finish(w)
        PROVE  Stands
    BY <2>0, <2>4 DEF SaveFailed, SaveForward, Finish
  <2>5. ASSUME NEW w \in Worker, Claim(w) \/ Promote(w)
        PROVE  Stands
    BY <2>0, <2>5 DEF Claim, Promote
  <2>6. CASE RequestAbort \/ AbortClaim \/ AbortSave
    BY <2>0, <2>6 DEF RequestAbort, AbortClaim, AbortSave
  <2>7. CASE RequestDestroy \/ DestroySave
    BY <2>0, <2>7 DEF RequestDestroy, DestroySave
  <2>8. CASE UNCHANGED row
    BY <2>8
  <2> HIDE DEF Stands
  <2> QED
    BY <1>1, <2>1, <2>2, <2>3, <2>4, <2>5, <2>6, <2>7, <2>8, FewWriteRow
<1> HIDE DEF IInv
<1> QED
  BY Inductive, <1>1, PTL DEF Spec, AbortStops

\* Steps that may change the status of the database's leg.
LEMMA FewMoveDb ==
  ASSUME [Next]_vars
  PROVE  \/ UNCHANGED dbStatus
         \/ DbStep \/ DbFails
         \/ \E a \in Actor : AbortDb(a)
<1> HIDE DEF TypeOK, Sound, Safe, Spend, Go, Done, Leg!RollBack, Save, SetState, Enqueue,
             EnsureLeg
<1>1. CASE UNCHANGED vars
  BY <1>1 DEF vars
<1>2. ASSUME NEW w \in Worker, StageStep(w)
      PROVE  UNCHANGED dbStatus
  BY <1>2 DEF StageStep, Start, Replicate, EnsureDb, MakeDb, LinkDb, WaitDb, CheckDb,
     EnsureApp, Stage, MakeApp, LinkApp, WaitApp, CheckApp, Ready
<1>3. ASSUME NEW w \in Worker, CutoverStep(w)
      PROVE  UNCHANGED dbStatus
  BY <1>3 DEF CutoverStep, Claim, ReadDb, OpenBridge, WaitBridge, WaitIdle, Promote,
     WaitPromote, Verdict, RollBridge, Finalize, Drive, WaitLeg, Finish, SaveFailed,
     SaveForward
<1>4. ASSUME NEW w \in Worker, FailStep(w)
      PROVE  UNCHANGED dbStatus
  BY <1>4 DEF FailStep, StageFails, OpeningFails, PromoteFails, CutoverLost, FinalizeFails
<1>5. ASSUME NEW w \in Worker, NEW j \in Job, Deliver(w, j)
      PROVE  UNCHANGED dbStatus
  BY <1>5 DEF Deliver
<1>6. ASSUME NEW a \in Actor, AbortApp(a) \/ Crash(a)
      PROVE  UNCHANGED dbStatus
  BY <1>6 DEF AbortApp, Crash
<1>7. CASE CallerStep \/ RequestCutover \/ RequestAbort \/ RequestDestroy
  BY <1>7 DEF CallerStep, AbortClaim, TearBridge, AbortSave, DestroyLeg, DestroySave,
     RequestCutover, RequestAbort, RequestDestroy
<1>8. CASE AppStep \/ AppFails
  BY <1>8 DEF AppStep, AppProvisions, AppEnters, AppOpens, AppLeavesOpening, AppBinds,
     AppFinishes, AppFails
<1>9. CASE Recover \/ \E j \in Job : StallCheck(j)
  BY <1>9 DEF Recover, StallCheck
<1> HIDE DEF Actor
<1> QED
  BY <1>1, <1>2, <1>3, <1>4, <1>5, <1>6, <1>7, <1>8, <1>9 DEF Next, WorkerStep, UndoStep

\* Where the application already runs on the standby, its bridge is open when the
\* source is fenced, or cannot be opened any more.
THEOREM BridgeBeforeFence ==
  ASSUME OneWorker, Faults = {}
  PROVE  Spec => BridgeOpensAhead
<1> DEFINE Ahead ==
      dbStatus = "SYNCED" /\ dbStatus' = "CUTOVER" /\ form.bridgeFirst /\ appMode = "bridge"
        => appOpen \/ appStatus = "FAILED"
<1>1. ASSUME IInv, [Next]_vars
      PROVE  Ahead
  <2>0. Sound /\ Safe
    BY <1>1 DEF IInv
  <2>1. CASE DbEnters
    <3>1. dbStatus = "SYNCED" => Decisive /\ row.status \in Forward
      BY <2>0, <2>1 DEF DbEnters
    <3>2. dbStatus = "SYNCED" => appStatus \in {"READY", "CUTOVER", "FAILED"}
      BY <2>0, <3>1
    <3> QED
      BY <2>0, <3>1, <3>2
  <2>2. CASE DbCopies \/ DbFails \/ DbFallsBack \/ DbGoesOn
    BY <2>2 DEF DbCopies, DbFails, DbFallsBack, DbGoesOn
  <2>3. ASSUME NEW a \in Actor, AbortDb(a)
        PROVE  Ahead
    BY <2>3 DEF AbortDb
  <2>4. CASE UNCHANGED dbStatus
    BY <2>4
  <2> HIDE DEF Ahead, Actor
  <2> QED
    BY <1>1, <2>1, <2>2, <2>3, <2>4, FewMoveDb DEF DbStep
<1> HIDE DEF IInv
<1> QED
  BY Inductive, <1>1, PTL DEF Spec, BridgeOpensAhead
==============================================================================
