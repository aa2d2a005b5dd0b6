-------------------------- MODULE AppMigrationProofs --------------------------
(***************************************************************************)
(* The move of an application for any number of failures, crashes,         *)
(* requests and aborts, and any set of forms.                              *)
(***************************************************************************)
EXTENDS AppMigration, TLAPS

\* One delivery at a time.
OneWorker == \A v, w \in Worker : v = w

\* Where a delivery works beside an abort, and looks at the row before it goes on.
Building == Providing \ {"start", "enter", "ready"}
\* Where the row is in CUTOVER, and the delivery's copy the same.
Leading == (Moving \cup Opening \cup Cutting) \ {"claim", "enterCutover", "fail"}
ByDns == {"rebindByDns", "flipByDns", "bindByDns"}
\* Behind the open bridge.
Behind == {"dropRoute", "dropOpened", "refreshRoute", "bind", "stopPods", "release", "flip"}
\* The source's route is gone, if there is a bridge.
Dropped == {"refreshRoute", "saveOpened", "bind", "stopPods", "release", "flip", "finish"}
Binding == {"bind", "stopPods", "release", "flip", "finish"} \cup ByDns
Before == {"certificates", "rebind", "buildRoute", "activate", "saveActive", "openFailed"}
Built == {"recheck", "prepare", "recheckPrepared", "ready"}
Undone == {"rollClose", "rollSave"}
Rolling == {"rollRoute", "rollClose", "rollSave"}
Aborts == {"abortTeardown", "abortSave"}
Destroying == {"closeBridge", "dropSource", "destroySave"}
Failing == \E w \in Worker : pc[w] = "fail"
SwitchingByDns == \E w \in Worker : pc[w] \in {"flipByDns", "bindByDns"}

\* An actor's copy of the row is the row but for the status.
Alike(a) == /\ mig[a].bridge = row.bridge /\ mig[a].prepared = row.prepared
            /\ mig[a].routeGone = row.routeGone /\ mig[a].destroyed = row.destroyed

\* Where a delivery stands, the row says so, in the table and in its copy.
PlaceInv ==
  \A w \in Worker :
    /\ pc[w] \notin Calling
    /\ pc[w] \notin {"idle", "fail"} => Alike(w)
    /\ pc[w] \in {"start", "enter"} =>
         row.status \in {"PENDING", "PROVISIONING"} /\ mig[w].status = row.status
    /\ pc[w] \in Building =>
         row.status \in {"PROVISIONING", "ABORTED"} /\ mig[w].status = "PROVISIONING"
    /\ pc[w] = "ready" => row.status = "PROVISIONING"
    /\ pc[w] = "claim" => row.status \in {"READY", "CUTOVER", "ABORTED"}
    /\ pc[w] = "enterCutover" => row.status \in {"READY", "CUTOVER"}
    /\ pc[w] \in Leading => row.status = "CUTOVER" /\ mig[w].status = "CUTOVER"
    /\ pc[w] = "fail" =>
         /\ row.status \in {"PROVISIONING", "ABORTED", "CUTOVER"}
         /\ mig[w].bridge \in {row.bridge, "preparing"}
         /\ row.bridge \in {"active", "dnsOnly", "closed"} => mig[w].bridge = row.bridge
         /\ row.bridge = "active" <=> app = "dst"
         /\ mig[w].prepared => row.prepared
         /\ mig[w].routeGone => row.routeGone
\* The caller has the row as it is, and undoes or destroys only what may be.
CallerInv ==
  /\ pc[Caller] \in {"idle"} \cup Aborts \cup Rolling \cup Destroying
  /\ pc[Caller] # "idle" => mig[Caller] = row
  /\ pc[Caller] \in Aborts =>
       /\ row.status \in {"PENDING", "PROVISIONING", "READY", "FAILED"} /\ row.bridge # "active"
       /\ \A w \in Worker : pc[w] \notin {"start", "enter", "ready", "enterCutover"}
  /\ pc[Caller] \in Rolling =>
       /\ row.bridge = "active" /\ app = "src" /\ ~form.volumes
       /\ \A w \in Worker : pc[w] = "idle"
  /\ pc[Caller] \in Destroying => row.status \in {"BRIDGING", "COMPLETED"} /\ clients = {"dst"}
  /\ pc[Caller] = "closeBridge" => row.status = "BRIDGING" /\ row.bridge = "active"
  /\ pc[Caller] \in {"dropSource", "destroySave"} => row.bridge # "active"
  /\ row.status = "BRIDGING" /\ pc[Caller] \notin {"dropSource", "destroySave"} =>
       row.bridge = "active"
\* The row knows whether the application is bound, and whether the bridge is open.
RowInv ==
  /\ app = "dst" => /\ row.status \in {"CUTOVER", "FAILED", "BRIDGING", "COMPLETED"}
                    /\ row.bridge \in {"active", "dnsOnly", "closed"}
  /\ row.status \in {"BRIDGING", "COMPLETED"} => app = "dst"
  /\ row.status = "FAILED" => (row.bridge = "active" <=> app = "dst")
  /\ row.bridge = "active" => row.status \in {"CUTOVER", "FAILED", "BRIDGING"}
  /\ row.bridge = "closed" => row.status \in {"BRIDGING", "COMPLETED"} /\ clients = {"dst"}
  /\ row.routeGone => row.bridge \in {"active", "closed"}
\* The bridge is opened alone only for an application without volumes, and binds nothing.
JobInv ==
  /\ form.volumes => \A j \in Job : j.kind = "open" => waiting[j] = 0 /\ stalled[j] = 0
  /\ \A w \in Worker :
       /\ pc[w] # "idle" /\ OnlyOpens(w) => ~form.volumes /\ app = "src"
       /\ pc[w] \in Providing \cup Binding => ~OnlyOpens(w)
       /\ pc[w] = "saveOpened" => OnlyOpens(w)
\* Until it is bound to the destination the application is served by the source.
SourceInv ==
  app = "src" =>
    /\ row.bridge # "active" \/ pc[Caller] \in Undone => "src" \in route
    /\ row.status # "CUTOVER" \/ ~form.volumes \/ Failing => pods["src"] = "running"
\* The destination serves before a name, a bridge or the application is given to it.
DestinationInv ==
  /\ app = "dst" => "dst" \in route /\ pods["dst"] = "running"
  /\ ~form.volumes /\ row.status \in {"READY", "CUTOVER"} /\ pc[Caller] # "abortSave" =>
       pods["dst"] = "running"
  /\ ~form.volumes => \A w \in Worker : pc[w] \in Built => pods["dst"] = "running"
  /\ \A w \in Worker :
       pc[w] \in {"rebind", "buildRoute", "activate", "saveActive"} \cup ByDns =>
         pods["dst"] = "running"
\* A route prepared beforehand is there until it is discarded.
PreparedInv ==
  /\ row.prepared
  /\ row.status \notin {"ABORTED", "FAILED"}
  /\ pc[Caller] \notin {"abortSave", "rollSave"}
  /\ \A w \in Worker : pc[w] = "fail" => mig[w].prepared
  => "dst" \in route
\* What an open bridge needs to carry every client.
BridgeInv ==
  row.bridge = "active" =>
    /\ pods["dst"] = "running"
    /\ pc[Caller] \notin Undone => endpoint.at = "dst"
    /\ pc[Caller] # "rollSave" => forwards /\ "dst" \in route
    /\ app = "dst" \/ (row.routeGone /\ pc[Caller] \notin Undone) => "src" \notin route
\* The name is published for the destination only when nothing leads back.
NameInv ==
  /\ "dst" \in clients => endpoint.at = "dst" /\ ~endpoint.held
  /\ endpoint.at = "dst" /\ ~endpoint.held /\ app = "src" =>
       /\ row.status = "CUTOVER" /\ row.bridge = "dnsOnly"
       /\ \A w \in Worker : pc[w] \in {"idle", "claim", "enterCutover", "chooseHow"} \cup ByDns
       /\ \A w \in Worker : pc[w] # "idle" => ~OnlyOpens(w)
       /\ form.volumes => SwitchingByDns
  /\ app = "dst" => /\ endpoint.at = "dst"
                    /\ row.bridge = "dnsOnly" => dns = "dst"
                    /\ row.bridge # "active" => ~endpoint.held
\* What each step of a cutover finds done.
StepInv ==
  \A w \in Worker :
    /\ pc[w] \in Behind => row.bridge = "active"
    /\ pc[w] \in Before => row.bridge \notin {"active", "dnsOnly"}
    /\ pc[w] \in ByDns => row.bridge = "dnsOnly"
    /\ pc[w] \in {"saveOpened", "finish"} => row.bridge \in {"active", "dnsOnly"}
    /\ pc[w] \in Dropped /\ row.bridge = "active" => "src" \notin route
    /\ pc[w] \in {"buildRoute", "activate", "saveActive"} => endpoint.at = "dst" /\ endpoint.held
    /\ pc[w] \in {"activate", "saveActive"} => "dst" \in route
    /\ pc[w] = "saveActive" => forwards
    /\ pc[w] \in {"stopPods", "release", "flip", "finish"} => app = "dst"
    /\ pc[w] = "flip" => ~endpoint.held
    /\ pc[w] \in {"flipByDns", "bindByDns"} => endpoint.at = "dst" /\ ~endpoint.held
    /\ pc[w] = "bindByDns" => dns = "dst" /\ "dst" \in route
    /\ pc[w] \in Moving => MovesVolumes(w)
\* Writes reach the destination's volumes only once nothing copies over them.
TakenInv == taken => form.volumes /\ (app = "dst" \/ row.bridge = "active" \/ SwitchingByDns)
\* What holds with one delivery at a time and none of the faults.
Safe == /\ PlaceInv /\ CallerInv /\ RowInv /\ JobInv /\ SourceInv /\ DestinationInv
        /\ PreparedInv /\ BridgeInv /\ NameInv /\ StepInv /\ TakenInv

\* The parts of TypeOK, for the steps of its proof.
FormOK == form \in Forms
RowsOK == row \in Row /\ mig \in [Actor -> Row]
QueueOK == waiting \in [Job -> Nat] /\ stalled \in [Job -> Nat]
PlacesOK == pc \in [Actor -> PC]
WorkOK == job \in [Worker -> Job]
PodsOK == pods \in [Cluster -> {"none", "stopped", "running"}]
NamesOK == /\ endpoint \in [at : Cluster, held : BOOLEAN]
           /\ route \subseteq Cluster
           /\ dns \in Cluster /\ clients \subseteq Cluster /\ dns \in clients
FlagsOK == app \in Cluster /\ {forwards, taken, boot} \subseteq BOOLEAN
BudgetOK == budget \in [{"failures", "crashes", "requests", "aborts"} -> Nat]

-----------------------------------------------------------------------------
\* What every leaf below may expand: the vocabulary of the module and the parts of
\* the invariant.
USE ActorAssumption, FormAssumption, BoundAssumption
    DEF queueVars, localVars, nameVars, loadVars, Actor, Cluster, Row, NewRow, Form, TypeOK,
        FormOK, RowsOK, QueueOK, PlacesOK, WorkOK, PodsOK, NamesOK, FlagsOK, BudgetOK,
        Spend, Goto, Go, Done, Enqueue, RowOnly, WorldOnly, Save, SaveAndEnd,
        Bridge, TearDown, Publish, OnlyOpens, BindTarget

\* The row, and one just made, are rows.
LEMMA RowsAreRows ==
  ASSUME TypeOK
  PROVE  row \in Row /\ NewRow(form) \in Row
<1>1. row \in Row
  OBVIOUS
<1>2. NewRow(form) \in Row
  BY DEF Status
<1> HIDE DEF Row, NewRow
<1> QED
  BY <1>1, <1>2

\* A step that saves a row, or replaces an actor's copy.
LEMMA RowMoves ==
  ASSUME TypeOK, NEW a \in Actor, NEW m \in Row, NEW n \in Row,
         row' \in {row, m},
         mig' \in {mig, [mig EXCEPT ![a] = n], [mig EXCEPT ![a] = NewRow(form)]}
  PROVE  RowsOK'
<1>1. NewRow(form) \in Row
  BY RowsAreRows
<1> HIDE DEF Row, NewRow, Actor
<1> QED
  BY <1>1

\* The jobs of the queue, and one asked for or taken up again.
LEMMA EnqueueType ==
  ASSUME TypeOK, NEW k \in {"run", "cutover", "open"}, Enqueue(k), UNCHANGED stalled
  PROVE  QueueOK'
<1> DEFINE n == IF waiting[NewJob(k)] < MaxJobs THEN waiting[NewJob(k)] + 1 ELSE waiting[NewJob(k)]
<1>1. NewJob(k) \in Job
  BY DEF Job, NewJob
<1>2. n \in Nat
  BY <1>1
<1>3. waiting' = [waiting EXCEPT ![NewJob(k)] = n]
  OBVIOUS
<1> HIDE DEF n
<1> QED
  BY <1>1, <1>2, <1>3

\* A failed move of the volumes leaves pods on both clusters.
LEMMA GiveBackType ==
  ASSUME GiveBackSource
  PROVE  PodsOK'
BY DEF GiveBackSource

\* A route is prepared, or the bridge given up, or there is nothing to prepare.
LEMMA PrepareGoes ==
  ASSUME TypeOK, NEW w \in Worker, Prepare(w)
  PROVE  /\ pc[w] = "prepare" /\ Goto(w, "recheckPrepared")
         /\ UNCHANGED <<form, queueVars, job, app, endpoint, forwards, dns, clients, loadVars, boot,
                        budget>>
         /\ \/ UNCHANGED <<row, mig, route>>
            \/ /\ mig[w].bridge # "dnsOnly"
               /\ \A a \in Actor \ {w} : mig'[a] = mig[a]
               /\ row'.bridge \in {"preparing", "dnsOnly"} /\ mig'[w].bridge = row'.bridge
               /\ mig'[w].prepared = row'.prepared
               /\ row'.status = row.status /\ mig'[w].status = mig[w].status
               /\ row'.routeGone = row.routeGone /\ mig'[w].routeGone = mig[w].routeGone
               /\ row'.destroyed = row.destroyed /\ mig'[w].destroyed = mig[w].destroyed
               /\ route' = IF row'.prepared THEN route \cup {"dst"} ELSE route
<1>1. CASE mig[w].bridge = "dnsOnly"
  BY <1>1 DEF Prepare
<1>2. CASE mig[w].bridge # "dnsOnly"
  <2>1. PICK b \in {"preparing", "dnsOnly"}, built \in BOOLEAN :
          /\ mig' = [mig EXCEPT ![w].bridge = b, ![w].prepared = built]
          /\ row' = [row EXCEPT !.bridge = b, !.prepared = built]
          /\ route' = IF built THEN route \cup {"dst"} ELSE route
    BY <1>2 DEF Prepare
  <2>2. row \in Row /\ mig[w] \in Row /\ \A a \in Actor \ {w} : mig'[a] = mig[a]
    BY <2>1
  <2>3. mig'[w] = [mig[w] EXCEPT !.bridge = b, !.prepared = built]
    BY <2>1
  <2>4. /\ row'.bridge = b /\ row'.prepared = built /\ row'.status = row.status
        /\ row'.routeGone = row.routeGone /\ row'.destroyed = row.destroyed
    BY <2>1, <2>2
  <2>5. /\ mig'[w].bridge = b /\ mig'[w].prepared = built /\ mig'[w].status = mig[w].status
        /\ mig'[w].routeGone = mig[w].routeGone /\ mig'[w].destroyed = mig[w].destroyed
    BY <2>2, <2>3
  <2>6. /\ pc[w] = "prepare" /\ Goto(w, "recheckPrepared")
        /\ UNCHANGED <<form, queueVars, job, app, endpoint, forwards, dns, clients, loadVars, boot,
                       budget>>
    BY DEF Prepare
  <2> HIDE DEF Row, Actor, Goto, queueVars, loadVars
  <2> QED
    BY <1>2, <2>1, <2>2, <2>4, <2>5, <2>6
<1> QED
  BY <1>1, <1>2

\* A delivery takes up a row its job is for, as it reads it.
LEMMA DeliverGoes ==
  ASSUME TypeOK, NEW w \in Worker, NEW j \in Job, Deliver(w, j)
  PROVE  /\ pc[w] = "idle" /\ waiting[j] > 0
         /\ waiting' = [waiting EXCEPT ![j] = @ - 1]
         /\ UNCHANGED <<form, row, stalled, app, nameVars, loadVars, boot, budget>>
         /\ \/ UNCHANGED <<job, mig, pc>>
            \/ /\ job'[w] = j /\ \A v \in Worker \ {w} : job'[v] = job[v]
               /\ mig' = [mig EXCEPT ![w] = row]
               /\ \/ j.kind = "run" /\ Goto(w, "start") /\ row.status \in {"PENDING", "PROVISIONING"}
                  \/ j.kind = "cutover" /\ Goto(w, "claim") /\ row.status \in {"READY", "CUTOVER"}
                  \/ /\ j.kind = "open" /\ Goto(w, "claim") /\ row.bridge # "dnsOnly"
                     /\ row.status = "READY" \/ (row.status = "CUTOVER" /\ row.bridge # "active")
<1>1. j.kind \in {"run", "cutover", "open"}
  BY DEF Job
<1>2. CASE ~TakenUp(j.kind)
  BY <1>2 DEF Deliver
<1>3. ASSUME TakenUp(j.kind)
      PROVE  /\ job'[w] = j /\ \A v \in Worker \ {w} : job'[v] = job[v]
             /\ mig' = [mig EXCEPT ![w] = row]
             /\ Goto(w, IF j.kind = "run" THEN "start" ELSE "claim")
  BY <1>3 DEF Deliver
<1>4. CASE TakenUp(j.kind)
  <2>1. CASE j.kind = "run"
    BY <1>3, <1>4, <2>1 DEF Deliver, TakenUp
  <2>2. CASE j.kind = "cutover"
    BY <1>3, <1>4, <2>2 DEF Deliver, TakenUp
  <2>3. CASE j.kind = "open"
    BY <1>3, <1>4, <2>3 DEF Deliver, TakenUp
  <2> QED
    BY <1>1, <2>1, <2>2, <2>3
<1> QED
  BY <1>2, <1>4

\* Provisioning.
LEMMA ProvisionType ==
  ASSUME TypeOK, NEW w \in Worker, ProvisionStep(w)
  PROVE  TypeOK'
<1>1. CASE Start(w)
  BY <1>1 DEF Start, Status, PC, Providing, Moving, Opening, Cutting, Calling
<1>2. CASE Enter(w)
  BY <1>2 DEF Enter, Status, PC, Providing, Moving, Opening, Cutting, Calling
<1>3. CASE Materialize(w)
  BY <1>3 DEF Materialize, Status, PC, Providing, Moving, Opening, Cutting, Calling
<1>4. CASE ProvisionFailed(w)
  BY <1>4 DEF ProvisionFailed, Status, PC, Providing, Moving, Opening, Cutting, Calling
<1>5. CASE Recheck(w)
  <2> USE <1>5 DEF Recheck
  <2>1. RowsOK'
    <3>1. row \in Row
      BY RowsAreRows
    <3>2. UNCHANGED row /\ mig' \in {mig, [mig EXCEPT ![w] = NewRow(form)]}
      OBVIOUS
    <3> QED
      BY <3>1, <3>2, RowMoves
  <2>2. PlacesOK'
    BY DEF PC, Providing, Moving, Opening, Cutting, Calling
  <2>3. FormOK' /\ QueueOK' /\ WorkOK' /\ PodsOK' /\ NamesOK' /\ FlagsOK' /\ BudgetOK'
    OBVIOUS
  <2> QED
    BY <2>1, <2>2, <2>3
<1>6. CASE Prepare(w)
  <2> USE <1>6 DEF Prepare
  <2>1. RowsOK'
    <3>1. CASE UNCHANGED <<row, mig>>
      BY <3>1
    <3>2. CASE mig[w].bridge # "dnsOnly"
      <4>1. PICK b \in {"preparing", "dnsOnly"}, built \in BOOLEAN :
              /\ mig' = [mig EXCEPT ![w].bridge = b, ![w].prepared = built]
              /\ row' = [row EXCEPT !.bridge = b, !.prepared = built]
        BY <3>2
      <4> DEFINE m == [row EXCEPT !.bridge = b, !.prepared = built]
                 n == [mig[w] EXCEPT !.bridge = b, !.prepared = built]
      <4>2. \A x \in Row : [x EXCEPT !.bridge = b, !.prepared = built] \in Row
        OBVIOUS
      <4>3. row \in Row /\ mig[w] \in Row
        OBVIOUS
      <4>4. row' = m /\ mig' = [mig EXCEPT ![w] = n]
        BY <4>1
      <4> HIDE DEF Row
      <4>5. m \in Row /\ n \in Row
        BY <4>2, <4>3
      <4> HIDE DEF m, n
      <4> QED
        BY <4>4, <4>5, RowMoves
    <3> QED
      BY <3>1, <3>2
  <2>2. PlacesOK'
    BY DEF PC, Providing, Moving, Opening, Cutting, Calling
  <2>3. FormOK' /\ QueueOK' /\ WorkOK' /\ PodsOK' /\ NamesOK' /\ FlagsOK' /\ BudgetOK'
    OBVIOUS
  <2> QED
    BY <2>1, <2>2, <2>3
<1>7. CASE RecheckPrepared(w)
  <2> USE <1>7 DEF RecheckPrepared
  <2>1. RowsOK'
    <3>1. row \in Row
      BY RowsAreRows
    <3>2. UNCHANGED row /\ mig' \in {mig, [mig EXCEPT ![w] = NewRow(form)]}
      OBVIOUS
    <3> QED
      BY <3>1, <3>2, RowMoves
  <2>2. PlacesOK'
    BY DEF PC, Providing, Moving, Opening, Cutting, Calling
  <2>3. PodsOK'
    OBVIOUS
  <2>4. NamesOK'
    OBVIOUS
  <2>5. FormOK' /\ QueueOK' /\ WorkOK' /\ FlagsOK' /\ BudgetOK'
    OBVIOUS
  <2> QED
    BY <2>1, <2>2, <2>3, <2>4, <2>5
<1>8. CASE Ready(w)
  <2> USE <1>8 DEF Ready
  <2>1. RowsOK'
    <3> DEFINE m == [mig[w] EXCEPT !.status = "READY"]
    <3>1. m \in Row
      BY DEF Status
    <3>2. row' = m /\ mig' \in {[mig EXCEPT ![w] = m], [mig EXCEPT ![w] = NewRow(form)]}
      OBVIOUS
    <3> HIDE DEF m
    <3> QED
      BY <3>1, <3>2, RowMoves
  <2>2. PlacesOK'
    BY DEF PC, Providing, Moving, Opening, Cutting, Calling
  <2>3. FormOK' /\ QueueOK' /\ WorkOK' /\ PodsOK' /\ NamesOK' /\ FlagsOK' /\ BudgetOK'
    OBVIOUS
  <2> QED
    BY <2>1, <2>2, <2>3
<1> QED
  BY <1>1, <1>2, <1>3, <1>4, <1>5, <1>6, <1>7, <1>8 DEF ProvisionStep

\* The cutover, or the opening alone.
LEMMA CutoverType ==
  ASSUME TypeOK, NEW w \in Worker, CutoverStep(w)
  PROVE  TypeOK'
<1>1. CASE Claim(w)
  <2> USE <1>1 DEF Claim
  <2>1. RowsOK'
    <3>1. row \in Row
      BY RowsAreRows
    <3>2. UNCHANGED row /\ mig' \in {mig, [mig EXCEPT ![w] = NewRow(form)]}
      OBVIOUS
    <3> QED
      BY <3>1, <3>2, RowMoves
  <2>2. PlacesOK'
    BY DEF PC, Providing, Moving, Opening, Cutting, Calling
  <2>3. FormOK' /\ QueueOK' /\ WorkOK' /\ PodsOK' /\ NamesOK' /\ FlagsOK' /\ BudgetOK'
    OBVIOUS
  <2> QED
    BY <2>1, <2>2, <2>3
<1>2. CASE EnterCutover(w)
  BY <1>2 DEF EnterCutover, Status, PC, Providing, Moving, Opening, Cutting, Calling
<1>3. CASE ChooseHow(w)
  BY <1>3 DEF ChooseHow, ByBridge, AfterRoute, Status, PC, Providing, Moving, Opening,
     Cutting, Calling
<1>4. CASE StopSource(w)
  BY <1>4 DEF StopSource, Status, PC, Providing, Moving, Opening, Cutting, Calling
<1>5. CASE CopyVolumes(w)
  <2> USE <1>5 DEF CopyVolumes
  <2>1. RowsOK'
    BY DEF Status
  <2>2. PlacesOK'
    BY DEF PC, Providing, Moving, Opening, Cutting, Calling
  <2>3. FormOK' /\ QueueOK' /\ WorkOK' /\ PodsOK' /\ NamesOK' /\ FlagsOK' /\ BudgetOK'
    OBVIOUS
  <2> QED
    BY <2>1, <2>2, <2>3
<1>6. CASE StartDestination(w)
  BY <1>6 DEF StartDestination, ByBridge, AfterRoute, Status, PC, Providing, Moving,
     Opening, Cutting, Calling
<1>7. CASE MoveFailed(w)
  <2> USE <1>7 DEF MoveFailed
  <2>1. RowsOK'
    BY DEF Status
  <2>2. PlacesOK'
    BY DEF PC, Providing, Moving, Opening, Cutting, Calling
  <2>3. PodsOK'
    BY GiveBackType
  <2>4. FormOK' /\ QueueOK' /\ WorkOK' /\ NamesOK' /\ FlagsOK' /\ BudgetOK'
    OBVIOUS
  <2> QED
    BY <2>1, <2>2, <2>3, <2>4
<1>8. CASE Certificates(w)
  <2> USE <1>8 DEF Certificates
  <2>1. RowsOK'
    BY DEF Status
  <2>2. PlacesOK'
    <3>1. {"rebind", "saveOpened", "rebindByDns"} \subseteq PC
      BY DEF PC, Providing, Moving, Opening, Cutting, Calling
    <3>2. \E p \in {"rebind", "saveOpened", "rebindByDns"} : pc' = [pc EXCEPT ![w] = p]
      OBVIOUS
    <3> QED
      BY <3>1, <3>2
  <2>3. FormOK' /\ QueueOK' /\ WorkOK' /\ PodsOK' /\ NamesOK' /\ FlagsOK' /\ BudgetOK'
    OBVIOUS
  <2> QED
    BY <2>1, <2>2, <2>3
<1>9. CASE Rebind(w)
  BY <1>9 DEF Rebind, Status, PC, Providing, Moving, Opening, Cutting, Calling
<1>10. CASE BuildRoute(w)
  BY <1>10 DEF BuildRoute, Status, PC, Providing, Moving, Opening, Cutting, Calling
<1>11. CASE Activate(w)
  BY <1>11 DEF Activate, Status, PC, Providing, Moving, Opening, Cutting, Calling
<1>12. CASE SaveActive(w)
  BY <1>12 DEF SaveActive, Status, PC, Providing, Moving, Opening, Cutting, Calling
<1>13. CASE OpenFailed(w)
  <2> USE <1>13 DEF OpenFailed
  <2>1. RowsOK'
    <3> DEFINE n == [mig[w] EXCEPT !.bridge = "preparing", !.prepared = FALSE, !.routeGone = FALSE]
    <3>1. n \in Row
      OBVIOUS
    <3>2. UNCHANGED row /\ mig' = [mig EXCEPT ![w] = n]
      OBVIOUS
    <3>3. row \in Row
      BY RowsAreRows
    <3> HIDE DEF n
    <3> QED
      BY <3>1, <3>2, <3>3, RowMoves
  <2>2. PlacesOK'
    BY DEF PC, Providing, Moving, Opening, Cutting, Calling
  <2>3. PodsOK'
    BY GiveBackType
  <2>4. FormOK' /\ QueueOK' /\ WorkOK' /\ NamesOK' /\ FlagsOK' /\ BudgetOK'
    OBVIOUS
  <2> QED
    BY <2>1, <2>2, <2>3, <2>4
<1>14. CASE DropRoute(w)
  <2> USE <1>14 DEF DropRoute
  <2>1. RowsOK'
    BY DEF Status, AfterRoute
  <2>2. PlacesOK'
    BY DEF PC, Providing, Moving, Opening, Cutting, Calling, AfterRoute
  <2>3. FormOK' /\ QueueOK' /\ WorkOK' /\ PodsOK' /\ NamesOK' /\ FlagsOK' /\ BudgetOK'
    BY DEF AfterRoute
  <2> QED
    BY <2>1, <2>2, <2>3
<1>15. CASE RefreshRoute(w)
  BY <1>15 DEF RefreshRoute, AfterRoute, Status, PC, Providing, Moving, Opening, Cutting,
     Calling
<1>16. CASE SaveOpened(w)
  <2> USE <1>16 DEF SaveOpened
  <2>1. RowsOK'
    BY DEF Status
  <2>2. PlacesOK'
    BY DEF PC, Providing, Moving, Opening, Cutting, Calling
  <2>3. FormOK' /\ QueueOK' /\ WorkOK' /\ PodsOK' /\ NamesOK' /\ FlagsOK' /\ BudgetOK'
    OBVIOUS
  <2> QED
    BY <2>1, <2>2, <2>3
<1>17. CASE Bind(w)
  BY <1>17 DEF Bind, Status, PC, Providing, Moving, Opening, Cutting, Calling
<1>18. CASE StopPods(w)
  BY <1>18 DEF StopPods, Status, PC, Providing, Moving, Opening, Cutting, Calling
<1>19. CASE Release(w)
  <2> USE <1>19 DEF Release
  <2>1. RowsOK'
    BY DEF Status
  <2>2. PlacesOK'
    BY DEF PC, Providing, Moving, Opening, Cutting, Calling
  <2>3. FormOK' /\ QueueOK' /\ WorkOK' /\ PodsOK' /\ NamesOK' /\ FlagsOK' /\ BudgetOK'
    OBVIOUS
  <2> QED
    BY <2>1, <2>2, <2>3
<1>20. CASE Flip(w)
  <2> USE <1>20 DEF Flip
  <2>1. RowsOK'
    BY DEF Status
  <2>2. PlacesOK'
    BY DEF PC, Providing, Moving, Opening, Cutting, Calling
  <2>3. FormOK' /\ QueueOK' /\ WorkOK' /\ PodsOK' /\ NamesOK' /\ FlagsOK' /\ BudgetOK'
    OBVIOUS
  <2> QED
    BY <2>1, <2>2, <2>3
<1>21. CASE Finish(w)
  BY <1>21 DEF Finish, Status, PC, Providing, Moving, Opening, Cutting, Calling
<1>22. CASE RebindByDns(w)
  BY <1>22 DEF RebindByDns, Status, PC, Providing, Moving, Opening, Cutting, Calling
<1>23. CASE FlipByDns(w)
  <2> USE <1>23 DEF FlipByDns
  <2>1. RowsOK'
    BY DEF Status
  <2>2. PlacesOK'
    BY DEF PC, Providing, Moving, Opening, Cutting, Calling
  <2>3. FormOK' /\ QueueOK' /\ WorkOK' /\ PodsOK' /\ NamesOK' /\ FlagsOK' /\ BudgetOK'
    OBVIOUS
  <2> QED
    BY <2>1, <2>2, <2>3
<1>24. CASE BindByDns(w)
  BY <1>24 DEF BindByDns, Status, PC, Providing, Moving, Opening, Cutting, Calling
<1>25. CASE Fail(w)
  BY <1>25 DEF Fail, Status, PC, Providing, Moving, Opening, Cutting, Calling
<1> QED
  BY <1>1, <1>2, <1>3, <1>4, <1>5, <1>6, <1>7, <1>8, <1>9, <1>10, <1>11, <1>12, <1>13,
     <1>14, <1>15, <1>16, <1>17, <1>18, <1>19, <1>20, <1>21, <1>22, <1>23, <1>24, <1>25
     DEF CutoverStep

\* A call that fails.
LEMMA FailStepType ==
  ASSUME TypeOK, NEW w \in Worker, FailStep(w)
  PROVE  TypeOK'
BY DEF FailStep, AfterFailure, Status, PC, Providing, Moving, Opening, Cutting, Calling

\* A job taken from the queue.
LEMMA DeliverType ==
  ASSUME TypeOK, NEW w \in Worker, NEW j \in Job, Deliver(w, j)
  PROVE  TypeOK'
<1> USE DEF Deliver
<1>1. RowsOK'
  <2>1. row \in Row
    BY RowsAreRows
  <2>2. UNCHANGED row /\ mig' \in {mig, [mig EXCEPT ![w] = row], [mig EXCEPT ![w] = NewRow(form)]}
    OBVIOUS
  <2> HIDE DEF TakenUp, Row
  <2> QED
    BY <2>1, <2>2, RowMoves
<1>2. PlacesOK'
  <2>1. {"start", "claim"} \subseteq PC
    BY DEF PC, Providing, Moving, Opening, Cutting, Calling
  <2>2. UNCHANGED pc \/ \E p \in {"start", "claim"} : pc' = [pc EXCEPT ![w] = p]
    OBVIOUS
  <2> QED
    BY <2>1, <2>2
<1>3. FormOK' /\ QueueOK' /\ WorkOK' /\ PodsOK' /\ NamesOK' /\ FlagsOK' /\ BudgetOK'
  <2>1. WorkOK'
    <3> HIDE DEF TakenUp
    <3> QED
      OBVIOUS
  <2>2. QueueOK'
    OBVIOUS
  <2> QED
    BY <2>1, <2>2
<1> QED
  BY <1>1, <1>2, <1>3

\* A process killed.
LEMMA CrashType ==
  ASSUME TypeOK, NEW w \in Worker, Crash(w)
  PROVE  TypeOK'
BY DEF Crash, Status, PC, Providing, Moving, Opening, Cutting, Calling

\* What the caller undoes or destroys.
LEMMA CallerType ==
  ASSUME TypeOK, CallerStep
  PROVE  TypeOK'
<1>1. CASE AbortTeardown
  <2> USE <1>1 DEF AbortTeardown
  <2>1. RowsOK'
    BY DEF Status
  <2>2. PlacesOK'
    BY DEF PC, Providing, Moving, Opening, Cutting, Calling
  <2>3. PodsOK'
    OBVIOUS
  <2>4. NamesOK'
    OBVIOUS
  <2>5. FormOK' /\ QueueOK' /\ WorkOK' /\ FlagsOK' /\ BudgetOK'
    OBVIOUS
  <2> QED
    BY <2>1, <2>2, <2>3, <2>4, <2>5
<1>2. CASE AbortSave
  BY <1>2 DEF AbortSave, Status, PC, Providing, Moving, Opening, Cutting, Calling
<1>3. CASE RollRoute
  BY <1>3 DEF RollRoute, Status, PC, Providing, Moving, Opening, Cutting, Calling
<1>4. CASE RollClose
  <2> USE <1>4 DEF RollClose
  <2>1. RowsOK'
    BY DEF Status
  <2>2. PlacesOK'
    BY DEF PC, Providing, Moving, Opening, Cutting, Calling
  <2>3. FormOK' /\ QueueOK' /\ WorkOK' /\ PodsOK' /\ NamesOK' /\ FlagsOK' /\ BudgetOK'
    OBVIOUS
  <2> QED
    BY <2>1, <2>2, <2>3
<1>5. CASE RollSave
  <2> USE <1>5 DEF RollSave
  <2>1. RowsOK'
    BY DEF Status
  <2>2. PlacesOK'
    BY DEF PC, Providing, Moving, Opening, Cutting, Calling
  <2>3. FormOK' /\ QueueOK' /\ WorkOK' /\ PodsOK' /\ NamesOK' /\ FlagsOK' /\ BudgetOK'
    OBVIOUS
  <2> QED
    BY <2>1, <2>2, <2>3
<1>6. CASE CloseBridge
  <2> USE <1>6 DEF CloseBridge
  <2>1. RowsOK'
    BY DEF Status
  <2>2. PlacesOK'
    BY DEF PC, Providing, Moving, Opening, Cutting, Calling
  <2>3. FormOK' /\ QueueOK' /\ WorkOK' /\ PodsOK' /\ NamesOK' /\ FlagsOK' /\ BudgetOK'
    OBVIOUS
  <2> QED
    BY <2>1, <2>2, <2>3
<1>7. CASE DropSource
  BY <1>7 DEF DropSource, Status, PC, Providing, Moving, Opening, Cutting, Calling
<1>8. CASE DestroySave
  <2> USE <1>8 DEF DestroySave
  <2>1. RowsOK'
    BY DEF Status
  <2>2. PlacesOK'
    BY DEF PC, Providing, Moving, Opening, Cutting, Calling
  <2>3. FormOK' /\ QueueOK' /\ WorkOK' /\ PodsOK' /\ NamesOK' /\ FlagsOK' /\ BudgetOK'
    OBVIOUS
  <2> QED
    BY <2>1, <2>2, <2>3
<1> QED
  BY <1>1, <1>2, <1>3, <1>4, <1>5, <1>6, <1>7, <1>8 DEF CallerStep

\* What the caller asks for.
LEMMA RequestType ==
  ASSUME TypeOK, Request
  PROVE  TypeOK'
<1>1. CASE RequestCutover
  <2> USE <1>1 DEF RequestCutover
  <2>1. RowsOK'
    BY DEF Status
  <2>2. PlacesOK'
    BY DEF PC, Providing, Moving, Opening, Cutting, Calling
  <2>3. QueueOK'
    BY EnqueueType
  <2>4. FormOK' /\ WorkOK' /\ PodsOK' /\ NamesOK' /\ FlagsOK' /\ BudgetOK'
    OBVIOUS
  <2> QED
    BY <2>1, <2>2, <2>3, <2>4
<1>2. CASE RequestOpen
  <2> USE <1>2 DEF RequestOpen
  <2>1. RowsOK'
    BY DEF Status
  <2>2. PlacesOK'
    BY DEF PC, Providing, Moving, Opening, Cutting, Calling
  <2>3. QueueOK'
    BY EnqueueType
  <2>4. FormOK' /\ WorkOK' /\ PodsOK' /\ NamesOK' /\ FlagsOK' /\ BudgetOK'
    OBVIOUS
  <2> QED
    BY <2>1, <2>2, <2>3, <2>4
<1>3. CASE RequestAbort
  BY <1>3 DEF RequestAbort, Status, PC, Providing, Moving, Opening, Cutting, Calling
<1>4. CASE RequestRollback
  BY <1>4 DEF RequestRollback, Status, PC, Providing, Moving, Opening, Cutting, Calling
<1>5. CASE RequestDestroy
  BY <1>5 DEF RequestDestroy, Status, PC, Providing, Moving, Opening, Cutting, Calling
<1> QED
  BY <1>1, <1>2, <1>3, <1>4, <1>5 DEF Request

\* The queue's own steps.
LEMMA QueueType ==
  ASSUME TypeOK, Recover \/ \E j \in Job : StallCheck(j)
  PROVE  TypeOK'
<1>1. CASE Recover
  <2> USE <1>1 DEF Recover
  <2>1. RowsOK'
    BY DEF Status
  <2>2. PlacesOK'
    BY DEF PC, Providing, Moving, Opening, Cutting, Calling
  <2>3. QueueOK'
    BY EnqueueType
  <2>4. FormOK' /\ WorkOK' /\ PodsOK' /\ NamesOK' /\ FlagsOK' /\ BudgetOK'
    OBVIOUS
  <2> QED
    BY <2>1, <2>2, <2>3, <2>4
<1>2. ASSUME NEW j \in Job, StallCheck(j)
      PROVE  TypeOK'
  <2> USE <1>2 DEF StallCheck
  <2>1. RowsOK'
    BY DEF Status
  <2>2. PlacesOK'
    BY DEF PC, Providing, Moving, Opening, Cutting, Calling
  <2>3. QueueOK'
    <3>1. [j EXCEPT !.stalls = 1] \in Job
      BY DEF Job
    <3> QED
      BY <3>1
  <2>4. FormOK' /\ WorkOK' /\ PodsOK' /\ NamesOK' /\ FlagsOK' /\ BudgetOK'
    OBVIOUS
  <2> QED
    BY <2>1, <2>2, <2>3, <2>4
<1> QED
  BY <1>1, <1>2

\* Names, answers and clients.
LEMMA WorldType ==
  ASSUME TypeOK, KeepName \/ Expire \/ TakeWrites
  PROVE  TypeOK'
<1>1. CASE KeepName
  <2> USE <1>1 DEF KeepName
  <2>1. RowsOK'
    BY DEF Status
  <2>2. PlacesOK'
    BY DEF PC, Providing, Moving, Opening, Cutting, Calling
  <2>3. FormOK' /\ QueueOK' /\ WorkOK' /\ PodsOK' /\ NamesOK' /\ FlagsOK' /\ BudgetOK'
    OBVIOUS
  <2> QED
    BY <2>1, <2>2, <2>3
<1>2. CASE Expire
  BY <1>2 DEF Expire, Status, PC, Providing, Moving, Opening, Cutting, Calling
<1>3. CASE TakeWrites
  BY <1>3 DEF TakeWrites, Status, PC, Providing, Moving, Opening, Cutting, Calling
<1> QED
  BY <1>1, <1>2, <1>3

LEMMA InitType ==
  ASSUME Init
  PROVE  TypeOK
<1> USE DEF Init
<1>1. NewRow(form) \in Row
  BY DEF Status
<1>2. RowsOK
  <2> HIDE DEF Row, NewRow
  <2> QED
    BY <1>1
<1>3. QueueOK /\ WorkOK
  BY DEF NewJob, NoJobs, Job
<1>4. PlacesOK
  BY DEF PC
<1>5. FormOK /\ NamesOK /\ FlagsOK
  OBVIOUS
<1>6. PodsOK
  OBVIOUS
<1>7. BudgetOK
  <2>1. MaxFailures \in Nat /\ MaxCrashes \in Nat /\ MaxRequests \in Nat /\ MaxAborts \in Nat
    OBVIOUS
  <2> HIDE DEF TypeOK
  <2> QED
    BY <2>1
<1> QED
  BY <1>2, <1>3, <1>4, <1>5, <1>6, <1>7

LEMMA NextType ==
  ASSUME TypeOK, [Next]_vars
  PROVE  TypeOK'
<1>1. CASE UNCHANGED vars
  BY <1>1 DEF vars
<1> HIDE DEF TypeOK, Actor
<1> QED
  BY <1>1, ProvisionType, CutoverType, FailStepType, DeliverType, CrashType, CallerType,
     RequestType, QueueType, WorldType DEF Next

\* Every variable keeps its type, for any number of deliveries and any of the
\* faults.
THEOREM TypeCorrect == Spec => []TypeOK
<1>1. Init => TypeOK
  BY InitType
<1>2. TypeOK /\ [Next]_vars => TypeOK'
  BY NextType
<1> HIDE DEF TypeOK
<1> QED
  BY <1>1, <1>2, PTL DEF Spec

-----------------------------------------------------------------------------
\* Every step keeps what holds with one delivery at a time and none of the faults.
USE DEF OneWorker, Building, Leading, ByDns, Behind, Dropped, Binding, Before, Built, Undone,
        Rolling, Aborts, Destroying, Failing, SwitchingByDns, Alike, Safe, Alone, MayWork,
        Providing, Moving, Opening, Cutting, Calling, MovesVolumes,
        PlaceInv, CallerInv, RowInv, JobInv, SourceInv, DestinationInv, PreparedInv, BridgeInv,
        NameInv, StepInv, TakenInv
HIDE DEF Row, Form

\* Provisioning.
LEMMA ProvisionSafe ==
  ASSUME OneWorker, Faults = {}, TypeOK, Safe, TypeOK', NEW w \in Worker,
         Alone, ProvisionStep(w)
  PROVE  Safe'
<1>1. CASE Start(w)
  <2> USE <1>1 DEF Start
  <2>1. PlaceInv' /\ CallerInv' /\ RowInv' /\ JobInv'
    OBVIOUS
  <2>2. SourceInv' /\ DestinationInv' /\ PreparedInv' /\ BridgeInv'
    OBVIOUS
  <2>3. NameInv' /\ StepInv' /\ TakenInv'
    OBVIOUS
  <2> QED
    BY <2>1, <2>2, <2>3
<1>2. CASE Enter(w)
  BY <1>2 DEF Enter
<1>3. CASE Materialize(w)
  BY <1>3 DEF Materialize
<1>4. CASE ProvisionFailed(w)
  BY <1>4 DEF ProvisionFailed
<1>5. CASE Recheck(w)
  BY <1>5 DEF Recheck
<1>6. CASE Prepare(w)
  <2> USE <1>6, PrepareGoes
  <2>1. PreparedInv'
    <3>1. CASE UNCHANGED <<row, mig, route>>
      BY <3>1
    <3>2. CASE route' = IF row'.prepared THEN route \cup {"dst"} ELSE route
      BY <3>2
    <3> QED
      BY <3>1, <3>2
  <2>2. TakenInv'
    <3>1. app = "src" /\ row.bridge # "active" /\ ~SwitchingByDns
      OBVIOUS
    <3> QED
      BY <3>1
  <2>3. PlaceInv' /\ CallerInv' /\ RowInv' /\ JobInv' /\ SourceInv' /\ DestinationInv'
        /\ BridgeInv' /\ NameInv' /\ StepInv'
    OBVIOUS
  <2> QED
    BY <2>1, <2>2, <2>3
<1>7. CASE RecheckPrepared(w)
  BY <1>7 DEF RecheckPrepared
<1>8. CASE Ready(w)
  BY <1>8 DEF Ready, Row
<1> QED
  BY <1>1, <1>2, <1>3, <1>4, <1>5, <1>6, <1>7, <1>8 DEF ProvisionStep

\* The cutover, or the opening alone.
LEMMA CutoverSafe ==
  ASSUME OneWorker, Faults = {}, TypeOK, Safe, TypeOK', NEW w \in Worker,
         Alone, CutoverStep(w)
  PROVE  Safe'
<1>1. CASE Claim(w)
  BY <1>1 DEF Claim
<1>2. CASE EnterCutover(w)
  <2> USE <1>2 DEF EnterCutover
  <2>1. PlaceInv' /\ CallerInv' /\ RowInv' /\ JobInv'
    OBVIOUS
  <2>2. SourceInv' /\ DestinationInv' /\ PreparedInv' /\ BridgeInv'
    OBVIOUS
  <2>3. NameInv' /\ StepInv' /\ TakenInv'
    OBVIOUS
  <2> QED
    BY <2>1, <2>2, <2>3
<1>3. CASE ChooseHow(w)
  <2> USE <1>3 DEF ChooseHow, ByBridge, AfterRoute
  <2>1. PlaceInv' /\ CallerInv' /\ RowInv' /\ JobInv'
    OBVIOUS
  <2>2. SourceInv' /\ DestinationInv' /\ PreparedInv' /\ BridgeInv'
    OBVIOUS
  <2>3. NameInv' /\ StepInv' /\ TakenInv'
    OBVIOUS
  <2> QED
    BY <2>1, <2>2, <2>3
<1>4. CASE StopSource(w)
  BY <1>4 DEF StopSource
<1>5. CASE CopyVolumes(w)
  BY <1>5 DEF CopyVolumes
<1>6. CASE StartDestination(w)
  <2> USE <1>6 DEF StartDestination, ByBridge, AfterRoute
  <2>1. PlaceInv' /\ CallerInv' /\ RowInv' /\ JobInv'
    OBVIOUS
  <2>2. SourceInv' /\ DestinationInv' /\ PreparedInv' /\ BridgeInv'
    OBVIOUS
  <2>3. NameInv' /\ StepInv' /\ TakenInv'
    OBVIOUS
  <2> QED
    BY <2>1, <2>2, <2>3
<1>7. CASE MoveFailed(w)
  BY <1>7 DEF MoveFailed, GiveBackSource
<1>8. CASE Certificates(w)
  BY <1>8 DEF Certificates, Row
<1>9. CASE Rebind(w)
  BY <1>9 DEF Rebind
<1>10. CASE BuildRoute(w)
  BY <1>10 DEF BuildRoute
<1>11. CASE Activate(w)
  BY <1>11 DEF Activate
<1>12. CASE SaveActive(w)
  <2> USE <1>12 DEF SaveActive
  <2>1. PlaceInv'
    OBVIOUS
  <2>2. CallerInv' /\ RowInv' /\ JobInv'
    OBVIOUS
  <2>3. SourceInv' /\ DestinationInv' /\ PreparedInv' /\ BridgeInv'
    OBVIOUS
  <2>4. NameInv' /\ StepInv' /\ TakenInv'
    OBVIOUS
  <2> QED
    BY <2>1, <2>2, <2>3, <2>4
<1>13. CASE OpenFailed(w)
  <2> USE <1>13 DEF OpenFailed, GiveBackSource
  <2>1. PlaceInv' /\ CallerInv' /\ RowInv' /\ JobInv'
    OBVIOUS
  <2>2. SourceInv' /\ DestinationInv' /\ PreparedInv' /\ BridgeInv'
    OBVIOUS
  <2>3. NameInv' /\ StepInv' /\ TakenInv'
    OBVIOUS
  <2> QED
    BY <2>1, <2>2, <2>3
<1>14. CASE DropRoute(w)
  <2> USE <1>14 DEF DropRoute, AfterRoute
  <2>1. PlaceInv' /\ CallerInv' /\ RowInv' /\ JobInv'
    OBVIOUS
  <2>2. SourceInv' /\ DestinationInv' /\ PreparedInv' /\ BridgeInv'
    OBVIOUS
  <2>3. NameInv' /\ StepInv' /\ TakenInv'
    OBVIOUS
  <2> QED
    BY <2>1, <2>2, <2>3
<1>15. CASE RefreshRoute(w)
  <2> USE <1>15 DEF RefreshRoute, AfterRoute
  <2>1. PlaceInv' /\ CallerInv' /\ RowInv' /\ JobInv'
    OBVIOUS
  <2>2. SourceInv' /\ DestinationInv' /\ PreparedInv' /\ BridgeInv'
    OBVIOUS
  <2>3. NameInv' /\ StepInv' /\ TakenInv'
    OBVIOUS
  <2> QED
    BY <2>1, <2>2, <2>3
<1>16. CASE SaveOpened(w)
  <2> USE <1>16 DEF SaveOpened, Row
  <2>1. PlaceInv'
    <3>1. \A v \in Worker : pc'[v] = "idle"
      BY DEF PC
    <3> HIDE DEF SaveOpened, TypeOK, Row
    <3> QED
      BY <3>1
  <2>2. CallerInv' /\ RowInv' /\ JobInv' /\ SourceInv' /\ DestinationInv' /\ PreparedInv'
        /\ BridgeInv' /\ NameInv' /\ StepInv' /\ TakenInv'
    OBVIOUS
  <2> QED
    BY <2>1, <2>2
<1>17. CASE Bind(w)
  BY <1>17 DEF Bind
<1>18. CASE StopPods(w)
  <2> USE <1>18 DEF StopPods
  <2>1. PlaceInv' /\ CallerInv' /\ RowInv' /\ JobInv'
    OBVIOUS
  <2>2. SourceInv' /\ DestinationInv' /\ PreparedInv' /\ BridgeInv'
    OBVIOUS
  <2>3. NameInv' /\ StepInv' /\ TakenInv'
    OBVIOUS
  <2> QED
    BY <2>1, <2>2, <2>3
<1>19. CASE Release(w)
  BY <1>19 DEF Release
<1>20. CASE Flip(w)
  <2> USE <1>20 DEF Flip
  <2>1. PlaceInv' /\ CallerInv' /\ RowInv' /\ JobInv'
    OBVIOUS
  <2>2. SourceInv' /\ DestinationInv' /\ PreparedInv' /\ BridgeInv'
    OBVIOUS
  <2>3. NameInv' /\ StepInv' /\ TakenInv'
    OBVIOUS
  <2> QED
    BY <2>1, <2>2, <2>3
<1>21. CASE Finish(w)
  <2> USE <1>21 DEF Finish
  <2>1. PlaceInv' /\ CallerInv' /\ RowInv' /\ JobInv'
    OBVIOUS
  <2>2. SourceInv' /\ DestinationInv' /\ PreparedInv' /\ BridgeInv'
    OBVIOUS
  <2>3. NameInv' /\ StepInv' /\ TakenInv'
    OBVIOUS
  <2> QED
    BY <2>1, <2>2, <2>3
<1>22. CASE RebindByDns(w)
  <2> USE <1>22 DEF RebindByDns
  <2>1. PlaceInv' /\ CallerInv' /\ RowInv' /\ JobInv'
    OBVIOUS
  <2>2. SourceInv' /\ DestinationInv' /\ PreparedInv' /\ BridgeInv'
    OBVIOUS
  <2>3. NameInv' /\ StepInv' /\ TakenInv'
    OBVIOUS
  <2> QED
    BY <2>1, <2>2, <2>3
<1>23. CASE FlipByDns(w)
  <2> USE <1>23 DEF FlipByDns
  <2>1. PlaceInv' /\ CallerInv' /\ RowInv' /\ JobInv'
    OBVIOUS
  <2>2. SourceInv' /\ DestinationInv' /\ PreparedInv' /\ BridgeInv'
    OBVIOUS
  <2>3. NameInv' /\ StepInv' /\ TakenInv'
    OBVIOUS
  <2> QED
    BY <2>1, <2>2, <2>3
<1>24. CASE BindByDns(w)
  BY <1>24 DEF BindByDns
<1>25. CASE Fail(w)
  BY <1>25 DEF Fail, Row
<1> QED
  BY <1>1, <1>2, <1>3, <1>4, <1>5, <1>6, <1>7, <1>8, <1>9, <1>10, <1>11, <1>12, <1>13,
     <1>14, <1>15, <1>16, <1>17, <1>18, <1>19, <1>20, <1>21, <1>22, <1>23, <1>24, <1>25
     DEF CutoverStep

\* A call that fails.
LEMMA FailStepSafe ==
  ASSUME OneWorker, Faults = {}, TypeOK, Safe, TypeOK', NEW w \in Worker,
         Alone, FailStep(w)
  PROVE  Safe'
<1> USE DEF FailStep, AfterFailure
<1>1. PlaceInv'
  OBVIOUS
<1>2. CallerInv'
  OBVIOUS
<1>3. RowInv' /\ JobInv'
  OBVIOUS
<1>4. SourceInv' /\ DestinationInv'
  OBVIOUS
<1>5. PreparedInv' /\ BridgeInv'
  OBVIOUS
<1>6. NameInv' /\ TakenInv'
  OBVIOUS
<1>7. StepInv'
  OBVIOUS
<1> QED
  BY <1>1, <1>2, <1>3, <1>4, <1>5, <1>6, <1>7

\* A job taken from the queue.
LEMMA DeliverSafe ==
  ASSUME OneWorker, Faults = {}, TypeOK, Safe, TypeOK', NEW w \in Worker, NEW j \in Job,
         Alone, Deliver(w, j)
  PROVE  Safe'
<1>0. /\ pc[w] = "idle" /\ waiting[j] > 0
       /\ waiting' = [waiting EXCEPT ![j] = @ - 1]
       /\ UNCHANGED <<form, row, stalled, app, nameVars, loadVars, boot, budget>>
       /\ \/ UNCHANGED <<job, mig, pc>>
          \/ /\ job'[w] = j /\ \A v \in Worker \ {w} : job'[v] = job[v]
             /\ mig' = [mig EXCEPT ![w] = row]
             /\ \/ j.kind = "run" /\ Goto(w, "start") /\ row.status \in {"PENDING", "PROVISIONING"}
                \/ j.kind = "cutover" /\ Goto(w, "claim") /\ row.status \in {"READY", "CUTOVER"}
                \/ /\ j.kind = "open" /\ Goto(w, "claim") /\ row.bridge # "dnsOnly"
                   /\ row.status = "READY" \/ (row.status = "CUTOVER" /\ row.bridge # "active")
  BY DeliverGoes
<1>1. PlaceInv' /\ CallerInv' /\ RowInv' /\ JobInv' /\ SourceInv' /\ DestinationInv'
      /\ PreparedInv' /\ BridgeInv' /\ NameInv' /\ StepInv' /\ TakenInv'
  BY <1>0 DEF Job
<1> QED
  BY <1>1

\* A process killed.
LEMMA CrashSafe ==
  ASSUME OneWorker, Faults = {}, TypeOK, Safe, TypeOK', NEW w \in Worker, Crash(w)
  PROVE  Safe'
<1> USE DEF Crash, Unrepeatable
<1>1. PlaceInv' /\ CallerInv' /\ RowInv' /\ JobInv'
  OBVIOUS
<1>2. SourceInv' /\ DestinationInv' /\ PreparedInv' /\ BridgeInv'
  OBVIOUS
<1>3. NameInv' /\ StepInv' /\ TakenInv'
  OBVIOUS
<1> QED
  BY <1>1, <1>2, <1>3

\* What the caller undoes or destroys.
LEMMA CallerSafe ==
  ASSUME OneWorker, Faults = {}, TypeOK, Safe, TypeOK', CallerStep
  PROVE  Safe'
<1>1. CASE AbortTeardown
  BY <1>1 DEF AbortTeardown
<1>2. CASE AbortSave
  BY <1>2 DEF AbortSave
<1>3. CASE RollRoute
  BY <1>3 DEF RollRoute
<1>4. CASE RollClose
  BY <1>4 DEF RollClose
<1>5. CASE RollSave
  <2> USE <1>5 DEF RollSave, Row
  <2>1. PlaceInv'
    <3>1. \A v \in Worker : pc'[v] = "idle"
      BY DEF PC
    <3> HIDE DEF RollSave, TypeOK, Row
    <3> QED
      BY <3>1
  <2>2. CallerInv' /\ RowInv' /\ JobInv' /\ SourceInv' /\ DestinationInv' /\ PreparedInv'
        /\ BridgeInv' /\ NameInv' /\ StepInv' /\ TakenInv'
    OBVIOUS
  <2> QED
    BY <2>1, <2>2
<1>6. CASE CloseBridge
  <2> USE <1>6 DEF CloseBridge, Row
  <2>1. PlaceInv'
    <3>1. \A v \in Worker : pc'[v] = "idle"
      BY DEF PC
    <3> HIDE DEF CloseBridge, TypeOK, Row
    <3> QED
      BY <3>1
  <2>2. CallerInv' /\ RowInv' /\ JobInv' /\ SourceInv' /\ DestinationInv' /\ PreparedInv'
        /\ BridgeInv' /\ NameInv' /\ StepInv' /\ TakenInv'
    OBVIOUS
  <2> QED
    BY <2>1, <2>2
<1>7. CASE DropSource
  BY <1>7 DEF DropSource
<1>8. CASE DestroySave
  <2> USE <1>8 DEF DestroySave, Row
  <2>1. PlaceInv'
    <3>1. \A v \in Worker : pc'[v] = "idle"
      BY DEF PC
    <3> HIDE DEF DestroySave, TypeOK, Row
    <3> QED
      BY <3>1
  <2>2. CallerInv' /\ RowInv' /\ JobInv' /\ SourceInv' /\ DestinationInv' /\ PreparedInv'
        /\ BridgeInv' /\ NameInv' /\ StepInv' /\ TakenInv'
    OBVIOUS
  <2> QED
    BY <2>1, <2>2
<1> QED
  BY <1>1, <1>2, <1>3, <1>4, <1>5, <1>6, <1>7, <1>8 DEF CallerStep

\* What the caller asks for.
LEMMA RequestSafe ==
  ASSUME OneWorker, Faults = {}, TypeOK, Safe, TypeOK', Request
  PROVE  Safe'
<1>1. CASE RequestCutover
  <2> USE <1>1 DEF RequestCutover, Held, Enqueue, Row, Job, NewJob
  <2>1. PlaceInv' /\ CallerInv' /\ RowInv' /\ JobInv'
    OBVIOUS
  <2>2. SourceInv' /\ DestinationInv' /\ PreparedInv' /\ BridgeInv'
    OBVIOUS
  <2>3. NameInv' /\ StepInv' /\ TakenInv'
    OBVIOUS
  <2> QED
    BY <2>1, <2>2, <2>3
<1>2. CASE RequestOpen
  BY <1>2 DEF RequestOpen, Held, Enqueue
<1>3. CASE RequestAbort
  <2> USE <1>3 DEF RequestAbort, Undisturbed, Blind, Held
  <2>1. PlaceInv' /\ CallerInv' /\ RowInv' /\ JobInv'
    OBVIOUS
  <2>2. SourceInv' /\ DestinationInv' /\ PreparedInv' /\ BridgeInv'
    OBVIOUS
  <2>3. NameInv' /\ StepInv' /\ TakenInv'
    OBVIOUS
  <2> QED
    BY <2>1, <2>2, <2>3
<1>4. CASE RequestRollback
  BY <1>4 DEF RequestRollback, Held
<1>5. CASE RequestDestroy
  BY <1>5 DEF RequestDestroy
<1> QED
  BY <1>1, <1>2, <1>3, <1>4, <1>5 DEF Request

\* The queue's own steps.
LEMMA QueueSafe ==
  ASSUME OneWorker, Faults = {}, TypeOK, Safe, TypeOK',
         Recover \/ \E j \in Job : StallCheck(j)
  PROVE  Safe'
<1>1. CASE Recover
  BY <1>1 DEF Recover, Held, Job, NewJob
<1>2. ASSUME NEW j \in Job, StallCheck(j)
      PROVE  Safe'
  <2> USE <1>2 DEF StallCheck, Job, NewJob
  <2>1. PlaceInv' /\ CallerInv' /\ RowInv' /\ JobInv'
    OBVIOUS
  <2>2. SourceInv' /\ DestinationInv' /\ PreparedInv' /\ BridgeInv'
    OBVIOUS
  <2>3. NameInv' /\ StepInv' /\ TakenInv'
    OBVIOUS
  <2> QED
    BY <2>1, <2>2, <2>3
<1> QED
  BY <1>1, <1>2

\* Names, answers and clients.
LEMMA WorldSafe ==
  ASSUME OneWorker, Faults = {}, TypeOK, Safe, TypeOK', KeepName \/ Expire \/ TakeWrites
  PROVE  Safe'
<1>1. CASE KeepName
  BY <1>1 DEF KeepName
<1>2. CASE Expire
  BY <1>2 DEF Expire
<1>3. CASE TakeWrites
  BY <1>3 DEF TakeWrites, IsServed, Reaches
<1> QED
  BY <1>1, <1>2, <1>3

LEMMA InitSafe ==
  ASSUME Init
  PROVE  Safe
BY DEF Init, Job, NoJobs, NewJob

LEMMA NextSafe ==
  ASSUME OneWorker, Faults = {}, TypeOK, Safe, TypeOK', [Next]_vars
  PROVE  Safe'
<1>1. CASE UNCHANGED vars
  BY <1>1 DEF vars
<1>2. MayWork => Alone
  OBVIOUS
<1> HIDE DEF TypeOK, Safe, Actor, OneWorker, MayWork, Alone
<1>3. ASSUME NEW w \in Worker, MayWork,
             ProvisionStep(w) \/ CutoverStep(w) \/ FailStep(w) \/ \E j \in Job : Deliver(w, j)
      PROVE  Safe'
  BY <1>2, <1>3, ProvisionSafe, CutoverSafe, FailStepSafe, DeliverSafe
<1>4. ASSUME NEW w \in Worker, Crash(w)
      PROVE  Safe'
  BY <1>4, CrashSafe
<1>5. CASE CallerStep \/ Request
  BY <1>5, CallerSafe, RequestSafe
<1>6. CASE Recover \/ \E j \in Job : StallCheck(j)
  BY <1>6, QueueSafe
<1>7. CASE KeepName \/ Expire \/ TakeWrites
  BY <1>7, WorldSafe
<1> QED
  BY <1>1, <1>3, <1>4, <1>5, <1>6, <1>7 DEF Next

IInv == TypeOK /\ Safe

LEMMA Inductive ==
  ASSUME OneWorker, Faults = {}
  PROVE  Spec => []IInv
<1>1. Init => IInv
  BY InitType, InitSafe DEF IInv
<1>2. IInv /\ [Next]_vars => IInv'
  <2> HIDE DEF TypeOK, Safe
  <2> QED
    BY NextType, NextSafe DEF IInv
<1> HIDE DEF IInv
<1> QED
  BY <1>1, <1>2, PTL DEF Spec

-----------------------------------------------------------------------------
\* A client the row still answers for is served.
LEMMA ServedThen ==
  ASSUME IInv
  PROVE  Served
<1> USE DEF IInv
<1> SUFFICES ASSUME ~Interrupted, ~ByDnsAlone, NEW c \in Answers
             PROVE  IsServed(c)
  BY DEF Served
<1> USE DEF Interrupted, ByDnsAlone, Answers, IsServed, Reaches
<1>1. c \in Cluster /\ c \in clients /\ (row.bridge = "dnsOnly" => c = dns)
  OBVIOUS
<1>2. CASE app = "src" /\ row.bridge # "active"
  BY <1>1, <1>2
<1>3. CASE app = "src" /\ row.bridge = "active"
  BY <1>1, <1>3
<1>4. CASE app = "dst"
  <2>1. "dst" \in route /\ pods["dst"] = "running"
    BY <1>4
  <2>2. CASE c = "dst"
    BY <2>1, <2>2
  <2>3. CASE c = "src"
    <3>1. row.bridge = "active" /\ pc[Caller] \notin Rolling
      BY <1>1, <1>4, <2>3
    <3> QED
      BY <1>4, <2>1, <2>3, <3>1
  <2> QED
    BY <1>1, <2>2, <2>3
<1> QED
  BY <1>2, <1>3, <1>4

\* Every client whose answer the bridge or the row still stands for reaches a
\* running copy of the application, through every step of a move, its failure, its
\* rollback, its resumption and the destruction of the source.
THEOREM ClientsAreServed ==
  ASSUME OneWorker, Faults = {}
  PROVE  Spec => []Served
<1>1. IInv => Served
  BY ServedThen
<1> HIDE DEF IInv, Served
<1> QED
  BY Inductive, <1>1, PTL

\* The steps that write the row's status or bridge, or bind the application.
LEMMA FewMoveLeg ==
  ASSUME [Next]_vars
  PROVE  \/ UNCHANGED <<row, app>>
         \/ RequestCutover \/ AbortSave \/ RollSave \/ CloseBridge \/ DestroySave
         \/ \E w \in Worker :
              \/ Start(w) \/ Enter(w) \/ Prepare(w) \/ Ready(w) \/ EnterCutover(w)
              \/ Certificates(w) \/ SaveActive(w) \/ SaveOpened(w) \/ Finish(w) \/ Fail(w)
              \/ Bind(w) \/ BindByDns(w)
<1>1. CASE UNCHANGED vars
  BY <1>1 DEF vars
<1>2. ASSUME NEW w \in Worker, ProvisionStep(w)
      PROVE  UNCHANGED <<row, app>> \/ Start(w) \/ Enter(w) \/ Prepare(w) \/ Ready(w)
  BY <1>2 DEF ProvisionStep, Materialize, ProvisionFailed, Recheck, RecheckPrepared
<1>3. ASSUME NEW w \in Worker, CutoverStep(w)
      PROVE  \/ UNCHANGED <<row, app>>
             \/ EnterCutover(w) \/ Certificates(w) \/ SaveActive(w) \/ SaveOpened(w)
             \/ Finish(w) \/ Fail(w) \/ Bind(w) \/ BindByDns(w)
  BY <1>3 DEF CutoverStep, Claim, ChooseHow, StopSource, CopyVolumes, StartDestination, MoveFailed,
              Rebind, BuildRoute, Activate, OpenFailed, DropRoute, RefreshRoute, StopPods, Release,
              Flip, RebindByDns, FlipByDns
<1>4. ASSUME NEW w \in Worker, FailStep(w) \/ Crash(w) \/ \E j \in Job : Deliver(w, j)
      PROVE  UNCHANGED <<row, app>>
  BY <1>4 DEF FailStep, Crash, Deliver
<1>5. CASE CallerStep
  BY <1>5 DEF CallerStep, AbortTeardown, RollRoute, RollClose, DropSource
<1>6. CASE Request
  BY <1>6 DEF Request, RequestOpen, RequestAbort, RequestRollback, RequestDestroy
<1>7. CASE Recover \/ (\E j \in Job : StallCheck(j)) \/ KeepName \/ Expire \/ TakeWrites
  BY <1>7 DEF Recover, StallCheck, KeepName, Expire, TakeWrites
<1> QED
  BY <1>1, <1>2, <1>3, <1>4, <1>5, <1>6, <1>7 DEF Next

\* Seen by whoever drives it, every step is one of AppLeg or none.
LEMMA PromiseNext ==
  ASSUME OneWorker, Faults = {}, IInv, [Next]_vars
  PROVE  [Promise!Next]_(Promise!leg)
<1> USE DEF IInv, Promise!Next, Promise!leg, Promise!Provision, Promise!Fail,
        Promise!EnterCutover, Promise!OpenBridge, Promise!LeaveOpening, Promise!Bind,
        Promise!Finish, Promise!RollBack, Promise!Abort, Promise!CloseBridge,
        Promise!Destroyed
<1>1. CASE UNCHANGED <<row, app>>
  BY <1>1
<1>2. ASSUME NEW w \in Worker, Start(w)
      PROVE  [Promise!Next]_(Promise!leg)
  BY <1>2 DEF Start
<1>3. ASSUME NEW w \in Worker, Enter(w) \/ Ready(w)
      PROVE  [Promise!Next]_(Promise!leg)
  BY <1>3 DEF Enter, Ready, Row
<1>4. ASSUME NEW w \in Worker, Prepare(w)
      PROVE  [Promise!Next]_(Promise!leg)
  <2>1. row'.status = row.status /\ row.bridge # "active" /\ row'.bridge # "active" /\ UNCHANGED app
    BY <1>4, PrepareGoes
  <2> QED
    BY <2>1
<1>5. ASSUME NEW w \in Worker, EnterCutover(w)
      PROVE  [Promise!Next]_(Promise!leg)
  BY <1>5 DEF EnterCutover, Row
<1>6. ASSUME NEW w \in Worker, Certificates(w)
      PROVE  [Promise!Next]_(Promise!leg)
  BY <1>6 DEF Certificates, Row
<1>7. ASSUME NEW w \in Worker, SaveActive(w)
      PROVE  [Promise!Next]_(Promise!leg)
  BY <1>7 DEF SaveActive, Row
<1>8. ASSUME NEW w \in Worker, SaveOpened(w)
      PROVE  [Promise!Next]_(Promise!leg)
  BY <1>8 DEF SaveOpened, Row
<1>9. ASSUME NEW w \in Worker, Finish(w)
      PROVE  [Promise!Next]_(Promise!leg)
  BY <1>9 DEF Finish, Row
<1>10. ASSUME NEW w \in Worker, Fail(w)
       PROVE  [Promise!Next]_(Promise!leg)
  BY <1>10 DEF Fail, Row
<1>11. ASSUME NEW w \in Worker, Bind(w) \/ BindByDns(w)
       PROVE  [Promise!Next]_(Promise!leg)
  BY <1>11 DEF Bind, BindByDns
<1>12. CASE RequestCutover
  BY <1>12 DEF RequestCutover, Row
<1>13. CASE AbortSave
  BY <1>13 DEF AbortSave, Row
<1>14. CASE RollSave
  BY <1>14 DEF RollSave, Row
<1>15. CASE CloseBridge
  BY <1>15 DEF CloseBridge, Row
<1>16. CASE DestroySave
  BY <1>16 DEF DestroySave, Row
<1> HIDE DEF IInv, Promise!Next, Promise!leg
<1> QED
  BY <1>1, <1>2, <1>3, <1>4, <1>5, <1>6, <1>7, <1>8, <1>9, <1>10, <1>11, <1>12, <1>13, <1>14,
     <1>15, <1>16, FewMoveLeg

\* The move keeps what AppLeg promises its driver, whatever fails, dies or is asked
\* for on the way.
THEOREM ImplementsLeg ==
  ASSUME OneWorker, Faults = {}
  PROVE  Spec => KeepsPromise
<1>1. Init => Promise!Init
  BY DEF Init, Promise!Init
<1>2. IInv /\ [Next]_vars => [Promise!Next]_(Promise!leg)
  BY PromiseNext
<1> HIDE DEF IInv
<1> QED
  BY Inductive, <1>1, <1>2, PTL DEF Spec, KeepsPromise, Promise!Spec

\* An aborted migration never goes on; at most the failure of the step that was
\* running is noted over it.
THEOREM AbortStands ==
  ASSUME OneWorker, Faults = {}
  PROVE  Spec => AbortStops
<1>1. IInv /\ [Next]_vars => [row.status = "ABORTED" => row'.status \in {"ABORTED", "FAILED"}]_vars
  <2> SUFFICES ASSUME IInv, [Next]_vars, row.status = "ABORTED"
               PROVE  row'.status \in {"ABORTED", "FAILED"}
    OBVIOUS
  <2>1. row.bridge # "active"
    BY DEF IInv
  <2>2. [Promise!Next]_(Promise!leg)
    BY PromiseNext
  <2> QED
    BY <2>1, <2>2 DEF Promise!Next, Promise!leg, Promise!Provision, Promise!Fail,
       Promise!EnterCutover, Promise!OpenBridge, Promise!LeaveOpening, Promise!Bind,
       Promise!Finish, Promise!RollBack, Promise!Abort, Promise!CloseBridge, Promise!Destroyed
<1> HIDE DEF IInv
<1> QED
  BY Inductive, <1>1, PTL DEF Spec, AbortStops

\* The steps after which the destination's volumes may hold less than they did.
LEMMA FewCopyOver ==
  ASSUME [Next]_vars, taken
  PROVE  taken' \/ \E w \in Worker : CopyVolumes(w)
<1>1. CASE UNCHANGED vars
  BY <1>1 DEF vars
<1>2. ASSUME NEW w \in Worker, ProvisionStep(w)
      PROVE  UNCHANGED taken
  BY <1>2 DEF ProvisionStep, Start, Enter, Materialize, ProvisionFailed, Recheck, Prepare,
              RecheckPrepared, Ready
<1>3. ASSUME NEW w \in Worker, CutoverStep(w)
      PROVE  UNCHANGED taken \/ CopyVolumes(w)
  BY <1>3 DEF CutoverStep, Claim, EnterCutover, ChooseHow, StopSource, StartDestination, MoveFailed,
              Certificates, Rebind, BuildRoute, Activate, SaveActive, OpenFailed, DropRoute,
              RefreshRoute, SaveOpened, Bind, StopPods, Release, Flip, Finish, RebindByDns,
              FlipByDns, BindByDns, Fail
<1>4. ASSUME NEW w \in Worker, FailStep(w) \/ Crash(w) \/ \E j \in Job : Deliver(w, j)
      PROVE  UNCHANGED taken
  BY <1>4 DEF FailStep, Crash, Deliver
<1>5. CASE CallerStep
  BY <1>5 DEF CallerStep, AbortTeardown, AbortSave, RollRoute, RollClose, RollSave, CloseBridge,
              DropSource, DestroySave
<1>6. CASE Request
  BY <1>6 DEF Request, RequestCutover, RequestOpen, RequestAbort, RequestRollback, RequestDestroy
<1>7. CASE Recover \/ (\E j \in Job : StallCheck(j)) \/ KeepName \/ Expire \/ TakeWrites
  BY <1>7 DEF Recover, StallCheck, KeepName, Expire, TakeWrites
<1> QED
  BY <1>1, <1>2, <1>3, <1>4, <1>5, <1>6, <1>7 DEF Next

\* What clients wrote on the destination is not replaced by an older copy of the
\* source, however often a cutover is resumed.
THEOREM WritesAreKept ==
  ASSUME OneWorker, Faults = {}
  PROVE  Spec => ServedVolumesAreKept
<1>1. IInv /\ [Next]_vars => [taken => taken']_vars
  <2> SUFFICES ASSUME IInv, [Next]_vars, taken
               PROVE  taken'
    OBVIOUS
  <2>1. ASSUME NEW w \in Worker
        PROVE  ~CopyVolumes(w)
    BY <2>1 DEF IInv, CopyVolumes
  <2> QED
    BY <2>1, FewCopyOver
<1> HIDE DEF IInv
<1> QED
  BY Inductive, <1>1, PTL DEF Spec, ServedVolumesAreKept

-----------------------------------------------------------------------------
\* Two writers of one volume: with one delivery at a time and any of the faults.
HIDE DEF PlaceInv, CallerInv, RowInv, JobInv, SourceInv, DestinationInv, PreparedInv,
         BridgeInv, NameInv, StepInv, TakenInv, Safe

\* The destination only starts over a source that was stopped.
WriterInv ==
  /\ VolumesHaveOneWriter
  /\ \A w \in Worker : pc[w] \in {"copy", "startDestination"} => pods["src"] # "running"

USE DEF WriterInv, VolumesHaveOneWriter

\* Provisioning.
LEMMA ProvisionWriter ==
  ASSUME OneWorker, TypeOK, WriterInv, NEW w \in Worker, ProvisionStep(w)
  PROVE  WriterInv'
<1>1. CASE Start(w)
  BY <1>1 DEF Start
<1>2. CASE Enter(w)
  BY <1>2 DEF Enter
<1>3. CASE Materialize(w)
  BY <1>3 DEF Materialize
<1>4. CASE ProvisionFailed(w)
  BY <1>4 DEF ProvisionFailed
<1>5. CASE Recheck(w)
  BY <1>5 DEF Recheck
<1>6. CASE Prepare(w)
  BY <1>6 DEF Prepare
<1>7. CASE RecheckPrepared(w)
  BY <1>7 DEF RecheckPrepared
<1>8. CASE Ready(w)
  BY <1>8 DEF Ready
<1> QED
  BY <1>1, <1>2, <1>3, <1>4, <1>5, <1>6, <1>7, <1>8 DEF ProvisionStep

\* The cutover, or the opening alone.
LEMMA CutoverWriter ==
  ASSUME OneWorker, TypeOK, WriterInv, NEW w \in Worker, CutoverStep(w)
  PROVE  WriterInv'
<1>1. CASE Claim(w)
  BY <1>1 DEF Claim
<1>2. CASE EnterCutover(w)
  BY <1>2 DEF EnterCutover
<1>3. CASE ChooseHow(w)
  BY <1>3 DEF ChooseHow, ByBridge, AfterRoute
<1>4. CASE StopSource(w)
  BY <1>4 DEF StopSource
<1>5. CASE CopyVolumes(w)
  BY <1>5 DEF CopyVolumes
<1>6. CASE StartDestination(w)
  BY <1>6 DEF StartDestination, ByBridge, AfterRoute
<1>7. CASE MoveFailed(w)
  BY <1>7 DEF MoveFailed, GiveBackSource
<1>8. CASE Certificates(w)
  BY <1>8 DEF Certificates
<1>9. CASE Rebind(w)
  BY <1>9 DEF Rebind
<1>10. CASE BuildRoute(w)
  BY <1>10 DEF BuildRoute
<1>11. CASE Activate(w)
  BY <1>11 DEF Activate
<1>12. CASE SaveActive(w)
  BY <1>12 DEF SaveActive
<1>13. CASE OpenFailed(w)
  BY <1>13 DEF OpenFailed, GiveBackSource
<1>14. CASE DropRoute(w)
  BY <1>14 DEF DropRoute, AfterRoute
<1>15. CASE RefreshRoute(w)
  BY <1>15 DEF RefreshRoute, AfterRoute
<1>16. CASE SaveOpened(w)
  BY <1>16 DEF SaveOpened
<1>17. CASE Bind(w)
  BY <1>17 DEF Bind
<1>18. CASE StopPods(w)
  BY <1>18 DEF StopPods
<1>19. CASE Release(w)
  BY <1>19 DEF Release
<1>20. CASE Flip(w)
  BY <1>20 DEF Flip
<1>21. CASE Finish(w)
  BY <1>21 DEF Finish
<1>22. CASE RebindByDns(w)
  BY <1>22 DEF RebindByDns
<1>23. CASE FlipByDns(w)
  BY <1>23 DEF FlipByDns
<1>24. CASE BindByDns(w)
  BY <1>24 DEF BindByDns
<1>25. CASE Fail(w)
  BY <1>25 DEF Fail
<1> QED
  BY <1>1, <1>2, <1>3, <1>4, <1>5, <1>6, <1>7, <1>8, <1>9, <1>10, <1>11, <1>12, <1>13,
     <1>14, <1>15, <1>16, <1>17, <1>18, <1>19, <1>20, <1>21, <1>22, <1>23, <1>24, <1>25
     DEF CutoverStep

\* A call that fails.
LEMMA FailStepWriter ==
  ASSUME OneWorker, TypeOK, WriterInv, NEW w \in Worker, FailStep(w)
  PROVE  WriterInv'
BY DEF FailStep, AfterFailure

\* A job taken from the queue.
LEMMA DeliverWriter ==
  ASSUME OneWorker, TypeOK, WriterInv, NEW w \in Worker, NEW j \in Job, Deliver(w, j)
  PROVE  WriterInv'
BY DEF Deliver

\* A process killed.
LEMMA CrashWriter ==
  ASSUME OneWorker, TypeOK, WriterInv, NEW w \in Worker, Crash(w)
  PROVE  WriterInv'
BY DEF Crash, Unrepeatable

\* What the caller undoes or destroys.
LEMMA CallerWriter ==
  ASSUME OneWorker, TypeOK, WriterInv, CallerStep
  PROVE  WriterInv'
<1>1. CASE AbortTeardown
  BY <1>1 DEF AbortTeardown
<1>2. CASE AbortSave
  BY <1>2 DEF AbortSave
<1>3. CASE RollRoute
  BY <1>3 DEF RollRoute
<1>4. CASE RollClose
  BY <1>4 DEF RollClose
<1>5. CASE RollSave
  BY <1>5 DEF RollSave
<1>6. CASE CloseBridge
  BY <1>6 DEF CloseBridge
<1>7. CASE DropSource
  BY <1>7 DEF DropSource
<1>8. CASE DestroySave
  BY <1>8 DEF DestroySave
<1> QED
  BY <1>1, <1>2, <1>3, <1>4, <1>5, <1>6, <1>7, <1>8 DEF CallerStep

\* What the caller asks for.
LEMMA RequestWriter ==
  ASSUME OneWorker, TypeOK, WriterInv, Request
  PROVE  WriterInv'
<1>1. CASE RequestCutover
  BY <1>1 DEF RequestCutover, Held, Enqueue, Job, NewJob
<1>2. CASE RequestOpen
  BY <1>2 DEF RequestOpen, Held, Enqueue
<1>3. CASE RequestAbort
  BY <1>3 DEF RequestAbort, Undisturbed, Blind, Held
<1>4. CASE RequestRollback
  BY <1>4 DEF RequestRollback, Held
<1>5. CASE RequestDestroy
  BY <1>5 DEF RequestDestroy
<1> QED
  BY <1>1, <1>2, <1>3, <1>4, <1>5 DEF Request

\* The queue's own steps.
LEMMA QueueWriter ==
  ASSUME OneWorker, TypeOK, WriterInv, Recover \/ \E j \in Job : StallCheck(j)
  PROVE  WriterInv'
<1>1. CASE Recover
  BY <1>1 DEF Recover, Held, Job, NewJob
<1>2. ASSUME NEW j \in Job, StallCheck(j)
      PROVE  WriterInv'
  BY <1>2 DEF StallCheck, Job, NewJob
<1> QED
  BY <1>1, <1>2

\* Names, answers and clients.
LEMMA WorldWriter ==
  ASSUME OneWorker, TypeOK, WriterInv, KeepName \/ Expire \/ TakeWrites
  PROVE  WriterInv'
<1>1. CASE KeepName
  BY <1>1 DEF KeepName
<1>2. CASE Expire
  BY <1>2 DEF Expire
<1>3. CASE TakeWrites
  BY <1>3 DEF TakeWrites, IsServed, Reaches
<1> QED
  BY <1>1, <1>2, <1>3

\* Two copies of an application never run on two copies of its volumes.
THEOREM OneWriterOfVolumes ==
  ASSUME OneWorker
  PROVE  Spec => []VolumesHaveOneWriter
<1>1. Init => TypeOK /\ WriterInv
  <2>1. Init => WriterInv
    BY DEF Init
  <2> QED
    BY <2>1, InitType
<1>2. TypeOK /\ WriterInv /\ [Next]_vars => TypeOK' /\ WriterInv'
  <2> SUFFICES ASSUME TypeOK, WriterInv, [Next]_vars
               PROVE  TypeOK' /\ WriterInv'
    OBVIOUS
  <2>1. TypeOK'
    BY NextType
  <2>2. CASE UNCHANGED vars
    BY <2>1, <2>2 DEF vars
  <2> HIDE DEF TypeOK, WriterInv, Actor, OneWorker
  <2>3. WriterInv'
    BY <2>2, ProvisionWriter, CutoverWriter, FailStepWriter, DeliverWriter, CrashWriter,
       CallerWriter, RequestWriter, QueueWriter, WorldWriter DEF Next
  <2> QED
    BY <2>1, <2>3
<1> HIDE DEF TypeOK, WriterInv
<1>3. WriterInv => VolumesHaveOneWriter
  BY DEF WriterInv
<1> HIDE DEF VolumesHaveOneWriter
<1> QED
  BY <1>1, <1>2, <1>3, PTL DEF Spec
=============================================================================
