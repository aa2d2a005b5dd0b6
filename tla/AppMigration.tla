----------------------------- MODULE AppMigration -----------------------------
(***************************************************************************)
(* The move of one application to another cluster                          *)
(* (src/src/modules/app-migration): the delivery that provisions the       *)
(* destination, the deliveries that cut over or only open the bridge, the  *)
(* person or full migration that aborts, rolls back or destroys the source,*)
(* and what they act on: the application's row, its endpoint, and on each  *)
(* cluster its pods, its route and the forwarding from the old cluster.    *)
(*                                                                         *)
(* One endpoint, one volume at most.  Every actor works on its own copy of *)
(* the row and saves it whole.                                             *)
(***************************************************************************)
EXTENDS Naturals, FiniteSets

CONSTANTS
  Worker,       \* deliveries that can be processed at once
  Caller,       \* the request of the person or full migration
  Forms,        \* the migrations looked at
  Faults,       \* faults the code does not answer, see below
  MaxFailures,  \* bound: calls to the clusters that fail
  MaxCrashes,   \* bound: processes killed
  MaxRequests,  \* bound: cutovers asked for
  MaxAborts,    \* bound: aborts and rollbacks asked for
  MaxJobs       \* bound: jobs of one kind waiting

(***************************************************************************)
(* "race": an abort overlaps a step of a delivery that does not look again *)
(* before it saves.  "again": a cutover interrupted half way is delivered  *)
(* again, and copies over volumes already served, fails its first check    *)
(* with nothing put back, or trusts a prepared route that was discarded.   *)
(* "leftover": the source's route cannot be removed.  "warning": without a *)
(* bridge, the endpoint or its DNS record cannot be moved.  "early": a     *)
(* starting API copy looks for orphans while the queue still lists the job *)
(* of a dead process, or has just taken it back.                           *)
(***************************************************************************)
Fault == {"race", "again", "leftover", "warning", "early"}
Form == [volumes : BOOLEAN, leg : BOOLEAN, auto : BOOLEAN, bridge : BOOLEAN]

ASSUME ActorAssumption == Caller \notin Worker
ASSUME FormAssumption ==
  Forms \subseteq Form /\ Faults \subseteq Fault /\ \A f \in Forms : ~(f.leg /\ f.auto)
ASSUME BoundAssumption ==
  {MaxFailures, MaxCrashes, MaxRequests, MaxAborts, MaxJobs} \subseteq Nat

Actor == Worker \cup {Caller}
Cluster == {"src", "dst"}
Status == {"PENDING", "PROVISIONING", "READY", "CUTOVER", "BRIDGING", "COMPLETED",
           "FAILED", "ABORTED"}
Bridge == {"dnsOnly", "planned", "preparing", "active", "closed"}
Row == [status : Status, bridge : Bridge, prepared : BOOLEAN, routeGone : BOOLEAN,
        destroyed : BOOLEAN]
Job == [kind : {"run", "cutover", "open"}, stalls : {0, 1}]
NewJob(k) == [kind |-> k, stalls |-> 0]
NoJobs == [j \in Job |-> 0]

VARIABLES
  form,      \* what is moved and who drives it; never changes
  row,       \* the migration's row
  waiting,   \* jobs in the queue
  stalled,   \* jobs whose worker died, until the queue notices
  pc,        \* where each actor stands
  job,       \* the job a worker processes
  mig,       \* each actor's copy of the row
  app,       \* the cluster the application's row names
  endpoint,  \* the cluster the endpoint's row names, and whether its DNS is held
  pods,      \* the application's pods on each cluster
  route,     \* the clusters that have a route for the name
  forwards,  \* the source's ingress forwards to the destination
  dns,       \* the cluster the name is published for
  clients,   \* the clusters that answers still in use point to
  taken,     \* the destination took writes of clients into its volumes
  boot,      \* an API copy starts and has not looked for orphans yet
  budget     \* what is left of every bound

queueVars == <<waiting, stalled>>
localVars == <<pc, job, mig>>
nameVars == <<endpoint, route, forwards, dns, clients>>
loadVars == <<pods, taken>>
vars == <<form, row, queueVars, localVars, app, nameVars, loadVars, boot, budget>>

Providing == {"start", "enter", "materialize", "provisionFailed", "recheck", "prepare",
              "recheckPrepared", "ready"}
Moving == {"stopSource", "copy", "startDestination", "moveFailed"}
Opening == {"certificates", "rebind", "buildRoute", "activate", "saveActive",
            "openFailed"}
Cutting == {"claim", "enterCutover", "chooseHow", "dropRoute", "dropOpened", "refreshRoute",
            "saveOpened", "bind",
            "stopPods", "release", "flip", "finish", "rebindByDns", "flipByDns", "bindByDns", "fail"}
Calling == {"abort", "abortTeardown", "abortSave", "rollRoute", "rollClose", "rollSave",
            "closeBridge", "dropSource", "destroySave"}
PC == {"idle"} \cup Providing \cup Moving \cup Opening \cup Cutting \cup Calling

TypeOK ==
  /\ form \in Forms
  /\ row \in Row
  /\ waiting \in [Job -> Nat] /\ stalled \in [Job -> Nat]
  /\ pc \in [Actor -> PC] /\ job \in [Worker -> Job] /\ mig \in [Actor -> Row]
  /\ app \in Cluster
  /\ endpoint \in [at : Cluster, held : BOOLEAN]
  /\ pods \in [Cluster -> {"none", "stopped", "running"}]
  /\ route \subseteq Cluster
  /\ {forwards, taken, boot} \subseteq BOOLEAN
  /\ dns \in Cluster /\ clients \subseteq Cluster /\ dns \in clients
  /\ budget \in [{"failures", "crashes", "requests", "aborts"} -> Nat]

NewRow(f) == [status |-> "PENDING", bridge |-> IF f.bridge THEN "planned" ELSE "dnsOnly",
              prepared |-> FALSE, routeGone |-> FALSE, destroyed |-> FALSE]

\* create(): the row is saved PENDING and its run queued; the source serves.
Init ==
  /\ form \in Forms
  /\ row = NewRow(form)
  /\ waiting = [NoJobs EXCEPT ![NewJob("run")] = 1] /\ stalled = NoJobs
  /\ pc = [a \in Actor |-> "idle"]
  /\ job = [w \in Worker |-> NewJob("run")]
  /\ mig = [a \in Actor |-> NewRow(form)]
  /\ app = "src" /\ endpoint = [at |-> "src", held |-> FALSE]
  /\ pods = [src |-> "running", dst |-> "none"]
  /\ route = {"src"} /\ forwards = FALSE
  /\ dns = "src" /\ clients = {"src"}
  /\ taken = FALSE /\ boot = FALSE
  /\ budget = [failures |-> MaxFailures, crashes |-> MaxCrashes,
               requests |-> MaxRequests, aborts |-> MaxAborts]

-----------------------------------------------------------------------------
Spend(what) == budget[what] > 0 /\ budget' = [budget EXCEPT ![what] = @ - 1]
Goto(a, where) == pc' = [pc EXCEPT ![a] = where]
Go(a, where) == Goto(a, where) /\ UNCHANGED mig
Done(a) ==
  /\ Goto(a, "idle")
  /\ mig' = [mig EXCEPT ![a] = NewRow(form)]
Enqueue(k) ==
  waiting' = [waiting EXCEPT ![NewJob(k)] = IF @ < MaxJobs THEN @ + 1 ELSE @]

\* Steps that touch the row alone, or the clusters alone.
RowOnly == UNCHANGED <<form, queueVars, job, app, nameVars, loadVars, boot, budget>>
WorldOnly == UNCHANGED <<form, row, queueVars, job, app, boot, budget>>

\* save() and update(): the whole row, or the bridge's columns alone.
Save(a, m, next) ==
  /\ row' = m
  /\ mig' = [mig EXCEPT ![a] = m]
  /\ Goto(a, next)
SaveAndEnd(a, m) == row' = m /\ Done(a)

Aborting == pc[Caller] \in {"abort", "abortTeardown", "abortSave"}

\* A job another actor or the queue holds for this migration.
Held == (\E w \in Worker : pc[w] # "idle") \/ (\E j \in Job : waiting[j] + stalled[j] > 0)
CutoverQueued == \/ \E w \in Worker : pc[w] # "idle" /\ job[w].kind \in {"run", "cutover"}
                 \/ \E j \in Job : j.kind \in {"run", "cutover"} /\ waiting[j] + stalled[j] > 0
RunIsHeld == \E w \in Worker : pc[w] # "idle" /\ job[w].kind = "run"

\* Which rows a delivery takes up: "past it, the state belongs to the cutover jobs".
TakenUp(k) ==
  CASE k = "run" -> row.status \in {"PENDING", "PROVISIONING"}
    [] k = "cutover" -> row.status \in {"READY", "CUTOVER"}
    [] k = "open" -> /\ \/ row.status = "READY"
                        \/ row.status = "CUTOVER" /\ row.bridge # "active"
                     /\ row.bridge # "dnsOnly"

Deliver(w, j) ==
  /\ pc[w] = "idle" /\ waiting[j] > 0
  /\ j.kind = "run" => ~RunIsHeld
  /\ waiting' = [waiting EXCEPT ![j] = @ - 1]
  /\ IF TakenUp(j.kind)
       THEN /\ job' = [job EXCEPT ![w] = j]
            /\ mig' = [mig EXCEPT ![w] = row]
            /\ Goto(w, IF j.kind = "run" THEN "start" ELSE "claim")
       ELSE UNCHANGED <<job, mig, pc>>
  /\ UNCHANGED <<form, row, stalled, app, nameVars, loadVars, boot, budget>>

-----------------------------------------------------------------------------
\* Provisioning: two whole-row saves, then the destination is built.
Start(w) == pc[w] = "start" /\ Save(w, mig[w], "enter") /\ RowOnly

Enter(w) ==
  /\ pc[w] = "enter"
  /\ Save(w, [mig[w] EXCEPT !.status = "PROVISIONING"], "materialize")
  /\ RowOnly

\* With volumes the destination waits for its copy at no replicas.
Materialize(w) ==
  /\ pc[w] = "materialize"
  /\ pods' = [pods EXCEPT !["dst"] = IF form.volumes THEN "stopped" ELSE "running"]
  /\ Go(w, "recheck")
  /\ UNCHANGED <<nameVars, taken>> /\ WorldOnly

TearDown == pods' = [pods EXCEPT !["dst"] = "none"]

ProvisionFailed(w) ==
  /\ pc[w] = "provisionFailed"
  /\ TearDown
  /\ Go(w, "fail")
  /\ UNCHANGED <<nameVars, taken>> /\ WorldOnly

\* "An abort may have landed while materialize was running."
Recheck(w) ==
  /\ pc[w] = "recheck"
  /\ IF row.status = "ABORTED" THEN TearDown /\ Done(w) ELSE Go(w, "prepare") /\ UNCHANGED pods
  /\ UNCHANGED <<nameVars, taken>> /\ WorldOnly

\* Mutated: the whole row is saved, as it was before the certificate was prepared.
PrepareWholeRow(w) ==
  /\ pc[w] = "prepare"
  /\ Save(w, IF mig[w].bridge = "dnsOnly" THEN mig[w]
             ELSE [mig[w] EXCEPT !.bridge = "preparing"], "recheckPrepared")
  /\ RowOnly

\* A bridge that cannot be prepared is not a failed migration: DNS moves alone.
Prepare(w) ==
  /\ pc[w] = "prepare"
  /\ IF mig[w].bridge = "dnsOnly"
       THEN UNCHANGED <<row, mig, route>>
       ELSE \E b \in {"preparing", "dnsOnly"}, built \in BOOLEAN :
              /\ built => b = "preparing"
              /\ mig' = [mig EXCEPT ![w].bridge = b, ![w].prepared = built]
              /\ row' = [row EXCEPT !.bridge = b, !.prepared = built]
              /\ route' = IF built THEN route \cup {"dst"} ELSE route
  /\ Goto(w, "recheckPrepared")
  /\ UNCHANGED <<form, queueVars, job, app, endpoint, forwards, dns, clients, loadVars, boot, budget>>

RecheckPrepared(w) ==
  /\ pc[w] = "recheckPrepared"
  /\ IF row.status = "ABORTED"
       THEN /\ TearDown /\ Done(w)
            /\ route' = route \ {"dst"}
       ELSE Go(w, "ready") /\ UNCHANGED <<pods, route>>
  /\ UNCHANGED <<endpoint, forwards, dns, clients, taken>> /\ WorldOnly

Ready(w) ==
  /\ pc[w] = "ready"
  /\ LET m == [mig[w] EXCEPT !.status = "READY"]
     IN IF form.auto THEN Save(w, m, "claim") ELSE SaveAndEnd(w, m)
  /\ RowOnly

-----------------------------------------------------------------------------
\* The cutover, idempotent from READY and CUTOVER.
OnlyOpens(w) == job[w].kind = "open"
AfterRoute(w) == IF OnlyOpens(w) THEN "saveOpened" ELSE "bind"

Claim(w) ==
  /\ pc[w] = "claim"
  /\ IF row.status = "ABORTED" THEN Done(w) ELSE Go(w, "enterCutover")
  /\ UNCHANGED <<form, row, queueVars, job, app, nameVars, loadVars, boot, budget>>

EnterCutover(w) ==
  /\ pc[w] = "enterCutover"
  /\ Save(w, [mig[w] EXCEPT !.status = "CUTOVER"], "chooseHow")
  /\ RowOnly

\* The volumes move before anything else, and never behind an open bridge.
ByBridge(w) == IF mig[w].bridge = "dnsOnly" THEN
                 (IF OnlyOpens(w) THEN "saveOpened" ELSE "rebindByDns")
               ELSE IF mig[w].bridge = "active" THEN
                 (IF mig[w].routeGone THEN AfterRoute(w) ELSE "dropRoute")
               ELSE "certificates"

\* Mutated: a resumed cutover copies the volumes of an application already moved.
MovesVolumesAnyhow(w) == form.volumes /\ mig[w].bridge # "active" /\ ~OnlyOpens(w)

MovesVolumes(w) ==
  form.volumes /\ mig[w].bridge # "active" /\ ~OnlyOpens(w) /\ app = "src"

ChooseHow(w) ==
  /\ pc[w] = "chooseHow"
  /\ Go(w, IF MovesVolumes(w) THEN "stopSource" ELSE ByBridge(w))
  /\ UNCHANGED <<nameVars, loadVars>> /\ WorldOnly

\* Mutated: the copy does not wait for the source to stop.
StopSourceLater(w) ==
  /\ pc[w] = "stopSource"
  /\ UNCHANGED pods
  /\ Go(w, "copy")
  /\ UNCHANGED <<nameVars, taken>> /\ WorldOnly

StopSource(w) ==
  /\ pc[w] = "stopSource"
  /\ pods' = [pods EXCEPT !["src"] = "stopped"]
  /\ Go(w, "copy")
  /\ UNCHANGED <<nameVars, taken>> /\ WorldOnly

\* The source's copy goes over whatever the destination's volumes hold.
CopyVolumes(w) ==
  /\ pc[w] = "copy"
  /\ taken' = FALSE
  /\ Go(w, "startDestination")
  /\ UNCHANGED <<nameVars, pods>> /\ WorldOnly

StartDestination(w) ==
  /\ pc[w] = "startDestination"
  /\ pods' = [pods EXCEPT !["dst"] = "running"]
  /\ Go(w, ByBridge(w))
  /\ UNCHANGED <<nameVars, taken>> /\ WorldOnly

\* "every failure gives the source back its copies"
GiveBackSource == pods' = [src |-> "running", dst |-> "stopped"]

MoveFailed(w) ==
  /\ pc[w] = "moveFailed"
  /\ GiveBackSource
  /\ Go(w, "fail")
  /\ UNCHANGED <<nameVars, taken>> /\ WorldOnly

-----------------------------------------------------------------------------
\* No valid certificate on the destination: no bridge, DNS moves alone.
Certificates(w) ==
  /\ pc[w] = "certificates"
  /\ pods["dst"] = "running"
  /\ \/ Go(w, "rebind") /\ UNCHANGED row
     \/ Save(w, [mig[w] EXCEPT !.bridge = "dnsOnly"],
             IF OnlyOpens(w) THEN "saveOpened" ELSE "rebindByDns")
  /\ RowOnly

\* Mutated: the name is not held while its route is built.
RebindUnheld(w) ==
  /\ pc[w] = "rebind"
  /\ endpoint' = [at |-> "dst", held |-> FALSE]
  /\ Go(w, IF mig[w].prepared THEN "activate" ELSE "buildRoute")
  /\ UNCHANGED <<route, forwards, dns, clients, loadVars>> /\ WorldOnly

Rebind(w) ==
  /\ pc[w] = "rebind"
  /\ endpoint' = [at |-> "dst", held |-> TRUE]
  /\ Go(w, IF mig[w].prepared THEN "activate" ELSE "buildRoute")
  /\ UNCHANGED <<route, forwards, dns, clients, loadVars>> /\ WorldOnly

BuildRoute(w) ==
  /\ pc[w] = "buildRoute"
  /\ route' = route \cup {"dst"}
  /\ Go(w, "activate")
  /\ UNCHANGED <<endpoint, forwards, dns, clients, loadVars>> /\ WorldOnly

Activate(w) ==
  /\ pc[w] = "activate"
  /\ forwards' = TRUE
  /\ Go(w, "saveActive")
  /\ UNCHANGED <<endpoint, route, dns, clients, loadVars>> /\ WorldOnly

SaveActive(w) ==
  /\ pc[w] = "saveActive"
  /\ Save(w, [mig[w] EXCEPT !.bridge = "active"],
          IF mig[w].prepared THEN "dropOpened" ELSE "dropRoute")
  /\ RowOnly

\* Everything before the point of no return goes back where it was.
OpenFailed(w) ==
  /\ pc[w] = "openFailed"
  /\ forwards' = FALSE
  /\ endpoint' = [at |-> "src", held |-> FALSE]
  /\ route' = route \ {"dst"}
  /\ IF MovesVolumes(w) THEN GiveBackSource ELSE UNCHANGED pods
  /\ mig' = [mig EXCEPT ![w].bridge = "preparing", ![w].prepared = FALSE, ![w].routeGone = FALSE]
  /\ Goto(w, "fail")
  /\ UNCHANGED <<dns, clients, taken>> /\ WorldOnly

\* The passthrough serves only once the source's own route is gone.
DropRoute(w) ==
  /\ pc[w] \in {"dropRoute", "dropOpened"}
  /\ \/ route' = route \ {"src"}
     \/ "leftover" \in Faults /\ UNCHANGED route
  /\ Go(w, IF pc[w] = "dropOpened" THEN "refreshRoute" ELSE AfterRoute(w))
  /\ UNCHANGED <<endpoint, forwards, dns, clients, loadVars>> /\ WorldOnly

\* The route prepared beforehand is brought in step with the moved endpoint.
RefreshRoute(w) ==
  /\ pc[w] = "refreshRoute"
  /\ route' = route \cup {"dst"}
  /\ Go(w, AfterRoute(w))
  /\ UNCHANGED <<endpoint, forwards, dns, clients, loadVars>> /\ WorldOnly

\* An opening ends here: with its bridge, in CUTOVER; without, READY again.
SaveOpened(w) ==
  /\ pc[w] = "saveOpened"
  /\ SaveAndEnd(w, IF mig[w].bridge = "active" THEN [mig[w] EXCEPT !.routeGone = TRUE]
                   ELSE [mig[w] EXCEPT !.status = "READY"])
  /\ RowOnly

BindTarget(w, next) ==
  /\ app' = "dst"
  /\ Go(w, next)
  /\ UNCHANGED <<form, row, queueVars, job, nameVars, loadVars, boot, budget>>

Bind(w) == pc[w] = "bind" /\ BindTarget(w, "stopPods")

\* Behind an opened bridge the source's route, removed once, is removed again.
StopPods(w) ==
  /\ pc[w] = "stopPods"
  /\ pods' = [pods EXCEPT !["src"] = "stopped"]
  /\ route' = IF mig[w].routeGone THEN route \ {"src"} ELSE route
  /\ Go(w, "release")
  /\ UNCHANGED <<endpoint, forwards, dns, clients, taken>> /\ WorldOnly

\* Mutated: answers given before the switch are forgotten at once.
PublishAtOnce == dns' = endpoint.at /\ UNCHANGED clients

Publish == dns' = endpoint.at /\ clients' = clients \cup {endpoint.at}

\* The name is let go before it is moved.
Release(w) ==
  /\ pc[w] = "release"
  /\ endpoint' = [endpoint EXCEPT !.held = FALSE]
  /\ Go(w, "flip")
  /\ UNCHANGED <<route, forwards, dns, clients, loadVars>> /\ WorldOnly

Flip(w) ==
  /\ pc[w] = "flip"
  /\ Publish
  /\ Go(w, "finish")
  /\ UNCHANGED <<endpoint, route, forwards, loadVars>> /\ WorldOnly

Finish(w) ==
  /\ pc[w] = "finish"
  /\ SaveAndEnd(w, [mig[w] EXCEPT !.status = IF @ = "CUTOVER" /\ mig[w].bridge = "active"
                                             THEN "BRIDGING" ELSE "COMPLETED"])
  /\ RowOnly

-----------------------------------------------------------------------------
\* Without the bridge: an endpoint that cannot be moved is only a warning.
RebindByDns(w) ==
  /\ pc[w] = "rebindByDns"
  /\ endpoint' = [at |-> "dst", held |-> FALSE]
  /\ Go(w, "flipByDns")
  /\ UNCHANGED <<route, forwards, dns, clients, loadVars>> /\ WorldOnly

FlipByDns(w) ==
  /\ pc[w] = "flipByDns"
  /\ Publish
  /\ route' = route \cup {"dst"}
  /\ Go(w, "bindByDns")
  /\ UNCHANGED <<endpoint, forwards, loadVars>> /\ WorldOnly

BindByDns(w) == pc[w] = "bindByDns" /\ BindTarget(w, "finish")

Fail(w) ==
  /\ pc[w] = "fail"
  /\ SaveAndEnd(w, [mig[w] EXCEPT !.status = "FAILED"])
  /\ RowOnly

\* Where a failed step leads.  A DNS switch that fails leaves the bridge open.
\* Reads of the platform's own database do not fail here.
AfterFailure(where) ==
  CASE where = "materialize" -> "provisionFailed"
    [] where \in {"copy", "startDestination"} -> "moveFailed"
    [] where \in {"rebind", "buildRoute", "activate", "saveActive"} -> "openFailed"
    [] where \in {"rebindByDns", "flipByDns"} -> "bindByDns"
    [] where \in {"chooseHow", "certificates", "stopPods", "flip"} -> "fail"

FailStep(w) ==
  /\ pc[w] \in {"materialize", "copy", "startDestination", "rebind", "buildRoute",
                "activate", "saveActive", "chooseHow", "certificates", "stopPods", "flip",
                "rebindByDns", "flipByDns"}
  /\ pc[w] \in {"rebindByDns", "flipByDns"} => "warning" \in Faults
  /\ pc[w] = "certificates" => ~MovesVolumes(w)
  /\ pc[w] = "chooseHow" => /\ mig[w].bridge # "active"
                            /\ \/ "again" \in Faults
                               \/ pods["src"] = "running" /\ endpoint.at = "src"
  /\ Spend("failures")
  /\ Go(w, AfterFailure(pc[w]))
  /\ UNCHANGED <<form, row, queueVars, job, app, nameVars, loadVars, boot>>

-----------------------------------------------------------------------------
\* The person, or the full migration whose leg this is.
Alone == pc[Caller] = "idle"

RequestCutover ==
  /\ Alone /\ Spend("requests")
  /\ \/ row.status = "READY" /\ UNCHANGED row
     \/ row.status = "CUTOVER" /\ ~(IF form.leg THEN CutoverQueued ELSE Held) /\ UNCHANGED row
     \/ row.status = "FAILED" /\ row.bridge = "active" /\ row' = [row EXCEPT !.status = "CUTOVER"]
  /\ "race" \in Faults \/ ~Held
  /\ Enqueue("cutover")
  /\ UNCHANGED <<form, stalled, localVars, app, nameVars, loadVars, boot>>

\* Only for a leg, before its database is fenced; its full migration asks for it
\* when the leg has no volumes to move.
RequestOpen ==
  /\ Alone /\ form.leg /\ ~form.volumes /\ row.bridge = "preparing" /\ Spend("requests")
  /\ row.status = "READY" \/ (row.status = "CUTOVER" /\ ~Held)
  /\ Enqueue("open")
  /\ UNCHANGED <<form, row, stalled, localVars, app, nameVars, loadVars, boot>>

\* The places where a delivery saves without looking again.
Blind == \E w \in Worker : pc[w] \in {"start", "enter", "ready", "enterCutover"}
Undisturbed == "race" \in Faults \/ (~Blind /\ waiting[NewJob("cutover")] = 0
                                           /\ waiting[NewJob("open")] = 0)

\* Mutated: a migration whose bridge is open is aborted.
AbortBehindBridge ==
  /\ Alone /\ Undisturbed /\ Spend("aborts")
  /\ row.status \in {"PENDING", "PROVISIONING", "READY", "FAILED"}
  /\ mig' = [mig EXCEPT ![Caller] = row]
  /\ Goto(Caller, "abortTeardown")
  /\ UNCHANGED <<form, row, queueVars, job, app, nameVars, loadVars, boot>>

RequestAbort ==
  /\ Alone /\ Undisturbed /\ Spend("aborts")
  /\ row.bridge # "active"
  /\ row.status \in {"PENDING", "PROVISIONING", "READY", "FAILED"}
  /\ mig' = [mig EXCEPT ![Caller] = row]
  /\ Goto(Caller, "abortTeardown")
  /\ UNCHANGED <<form, row, queueVars, job, app, nameVars, loadVars, boot>>

\* While PROVISIONING the processor tears the destination down itself.
AbortTeardown ==
  /\ pc[Caller] = "abortTeardown"
  /\ IF mig[Caller].status = "PROVISIONING" THEN UNCHANGED <<pods, route>>
     ELSE /\ IF app = "src" THEN TearDown ELSE UNCHANGED pods
          /\ route' = IF mig[Caller].prepared /\ endpoint.at = "src" THEN route \ {"dst"} ELSE route
  /\ Go(Caller, "abortSave")
  /\ UNCHANGED <<endpoint, forwards, dns, clients, taken>> /\ WorldOnly

AbortSave ==
  /\ pc[Caller] = "abortSave"
  /\ SaveAndEnd(Caller, [mig[Caller] EXCEPT !.status = "ABORTED"])
  /\ RowOnly

\* A bridge opened ahead of the promote is undone, route first.
RequestRollback ==
  /\ Alone /\ form.leg /\ ~form.volumes /\ Spend("aborts")
  /\ "race" \in Faults \/ ~Held
  /\ row.bridge = "active" /\ app = "src"
  /\ mig' = [mig EXCEPT ![Caller] = row]
  /\ Goto(Caller, "rollRoute")
  /\ UNCHANGED <<form, row, queueVars, job, app, nameVars, loadVars, boot>>

RollRoute ==
  /\ pc[Caller] = "rollRoute"
  /\ endpoint' = [at |-> "src", held |-> FALSE]
  /\ route' = route \cup {"src"}
  /\ Go(Caller, "rollClose")
  /\ UNCHANGED <<forwards, dns, clients, loadVars>> /\ WorldOnly

RollClose ==
  /\ pc[Caller] = "rollClose"
  /\ forwards' = FALSE
  /\ route' = route \ {"dst"}
  /\ Go(Caller, "rollSave")
  /\ UNCHANGED <<endpoint, dns, clients, loadVars>> /\ WorldOnly

RollSave ==
  /\ pc[Caller] = "rollSave"
  /\ SaveAndEnd(Caller, [mig[Caller] EXCEPT !.status = "READY", !.bridge = "preparing",
                                            !.prepared = FALSE, !.routeGone = FALSE])
  /\ RowOnly

\* "An open bridge closes only once DNS answers cached before the switch have
\* expired"; a source without a bridge is destroyed when it has drained.
RequestDestroy ==
  /\ Alone /\ ~row.destroyed
  /\ row.status \in {"BRIDGING", "COMPLETED"}
  /\ app = "dst" /\ clients = {"dst"}
  /\ mig' = [mig EXCEPT ![Caller] = row]
  /\ Goto(Caller, IF row.status = "BRIDGING" THEN "closeBridge" ELSE "dropSource")
  /\ UNCHANGED <<form, row, queueVars, job, app, nameVars, loadVars, boot, budget>>

CloseBridge ==
  /\ pc[Caller] = "closeBridge"
  /\ forwards' = FALSE
  /\ Save(Caller, [mig[Caller] EXCEPT !.bridge = "closed"], "dropSource")
  /\ UNCHANGED <<form, queueVars, job, app, endpoint, route, dns, clients, loadVars, boot, budget>>

DropSource ==
  /\ pc[Caller] = "dropSource"
  /\ route' = IF endpoint.at = "src" THEN route ELSE route \ {"src"}
  /\ pods' = [pods EXCEPT !["src"] = "none"]
  /\ Go(Caller, "destroySave")
  /\ UNCHANGED <<endpoint, forwards, dns, clients, taken>> /\ WorldOnly

DestroySave ==
  /\ pc[Caller] = "destroySave"
  /\ SaveAndEnd(Caller, [mig[Caller] EXCEPT !.status = "COMPLETED", !.destroyed = TRUE])
  /\ RowOnly

-----------------------------------------------------------------------------
\* What is done cannot be told from the row: an opening undone on the clusters,
\* volumes moved to a destination that takes the name by DNS alone.
Unrepeatable(w) ==
  \/ pc[w] = "fail" /\ row.prepared /\ ~mig[w].prepared
  \/ pc[w] \in {"flipByDns", "bindByDns"} /\ form.volumes

\* A process dies.  Its job stays "active" in the queue until it is found stalled.
Crash(w) ==
  /\ pc[w] # "idle" /\ Spend("crashes")
  /\ "again" \in Faults \/ ~Unrepeatable(w)
  /\ Done(w)
  /\ stalled' = [stalled EXCEPT ![job[w]] = @ + 1]
  /\ boot' = TRUE
  /\ UNCHANGED <<form, row, waiting, job, app, nameVars, loadVars>>

StallCheck(j) ==
  /\ stalled[j] > 0
  /\ stalled' = [stalled EXCEPT ![j] = @ - 1]
  /\ waiting' = IF j.stalls = 1 THEN waiting
                ELSE [waiting EXCEPT ![[j EXCEPT !.stalls = 1]] = @ + 1]
  /\ UNCHANGED <<form, row, localVars, app, nameVars, loadVars, boot, budget>>

\* Mutated: only provisioning is taken up again at start-up.
RecoverRuns ==
  /\ boot /\ boot' = FALSE
  /\ "early" \in Faults \/ \A j \in Job : stalled[j] = 0 /\ (j.stalls = 1 => waiting[j] = 0)
  /\ IF ~Held /\ row.status \in {"PENDING", "PROVISIONING"} THEN Enqueue("run")
     ELSE UNCHANGED waiting
  /\ UNCHANGED <<form, row, stalled, localVars, app, nameVars, loadVars, budget>>

\* At start-up; a leg in CUTOVER belongs to its full migration.
Recover ==
  /\ boot /\ boot' = FALSE
  /\ "early" \in Faults \/ \A j \in Job : stalled[j] = 0 /\ (j.stalls = 1 => waiting[j] = 0)
  /\ IF Held THEN UNCHANGED waiting
     ELSE IF row.status \in {"PENDING", "PROVISIONING"} THEN Enqueue("run")
     ELSE IF row.status = "CUTOVER" /\ ~form.leg THEN Enqueue("cutover")
     ELSE UNCHANGED waiting
  /\ UNCHANGED <<form, row, stalled, localVars, app, nameVars, loadVars, budget>>

\* The ingress reconciler keeps every name that nobody holds at its endpoint's cluster.
KeepName ==
  /\ ~endpoint.held /\ dns # endpoint.at
  /\ Publish
  /\ UNCHANGED <<form, row, queueVars, localVars, app, endpoint, route, forwards, loadVars, boot, budget>>

\* Answers cached before the switch expire.
Expire ==
  /\ clients # {dns}
  /\ clients' = {dns}
  /\ UNCHANGED <<form, row, queueVars, localVars, app, endpoint, route, forwards, dns, loadVars, boot, budget>>

\* Where a client ends up; the source's own route is preferred to the forwarding.
Reaches(c) ==
  IF c = "src" /\ "src" \notin route /\ forwards THEN "dst" ELSE c
IsServed(c) == Reaches(c) \in route /\ pods[Reaches(c)] = "running"

\* Clients of the destination write into its volumes.
TakeWrites ==
  /\ form.volumes /\ ~taken
  /\ \E c \in clients : IsServed(c) /\ Reaches(c) = "dst"
  /\ taken' = TRUE
  /\ UNCHANGED <<form, row, queueVars, localVars, app, nameVars, pods, boot, budget>>

-----------------------------------------------------------------------------
ProvisionStep(w) ==
  \/ Start(w) \/ Enter(w) \/ Materialize(w) \/ ProvisionFailed(w) \/ Recheck(w)
  \/ Prepare(w) \/ RecheckPrepared(w) \/ Ready(w)

CutoverStep(w) ==
  \/ Claim(w) \/ EnterCutover(w) \/ ChooseHow(w) \/ StopSource(w) \/ CopyVolumes(w)
  \/ StartDestination(w) \/ MoveFailed(w) \/ Certificates(w) \/ Rebind(w) \/ BuildRoute(w)
  \/ Activate(w) \/ SaveActive(w) \/ OpenFailed(w) \/ DropRoute(w) \/ RefreshRoute(w)
  \/ SaveOpened(w)
  \/ Bind(w) \/ StopPods(w) \/ Release(w) \/ Flip(w) \/ Finish(w) \/ RebindByDns(w) \/ FlipByDns(w)
  \/ BindByDns(w) \/ Fail(w)

CallerStep ==
  \/ AbortTeardown \/ AbortSave \/ RollRoute \/ RollClose \/ RollSave
  \/ CloseBridge \/ DropSource \/ DestroySave

Request == RequestCutover \/ RequestOpen \/ RequestAbort \/ RequestRollback \/ RequestDestroy

\* Without the fault "race", nobody works while the caller undoes or destroys.
MayWork == "race" \in Faults \/ Alone

Next ==
  \/ \E w \in Worker :
       \/ MayWork /\ (ProvisionStep(w) \/ CutoverStep(w) \/ FailStep(w) \/ \E j \in Job : Deliver(w, j))
       \/ Crash(w)
  \/ CallerStep \/ Request
  \/ Recover \/ \E j \in Job : StallCheck(j)
  \/ KeepName \/ Expire \/ TakeWrites

\* Deliveries are processed, the queue looks for stalled jobs, a starting copy
\* looks for orphans and a request that began goes on.
Fairness ==
  /\ \A w \in Worker :
       WF_vars(MayWork /\ (ProvisionStep(w) \/ CutoverStep(w) \/ \E j \in Job : Deliver(w, j)))
  /\ WF_vars(CallerStep) /\ WF_vars(Recover) /\ WF_vars(\E j \in Job : StallCheck(j))

Spec == Init /\ [][Next]_vars
FairSpec == Spec /\ Fairness

-----------------------------------------------------------------------------
\* The application is stopped while its volumes move ("the interruption"), and
\* a move by DNS alone may strand answers until the switch is done.
Interrupted == form.volumes /\ row.status = "CUTOVER"
ByDnsAlone == row.bridge = "dnsOnly" /\ row.status = "CUTOVER"

\* Answers cached before the switch are only cared for by the bridge.
Answers == IF row.bridge = "dnsOnly" THEN {dns} ELSE clients

\* Whatever cluster a client's answer points to, it reaches a running copy of
\* the application, through every step of a cutover behind the bridge, its
\* failure, its rollback, its resumption and the destruction of the source.
Served == Interrupted \/ ByDnsAlone \/ \A c \in Answers : IsServed(c)

\* Two copies of an application never run on two copies of its volumes.
VolumesHaveOneWriter ==
  form.volumes => ~(pods["src"] = "running" /\ pods["dst"] = "running")

\* "Do not promote to READY or cut over": an aborted migration never goes on;
\* a delivery whose work then fails may still note the failure.
AbortStops == [][row.status = "ABORTED" => row'.status \in {"ABORTED", "FAILED"}]_vars

\* "Idempotent, so a partial cutover can be re-run": what clients wrote on the
\* destination is not replaced by an older copy of the source.
ServedVolumesAreKept == [][taken => taken']_vars

\* "A migration whose job died with the process [...] is queued again at
\* startup": once a starting copy has looked, a job holds every cutover that is
\* nobody else's.
InterruptedIsQueuedAgain ==
  row.status = "CUTOVER" /\ ~form.leg => Held \/ boot \/ ~Alone

\* "so the application never stays down because a move did not finish": a
\* client that is not served is served again, whatever was interrupted.  A leg
\* interrupted twice waits for its full migration to ask for it again.
InterruptionEnds ==
  (~form.leg /\ \E c \in Answers : ~IsServed(c)) ~> (\A c \in Answers : IsServed(c))

\* Seen by whoever drives it, the migration keeps the promise of a leg.
Promise == INSTANCE AppLeg WITH
  status <- row.status, open <- row.bridge = "active", bound <- app
KeepsPromise == Promise!Spec
=============================================================================
