----------------------------- MODULE VolumePause -----------------------------
(***************************************************************************)
(* Copies of a volume that stop its writer first                           *)
(* (src/src/modules/applications: the pause lease, its sweeper and the     *)
(* three services that copy).  The lease is a mark on the workload itself: *)
(* who took it and when.  It is released by the copy that took it, or by a *)
(* sweep of any copy of the API, at its boot, on the cadence or at its     *)
(* shutdown.                                                               *)
(*                                                                         *)
(* One volume held by one workload, whose replica count is abstracted to   *)
(* zero or not.  A copy of the API keeps its identity (its pod and its     *)
(* process number) when its container starts again in place.               *)
(***************************************************************************)
EXTENDS Naturals, FiniteSets

CONSTANTS
  Api,          \* copies of the API
  Copy,         \* copies of the volume, asked for with a pause
  Faults,       \* faults the code does not answer, see below
  MaxFailures,  \* bound: calls and copy jobs that fail
  MaxRestarts   \* bound: processes killed or told to stop

(***************************************************************************)
(* "long": a copy outlives the lease.  "two": a copy begins while another  *)
(* one's pause lasts.  "overlap": a pause is taken between the first and   *)
(* the last step of a release.  "late": a copy of the API takes a pause    *)
(* that booted after a sweep in progress asked who is alive.  "stopping":  *)
(* a copy of the volume goes on in an API that was told to stop.           *)
(* "unread": the pods cannot be listed, and count as gone.                 *)
(***************************************************************************)
Fault == {"long", "two", "overlap", "late", "stopping", "unread"}

ASSUME ActorAssumption == Api \cap Copy = {} /\ Api # {} /\ "nobody" \notin Api
ASSUME FaultAssumption == Faults \subseteq Fault
ASSUME BoundAssumption == {MaxFailures, MaxRestarts} \subseteq Nat

Actor == Api \cup Copy     \* an API stands for the sweep it runs
NoMark == [by |-> "nobody", stale |-> FALSE]
Mark == [by : Api, stale : BOOLEAN]

VARIABLES
  api,     \* each copy of the API: down, up or told to stop
  scaled,  \* the workload asks for pods
  mark,    \* the lease on the workload
  pods,    \* its pods hold the volume
  job,     \* each copy's Job in the cluster
  pc,      \* where each copy and each sweep stands
  copy,    \* what the process of each copy knows of it
  ledger,  \* how the copies recorded with their writers stopped were taken
  spared,  \* the owners a sweep leaves alone
  budget   \* what is left of every bound

workload == <<scaled, mark>>
vars == <<api, workload, pods, job, pc, copy, ledger, spared, budget>>

\* The API it runs in; the workload is its own to release; it is taken as one
\* with its writers stopped; its Job was seen to succeed; and, known to
\* nobody, pods held the volume while the Job ran.
CopyOf(a) == [home |-> a, ours |-> FALSE, claim |-> FALSE, done |-> FALSE, torn |-> FALSE]
NoCopy == CopyOf("nobody")
CopyType == [home : Api \cup {"nobody"}, ours : BOOLEAN, claim : BOOLEAN,
             done : BOOLEAN, torn : BOOLEAN]

Taking == {"mark", "scaleDown", "wait", "copy", "follow"}
Releasing == {"read", "scaleUp", "clear"}
PC == {"idle", "check", "inspect", "list", "record", "over"} \cup Taking \cup Releasing

TypeOK ==
  /\ api \in [Api -> {"down", "up", "stopping"}]
  /\ scaled \in BOOLEAN /\ mark \in Mark \cup {NoMark} /\ pods \in BOOLEAN
  /\ job \in [Copy -> {"none", "running", "succeeded", "failed"}]
  /\ pc \in [Actor -> PC] /\ copy \in [Copy -> CopyType]
  /\ ledger \subseteq {"atRest", "torn"} /\ spared \in [Api -> SUBSET Api]
  /\ budget \in [{"failures", "restarts"} -> Nat]

Init ==
  /\ api = [a \in Api |-> "up"]
  /\ scaled = TRUE /\ mark = NoMark /\ pods = TRUE
  /\ job = [c \in Copy |-> "none"]
  /\ pc = [x \in Actor |-> "idle"] /\ copy = [c \in Copy |-> NoCopy]
  /\ ledger = {} /\ spared = [a \in Api |-> {}]
  /\ budget = [failures |-> MaxFailures, restarts |-> MaxRestarts]

-----------------------------------------------------------------------------
Spend(what) == budget[what] > 0 /\ budget' = [budget EXCEPT ![what] = @ - 1]
Goto(x, where) == pc' = [pc EXCEPT ![x] = where]
Move(c, where, now) == Goto(c, where) /\ copy' = [copy EXCEPT ![c] = now]
Over(c) == Move(c, "over", NoCopy)
\* Steps that change nothing outside the actor; its release changes the workload.
CopyOnly == UNCHANGED <<api, workload, pods, job, ledger, spared>>
ReleaseOnly == UNCHANGED <<api, pods, job, ledger>>

\* findPodsMountingPvc(): the Jobs' pods count too; an error reads as no pods.
Held == pods \/ \E c \in Copy : job[c] = "running"
Listed == {Held} \cup (IF "unread" \in Faults THEN {FALSE} ELSE {})

\* A process goes on with its copies until it is gone.
Works(c) ==
  \/ api[copy[c].home] = "up"
  \/ api[copy[c].home] = "stopping" /\ "stopping" \in Faults
At(c, where) == pc[c] = where /\ Works(c)

-----------------------------------------------------------------------------
(* A copy: preflight, pause, Job, release, record. *)

Ask(c, a) ==
  /\ pc[c] = "idle" /\ api[a] = "up"
  /\ "late" \in Faults \/ \A b \in Api : pc[b] # "idle" => a \in spared[b]
  /\ Move(c, "check", CopyOf(a)) /\ CopyOnly /\ UNCHANGED budget

\* check(): without a holder nothing is stopped and nothing claimed.
Check(c) ==
  /\ At(c, "check")
  /\ \E held \in Listed : Goto(c, IF held THEN "inspect" ELSE "copy")
  /\ CopyOnly /\ UNCHANGED <<copy, budget>>

\* acquire() reads the holders and the workload.  A Job's pod cannot be
\* scaled down: the copy is refused.  A workload at zero is not marked.
Inspect(c) ==
  /\ At(c, "inspect")
  /\ \/ "two" \in Faults
     \/ scaled /\ \A d \in Copy \ {c} : pc[d] \notin Taking \cup Releasing
  /\ IF \E d \in Copy : job[d] = "running" THEN Over(c)
     ELSE Move(c, IF scaled THEN "mark" ELSE "wait", copy[c])
  /\ CopyOnly /\ UNCHANGED budget

\* Mutated: the mark does not say who took it.
TakeMarkUnsigned(c) ==
  /\ At(c, "mark")
  /\ \A x \in Actor : pc[x] \notin Releasing
  /\ Goto(c, "scaleDown") /\ mark' = [by |-> "nobody", stale |-> TRUE]
  /\ ReleaseOnly /\ UNCHANGED <<scaled, copy, spared, budget>>

TakeMark(c) ==
  /\ At(c, "mark")
  /\ "overlap" \in Faults \/ \A x \in Actor : pc[x] \notin Releasing
  /\ Goto(c, "scaleDown") /\ mark' = [by |-> copy[c].home, stale |-> FALSE]
  /\ ReleaseOnly /\ UNCHANGED <<scaled, copy, spared, budget>>

ScaleDown(c) ==
  /\ At(c, "scaleDown")
  /\ Move(c, "wait", [copy[c] EXCEPT !.ours = TRUE]) /\ scaled' = FALSE
  /\ ReleaseOnly /\ UNCHANGED <<mark, spared, budget>>

\* Mutated: a workload scaled to zero counts as stopped.
WaitForScale(c) ==
  /\ At(c, "wait")
  /\ Move(c, "copy", [copy[c] EXCEPT !.claim = TRUE]) /\ CopyOnly /\ UNCHANGED budget

\* waitUntilNoPodsHold(): terminating is not stopped.
Wait(c) ==
  /\ At(c, "wait") /\ FALSE \in Listed
  /\ Move(c, "copy", [copy[c] EXCEPT !.claim = TRUE]) /\ CopyOnly /\ UNCHANGED budget

\* An error of acquire(), applied or not, and a wait that times out: the copy
\* ends, and what it marked and stopped stays for a sweep.
AcquireFails(c) ==
  /\ \/ At(c, "mark") /\ UNCHANGED scaled
     \/ At(c, "scaleDown") /\ scaled' \in {scaled, FALSE}
     \/ At(c, "wait") /\ Held /\ UNCHANGED scaled
  /\ Spend("failures") /\ Over(c) /\ ReleaseOnly /\ UNCHANGED <<mark, spared>>

StartJob(c) ==
  /\ At(c, "copy")
  /\ Move(c, "follow", [copy[c] EXCEPT !.torn = pods]) /\ job' = [job EXCEPT ![c] = "running"]
  /\ UNCHANGED <<api, workload, pods, ledger, spared, budget>>

\* The finally of the copy: what was stopped is released, if anything was,
\* before the record of a copy that succeeded.
Finally(c, done) ==
  IF copy[c].ours THEN Move(c, "read", [copy[c] EXCEPT !.done = done])
  ELSE IF done THEN Move(c, "record", [copy[c] EXCEPT !.done = TRUE]) ELSE Over(c)

\* The Job is polled until it ends; the copy may fail with the Job at work.
JobFollowed(c) ==
  /\ At(c, "follow") /\ job[c] # "running"
  /\ Finally(c, job[c] = "succeeded") /\ CopyOnly /\ UNCHANGED budget
CopyFails(c) ==
  /\ At(c, "copy") \/ At(c, "follow")
  /\ Spend("failures") /\ Finally(c, FALSE) /\ CopyOnly

\* copyLedger.record(), with the facts of the preflight.
Record(c) ==
  /\ At(c, "record") /\ Over(c)
  /\ ledger' = ledger \cup (IF ~copy[c].claim THEN {}
                            ELSE IF copy[c].torn THEN {"torn"} ELSE {"atRest"})
  /\ UNCHANGED <<api, workload, pods, job, spared, budget>>

-----------------------------------------------------------------------------
(* release(), by the copy that paused or by a sweep. *)

SweepEnds(a) == Goto(a, "idle") /\ spared' = [spared EXCEPT ![a] = {}]
Leave(x) ==
  IF x \in Api THEN SweepEnds(x) /\ UNCHANGED copy
  ELSE (IF copy[x].done THEN Move(x, "record", copy[x]) ELSE Over(x)) /\ UNCHANGED spared
Stay(x, where) == Goto(x, where) /\ UNCHANGED <<copy, spared>>
Releases(x, where) == pc[x] = where /\ IF x \in Api THEN api[x] # "down" ELSE Works(x)

\* Mutated: the live replicas are tested the wrong way round.
ReadLiveInverted(x) ==
  /\ Releases(x, "read")
  /\ IF mark = NoMark THEN Leave(x) ELSE Stay(x, IF scaled THEN "scaleUp" ELSE "clear")
  /\ ReleaseOnly /\ UNCHANGED <<workload, budget>>

\* A workload without the annotation is one nothing paused.
ReadLive(x) ==
  /\ Releases(x, "read")
  /\ IF mark = NoMark THEN Leave(x) ELSE Stay(x, IF scaled THEN "clear" ELSE "scaleUp")
  /\ ReleaseOnly /\ UNCHANGED <<workload, budget>>
ScaleUp(x) ==
  /\ Releases(x, "scaleUp") /\ Stay(x, "clear") /\ scaled' = TRUE
  /\ ReleaseOnly /\ UNCHANGED <<mark, budget>>
ClearMark(x) ==
  /\ Releases(x, "clear") /\ Leave(x) /\ mark' = NoMark
  /\ ReleaseOnly /\ UNCHANGED <<scaled, budget>>
\* Any of the three calls fails, applied or not, and is logged.
ReleaseFails(x) ==
  /\ \/ Releases(x, "read") /\ UNCHANGED workload
     \/ Releases(x, "scaleUp") /\ scaled' \in {scaled, TRUE} /\ UNCHANGED mark
     \/ Releases(x, "clear") /\ mark' \in {mark, NoMark} /\ UNCHANGED scaled
  /\ Spend("failures") /\ Leave(x) /\ ReleaseOnly

-----------------------------------------------------------------------------
(* The sweeper, in each copy of the API; one sweep at a time in each. *)

Alive == {a \in Api : api[a] # "down"}
BeginSweep(a, those) == Goto(a, "list") /\ spared' = [spared EXCEPT ![a] = those]
SweepOnly == UNCHANGED <<workload, pods, job, copy, ledger>>

\* At boot and on the cadence, by the leader: any API that is up here.  One
\* that cannot read who is alive goes by the age of the mark alone.
Sweep(a) ==
  /\ api[a] = "up" /\ pc[a] = "idle"
  /\ \/ BeginSweep(a, Alive) /\ UNCHANGED budget
     \/ BeginSweep(a, Api) /\ Spend("failures")
  /\ UNCHANGED api /\ SweepOnly

\* Mutated: every marked workload is released; the age of the mark is ignored.
ReleasableByLabel(a) == mark # NoMark
ReleasableByOwner(a) == mark # NoMark /\ mark.by \notin spared[a]

\* pauseIsReleasable(): past the TTL, or of an owner the sweep does not spare.
Releasable(a) == mark # NoMark /\ (mark.stale \/ mark.by \notin spared[a])
List(a) ==
  /\ pc[a] = "list"
  /\ IF Releasable(a) THEN Goto(a, "read") /\ UNCHANGED spared ELSE SweepEnds(a)
  /\ UNCHANGED <<api, budget>> /\ SweepOnly

\* onApplicationShutdown(): the process ends what it took itself.
Shutdown(a) ==
  /\ api[a] = "up" /\ pc[a] = "idle" /\ Spend("restarts")
  /\ api' = [api EXCEPT ![a] = "stopping"] /\ BeginSweep(a, Api \ {a}) /\ SweepOnly

\* The process is gone, and its copies and its sweep with it.
Gone(a) ==
  LET lost == {c \in Copy : copy[c].home = a}
  IN /\ api' = [api EXCEPT ![a] = "down"]
     /\ pc' = [x \in Actor |-> IF x = a THEN "idle" ELSE IF x \in lost THEN "over" ELSE pc[x]]
     /\ copy' = [c \in Copy |-> IF c \in lost THEN NoCopy ELSE copy[c]]
     /\ spared' = [spared EXCEPT ![a] = {}]
     /\ UNCHANGED <<workload, pods, job, ledger>>
Exit(a) == api[a] = "stopping" /\ pc[a] = "idle" /\ Gone(a) /\ UNCHANGED budget
Crash(a) == api[a] # "down" /\ Gone(a) /\ Spend("restarts")

\* The sweep at boot is started, never awaited.
Boot(a) ==
  /\ api[a] = "down" /\ api' = [api EXCEPT ![a] = "up"]
  /\ BeginSweep(a, Alive \cup {a}) /\ SweepOnly /\ UNCHANGED budget

-----------------------------------------------------------------------------
(* Kubernetes and time. *)

PodsStart ==
  /\ scaled /\ ~pods /\ pods' = TRUE
  /\ copy' = [c \in Copy |-> [copy[c] EXCEPT !.torn = @ \/ (pc[c] = "follow" /\ job[c] = "running")]]
  /\ UNCHANGED <<api, workload, job, pc, ledger, spared, budget>>
PodsStop ==
  /\ ~scaled /\ pods /\ pods' = FALSE
  /\ UNCHANGED <<api, workload, job, pc, copy, ledger, spared, budget>>

\* A Job ends by itself or at its deadline, whoever still waits for it.
JobEnds(c) ==
  /\ job[c] = "running"
  /\ \/ job' = [job EXCEPT ![c] = "succeeded"] /\ UNCHANGED budget
     \/ job' = [job EXCEPT ![c] = "failed"] /\ Spend("failures")
  /\ UNCHANGED <<api, workload, pods, pc, copy, ledger, spared>>

\* PAUSE_LEASE_TTL_MS passes: for a copy that is no longer under way.
Expire ==
  /\ mark # NoMark /\ ~mark.stale /\ mark' = [mark EXCEPT !.stale = TRUE]
  /\ \A c \in Copy : pc[c] \in Taking \cup Releasing /\ copy[c].home = mark.by =>
       "long" \in Faults /\ pc[c] \in {"copy", "follow"}
  /\ UNCHANGED <<api, scaled, pods, job, pc, copy, ledger, spared, budget>>

-----------------------------------------------------------------------------
CopyStep(c) ==
  \/ Check(c) \/ Inspect(c) \/ TakeMark(c) \/ ScaleDown(c) \/ Wait(c)
  \/ StartJob(c) \/ JobFollowed(c) \/ Record(c)
ReleaseStep(x) == ReadLive(x) \/ ScaleUp(x) \/ ClearMark(x)

Next ==
  \/ \E c \in Copy : CopyStep(c) \/ AcquireFails(c) \/ CopyFails(c) \/ JobEnds(c)
                     \/ \E a \in Api : Ask(c, a)
  \/ \E x \in Actor : ReleaseStep(x) \/ ReleaseFails(x)
  \/ \E a \in Api : Sweep(a) \/ List(a) \/ Shutdown(a) \/ Exit(a) \/ Crash(a) \/ Boot(a)
  \/ PodsStart \/ PodsStop \/ Expire

Spec == Init /\ [][Next]_vars

\* A process goes on with what it began; the cadence comes round; Kubernetes
\* starts the API and the pods again, and ends every Job at its deadline.
FairSpec ==
  /\ Spec
  /\ \A c \in Copy : WF_vars(CopyStep(c)) /\ WF_vars(JobEnds(c))
  /\ \A x \in Actor : WF_vars(ReleaseStep(x))
  /\ \A a \in Api : WF_vars(Sweep(a)) /\ WF_vars(List(a)) /\ WF_vars(Exit(a)) /\ WF_vars(Boot(a))
  /\ WF_vars(PodsStart) /\ WF_vars(PodsStop) /\ WF_vars(Expire)

-----------------------------------------------------------------------------
\* A stopped workload says so: however a copy, a release or a process ends,
\* the mark that brings the application back is written before it goes down
\* and removed after it is up (volume-pause-lease.service.ts:48-56).
StoppedIsMarked == ~scaled => mark # NoMark

\* A copy in the ledger as taken with its writers stopped had none while it
\* ran, though any sweep of any copy of the API may start them again
\* (volume-pause-lease.service.ts:72-73, its test :39-40).
RecordedAtRest == "torn" \notin ledger

\* "Its pauses stay until it ends them, dies, or overstays the TTL"
\* (volume-pause-lease.service.ts:298-303): nobody else clears the fresh
\* mark of a copy under way in a living process, or starts its writer.
UnderWay(c) == copy[c].ours /\ pc[c] \in Taking /\ api[copy[c].home] = "up"
LivePauseIsKept ==
  [][\A c \in Copy : UnderWay(c) /\ mark.by = copy[c].home /\ ~mark.stale =>
       scaled' = scaled /\ mark'.by = mark.by]_vars

\* "Guarantees they come back": an application stopped for a copy runs
\* again, whatever fails or dies on the way
\* (volume-pause-lease.service.ts:43-59).
ComesBack == ~scaled ~> (scaled /\ pods)
=============================================================================
