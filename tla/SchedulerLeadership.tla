------------------------- MODULE SchedulerLeadership -------------------------
(***************************************************************************)
(* Which copy of the API runs the scheduled work                           *)
(* (src/src/modules/common/leadership/scheduler-leadership.service.ts).    *)
(*                                                                         *)
(* Every copy polls a session-level Postgres advisory lock on a connection *)
(* of its own; the copy whose session holds it starts its cron jobs, the   *)
(* others stop theirs.  A check is several steps: the question is sent,    *)
(* the database answers, and the copy resumes with the answer.  A stop of  *)
(* the copy, a cut connection or a crash may come between any two of them. *)
(***************************************************************************)
EXTENDS Naturals

CONSTANTS
  Copy,        \* the copies of the API
  NoCopy,      \* the lock is free
  MaxFaults,   \* bound: cut connections, failed statements and crashes
  MaxRuns,     \* bound: scheduled runs of one kind going on one copy
  MaxDepth     \* bound: times one session may have taken the lock

ASSUME CopyAssumption == NoCopy \notin Copy
ASSUME BoundAssumption == MaxFaults \in Nat /\ MaxRuns \in Nat \ {0} /\ MaxDepth \in Nat \ {0, 1}

VARIABLES
  phase,    \* where each process is, from boot to exit
  chk,      \* where the check() under way stands
  conn,     \* the connection of the copy's query runner
  leader,   \* this.leader
  jobs,     \* the shared cron jobs are active
  runs,     \* runs in flight, by how they were started
  holder,   \* the copy whose session holds the lock
  link,     \* the state of that session
  depth,    \* how many times the session took the lock
  faults,   \* faults so far
  clean     \* no fault so far, and no drain gave up waiting

copyVars == <<phase, chk, conn, leader, jobs, runs>>
lockVars == <<holder, link, depth>>
vars == <<copyVars, lockVars, faults, clean>>

Phase == {"down", "boot", "up", "draining", "unlocking", "released"}
Check == {"idle", "connecting", "try", "confirm", "held", "refused", "failed", "unlocking"}
Conn == {"none", "connecting", "open", "cut", "dead"}

\* "elected": fired while leading; "unelected": fired by jobs that were active
\* before a verdict stopped them; "late": fired after the copy began to stop.
RunKind == {"unelected", "elected", "late"}

NoRuns == [k \in RunKind |-> 0]
Serving(c) == phase[c] \in {"boot", "up"}
Stopping(c) == phase[c] \in {"draining", "unlocking", "released"}
Owns(c) == holder = c /\ link = "live"

\* drain() waits for the runs there were when the stop began.
Awaited(c) == runs[c]["elected"] + runs[c]["unelected"]

TypeOK ==
  /\ phase \in [Copy -> Phase]
  /\ chk \in [Copy -> Check]
  /\ conn \in [Copy -> Conn]
  /\ leader \in [Copy -> BOOLEAN]
  /\ jobs \in [Copy -> BOOLEAN]
  /\ runs \in [Copy -> [RunKind -> Nat]]
  /\ holder \in Copy \cup {NoCopy}
  /\ link \in {"live", "orphan", "pool"}
  /\ depth \in Nat
  /\ faults \in Nat
  /\ clean \in BOOLEAN

Init ==
  /\ phase = [c \in Copy |-> "down"]
  /\ chk = [c \in Copy |-> "idle"]
  /\ conn = [c \in Copy |-> "none"]
  /\ leader = [c \in Copy |-> FALSE]
  /\ jobs = [c \in Copy |-> FALSE]
  /\ runs = [c \in Copy |-> NoRuns]
  /\ holder = NoCopy
  /\ link = "live"
  /\ depth = 0
  /\ faults = 0
  /\ clean = TRUE

-----------------------------------------------------------------------------
\* The scheduler mounts every cron job started, before the first verdict.
Boot(c) ==
  /\ phase[c] = "down"
  /\ phase' = [phase EXCEPT ![c] = "boot"]
  /\ jobs' = [jobs EXCEPT ![c] = TRUE]
  /\ UNCHANGED <<chk, conn, leader, runs, lockVars, faults, clean>>

\* Mutated: the lock is asked for again at every check.
AlwaysTry(c) == "try"

\* A leader only confirms that it still holds the lock: taking a session lock
\* again would stack it.
Question(c) == IF leader[c] THEN "confirm" ELSE "try"

\* check(): one at a time; a runner that was released is replaced first.
Ask(c) ==
  /\ Serving(c)
  /\ chk[c] = "idle"
  /\ IF conn[c] \in {"none", "dead"}
       THEN /\ conn' = [conn EXCEPT ![c] = "connecting"]
            /\ chk' = [chk EXCEPT ![c] = "connecting"]
       ELSE /\ chk' = [chk EXCEPT ![c] = Question(c)]
            /\ UNCHANGED conn
  /\ UNCHANGED <<phase, leader, jobs, runs, lockVars, faults, clean>>

\* The runner is null once the stop has begun to release it: using it throws.
Connected(c) ==
  /\ chk[c] = "connecting"
  /\ conn[c] = "connecting"
  /\ conn' = [conn EXCEPT ![c] = "open"]
  /\ chk' = [chk EXCEPT ![c] = IF phase[c] = "unlocking" THEN "failed" ELSE Question(c)]
  /\ UNCHANGED <<phase, leader, jobs, runs, lockVars, faults, clean>>

\* Postgres evaluates the statement: a session may take its own lock again.
Serve(c) ==
  /\ conn[c] = "open"
  /\ \/ /\ chk[c] = "try"
        /\ holder = NoCopy \/ Owns(c)
        /\ holder' = c
        /\ link' = "live"
        /\ depth' = IF depth < MaxDepth THEN depth + 1 ELSE depth
        /\ chk' = [chk EXCEPT ![c] = "held"]
     \/ /\ chk[c] = "try"
        /\ ~(holder = NoCopy \/ Owns(c))
        /\ chk' = [chk EXCEPT ![c] = "refused"]
        /\ UNCHANGED lockVars
     \/ /\ chk[c] = "confirm"
        /\ chk' = [chk EXCEPT ![c] = IF Owns(c) THEN "held" ELSE "refused"]
        /\ UNCHANGED lockVars
  /\ UNCHANGED <<phase, conn, leader, jobs, runs, faults, clean>>

\* The first check over, onApplicationBootstrap sets the timer.
Booted(c) == phase' = [phase EXCEPT ![c] = IF @ = "boot" THEN "up" ELSE @]

\* Mutated: a leader whose confirmation comes back empty goes on leading.
VerdictKeepsLeading(c) ==
  /\ chk[c] \in {"held", "refused"}
  /\ leader' = [leader EXCEPT ![c] = @ \/ chk[c] = "held"]
  /\ jobs' = [jobs EXCEPT ![c] = leader[c] \/ chk[c] = "held"]
  /\ chk' = [chk EXCEPT ![c] = "idle"]
  /\ Booted(c)
  /\ UNCHANGED <<conn, runs, lockVars, faults, clean>>

\* check() resumes with the answer: setLeader, then applyToJobs.
Verdict(c) ==
  /\ chk[c] \in {"held", "refused"}
  /\ leader' = [leader EXCEPT ![c] = chk[c] = "held"]
  /\ jobs' = [jobs EXCEPT ![c] = chk[c] = "held"]
  /\ chk' = [chk EXCEPT ![c] = "idle"]
  /\ Booted(c)
  /\ UNCHANGED <<conn, runs, lockVars, faults, clean>>

\* this.runner is null or released, so that release() has nothing to do.
NoRunner(c) ==
  \/ conn[c] \in {"none", "dead"}
  \/ chk[c] = "unlocking"
  \/ phase[c] \in {"unlocking", "released"}

\* check() catches an error: it steps down, and lets the lock go before the
\* jobs are stopped in the finally block.
Failed(c) ==
  /\ chk[c] = "failed"
  /\ leader' = [leader EXCEPT ![c] = FALSE]
  /\ IF NoRunner(c)
       THEN /\ chk' = [chk EXCEPT ![c] = "idle"]
            /\ jobs' = [jobs EXCEPT ![c] = FALSE]
            /\ Booted(c)
       ELSE /\ chk' = [chk EXCEPT ![c] = "unlocking"]
            /\ UNCHANGED <<jobs, phase>>
  /\ UNCHANGED <<conn, runs, lockVars, faults, clean>>

\* Mutated: the connection is returned without the unlock.
LetGoWithoutUnlock(c) ==
  /\ link' = IF conn[c] = "open" /\ Owns(c) THEN "pool" ELSE link
  /\ UNCHANGED <<holder, depth>>

\* Mutated: the unlock is counted for a session that does not hold the lock.
LetGoOfOthers(c) ==
  /\ depth' = depth - 1
  /\ holder' = NoCopy
  /\ link' = "live"

\* release(): unlock once, then the connection goes back to the pool, with the
\* lock if the session had taken it more than once.
LetGo(c) ==
  IF conn[c] = "open" /\ Owns(c)
    THEN /\ depth' = depth - 1
         /\ holder' = IF depth = 1 THEN NoCopy ELSE holder
         /\ link' = IF depth = 1 THEN "live" ELSE "pool"
    ELSE UNCHANGED lockVars

CheckReleases(c) ==
  /\ chk[c] = "unlocking"
  /\ LetGo(c)
  /\ conn' = [conn EXCEPT ![c] = "none"]
  /\ chk' = [chk EXCEPT ![c] = "idle"]
  /\ jobs' = [jobs EXCEPT ![c] = FALSE]
  /\ Booted(c)
  /\ UNCHANGED <<leader, runs, faults, clean>>

-----------------------------------------------------------------------------
\* onApplicationShutdown, up to the drain.  A check under way is not waited for.
Shutdown(c) ==
  /\ phase[c] = "up"
  /\ phase' = [phase EXCEPT ![c] = "draining"]
  /\ leader' = [leader EXCEPT ![c] = FALSE]
  /\ jobs' = [jobs EXCEPT ![c] = FALSE]
  /\ UNCHANGED <<chk, conn, runs, lockVars, faults, clean>>

StartRelease(c) ==
  phase' = [phase EXCEPT ![c] = IF NoRunner(c) THEN "released" ELSE "unlocking"]

\* Mutated: the lock is let go while runs are still in flight.
DrainSkipped(c) ==
  /\ phase[c] = "draining"
  /\ StartRelease(c)
  /\ UNCHANGED <<chk, conn, leader, jobs, runs, lockVars, faults, clean>>

DrainDone(c) ==
  /\ phase[c] = "draining"
  /\ Awaited(c) = 0
  /\ StartRelease(c)
  /\ UNCHANGED <<chk, conn, leader, jobs, runs, lockVars, faults, clean>>

\* Mutated: the drain has no bound.
DrainUnbounded(c) == FALSE /\ UNCHANGED vars

DrainTimesOut(c) ==
  /\ phase[c] = "draining"
  /\ Awaited(c) > 0
  /\ StartRelease(c)
  /\ clean' = FALSE
  /\ UNCHANGED <<chk, conn, leader, jobs, runs, lockVars, faults>>

\* Statements of one connection are served in order: the unlock follows the
\* statement of a check that is still under way.
StopReleases(c) ==
  /\ phase[c] = "unlocking"
  /\ chk[c] \notin {"connecting", "try", "confirm"}
  /\ LetGo(c)
  /\ conn' = [conn EXCEPT ![c] = "none"]
  /\ phase' = [phase EXCEPT ![c] = "released"]
  /\ UNCHANGED <<chk, leader, jobs, runs, faults, clean>>

\* The process is gone: what its session held is the server's to notice.
Gone(c) ==
  /\ phase' = [phase EXCEPT ![c] = "down"]
  /\ chk' = [chk EXCEPT ![c] = "idle"]
  /\ conn' = [conn EXCEPT ![c] = "none"]
  /\ leader' = [leader EXCEPT ![c] = FALSE]
  /\ jobs' = [jobs EXCEPT ![c] = FALSE]
  /\ runs' = [runs EXCEPT ![c] = NoRuns]
  /\ link' = IF Owns(c) THEN "orphan" ELSE link
  /\ UNCHANGED <<holder, depth>>

Exit(c) == phase[c] = "released" /\ Gone(c) /\ UNCHANGED <<faults, clean>>

-----------------------------------------------------------------------------
Fault ==
  /\ faults < MaxFaults
  /\ faults' = faults + 1
  /\ clean' = FALSE

Crash(c) == phase[c] # "down" /\ Fault /\ Gone(c)

\* The connection breaks; client and server each notice in their own time.
Cut(c) ==
  /\ conn[c] = "open"
  /\ Fault
  /\ conn' = [conn EXCEPT ![c] = "cut"]
  /\ link' = IF Owns(c) THEN "orphan" ELSE link
  /\ UNCHANGED <<phase, chk, leader, jobs, runs, holder, depth>>

\* The client sees the connection end: a statement whose answer has not come
\* fails, and the query runner marks itself released.
Asked == {"try", "confirm", "held", "refused"}

Notice(c) ==
  /\ conn[c] = "cut"
  /\ conn' = [conn EXCEPT ![c] = "dead"]
  /\ chk' = [chk EXCEPT ![c] = IF @ \in Asked THEN "failed" ELSE @]
  /\ UNCHANGED <<phase, leader, jobs, runs, lockVars, faults, clean>>

BackendEnds ==
  /\ holder # NoCopy /\ link = "orphan"
  /\ holder' = NoCopy
  /\ link' = "live"
  /\ depth' = 0
  /\ UNCHANGED <<copyVars, faults, clean>>

\* The database cannot be reached, or fails the statement of a check.
QueryFails(c) ==
  /\ \/ conn[c] = "connecting" /\ conn' = [conn EXCEPT ![c] = "none"]
     \/ chk[c] \in {"try", "confirm"} /\ conn[c] = "open" /\ UNCHANGED conn
  /\ Fault
  /\ chk' = [chk EXCEPT ![c] = "failed"]
  /\ UNCHANGED <<phase, leader, jobs, runs, lockVars>>

-----------------------------------------------------------------------------
KindNow(c) ==
  IF Stopping(c) THEN "late" ELSE IF leader[c] THEN "elected" ELSE "unelected"

\* A cron job fires and its run is tracked until it settles.
Fire(c) ==
  /\ jobs[c]
  /\ runs[c][KindNow(c)] < MaxRuns
  /\ runs' = [runs EXCEPT ![c][KindNow(c)] = @ + 1]
  /\ UNCHANGED <<phase, chk, conn, leader, jobs, lockVars, faults, clean>>

RunEnds(c, k) ==
  /\ runs[c][k] > 0
  /\ runs' = [runs EXCEPT ![c][k] = @ - 1]
  /\ UNCHANGED <<phase, chk, conn, leader, jobs, lockVars, faults, clean>>

-----------------------------------------------------------------------------
\* What the process and the server do without anybody's help.
Progress(c) ==
  \/ Boot(c) \/ Ask(c) \/ Connected(c) \/ Serve(c) \/ Verdict(c)
  \/ Failed(c) \/ CheckReleases(c) \/ Notice(c)
  \/ DrainDone(c) \/ DrainTimesOut(c) \/ StopReleases(c) \/ Exit(c)

Next ==
  \/ BackendEnds
  \/ \E c \in Copy :
       \/ Progress(c)
       \/ Shutdown(c) \/ Crash(c) \/ Cut(c) \/ QueryFails(c)
       \/ Fire(c)
       \/ \E k \in RunKind : RunEnds(c, k)

\* The poll timer fires again and again, a statement is answered or fails, the
\* drain is bounded, the server drops a dead client's session and the
\* orchestrator restarts a copy.  A run may never end.
Fairness == WF_vars(BackendEnds) /\ \A c \in Copy : WF_vars(Progress(c))

Spec == Init /\ [][Next]_vars
FairSpec == Spec /\ Fairness
-----------------------------------------------------------------------------
\* A copy whose connection may be lost, whose verdict is being asked again
\* because of it, or that is on its way out.
Disturbed(c) ==
  \/ ~Serving(c)
  \/ conn[c] # "open"
  \/ chk[c] \in {"confirm", "refused", "failed"}

\* Two copies lead at once only while one of them is being stopped or has lost
\* its connection and not yet learnt it ("exactly one copy of the API runs the
\* scheduled work").
SoleLeader ==
  \A c, d \in Copy : leader[c] /\ leader[d] /\ c # d => Disturbed(c) \/ Disturbed(d)

\* No connection goes back to the pool with the lock, which would keep every
\* copy from leading; it would, had a session ever taken it twice.
LockNotStranded == holder # NoCopy => link # "pool" /\ depth = 1

\* Without a fault and without an overrun drain, the runs of two elected leaders
\* are never in flight together, whoever stops and whenever.
CleanHandover ==
  clean => \A c, d \in Copy :
             runs[c]["elected"] > 0 /\ runs[d]["elected"] > 0 => c = d

\* A copy that keeps serving sees some serving copy lead.
TakeOver ==
  \A c \in Copy : Serving(c) ~> (~Serving(c) \/ \E d \in Copy : Serving(d) /\ leader[d])

\* A stop completes even if a run never ends or the database is gone.
StopCompletes == \A c \in Copy : phase[c] = "draining" ~> phase[c] = "down"

\* What the service's header promises: the next leader never starts the same
\* work beside runs of the copy it took over from.
OneCopyRunsTheWork ==
  clean => \A c, d \in Copy :
             runs[c]["elected"] > 0 /\ runs[d]["elected"] + runs[d]["late"] > 0 => c = d
=============================================================================
