--------------------------- MODULE OperationStop ---------------------------
(***************************************************************************)
(* Stopping an operation that runs (src/src/modules/infrastructure/        *)
(* operations).  A stop is a request on the operation's row; the worker    *)
(* that processes the operation reads it between two steps.                *)
(*                                                                         *)
(* Two families of workers write the rows.  The application queue asks at  *)
(* every boundary and names the status it may not overwrite; the cluster   *)
(* queue reads the row, changes it and saves it whole.                     *)
(***************************************************************************)
EXTENDS Integers

CONSTANTS
  Op,        \* rows of infrastructure_operations
  MaxSteps,  \* bound: steps a worker begins for one operation
  MaxKills   \* bound: deliveries the queue makes again

ASSUME StepAssumption == MaxSteps \in Nat /\ MaxKills \in Nat

VARIABLES
  op,       \* the rows
  family,   \* whose worker processes the operation
  at,       \* where that worker stands
  seen,     \* the row as a cluster worker will save it
  step,     \* steps begun
  kills     \* what is left of MaxKills

opVars == <<op, family, at, seen, step, kills>>

Running == {"PENDING", "IN_PROGRESS"}
OpStatus == Running \cup {"none", "COMPLETED", "FAILED", "CANCELLED"}
Family == {"application", "cluster"}

\* cancelRequestedAt, told in steps instead of time.
NotAsked == -1
OpRow == [status : OpStatus, cancelRequestedAt : Nat \cup {NotAsked}]
Asked(o) == op[o].cancelRequestedAt # NotAsked

OpTypeOK ==
  /\ op \in [Op -> OpRow]
  /\ family \in [Op -> Family]
  /\ at \in [Op -> {"none", "work", "write", "unwind", "read", "save", "tail"}]
  /\ seen \in [Op -> OpRow]
  /\ step \in [Op -> Nat]
  /\ kills \in Nat

NoRow == [status |-> "none", cancelRequestedAt |-> NotAsked]

OpInit ==
  /\ op = [o \in Op |-> NoRow]
  /\ family = [o \in Op |-> "application"]
  /\ at = [o \in Op |-> "none"]
  /\ seen = op
  /\ step = [o \in Op |-> 0]
  /\ kills = MaxKills

-----------------------------------------------------------------------------
Start(f) == IF f = "application" THEN "work" ELSE "read"

\* The row is inserted PENDING and its job queued.
Create(o, f) ==
  /\ op[o].status = "none"
  /\ op' = [op EXCEPT ![o].status = "PENDING"]
  /\ family' = [family EXCEPT ![o] = f]
  /\ at' = [at EXCEPT ![o] = Start(f)]
  /\ UNCHANGED <<seen, step, kills>>

\* The first request is the one that counts.
RecordRequest(o) ==
  /\ op' = IF Asked(o) THEN op ELSE [op EXCEPT ![o].cancelRequestedAt = step[o]]
  /\ UNCHANGED <<family, at, seen, step, kills>>

RequestCancellation(o) == op[o].status \in Running /\ RecordRequest(o)

\* An update whose WHERE leaves a cancelled row alone.
Write(o, status) ==
  op' = IF op[o].status = "CANCELLED" THEN op ELSE [op EXCEPT ![o].status = status]

-----------------------------------------------------------------------------
\* Mutated: the boundary looks at the row's status and not at the request.
HaltIfCancelledOnly(o) ==
  /\ at[o] = "work" /\ family[o] = "application"
  /\ step[o] < MaxSteps
  /\ at' = [at EXCEPT ![o] = IF op[o].status = "CANCELLED" THEN "unwind" ELSE "write"]
  /\ UNCHANGED <<op, family, seen, step, kills>>

\* The boundary: stop here, or carry on.
HaltIfCancelled(o) ==
  /\ at[o] = "work" /\ family[o] = "application"
  /\ \/ /\ Asked(o) \/ op[o].status = "CANCELLED"
        /\ op' = [op EXCEPT ![o].status = "CANCELLED"]
        /\ at' = [at EXCEPT ![o] = "unwind"]
     \/ /\ ~Asked(o) /\ op[o].status # "CANCELLED"
        /\ step[o] < MaxSteps
        /\ at' = [at EXCEPT ![o] = "write"]
        /\ UNCHANGED op
  /\ UNCHANGED <<family, seen, step, kills>>

WriteProgress(o) ==
  /\ at[o] = "write"
  /\ Write(o, "IN_PROGRESS")
  /\ step' = [step EXCEPT ![o] = @ + 1]
  /\ at' = [at EXCEPT ![o] = "work"]
  /\ UNCHANGED <<family, seen, kills>>

WriteCompleted(o) ==
  /\ at[o] = "work" /\ family[o] = "application" /\ step[o] > 0
  /\ Write(o, "COMPLETED")
  /\ at' = [at EXCEPT ![o] = "tail"]
  /\ UNCHANGED <<family, seen, step, kills>>

\* Mutated: the error path writes its verdict over a cancelled row.
WriteFailedAnyhow(o) ==
  /\ at[o] \in {"work", "unwind", "tail"}
  /\ op' = [op EXCEPT ![o].status = "FAILED"]
  /\ at' = [at EXCEPT ![o] = "tail"]
  /\ UNCHANGED <<family, seen, step, kills>>

\* The handler's catch: for a step that failed, for the halt itself, and for
\* what follows the deploy once it was recorded.
WriteFailed(o) ==
  /\ at[o] \in {"work", "unwind", "tail"}
  /\ family[o] = "application"
  /\ Write(o, "FAILED")
  /\ at' = [at EXCEPT ![o] = "tail"]
  /\ UNCHANGED <<family, seen, step, kills>>

-----------------------------------------------------------------------------
\* updateOperationStep() and markOperationFailed() of the cluster queue.
ReadRow(o, status) ==
  /\ at[o] = "read"
  /\ status = "IN_PROGRESS" => step[o] < MaxSteps
  /\ seen' = [seen EXCEPT ![o] = [op[o] EXCEPT !.status = status]]
  /\ at' = [at EXCEPT ![o] = "save"]
  /\ UNCHANGED <<op, family, step, kills>>

SaveRow(o) ==
  /\ at[o] = "save"
  /\ op' = [op EXCEPT ![o] = seen[o]]
  /\ IF seen[o].status = "IN_PROGRESS"
       THEN /\ step' = [step EXCEPT ![o] = @ + 1]
            /\ at' = [at EXCEPT ![o] = "read"]
       ELSE /\ at' = [at EXCEPT ![o] = "tail"]
            /\ UNCHANGED step
  /\ seen' = [seen EXCEPT ![o] = NoRow]
  /\ UNCHANGED <<family, kills>>

-----------------------------------------------------------------------------
\* The worker dies, also after its last write, and its job is found stalled; or
\* a failed job has attempts left.
Redeliver(o) ==
  /\ at[o] # "none"
  /\ kills > 0
  /\ kills' = kills - 1
  /\ at' = [at EXCEPT ![o] = Start(family[o])]
  /\ seen' = [seen EXCEPT ![o] = NoRow]
  /\ UNCHANGED <<op, family, step>>

Process(o) ==
  \/ HaltIfCancelled(o) \/ WriteProgress(o) \/ WriteCompleted(o) \/ WriteFailed(o)
  \/ \E status \in {"IN_PROGRESS", "COMPLETED", "FAILED"} : ReadRow(o, status)
  \/ SaveRow(o) \/ Redeliver(o)

OpNext ==
  \E o \in Op :
    \/ \E f \in Family : Create(o, f)
    \/ RequestCancellation(o)
    \/ Process(o)

OpSpec == OpInit /\ [][OpNext]_opVars

-----------------------------------------------------------------------------
\* A stop is honoured at the next boundary: at most the step already let
\* through begins after the request.
StopsAtBoundary(o) == Asked(o) => step[o] <= op[o].cancelRequestedAt + 1
StopIsHonoured == \A o \in Op : family[o] = "application" => StopsAtBoundary(o)

\* A cancellation survives the worker noticing it: no progress, failure or
\* redelivery makes a stopped operation look broken, finished or running.
CancelledIsTerminal ==
  [][\A o \in Op : family[o] = "application" /\ op[o].status = "CANCELLED"
                     => op'[o].status = "CANCELLED"]_opVars

=============================================================================
