-------------------------------- MODULE AppLeg --------------------------------
(***************************************************************************)
(* What the move of an application to another cluster promises to whoever  *)
(* drives it: an operator, or a full migration of which it is one leg      *)
(* (src/src/modules/app-migration).  The source forwards to the            *)
(* destination only from a cutover on, the application is bound to the     *)
(* destination only by a cutover, a bridge is rolled back only while the   *)
(* application is still bound to the source, and a migration that forwards *)
(* is never aborted.                                                       *)
(***************************************************************************)
VARIABLES
  status,  \* the migration's status
  open,    \* the row says that the source forwards to the destination
  bound    \* the cluster the application's row names: "src" or "dst"

leg == <<status, open, bound>>

Init == status = "PENDING" /\ open = FALSE /\ bound = "src"

Provision ==
  /\ status \in {"PENDING", "PROVISIONING"}
  /\ status' \in {"PROVISIONING", "READY"}
  /\ UNCHANGED <<open, bound>>

\* Also noted over an abort that came while the step that fails was running.
Fail ==
  /\ status \in {"PROVISIONING", "READY", "CUTOVER", "ABORTED"}
  /\ status' = "FAILED"
  /\ UNCHANGED <<open, bound>>

\* FAILED only to resume behind an open bridge, or re-armed by the full migration.
EnterCutover ==
  /\ status \in {"READY", "FAILED"}
  /\ status' \in {"READY", "CUTOVER"}
  /\ UNCHANGED <<open, bound>>

OpenBridge == status = "CUTOVER" /\ ~open /\ open' = TRUE /\ UNCHANGED <<status, bound>>

\* The bridge cannot be opened ahead of the cutover: back to READY, DNS only.
LeaveOpening == status = "CUTOVER" /\ ~open /\ status' = "READY" /\ UNCHANGED <<open, bound>>

Bind == status = "CUTOVER" /\ bound = "src" /\ bound' = "dst" /\ UNCHANGED <<status, open>>

Finish ==
  /\ status = "CUTOVER" /\ bound = "dst"
  /\ status' = IF open THEN "BRIDGING" ELSE "COMPLETED"
  /\ UNCHANGED <<open, bound>>

RollBack ==
  /\ open /\ bound = "src"
  /\ open' = FALSE /\ status' = "READY"
  /\ UNCHANGED bound

Abort ==
  /\ ~open
  /\ status \in {"PENDING", "PROVISIONING", "READY", "FAILED"}
  /\ status' = "ABORTED"
  /\ UNCHANGED <<open, bound>>

CloseBridge == status = "BRIDGING" /\ open /\ open' = FALSE /\ UNCHANGED <<status, bound>>

Destroyed ==
  /\ status = "BRIDGING" /\ ~open
  /\ status' = "COMPLETED"
  /\ UNCHANGED <<open, bound>>

Next ==
  \/ Provision \/ Fail \/ EnterCutover \/ OpenBridge \/ LeaveOpening \/ Bind \/ Finish
  \/ RollBack \/ Abort \/ CloseBridge \/ Destroyed

Spec == Init /\ [][Next]_leg
=============================================================================
