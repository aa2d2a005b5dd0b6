-------------------------------- MODULE DbLeg --------------------------------
(***************************************************************************)
(* What the physical migration of a database promises to the full          *)
(* migration of which it is one leg (src/src/modules/db-lifecycle): the    *)
(* destination is promoted only by a cutover that first put the promote on *)
(* record, a promote on record is never taken back, and a leg is aborted   *)
(* only before it.                                                         *)
(***************************************************************************)
VARIABLES
  status,    \* the migration's status
  promised,  \* its row says that the promote was issued
  primary    \* the destination was promoted

leg == <<status, promised, primary>>

BeforeCutover == {"PENDING", "PROVISIONING", "REPLICATING", "SYNCED", "FAILED"}

Init == status = "PENDING" /\ promised = FALSE /\ primary = FALSE

Copy ==
  /\ \/ status = "PENDING" /\ status' = "PROVISIONING"
     \/ status = "PROVISIONING" /\ status' = "REPLICATING"
     \/ status = "REPLICATING" /\ status' = "SYNCED"
  /\ UNCHANGED <<promised, primary>>

\* Also noted over an abort that came while the step that fails was running.
Fail ==
  /\ status # "COMPLETED" /\ ~promised
  /\ status' = "FAILED"
  /\ UNCHANGED <<promised, primary>>

Enter == status = "SYNCED" /\ status' = "CUTOVER" /\ UNCHANGED <<promised, primary>>

FallBack == status = "CUTOVER" /\ ~promised /\ status' = "SYNCED" /\ UNCHANGED <<promised, primary>>

Ask == status = "CUTOVER" /\ ~promised /\ promised' = TRUE /\ UNCHANGED <<status, primary>>

Promote == status = "CUTOVER" /\ promised /\ ~primary /\ primary' = TRUE /\ UNCHANGED <<status, promised>>

Complete == status = "CUTOVER" /\ primary /\ status' = "COMPLETED" /\ UNCHANGED <<promised, primary>>

Abort ==
  /\ status \in BeforeCutover \/ (status = "CUTOVER" /\ ~promised)
  /\ status' = "ABORTED"
  /\ UNCHANGED <<promised, primary>>

Next ==
  \/ Copy \/ Fail \/ Enter \/ FallBack \/ Ask \/ Promote \/ Complete \/ Abort

Spec == Init /\ [][Next]_leg
=============================================================================
