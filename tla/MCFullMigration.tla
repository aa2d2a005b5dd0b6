--------------------------- MODULE MCFullMigration ---------------------------
(* Small instances of FullMigration for TLC. *)
EXTENDS FullMigration

F(a, b) == [auto |-> a, bridgeFirst |-> b]
\* Both ways to start the cutover, and both places of the bridge.
SomeForms == {F(TRUE, TRUE), F(FALSE, FALSE)}
=============================================================================
