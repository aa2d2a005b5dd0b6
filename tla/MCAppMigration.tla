--------------------------- MODULE MCAppMigration ---------------------------
(* Small instances of AppMigration for TLC. *)
EXTENDS AppMigration

F(v, l, a, b) == [volumes |-> v, leg |-> l, auto |-> a, bridge |-> b]
\* Every form: a volume or none, standalone, automatic or a leg, with the bridge or without.
AllForms == {f \in Form : ~(f.leg /\ f.auto)}
\* A volume moved without asking when to cut over.
AutoVolume == {F(TRUE, FALSE, TRUE, TRUE)}
=============================================================================
