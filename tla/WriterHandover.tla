--------------------------- MODULE WriterHandover ---------------------------
(***************************************************************************)
(* What a database migration promises its clients, whatever it does: at    *)
(* most one of the two databases takes writes at any instant, the          *)
(* destination takes over only once it holds every write the source ever   *)
(* accepted, and it never gives the role back.                             *)
(***************************************************************************)
EXTENDS Naturals

VARIABLES
  writer,    \* who takes writes: "source", "nobody" or "destination"
  written,   \* writes the source accepted
  copied     \* writes the destination holds

vars == <<writer, written, copied>>

Init == writer = "source" /\ written = 0 /\ copied = 0

Write ==
  /\ writer = "source"
  /\ written' = written + 1
  /\ UNCHANGED <<writer, copied>>

Copy ==
  /\ writer # "destination"
  /\ copied < written
  /\ copied' = copied + 1
  /\ UNCHANGED <<writer, written>>

Pause == writer = "source" /\ writer' = "nobody" /\ UNCHANGED <<written, copied>>
Resume == writer = "nobody" /\ writer' = "source" /\ UNCHANGED <<written, copied>>

HandOver ==
  /\ writer = "nobody"
  /\ copied = written
  /\ writer' = "destination"
  /\ UNCHANGED <<written, copied>>

Next == Write \/ Copy \/ Pause \/ Resume \/ HandOver

Spec == Init /\ [][Next]_vars

TypeOK ==
  /\ writer \in {"source", "nobody", "destination"}
  /\ written \in Nat
  /\ copied \in Nat

\* The destination serves nothing less than what the source accepted.
NoWriteLost == writer = "destination" => copied = written

\* Once the destination has the writes, neither the role nor the count moves.
HandedOverForGood ==
  [][writer = "destination" => UNCHANGED vars]_vars
=============================================================================
