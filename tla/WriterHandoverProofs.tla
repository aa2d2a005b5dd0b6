------------------------ MODULE WriterHandoverProofs ------------------------
(***************************************************************************)
(* What follows from the handover alone, for any number of writes: whoever *)
(* implements WriterHandover has these for nothing.                        *)
(***************************************************************************)
EXTENDS WriterHandover, TLAPS

IInv ==
  /\ TypeOK
  /\ copied <= written
  /\ NoWriteLost

LEMMA HandoverInit == Init => IInv
  BY DEF Init, IInv, TypeOK, NoWriteLost

LEMMA HandoverNext == IInv /\ [Next]_vars => IInv'
<1> SUFFICES ASSUME IInv, [Next]_vars PROVE IInv'
  OBVIOUS
<1> USE DEF IInv, TypeOK, NoWriteLost
<1>1. CASE Write
  BY <1>1 DEF Write
<1>2. CASE Copy
  BY <1>2 DEF Copy
<1>3. CASE Pause
  BY <1>3 DEF Pause
<1>4. CASE Resume
  BY <1>4 DEF Resume
<1>5. CASE HandOver
  BY <1>5 DEF HandOver
<1>6. CASE UNCHANGED vars
  BY <1>6 DEF vars
<1> QED
  BY <1>1, <1>2, <1>3, <1>4, <1>5, <1>6 DEF Next

\* The destination takes writes only with every write of the source: what the
\* replay wait before promote is for (db-migration.physical-cutover.ts).
THEOREM HandoverLosesNothing == Spec => []NoWriteLost
<1>1. IInv => NoWriteLost
  BY DEF IInv
<1> QED
  BY <1>1, HandoverInit, HandoverNext, PTL DEF Spec

\* No step leads out of the handover: the source never takes a write again.
THEOREM HandoverIsForGood == Spec => HandedOverForGood
<1>1. IInv /\ [Next]_vars => [writer = "destination" => UNCHANGED vars]_vars
  BY DEF IInv, TypeOK, NoWriteLost, Next, Write, Copy, Pause, Resume, HandOver
<1> QED
  BY <1>1, HandoverInit, HandoverNext, PTL DEF Spec, HandedOverForGood
=============================================================================
