---------------------- MODULE SchedulerLeadershipProofs ----------------------
(***************************************************************************)
(* Proofs about SchedulerLeadership, for any set of copies and any bound.  *)
(***************************************************************************)
EXTENDS SchedulerLeadership, TLAPS

\* A live hold is on an open connection, and an attempt to take the lock is
\* only ever under way on a session that does not hold it.
HoldInv ==
  \A c \in Copy :
    /\ Owns(c) => conn[c] = "open"
    /\ chk[c] \in {"try", "refused"} => ~Owns(c)
    /\ chk[c] = "connecting" => conn[c] = "connecting"
    /\ phase[c] = "down" => conn[c] = "none" /\ chk[c] = "idle"

\* While a copy serves, its leadership and its hold agree as soon as no verdict
\* is outstanding.
ServeInv ==
  \A c \in Copy : Serving(c) =>
    /\ chk[c] = "idle" /\ ~leader[c] => ~Owns(c)
    /\ chk[c] \in {"try", "unlocking"} => ~leader[c]
    /\ conn[c] = "open" /\ chk[c] = "idle" /\ leader[c] => Owns(c)
    /\ conn[c] = "open" /\ chk[c] = "held" => Owns(c)

\* One unlock is always enough, and a free lock has no session.
LockInv ==
  /\ LockNotStranded
  /\ holder = NoCopy => link = "live" /\ depth = 0

IInv == TypeOK /\ HoldInv /\ ServeInv /\ LockInv

\* The invariant holds of a system that has not started.
LEMMA InitInv == Init => IInv
  BY CopyAssumption DEF Init, IInv, HoldInv, ServeInv, LockInv, LockNotStranded, TypeOK,
     Phase, Check, Conn, RunKind, NoRuns, Owns, Serving

\* Every step of every copy, of the server and of the network preserves it.
LEMMA NextInv == IInv /\ [Next]_vars => IInv'
<1> SUFFICES ASSUME IInv, [Next]_vars PROVE IInv'
  OBVIOUS
<1> USE CopyAssumption, BoundAssumption 
       DEF IInv, TypeOK, LockInv, LockNotStranded, Phase, Check, Conn, lockVars, Owns
<1>1. CASE UNCHANGED vars
  BY <1>1 DEF vars, copyVars, HoldInv, ServeInv, Serving
<1>2. CASE Next
  <2>1. ASSUME BackendEnds PROVE IInv'
    <3>1. TypeOK'
      BY <2>1 DEF BackendEnds, copyVars, RunKind, NoRuns
    <3>2. HoldInv'
      BY <2>1 DEF BackendEnds, copyVars, HoldInv, ServeInv, Serving
    <3>3. LockInv'
      BY <2>1 DEF BackendEnds, copyVars, HoldInv
    <3>4. ServeInv'
      BY <2>1 DEF BackendEnds, copyVars, HoldInv, ServeInv, Serving
    <3> QED BY <3>1, <3>2, <3>3, <3>4
  <2>2. ASSUME NEW c \in Copy, Boot(c) PROVE IInv'
    <3>1. TypeOK'
      BY <2>2 DEF Boot, RunKind, NoRuns
    <3>2. HoldInv'
      BY <2>2 DEF Boot, HoldInv, ServeInv, Serving
    <3>3. LockInv'
      BY <2>2 DEF Boot, HoldInv
    <3>4. ServeInv'
      BY <2>2 DEF Boot, HoldInv, ServeInv, Serving
    <3> QED BY <3>1, <3>2, <3>3, <3>4
  <2>3. ASSUME NEW c \in Copy, Ask(c) PROVE IInv'
    <3>1. TypeOK'
      BY <2>3 DEF Ask, Question, RunKind, NoRuns
    <3>2. HoldInv'
      BY <2>3 DEF Ask, Question, HoldInv, ServeInv, Serving
    <3>3. LockInv'
      BY <2>3 DEF Ask, Question, HoldInv
    <3>4. ServeInv'
      BY <2>3 DEF Ask, Question, HoldInv, ServeInv, Serving
    <3> QED BY <3>1, <3>2, <3>3, <3>4
  <2>4. ASSUME NEW c \in Copy, Connected(c) PROVE IInv'
    <3>1. TypeOK'
      BY <2>4 DEF Connected, Question, RunKind, NoRuns
    <3>2. HoldInv'
      BY <2>4 DEF Connected, Question, HoldInv, ServeInv, Serving
    <3>3. LockInv'
      BY <2>4 DEF Connected, Question, HoldInv
    <3>4. ServeInv'
      BY <2>4 DEF Connected, Question, HoldInv, ServeInv, Serving
    <3> QED BY <3>1, <3>2, <3>3, <3>4
  <2>5. ASSUME NEW c \in Copy, Serve(c) PROVE IInv'
    <3>1. TypeOK'
      <4>2. depth' \in Nat /\ faults' \in Nat
        BY <2>5 DEF Serve
      <4> QED BY <2>5, <4>2 DEF Serve
    <3>2. HoldInv'
      BY <2>5 DEF Serve, HoldInv, ServeInv, Serving
    <3>3. LockInv'
      BY <2>5 DEF Serve, HoldInv
    <3>4. ServeInv'
      BY <2>5 DEF Serve, HoldInv, ServeInv, Serving
    <3> QED BY <3>1, <3>2, <3>3, <3>4
  <2>6. ASSUME NEW c \in Copy, Verdict(c) PROVE IInv'
    <3>1. TypeOK'
      BY <2>6 DEF Verdict, Booted, RunKind, NoRuns
    <3>2. HoldInv'
      BY <2>6 DEF Verdict, Booted, HoldInv, ServeInv, Serving
    <3>3. LockInv'
      BY <2>6 DEF Verdict, Booted, HoldInv
    <3>4. ServeInv'
      BY <2>6 DEF Verdict, Booted, HoldInv, ServeInv, Serving
    <3> QED BY <3>1, <3>2, <3>3, <3>4
  <2>7. ASSUME NEW c \in Copy, Failed(c) PROVE IInv'
    <3>1. TypeOK'
      BY <2>7 DEF Failed, Booted, NoRunner, RunKind, NoRuns
    <3>2. HoldInv'
      BY <2>7 DEF Failed, Booted, NoRunner, HoldInv, ServeInv, Serving
    <3>3. LockInv'
      BY <2>7 DEF Failed, Booted, NoRunner, HoldInv
    <3>4. ServeInv'
      BY <2>7 DEF Failed, Booted, NoRunner, HoldInv, ServeInv, Serving
    <3> QED BY <3>1, <3>2, <3>3, <3>4
  <2>8. ASSUME NEW c \in Copy, CheckReleases(c) PROVE IInv'
    <3>1. TypeOK'
      BY <2>8 DEF CheckReleases, Booted, LetGo, RunKind, NoRuns
    <3>2. HoldInv'
      BY <2>8 DEF CheckReleases, Booted, LetGo, HoldInv, ServeInv, Serving
    <3>3. LockInv'
      BY <2>8 DEF CheckReleases, Booted, LetGo, HoldInv
    <3>4. ServeInv'
      BY <2>8 DEF CheckReleases, Booted, LetGo, HoldInv, ServeInv, Serving
    <3> QED BY <3>1, <3>2, <3>3, <3>4
  <2>9. ASSUME NEW c \in Copy, Notice(c) PROVE IInv'
    <3>1. TypeOK'
      BY <2>9 DEF Notice, Asked, RunKind, NoRuns
    <3>2. HoldInv'
      BY <2>9 DEF Notice, Asked, HoldInv, ServeInv, Serving
    <3>3. LockInv'
      BY <2>9 DEF Notice, Asked, HoldInv
    <3>4. ServeInv'
      BY <2>9 DEF Notice, Asked, HoldInv, ServeInv, Serving
    <3> QED BY <3>1, <3>2, <3>3, <3>4
  <2>10. ASSUME NEW c \in Copy, DrainDone(c) PROVE IInv'
    <3>1. TypeOK'
      BY <2>10 DEF DrainDone, StartRelease, RunKind, NoRuns
    <3>2. HoldInv'
      BY <2>10 DEF DrainDone, StartRelease, HoldInv, ServeInv, Serving
    <3>3. LockInv'
      BY <2>10 DEF DrainDone, StartRelease, HoldInv
    <3>4. ServeInv'
      BY <2>10 DEF DrainDone, StartRelease, HoldInv, ServeInv, Serving
    <3> QED BY <3>1, <3>2, <3>3, <3>4
  <2>11. ASSUME NEW c \in Copy, DrainTimesOut(c) PROVE IInv'
    <3>1. TypeOK'
      BY <2>11 DEF DrainTimesOut, StartRelease, RunKind, NoRuns
    <3>2. HoldInv'
      BY <2>11 DEF DrainTimesOut, StartRelease, HoldInv, ServeInv, Serving
    <3>3. LockInv'
      BY <2>11 DEF DrainTimesOut, StartRelease, HoldInv
    <3>4. ServeInv'
      BY <2>11 DEF DrainTimesOut, StartRelease, HoldInv, ServeInv, Serving
    <3> QED BY <3>1, <3>2, <3>3, <3>4
  <2>12. ASSUME NEW c \in Copy, StopReleases(c) PROVE IInv'
    <3>1. TypeOK'
      BY <2>12 DEF StopReleases, LetGo, RunKind, NoRuns
    <3>2. HoldInv'
      BY <2>12 DEF StopReleases, LetGo, HoldInv, ServeInv, Serving
    <3>3. LockInv'
      BY <2>12 DEF StopReleases, LetGo, HoldInv
    <3>4. ServeInv'
      BY <2>12 DEF StopReleases, LetGo, HoldInv, ServeInv, Serving
    <3> QED BY <3>1, <3>2, <3>3, <3>4
  <2>13. ASSUME NEW c \in Copy, Exit(c) PROVE IInv'
    <3>1. TypeOK'
      BY <2>13 DEF Exit, Gone, RunKind, NoRuns
    <3>2. HoldInv'
      BY <2>13 DEF Exit, Gone, HoldInv, ServeInv, Serving
    <3>3. LockInv'
      BY <2>13 DEF Exit, Gone, HoldInv
    <3>4. ServeInv'
      BY <2>13 DEF Exit, Gone, HoldInv, ServeInv, Serving
    <3> QED BY <3>1, <3>2, <3>3, <3>4
  <2>14. ASSUME NEW c \in Copy, Shutdown(c) PROVE IInv'
    <3>1. TypeOK'
      BY <2>14 DEF Shutdown, RunKind, NoRuns
    <3>2. HoldInv'
      BY <2>14 DEF Shutdown, HoldInv, ServeInv, Serving
    <3>3. LockInv'
      BY <2>14 DEF Shutdown, HoldInv
    <3>4. ServeInv'
      BY <2>14 DEF Shutdown, HoldInv, ServeInv, Serving
    <3> QED BY <3>1, <3>2, <3>3, <3>4
  <2>15. ASSUME NEW c \in Copy, Crash(c) PROVE IInv'
    <3>1. TypeOK'
      <4>1. NoRuns \in [RunKind -> Nat]
        BY DEF NoRuns
      <4>2. depth' \in Nat /\ faults' \in Nat
        BY <2>15 DEF Crash, Gone, Fault
      <4> QED BY <4>1, <2>15, <4>2 DEF Crash, Gone, Fault
    <3>2. HoldInv'
      BY <2>15 DEF Crash, Gone, Fault, HoldInv, ServeInv, Serving
    <3>3. LockInv'
      BY <2>15 DEF Crash, Gone, Fault, HoldInv
    <3>4. ServeInv'
      BY <2>15 DEF Crash, Gone, Fault, HoldInv, ServeInv, Serving
    <3> QED BY <3>1, <3>2, <3>3, <3>4
  <2>16. ASSUME NEW c \in Copy, Cut(c) PROVE IInv'
    <3>1. TypeOK'
      <4>2. depth' \in Nat /\ faults' \in Nat
        BY <2>16 DEF Cut, Fault
      <4> QED BY <2>16, <4>2 DEF Cut, Fault
    <3>2. HoldInv'
      BY <2>16 DEF Cut, Fault, HoldInv, ServeInv, Serving
    <3>3. LockInv'
      BY <2>16 DEF Cut, Fault, HoldInv
    <3>4. ServeInv'
      BY <2>16 DEF Cut, Fault, HoldInv, ServeInv, Serving
    <3> QED BY <3>1, <3>2, <3>3, <3>4
  <2>17. ASSUME NEW c \in Copy, QueryFails(c) PROVE IInv'
    <3>1. TypeOK'
      <4>2. depth' \in Nat /\ faults' \in Nat
        BY <2>17 DEF QueryFails, Fault
      <4> QED BY <2>17, <4>2 DEF QueryFails, Fault
    <3>2. HoldInv'
      BY <2>17 DEF QueryFails, Fault, HoldInv, ServeInv, Serving
    <3>3. LockInv'
      BY <2>17 DEF QueryFails, Fault, HoldInv
    <3>4. ServeInv'
      BY <2>17 DEF QueryFails, Fault, HoldInv, ServeInv, Serving
    <3> QED BY <3>1, <3>2, <3>3, <3>4
  <2>18. ASSUME NEW c \in Copy, Fire(c) PROVE IInv'
    <3>1. TypeOK'
      BY <2>18 DEF Fire, KindNow, RunKind, NoRuns
    <3>2. HoldInv'
      BY <2>18 DEF Fire, KindNow, HoldInv, ServeInv, Serving
    <3>3. LockInv'
      BY <2>18 DEF Fire, KindNow, HoldInv
    <3>4. ServeInv'
      BY <2>18 DEF Fire, KindNow, HoldInv, ServeInv, Serving
    <3> QED BY <3>1, <3>2, <3>3, <3>4
  <2>19. ASSUME NEW c \in Copy, NEW k \in RunKind, RunEnds(c, k) PROVE IInv'
    <3>1. TypeOK'
      BY <2>19 DEF RunEnds, RunKind, NoRuns
    <3>2. HoldInv'
      BY <2>19 DEF RunEnds, HoldInv, ServeInv, Serving
    <3>3. LockInv'
      BY <2>19 DEF RunEnds, HoldInv
    <3>4. ServeInv'
      BY <2>19 DEF RunEnds, HoldInv, ServeInv, Serving
    <3> QED BY <3>1, <3>2, <3>3, <3>4
  <2> QED
    BY <1>2, <2>1, <2>2, <2>3, <2>4, <2>5, <2>6, <2>7, <2>8, <2>9, <2>10, <2>11, <2>12, <2>13,
       <2>14, <2>15, <2>16, <2>17, <2>18, <2>19 DEF Next, Progress
<1> QED BY <1>1, <1>2

\* The connection, the check and the leadership of every copy, and the lock's
\* own record, keep their types whatever the copies and the server do.
THEOREM TypeCorrect == Spec => []TypeOK
<1>1. IInv => TypeOK
  BY DEF IInv
<1> QED BY InitInv, NextInv, <1>1, PTL DEF Spec

\* Two copies that lead are never both serving on a live connection with no
\* verdict outstanding.
THEOREM LeadershipIsExclusive == Spec => []SoleLeader
<1>1. IInv => SoleLeader
  BY DEF IInv, SoleLeader, Disturbed, HoldInv, ServeInv, Serving, TypeOK, Conn, Check, Owns
<1> QED BY InitInv, NextInv, <1>1, PTL DEF Spec

\* No session that goes back to the pool takes the lock with it.
THEOREM LockIsNeverStranded == Spec => []LockNotStranded
<1>1. IInv => LockNotStranded
  BY DEF IInv, LockInv
<1> QED BY InitInv, NextInv, <1>1, PTL DEF Spec

-----------------------------------------------------------------------------
\* Until the first fault an elected leader, and a copy whose elected runs are still
\* in flight, owns the lock, and the lock is only let go after the drain.
CleanInv ==
  clean => \A c \in Copy :
    /\ conn[c] \notin {"cut", "dead"}
    /\ chk[c] # "unlocking"
    /\ chk[c] = "failed" => phase[c] \in {"unlocking", "released"}
    /\ phase[c] = "down" => ~leader[c]
    /\ phase[c] \in {"down", "unlocking", "released"} => runs[c]["elected"] = 0
    /\ Serving(c) /\ (leader[c] \/ chk[c] = "held") => Owns(c)
    /\ runs[c]["elected"] > 0 => Owns(c)

\* Every step preserves it; a fault, or a drain that gave up, ends what it speaks of.
LEMMA CleanNext == IInv /\ CleanInv /\ [Next]_vars => CleanInv'
<1> SUFFICES ASSUME IInv, CleanInv, [Next]_vars, clean' PROVE CleanInv'
  BY DEF CleanInv
<1> USE CopyAssumption DEF IInv, TypeOK, HoldInv, ServeInv, LockInv, LockNotStranded, CleanInv,
        Phase, Check, Conn, RunKind, lockVars, Owns, Serving
<1>1. CASE UNCHANGED vars
  BY <1>1 DEF vars, copyVars
<1>2. ASSUME BackendEnds PROVE CleanInv'
  BY <1>2 DEF BackendEnds, copyVars
<1>3. ASSUME NEW c \in Copy, Boot(c) PROVE CleanInv'
  BY <1>3 DEF Boot, NoRuns
<1>4. ASSUME NEW c \in Copy, Ask(c) PROVE CleanInv'
  BY <1>4 DEF Ask, Question
<1>5. ASSUME NEW c \in Copy, Connected(c) PROVE CleanInv'
  BY <1>5 DEF Connected, Question
<1>6. ASSUME NEW c \in Copy, Serve(c) PROVE CleanInv'
  BY <1>6 DEF Serve
<1>7. ASSUME NEW c \in Copy, Verdict(c) PROVE CleanInv'
  BY <1>7 DEF Verdict, Booted
<1>8. ASSUME NEW c \in Copy, Failed(c) PROVE CleanInv'
  BY <1>8 DEF Failed, Booted, NoRunner
<1>9. ASSUME NEW c \in Copy, CheckReleases(c) PROVE CleanInv'
  BY <1>9 DEF CheckReleases
<1>10. ASSUME NEW c \in Copy, Notice(c) PROVE CleanInv'
  BY <1>10 DEF Notice
<1>11. ASSUME NEW c \in Copy, DrainDone(c) PROVE CleanInv'
  BY <1>11 DEF DrainDone, StartRelease, NoRunner, Awaited
<1>12. ASSUME NEW c \in Copy, DrainTimesOut(c) PROVE CleanInv'
  BY <1>12 DEF DrainTimesOut
<1>13. ASSUME NEW c \in Copy, StopReleases(c) PROVE CleanInv'
  BY <1>13 DEF StopReleases, LetGo
<1>14. ASSUME NEW c \in Copy, Exit(c) PROVE CleanInv'
  BY <1>14 DEF Exit, Gone, NoRuns
<1>15. ASSUME NEW c \in Copy, Shutdown(c) PROVE CleanInv'
  BY <1>15 DEF Shutdown
<1>16. ASSUME NEW c \in Copy, Crash(c) \/ Cut(c) \/ QueryFails(c) PROVE CleanInv'
  BY <1>16 DEF Crash, Cut, QueryFails, Fault
<1>17. ASSUME NEW c \in Copy, Fire(c) PROVE CleanInv'
  BY <1>17 DEF Fire, KindNow, Stopping
<1>18. ASSUME NEW c \in Copy, NEW k \in RunKind, RunEnds(c, k) PROVE CleanInv'
  BY <1>18 DEF RunEnds
<1> QED
  BY <1>1, <1>2, <1>3, <1>4, <1>5, <1>6, <1>7, <1>8, <1>9, <1>10, <1>11, <1>12, <1>13,
     <1>14, <1>15, <1>16, <1>17, <1>18 DEF Next, Progress

\* Without a fault and without an overrun drain, the runs that two copies started as
\* leaders are never in flight together: each would own the one lock.
THEOREM HandoverIsClean == Spec => []CleanHandover
<1>1. Init => CleanInv
  <2> SUFFICES ASSUME Init, NEW c \in Copy
               PROVE  /\ phase[c] = "down" /\ chk[c] = "idle" /\ conn[c] = "none" /\ ~leader[c]
                      /\ runs[c]["elected"] = 0 /\ ~(runs[c]["elected"] > 0)
    BY Zenon DEF CleanInv, Serving
  <2>1. phase[c] = "down" /\ chk[c] = "idle" /\ conn[c] = "none" /\ ~leader[c]
    BY DEF Init
  <2>2. runs[c]["elected"] = 0
    BY DEF Init, NoRuns, RunKind
  <2> QED
    BY <2>1, <2>2
<1>2. IInv /\ CleanInv => CleanHandover
  BY CopyAssumption DEF IInv, TypeOK, RunKind, CleanInv, CleanHandover, Owns
<1> QED
  BY InitInv, NextInv, CleanNext, <1>1, <1>2, PTL DEF Spec
=============================================================================
