-------------------------- MODULE VolumePauseProofs --------------------------
(***************************************************************************)
(* Without the faults the code does not answer, a stopped application is   *)
(* marked, a pause in use is left alone and what is recorded as a copy at  *)
(* rest was one, for any number of copies, of APIs and of failures.        *)
(***************************************************************************)
EXTENDS VolumePause, TLAPS

Up(c) == copy[c].home \in Api /\ api[copy[c].home] = "up"
Owns(c) ==
  \/ pc[c] \in {"mark", "scaleDown", "wait"}
  \/ copy[c].ours /\ pc[c] \in {"copy", "follow"} \cup Releasing
Pauses(c) ==
  pc[c] = "scaleDown" \/ (copy[c].ours /\ pc[c] \in {"wait", "copy", "follow"})

\* What a copy knows follows from where it stands.
CopiesKnow ==
  \A c \in Copy :
    /\ pc[c] \in {"idle", "over"} => copy[c] = NoCopy
    /\ pc[c] \notin {"idle", "over"} => copy[c].home \in Api /\ api[copy[c].home] # "down"
    /\ pc[c] \in {"check", "inspect", "mark", "scaleDown"} => copy[c] = CopyOf(copy[c].home)
    /\ pc[c] = "wait" => copy[c].ours /\ ~copy[c].claim /\ ~copy[c].torn
    /\ pc[c] \in Releasing \/ copy[c].claim => copy[c].ours
    /\ pc[c] # "list"
\* One copy at a time pauses, and nobody releases under it.
OnePause == \A c, d \in Copy : Owns(c) /\ Owns(d) => c = d
PauseHolds ==
  \A c \in Copy : Up(c) /\ Pauses(c) =>
    /\ mark = [by |-> copy[c].home, stale |-> FALSE]
    /\ \A x \in Actor : pc[x] \notin Releasing
    /\ pc[c] # "scaleDown" => ~scaled
    /\ pc[c] \in {"copy", "follow"} => ~pods
\* A sweep spares every API that has a copy under way.
SweepsSpare == \A a \in Api, c \in Copy : pc[a] = "list" /\ Up(c) => copy[c].home \in spared[a]
\* The mark goes only from a workload that is up.
ClearedIsUp == \A x \in Actor : pc[x] = "clear" => scaled
ClaimsHold == \A c \in Copy : Up(c) /\ copy[c].claim => ~copy[c].torn

IInv == /\ TypeOK /\ CopiesKnow /\ OnePause /\ PauseHolds /\ SweepsSpare /\ ClearedIsUp
        /\ ClaimsHold /\ StoppedIsMarked /\ RecordedAtRest

-----------------------------------------------------------------------------
\* What every leaf below may expand: the vocabulary of the module and the
\* parts of the invariant.
USE DEF TypeOK, CopiesKnow, OnePause, PauseHolds, SweepsSpare, ClearedIsUp, ClaimsHold,
        StoppedIsMarked, RecordedAtRest, Up, Owns, Pauses, Taking, Releasing, PC, Mark,
        NoMark, CopyOf, NoCopy, Actor, Works, At, Goto, Over, CopyOnly, ReleaseOnly,
        SweepOnly, workload, Spend, Held, Listed, Releases, Stay, SweepEnds, BeginSweep,
        Alive, Releasable

\* What a copy may know stays so when one part of it is set.
LEMMA CopyTypes ==
  ASSUME TypeOK
  PROVE  /\ NoCopy \in CopyType
         /\ \A c \in Copy : copy[c] \in CopyType
         /\ \A k \in CopyType, b \in BOOLEAN :
              /\ [k EXCEPT !.ours = b] \in CopyType /\ [k EXCEPT !.claim = b] \in CopyType
              /\ [k EXCEPT !.done = b] \in CopyType /\ [k EXCEPT !.torn = b] \in CopyType
BY DEF CopyType

\* A step of one copy, value by value.
Moved(c, where, now) ==
  /\ pc' \in [Actor -> PC] /\ copy' \in [Copy -> CopyType]
  /\ pc'[c] = where /\ copy'[c] = now
  /\ \A x \in Actor \ {c} : pc'[x] = pc[x]
  /\ \A d \in Copy \ {c} : copy'[d] = copy[d]

\* The same, by the parts the invariant speaks of.
Steps(c, where, ours, claim) ==
  /\ pc' \in [Actor -> PC] /\ copy' \in [Copy -> CopyType]
  /\ pc'[c] = where
  /\ copy'[c].home = copy[c].home /\ copy'[c].torn = copy[c].torn
  /\ copy'[c].ours = ours /\ copy'[c].claim = claim
  /\ \A x \in Actor \ {c} : pc'[x] = pc[x]
  /\ \A d \in Copy \ {c} : copy'[d] = copy[d]
Keeps(c, where) == Steps(c, where, copy[c].ours, copy[c].claim)

LEMMA Moves ==
  ASSUME TypeOK, NEW c \in Copy, NEW where \in PC, NEW now \in CopyType, Move(c, where, now)
  PROVE  Moved(c, where, now)
BY DEF Move, Moved

LEMMA Keepings ==
  ASSUME TypeOK, NEW c \in Copy, NEW where \in PC,
         \/ Moved(c, where, copy[c])
         \/ \E b \in BOOLEAN : Moved(c, where, [copy[c] EXCEPT !.done = b])
  PROVE  Keeps(c, where)
<1>1. copy[c] \in CopyType
  BY CopyTypes
<1> QED  BY <1>1 DEF Moved, Keeps, Steps, CopyType

\* The ways a copy ends, and the ways a release does.
LEMMA Finishes ==
  ASSUME TypeOK, NEW c \in Copy, NEW done \in BOOLEAN, Finally(c, done)
  PROVE  \/ copy[c].ours /\ Keeps(c, "read")
         \/ ~copy[c].ours /\ done /\ Keeps(c, "record")
         \/ ~copy[c].ours /\ Moved(c, "over", NoCopy)
<1>1. NoCopy \in CopyType /\ [copy[c] EXCEPT !.done = done] \in CopyType
      /\ [copy[c] EXCEPT !.done = TRUE] \in CopyType
  BY CopyTypes
<1> HIDE DEF NoCopy
<1>2. CASE copy[c].ours
  <2>1. Move(c, "read", [copy[c] EXCEPT !.done = done])
    BY <1>2 DEF Finally
  <2> QED  BY <1>1, <1>2, <2>1, Moves, Keepings
<1>3. CASE ~copy[c].ours /\ done
  <2>1. Move(c, "record", [copy[c] EXCEPT !.done = TRUE])
    BY <1>3 DEF Finally
  <2> QED  BY <1>1, <1>3, <2>1, Moves, Keepings
<1>4. CASE ~copy[c].ours /\ ~done
  <2>1. Move(c, "over", NoCopy)
    BY <1>4 DEF Finally
  <2> QED  BY <1>1, <1>4, <2>1, Moves
<1> QED  BY <1>2, <1>3, <1>4

LEMMA Leaves ==
  ASSUME TypeOK, NEW x \in Actor, Leave(x)
  PROVE  \/ x \in Api /\ SweepEnds(x) /\ UNCHANGED copy
         \/ x \in Copy /\ copy[x].done /\ Keeps(x, "record") /\ UNCHANGED spared
         \/ x \in Copy /\ Moved(x, "over", NoCopy) /\ UNCHANGED spared
<1>1. CASE x \in Api
  BY <1>1 DEF Leave
<1>2. CASE x \in Copy /\ x \notin Api
  <2>1. NoCopy \in CopyType /\ copy[x] \in CopyType
    BY <1>2, CopyTypes
  <2> HIDE DEF NoCopy
  <2>2. UNCHANGED spared
    BY <1>2 DEF Leave
  <2>3. CASE copy[x].done
    <3>1. Move(x, "record", copy[x])
      BY <1>2, <2>3 DEF Leave
    <3> QED  BY <1>2, <2>1, <2>2, <2>3, <3>1, Moves, Keepings
  <2>4. CASE ~copy[x].done
    <3>1. Move(x, "over", NoCopy)
      BY <1>2, <2>4 DEF Leave
    <3> QED  BY <1>2, <2>1, <2>2, <3>1, Moves
  <2> QED  BY <2>3, <2>4
<1> QED  BY <1>1, <1>2

-----------------------------------------------------------------------------
LEMMA AskKeeps ==
  ASSUME IInv, Faults = {}, NEW c \in Copy, NEW a \in Api, Ask(c, a)
  PROVE  IInv'
<1> USE ActorAssumption, BoundAssumption DEF IInv, Ask, Move, CopyType
<1>1. TypeOK'
  OBVIOUS
<1>2. CopiesKnow'
  OBVIOUS
<1>3. OnePause'
  OBVIOUS
<1>4. PauseHolds'
  OBVIOUS
<1>5. SweepsSpare'
  OBVIOUS
<1>6. ClearedIsUp'
  OBVIOUS
<1>7. ClaimsHold'
  OBVIOUS
<1>8. StoppedIsMarked' /\ RecordedAtRest'
  OBVIOUS
<1> QED  BY <1>1, <1>2, <1>3, <1>4, <1>5, <1>6, <1>7, <1>8

LEMMA CheckKeeps ==
  ASSUME IInv, Faults = {}, NEW c \in Copy, Check(c)
  PROVE  IInv'
<1> USE ActorAssumption, BoundAssumption DEF IInv, Check, Move, CopyType
<1>1. TypeOK'
  OBVIOUS
<1>2. CopiesKnow'
  OBVIOUS
<1>3. OnePause'
  OBVIOUS
<1>4. PauseHolds'
  OBVIOUS
<1>5. SweepsSpare'
  OBVIOUS
<1>6. ClearedIsUp'
  OBVIOUS
<1>7. ClaimsHold'
  OBVIOUS
<1>8. StoppedIsMarked' /\ RecordedAtRest'
  OBVIOUS
<1> QED  BY <1>1, <1>2, <1>3, <1>4, <1>5, <1>6, <1>7, <1>8

LEMMA InspectKeeps ==
  ASSUME IInv, Faults = {}, NEW c \in Copy, Inspect(c)
  PROVE  IInv'
<1> USE ActorAssumption, BoundAssumption DEF IInv
<1>1. NoCopy \in CopyType /\ copy[c] \in CopyType
  BY CopyTypes
<1>2. pc[c] = "inspect" /\ UNCHANGED <<api, scaled, mark, pods, job, ledger, spared, budget>>
  BY DEF Inspect
<1>3. CASE Over(c)
  <2>1. Moved(c, "over", NoCopy)
    BY <1>1, <1>3, Moves
  <2>2. TypeOK'
    BY <1>2, <2>1 DEF Moved
  <2>3. CopiesKnow'
    BY <1>2, <2>1 DEF Moved
  <2>4. OnePause'
    BY <1>2, <2>1 DEF Moved
  <2>5. PauseHolds'
    BY <1>2, <2>1 DEF Moved
  <2>6. SweepsSpare'
    BY <1>2, <2>1 DEF Moved
  <2>7. ClearedIsUp'
    BY <1>2, <2>1 DEF Moved
  <2>8. ClaimsHold'
    BY <1>2, <2>1 DEF Moved
  <2>9. StoppedIsMarked' /\ RecordedAtRest'
    BY <1>2, <2>1 DEF Moved
  <2> QED  BY <2>2, <2>3, <2>4, <2>5, <2>6, <2>7, <2>8, <2>9
<1>4. CASE ~Over(c)
  <2>1. scaled /\ \A d \in Copy \ {c} : pc[d] \notin Taking \cup Releasing
    BY <1>4 DEF Inspect
  <2>2. Move(c, "mark", copy[c])
    BY <1>4, <2>1 DEF Inspect
  <2>3. Moved(c, "mark", copy[c])
    BY <1>1, <2>2, Moves
  <2>4. TypeOK'
    BY <1>2, <2>1, <2>3 DEF Moved
  <2>5. CopiesKnow'
    BY <1>2, <2>1, <2>3 DEF Moved
  <2>6. OnePause'
    BY <1>2, <2>1, <2>3 DEF Moved
  <2>7. PauseHolds'
    BY <1>2, <2>1, <2>3 DEF Moved
  <2>8. SweepsSpare'
    BY <1>2, <2>1, <2>3 DEF Moved
  <2>9. ClearedIsUp'
    BY <1>2, <2>1, <2>3 DEF Moved
  <2>10. ClaimsHold'
    BY <1>2, <2>1, <2>3 DEF Moved
  <2>11. StoppedIsMarked' /\ RecordedAtRest'
    BY <1>2, <2>1, <2>3 DEF Moved
  <2> QED  BY <2>4, <2>5, <2>6, <2>7, <2>8, <2>9, <2>10, <2>11
<1> QED  BY <1>3, <1>4

LEMMA TakeMarkKeeps ==
  ASSUME IInv, Faults = {}, NEW c \in Copy, TakeMark(c)
  PROVE  IInv'
<1> USE ActorAssumption, BoundAssumption DEF IInv, TakeMark, Move
<1>1. TypeOK'
  OBVIOUS
<1>2. CopiesKnow'
  OBVIOUS
<1>3. OnePause'
  OBVIOUS
<1>4. PauseHolds'
  OBVIOUS
<1>5. SweepsSpare'
  OBVIOUS
<1>6. ClearedIsUp'
  OBVIOUS
<1>7. ClaimsHold'
  OBVIOUS
<1>8. StoppedIsMarked' /\ RecordedAtRest'
  OBVIOUS
<1> QED  BY <1>1, <1>2, <1>3, <1>4, <1>5, <1>6, <1>7, <1>8

LEMMA ScaleDownKeeps ==
  ASSUME IInv, Faults = {}, NEW c \in Copy, ScaleDown(c)
  PROVE  IInv'
<1> USE ActorAssumption, BoundAssumption DEF IInv
<1>1. [copy[c] EXCEPT !.ours = TRUE] \in CopyType
  BY CopyTypes
<1>2. pc[c] = "scaleDown" /\ Up(c) /\ scaled' = FALSE
      /\ UNCHANGED <<api, mark, pods, job, ledger, spared, budget>>
  BY DEF ScaleDown
<1>3. Moved(c, "wait", [copy[c] EXCEPT !.ours = TRUE])
  BY <1>1, Moves DEF ScaleDown
<1>4. Steps(c, "wait", TRUE, copy[c].claim)
  BY <1>2, <1>3 DEF Moved, Steps, CopyType
<1>5. TypeOK'
  BY <1>2, <1>4 DEF Steps
<1>6. CopiesKnow'
  BY <1>2, <1>4 DEF Steps
<1>7. OnePause'
  BY <1>2, <1>4 DEF Steps
<1>8. PauseHolds'
  BY <1>2, <1>4 DEF Steps
<1>9. SweepsSpare'
  BY <1>2, <1>4 DEF Steps
<1>10. ClearedIsUp'
  BY <1>2, <1>4 DEF Steps
<1>11. ClaimsHold'
  BY <1>2, <1>4 DEF Steps
<1>12. StoppedIsMarked' /\ RecordedAtRest'
  BY <1>2, <1>4 DEF Steps
<1> QED  BY <1>5, <1>6, <1>7, <1>8, <1>9, <1>10, <1>11, <1>12

LEMMA WaitKeeps ==
  ASSUME IInv, Faults = {}, NEW c \in Copy, Wait(c)
  PROVE  IInv'
<1> USE ActorAssumption, BoundAssumption DEF IInv
<1>1. [copy[c] EXCEPT !.claim = TRUE] \in CopyType
  BY CopyTypes
<1>2. pc[c] = "wait" /\ Up(c) /\ ~pods
      /\ UNCHANGED <<api, scaled, mark, pods, job, ledger, spared, budget>>
  BY DEF Wait
<1>3. Moved(c, "copy", [copy[c] EXCEPT !.claim = TRUE])
  BY <1>1, Moves DEF Wait
<1>4. Steps(c, "copy", TRUE, TRUE)
  BY <1>2, <1>3 DEF Moved, Steps, CopyType
<1>5. TypeOK'
  BY <1>2, <1>4 DEF Steps
<1>6. CopiesKnow'
  BY <1>2, <1>4 DEF Steps
<1>7. OnePause'
  BY <1>2, <1>4 DEF Steps
<1>8. PauseHolds'
  BY <1>2, <1>4 DEF Steps
<1>9. SweepsSpare'
  BY <1>2, <1>4 DEF Steps
<1>10. ClearedIsUp'
  BY <1>2, <1>4 DEF Steps
<1>11. ClaimsHold'
  BY <1>2, <1>4 DEF Steps
<1>12. StoppedIsMarked' /\ RecordedAtRest'
  BY <1>2, <1>4 DEF Steps
<1> QED  BY <1>5, <1>6, <1>7, <1>8, <1>9, <1>10, <1>11, <1>12

LEMMA AcquireFailsKeeps ==
  ASSUME IInv, Faults = {}, NEW c \in Copy, AcquireFails(c)
  PROVE  IInv'
<1> USE ActorAssumption, BoundAssumption DEF IInv
<1>1. Moved(c, "over", NoCopy)
  BY CopyTypes, Moves DEF AcquireFails
<1>2. budget' \in [{"failures", "restarts"} -> Nat]
      /\ UNCHANGED <<api, mark, pods, job, ledger, spared>>
  BY DEF AcquireFails
<1>3. /\ pc[c] \in {"mark", "wait", "scaleDown"}
      /\ \/ scaled' = scaled
         \/ /\ pc[c] = "scaleDown" /\ scaled' = FALSE /\ mark # NoMark
            /\ \A x \in Actor : pc[x] \notin Releasing
  <2>1. CASE pc[c] \in {"mark", "wait"} /\ UNCHANGED scaled
    BY <2>1
  <2>2. CASE pc[c] = "scaleDown" /\ Works(c) /\ scaled' \in {scaled, FALSE}
    <3>1. mark = [by |-> copy[c].home, stale |-> FALSE] /\ copy[c].home \in Api
      BY <2>2
    <3> QED  BY <2>2, <3>1
  <2> QED  BY <2>1, <2>2 DEF AcquireFails
<1>4. TypeOK'
  BY <1>1, <1>2, <1>3 DEF Moved
<1>5. CopiesKnow'
  BY <1>1, <1>2, <1>3 DEF Moved
<1>6. OnePause'
  BY <1>1, <1>2, <1>3 DEF Moved
<1>7. PauseHolds'
  BY <1>1, <1>2, <1>3 DEF Moved
<1>8. SweepsSpare'
  BY <1>1, <1>2, <1>3 DEF Moved
<1>9. ClearedIsUp'
  BY <1>1, <1>2, <1>3 DEF Moved
<1>10. ClaimsHold'
  BY <1>1, <1>2, <1>3 DEF Moved
<1>11. StoppedIsMarked' /\ RecordedAtRest'
  BY <1>1, <1>2, <1>3 DEF Moved
<1> QED  BY <1>4, <1>5, <1>6, <1>7, <1>8, <1>9, <1>10, <1>11

LEMMA StartJobKeeps ==
  ASSUME IInv, Faults = {}, NEW c \in Copy, StartJob(c)
  PROVE  IInv'
<1> USE ActorAssumption, BoundAssumption DEF IInv, StartJob, Move, CopyType
<1>1. TypeOK'
  OBVIOUS
<1>2. CopiesKnow'
  OBVIOUS
<1>3. OnePause'
  OBVIOUS
<1>4. PauseHolds'
  OBVIOUS
<1>5. SweepsSpare'
  OBVIOUS
<1>6. ClearedIsUp'
  OBVIOUS
<1>7. ClaimsHold'
  OBVIOUS
<1>8. StoppedIsMarked' /\ RecordedAtRest'
  OBVIOUS
<1> QED  BY <1>1, <1>2, <1>3, <1>4, <1>5, <1>6, <1>7, <1>8

LEMMA JobFollowedKeeps ==
  ASSUME IInv, Faults = {}, NEW c \in Copy, JobFollowed(c)
  PROVE  IInv'
<1> USE ActorAssumption, BoundAssumption DEF IInv
<1>1. pc[c] = "follow" /\ UNCHANGED <<api, scaled, mark, pods, job, ledger, spared>>
      /\ budget' \in [{"failures", "restarts"} -> Nat]
  BY DEF JobFollowed
<1>2. PICK done \in BOOLEAN : Finally(c, done)
  BY DEF JobFollowed
<1>3. CASE copy[c].ours /\ Keeps(c, "read")
  <2>1. TypeOK'
    BY <1>1, <1>3 DEF Keeps, Steps
  <2>2. CopiesKnow'
    <3>1. copy'[c].ours /\ copy'[c].home \in Api /\ api'[copy'[c].home] # "down"
      BY <1>1, <1>3 DEF Keeps, Steps
    <3> QED  BY <1>1, <1>3, <3>1 DEF Keeps, Steps
  <2>3. OnePause'
    BY <1>1, <1>3 DEF Keeps, Steps
  <2>4. PauseHolds'
    BY <1>1, <1>3 DEF Keeps, Steps
  <2>5. SweepsSpare'
    BY <1>1, <1>3 DEF Keeps, Steps
  <2>6. ClearedIsUp'
    BY <1>1, <1>3 DEF Keeps, Steps
  <2>7. ClaimsHold'
    BY <1>1, <1>3 DEF Keeps, Steps
  <2>8. StoppedIsMarked' /\ RecordedAtRest'
    BY <1>1, <1>3 DEF Keeps, Steps
  <2> QED  BY <2>1, <2>2, <2>3, <2>4, <2>5, <2>6, <2>7, <2>8
<1>4. CASE ~copy[c].ours /\ done /\ Keeps(c, "record")
  <2>1. TypeOK'
    BY <1>1, <1>4 DEF Keeps, Steps
  <2>2. CopiesKnow'
    BY <1>1, <1>4 DEF Keeps, Steps
  <2>3. OnePause'
    BY <1>1, <1>4 DEF Keeps, Steps
  <2>4. PauseHolds'
    BY <1>1, <1>4 DEF Keeps, Steps
  <2>5. SweepsSpare'
    BY <1>1, <1>4 DEF Keeps, Steps
  <2>6. ClearedIsUp'
    BY <1>1, <1>4 DEF Keeps, Steps
  <2>7. ClaimsHold'
    BY <1>1, <1>4 DEF Keeps, Steps
  <2>8. StoppedIsMarked' /\ RecordedAtRest'
    BY <1>1, <1>4 DEF Keeps, Steps
  <2> QED  BY <2>1, <2>2, <2>3, <2>4, <2>5, <2>6, <2>7, <2>8
<1>5. CASE ~copy[c].ours /\ Moved(c, "over", NoCopy)
  <2>1. TypeOK'
    BY <1>1, <1>5 DEF Moved
  <2>2. CopiesKnow'
    BY <1>1, <1>5 DEF Moved
  <2>3. OnePause'
    BY <1>1, <1>5 DEF Moved
  <2>4. PauseHolds'
    BY <1>1, <1>5 DEF Moved
  <2>5. SweepsSpare'
    BY <1>1, <1>5 DEF Moved
  <2>6. ClearedIsUp'
    BY <1>1, <1>5 DEF Moved
  <2>7. ClaimsHold'
    BY <1>1, <1>5 DEF Moved
  <2>8. StoppedIsMarked' /\ RecordedAtRest'
    BY <1>1, <1>5 DEF Moved
  <2> QED  BY <2>1, <2>2, <2>3, <2>4, <2>5, <2>6, <2>7, <2>8
<1> QED  BY <1>2, <1>3, <1>4, <1>5, Finishes

LEMMA CopyFailsKeeps ==
  ASSUME IInv, Faults = {}, NEW c \in Copy, CopyFails(c)
  PROVE  IInv'
<1> USE ActorAssumption, BoundAssumption DEF IInv
<1>1. pc[c] \in {"copy", "follow"} /\ UNCHANGED <<api, scaled, mark, pods, job, ledger, spared>>
      /\ budget' \in [{"failures", "restarts"} -> Nat]
  BY DEF CopyFails
<1>2. PICK done \in BOOLEAN : Finally(c, done)
  BY DEF CopyFails
<1>3. CASE copy[c].ours /\ Keeps(c, "read")
  <2>1. TypeOK'
    BY <1>1, <1>3 DEF Keeps, Steps
  <2>2. CopiesKnow'
    <3>1. copy'[c].ours /\ copy'[c].home \in Api /\ api'[copy'[c].home] # "down"
      BY <1>1, <1>3 DEF Keeps, Steps
    <3> QED  BY <1>1, <1>3, <3>1 DEF Keeps, Steps
  <2>3. OnePause'
    BY <1>1, <1>3 DEF Keeps, Steps
  <2>4. PauseHolds'
    BY <1>1, <1>3 DEF Keeps, Steps
  <2>5. SweepsSpare'
    BY <1>1, <1>3 DEF Keeps, Steps
  <2>6. ClearedIsUp'
    BY <1>1, <1>3 DEF Keeps, Steps
  <2>7. ClaimsHold'
    BY <1>1, <1>3 DEF Keeps, Steps
  <2>8. StoppedIsMarked' /\ RecordedAtRest'
    BY <1>1, <1>3 DEF Keeps, Steps
  <2> QED  BY <2>1, <2>2, <2>3, <2>4, <2>5, <2>6, <2>7, <2>8
<1>4. CASE ~copy[c].ours /\ done /\ Keeps(c, "record")
  <2>1. TypeOK'
    BY <1>1, <1>4 DEF Keeps, Steps
  <2>2. CopiesKnow'
    BY <1>1, <1>4 DEF Keeps, Steps
  <2>3. OnePause'
    BY <1>1, <1>4 DEF Keeps, Steps
  <2>4. PauseHolds'
    BY <1>1, <1>4 DEF Keeps, Steps
  <2>5. SweepsSpare'
    BY <1>1, <1>4 DEF Keeps, Steps
  <2>6. ClearedIsUp'
    BY <1>1, <1>4 DEF Keeps, Steps
  <2>7. ClaimsHold'
    BY <1>1, <1>4 DEF Keeps, Steps
  <2>8. StoppedIsMarked' /\ RecordedAtRest'
    BY <1>1, <1>4 DEF Keeps, Steps
  <2> QED  BY <2>1, <2>2, <2>3, <2>4, <2>5, <2>6, <2>7, <2>8
<1>5. CASE ~copy[c].ours /\ Moved(c, "over", NoCopy)
  <2>1. TypeOK'
    BY <1>1, <1>5 DEF Moved
  <2>2. CopiesKnow'
    BY <1>1, <1>5 DEF Moved
  <2>3. OnePause'
    BY <1>1, <1>5 DEF Moved
  <2>4. PauseHolds'
    BY <1>1, <1>5 DEF Moved
  <2>5. SweepsSpare'
    BY <1>1, <1>5 DEF Moved
  <2>6. ClearedIsUp'
    BY <1>1, <1>5 DEF Moved
  <2>7. ClaimsHold'
    BY <1>1, <1>5 DEF Moved
  <2>8. StoppedIsMarked' /\ RecordedAtRest'
    BY <1>1, <1>5 DEF Moved
  <2> QED  BY <2>1, <2>2, <2>3, <2>4, <2>5, <2>6, <2>7, <2>8
<1> QED  BY <1>2, <1>3, <1>4, <1>5, Finishes

LEMMA RecordKeeps ==
  ASSUME IInv, Faults = {}, NEW c \in Copy, Record(c)
  PROVE  IInv'
<1> USE ActorAssumption, BoundAssumption DEF IInv, Record, Move, CopyType
<1>1. TypeOK'
  OBVIOUS
<1>2. CopiesKnow'
  OBVIOUS
<1>3. OnePause'
  OBVIOUS
<1>4. PauseHolds'
  OBVIOUS
<1>5. SweepsSpare'
  OBVIOUS
<1>6. ClearedIsUp'
  OBVIOUS
<1>7. ClaimsHold'
  OBVIOUS
<1>8. StoppedIsMarked' /\ RecordedAtRest'
  OBVIOUS
<1> QED  BY <1>1, <1>2, <1>3, <1>4, <1>5, <1>6, <1>7, <1>8

LEMMA ReadLiveKeeps ==
  ASSUME IInv, Faults = {}, NEW x \in Actor, ReadLive(x)
  PROVE  IInv'
<1> USE ActorAssumption, BoundAssumption DEF IInv
<1>1. pc[x] = "read" /\ UNCHANGED <<scaled, mark, budget>>
      /\ UNCHANGED <<api, pods, job, ledger>>
  BY DEF ReadLive
<1>2. CASE Stay(x, "clear") /\ scaled
  <2>1. TypeOK'
    BY <1>1, <1>2
  <2>2. CopiesKnow'
    BY <1>1, <1>2
  <2>3. OnePause'
    BY <1>1, <1>2
  <2>4. PauseHolds'
    BY <1>1, <1>2
  <2>5. SweepsSpare'
    BY <1>1, <1>2
  <2>6. ClearedIsUp'
    BY <1>1, <1>2
  <2>7. ClaimsHold'
    BY <1>1, <1>2
  <2>8. StoppedIsMarked' /\ RecordedAtRest'
    BY <1>1, <1>2
  <2> QED  BY <2>1, <2>2, <2>3, <2>4, <2>5, <2>6, <2>7, <2>8
<1>3. CASE Stay(x, "scaleUp")
  <2>1. TypeOK'
    BY <1>1, <1>3
  <2>2. CopiesKnow'
    BY <1>1, <1>3
  <2>3. OnePause'
    BY <1>1, <1>3
  <2>4. PauseHolds'
    BY <1>1, <1>3
  <2>5. SweepsSpare'
    BY <1>1, <1>3
  <2>6. ClearedIsUp'
    BY <1>1, <1>3
  <2>7. ClaimsHold'
    BY <1>1, <1>3
  <2>8. StoppedIsMarked' /\ RecordedAtRest'
    BY <1>1, <1>3
  <2> QED  BY <2>1, <2>2, <2>3, <2>4, <2>5, <2>6, <2>7, <2>8
<1>4. CASE x \in Api /\ SweepEnds(x) /\ UNCHANGED copy
  <2>1. TypeOK'
    BY <1>1, <1>4
  <2>2. CopiesKnow'
    BY <1>1, <1>4
  <2>3. OnePause'
    BY <1>1, <1>4
  <2>4. PauseHolds'
    BY <1>1, <1>4
  <2>5. SweepsSpare'
    BY <1>1, <1>4
  <2>6. ClearedIsUp'
    BY <1>1, <1>4
  <2>7. ClaimsHold'
    BY <1>1, <1>4
  <2>8. StoppedIsMarked' /\ RecordedAtRest'
    BY <1>1, <1>4
  <2> QED  BY <2>1, <2>2, <2>3, <2>4, <2>5, <2>6, <2>7, <2>8
<1>5. CASE x \in Copy /\ copy[x].done /\ Keeps(x, "record") /\ UNCHANGED spared
  <2>1. TypeOK'
    BY <1>1, <1>5 DEF Keeps, Steps
  <2>2. CopiesKnow'
    BY <1>1, <1>5 DEF Keeps, Steps
  <2>3. OnePause'
    BY <1>1, <1>5 DEF Keeps, Steps
  <2>4. PauseHolds'
    BY <1>1, <1>5 DEF Keeps, Steps
  <2>5. SweepsSpare'
    BY <1>1, <1>5 DEF Keeps, Steps
  <2>6. ClearedIsUp'
    BY <1>1, <1>5 DEF Keeps, Steps
  <2>7. ClaimsHold'
    BY <1>1, <1>5 DEF Keeps, Steps
  <2>8. StoppedIsMarked' /\ RecordedAtRest'
    BY <1>1, <1>5 DEF Keeps, Steps
  <2> QED  BY <2>1, <2>2, <2>3, <2>4, <2>5, <2>6, <2>7, <2>8
<1>6. CASE x \in Copy /\ Moved(x, "over", NoCopy) /\ UNCHANGED spared
  <2>1. TypeOK'
    BY <1>1, <1>6 DEF Moved
  <2>2. CopiesKnow'
    BY <1>1, <1>6 DEF Moved
  <2>3. OnePause'
    BY <1>1, <1>6 DEF Moved
  <2>4. PauseHolds'
    BY <1>1, <1>6 DEF Moved
  <2>5. SweepsSpare'
    BY <1>1, <1>6 DEF Moved
  <2>6. ClearedIsUp'
    BY <1>1, <1>6 DEF Moved
  <2>7. ClaimsHold'
    BY <1>1, <1>6 DEF Moved
  <2>8. StoppedIsMarked' /\ RecordedAtRest'
    BY <1>1, <1>6 DEF Moved
  <2> QED  BY <2>1, <2>2, <2>3, <2>4, <2>5, <2>6, <2>7, <2>8
<1> QED  BY <1>2, <1>3, <1>4, <1>5, <1>6, Leaves DEF ReadLive

LEMMA ScaleUpKeeps ==
  ASSUME IInv, Faults = {}, NEW x \in Actor, ScaleUp(x)
  PROVE  IInv'
<1> USE ActorAssumption, BoundAssumption DEF IInv, ScaleUp
<1>1. TypeOK'
  OBVIOUS
<1>2. CopiesKnow'
  OBVIOUS
<1>3. OnePause'
  OBVIOUS
<1>4. PauseHolds'
  OBVIOUS
<1>5. SweepsSpare'
  OBVIOUS
<1>6. ClearedIsUp'
  OBVIOUS
<1>7. ClaimsHold'
  OBVIOUS
<1>8. StoppedIsMarked' /\ RecordedAtRest'
  OBVIOUS
<1> QED  BY <1>1, <1>2, <1>3, <1>4, <1>5, <1>6, <1>7, <1>8

LEMMA ClearMarkKeeps ==
  ASSUME IInv, Faults = {}, NEW x \in Actor, ClearMark(x)
  PROVE  IInv'
<1> USE ActorAssumption, BoundAssumption DEF IInv
<1>1. pc[x] = "clear" /\ mark' = NoMark /\ UNCHANGED <<scaled, budget>>
      /\ UNCHANGED <<api, pods, job, ledger>>
  BY DEF ClearMark
<1>4. CASE x \in Api /\ SweepEnds(x) /\ UNCHANGED copy
  <2>1. TypeOK'
    BY <1>1, <1>4
  <2>2. CopiesKnow'
    BY <1>1, <1>4
  <2>3. OnePause'
    BY <1>1, <1>4
  <2>4. PauseHolds'
    BY <1>1, <1>4
  <2>5. SweepsSpare'
    BY <1>1, <1>4
  <2>6. ClearedIsUp'
    BY <1>1, <1>4
  <2>7. ClaimsHold'
    BY <1>1, <1>4
  <2>8. StoppedIsMarked' /\ RecordedAtRest'
    BY <1>1, <1>4
  <2> QED  BY <2>1, <2>2, <2>3, <2>4, <2>5, <2>6, <2>7, <2>8
<1>5. CASE x \in Copy /\ copy[x].done /\ Keeps(x, "record") /\ UNCHANGED spared
  <2>1. TypeOK'
    BY <1>1, <1>5 DEF Keeps, Steps
  <2>2. CopiesKnow'
    BY <1>1, <1>5 DEF Keeps, Steps
  <2>3. OnePause'
    BY <1>1, <1>5 DEF Keeps, Steps
  <2>4. PauseHolds'
    BY <1>1, <1>5 DEF Keeps, Steps
  <2>5. SweepsSpare'
    BY <1>1, <1>5 DEF Keeps, Steps
  <2>6. ClearedIsUp'
    BY <1>1, <1>5 DEF Keeps, Steps
  <2>7. ClaimsHold'
    BY <1>1, <1>5 DEF Keeps, Steps
  <2>8. StoppedIsMarked' /\ RecordedAtRest'
    BY <1>1, <1>5 DEF Keeps, Steps
  <2> QED  BY <2>1, <2>2, <2>3, <2>4, <2>5, <2>6, <2>7, <2>8
<1>6. CASE x \in Copy /\ Moved(x, "over", NoCopy) /\ UNCHANGED spared
  <2>1. TypeOK'
    BY <1>1, <1>6 DEF Moved
  <2>2. CopiesKnow'
    BY <1>1, <1>6 DEF Moved
  <2>3. OnePause'
    BY <1>1, <1>6 DEF Moved
  <2>4. PauseHolds'
    BY <1>1, <1>6 DEF Moved
  <2>5. SweepsSpare'
    BY <1>1, <1>6 DEF Moved
  <2>6. ClearedIsUp'
    BY <1>1, <1>6 DEF Moved
  <2>7. ClaimsHold'
    BY <1>1, <1>6 DEF Moved
  <2>8. StoppedIsMarked' /\ RecordedAtRest'
    BY <1>1, <1>6 DEF Moved
  <2> QED  BY <2>1, <2>2, <2>3, <2>4, <2>5, <2>6, <2>7, <2>8
<1> QED  BY <1>4, <1>5, <1>6, Leaves DEF ClearMark

LEMMA ReleaseFailsKeeps ==
  ASSUME IInv, Faults = {}, NEW x \in Actor, ReleaseFails(x)
  PROVE  IInv'
<1> USE ActorAssumption, BoundAssumption DEF IInv
<1>1. budget' \in [{"failures", "restarts"} -> Nat] /\ UNCHANGED <<api, pods, job, ledger>>
  BY DEF ReleaseFails
<1>2. /\ pc[x] \in Releasing /\ scaled' \in BOOLEAN /\ mark' \in Mark \cup {NoMark}
      /\ scaled' = scaled \/ (pc[x] = "scaleUp" /\ scaled' = TRUE)
      /\ mark' = mark \/ (pc[x] = "clear" /\ mark' = NoMark)
  <2>1. CASE pc[x] = "read" /\ UNCHANGED <<scaled, mark>>
    BY <2>1
  <2>2. CASE pc[x] = "scaleUp" /\ scaled' \in {scaled, TRUE} /\ UNCHANGED mark
    BY <2>2
  <2>3. CASE pc[x] = "clear" /\ mark' \in {mark, NoMark} /\ UNCHANGED scaled
    BY <2>3
  <2> QED  BY <2>1, <2>2, <2>3 DEF ReleaseFails
<1>4. CASE x \in Api /\ SweepEnds(x) /\ UNCHANGED copy
  <2>1. TypeOK'
    BY <1>1, <1>2, <1>4
  <2>2. CopiesKnow'
    BY <1>1, <1>2, <1>4
  <2>3. OnePause'
    BY <1>1, <1>2, <1>4
  <2>4. PauseHolds'
    BY <1>1, <1>2, <1>4
  <2>5. SweepsSpare'
    BY <1>1, <1>2, <1>4
  <2>6. ClearedIsUp'
    BY <1>1, <1>2, <1>4
  <2>7. ClaimsHold'
    BY <1>1, <1>2, <1>4
  <2>8. StoppedIsMarked' /\ RecordedAtRest'
    BY <1>1, <1>2, <1>4
  <2> QED  BY <2>1, <2>2, <2>3, <2>4, <2>5, <2>6, <2>7, <2>8
<1>5. CASE x \in Copy /\ copy[x].done /\ Keeps(x, "record") /\ UNCHANGED spared
  <2>1. TypeOK'
    BY <1>1, <1>2, <1>5 DEF Keeps, Steps
  <2>2. CopiesKnow'
    BY <1>1, <1>2, <1>5 DEF Keeps, Steps
  <2>3. OnePause'
    BY <1>1, <1>2, <1>5 DEF Keeps, Steps
  <2>4. PauseHolds'
    BY <1>1, <1>2, <1>5 DEF Keeps, Steps
  <2>5. SweepsSpare'
    BY <1>1, <1>2, <1>5 DEF Keeps, Steps
  <2>6. ClearedIsUp'
    BY <1>1, <1>2, <1>5 DEF Keeps, Steps
  <2>7. ClaimsHold'
    BY <1>1, <1>2, <1>5 DEF Keeps, Steps
  <2>8. StoppedIsMarked' /\ RecordedAtRest'
    BY <1>1, <1>2, <1>5 DEF Keeps, Steps
  <2> QED  BY <2>1, <2>2, <2>3, <2>4, <2>5, <2>6, <2>7, <2>8
<1>6. CASE x \in Copy /\ Moved(x, "over", NoCopy) /\ UNCHANGED spared
  <2>1. TypeOK'
    BY <1>1, <1>2, <1>6 DEF Moved
  <2>2. CopiesKnow'
    BY <1>1, <1>2, <1>6 DEF Moved
  <2>3. OnePause'
    BY <1>1, <1>2, <1>6 DEF Moved
  <2>4. PauseHolds'
    BY <1>1, <1>2, <1>6 DEF Moved
  <2>5. SweepsSpare'
    BY <1>1, <1>2, <1>6 DEF Moved
  <2>6. ClearedIsUp'
    BY <1>1, <1>2, <1>6 DEF Moved
  <2>7. ClaimsHold'
    BY <1>1, <1>2, <1>6 DEF Moved
  <2>8. StoppedIsMarked' /\ RecordedAtRest'
    BY <1>1, <1>2, <1>6 DEF Moved
  <2> QED  BY <2>1, <2>2, <2>3, <2>4, <2>5, <2>6, <2>7, <2>8
<1> QED  BY <1>4, <1>5, <1>6, Leaves DEF ReleaseFails

LEMMA SweepKeeps ==
  ASSUME IInv, Faults = {}, NEW a \in Api, Sweep(a)
  PROVE  IInv'
<1> USE ActorAssumption, BoundAssumption DEF IInv, Sweep
<1>1. TypeOK'
  OBVIOUS
<1>2. CopiesKnow'
  OBVIOUS
<1>3. OnePause'
  OBVIOUS
<1>4. PauseHolds'
  OBVIOUS
<1>5. SweepsSpare'
  OBVIOUS
<1>6. ClearedIsUp'
  OBVIOUS
<1>7. ClaimsHold'
  OBVIOUS
<1>8. StoppedIsMarked' /\ RecordedAtRest'
  OBVIOUS
<1> QED  BY <1>1, <1>2, <1>3, <1>4, <1>5, <1>6, <1>7, <1>8

LEMMA ListKeeps ==
  ASSUME IInv, Faults = {}, NEW a \in Api, List(a)
  PROVE  IInv'
<1> USE ActorAssumption, BoundAssumption DEF IInv, List
<1>1. TypeOK'
  OBVIOUS
<1>2. CopiesKnow'
  OBVIOUS
<1>3. OnePause'
  OBVIOUS
<1>4. PauseHolds'
  OBVIOUS
<1>5. SweepsSpare'
  OBVIOUS
<1>6. ClearedIsUp'
  OBVIOUS
<1>7. ClaimsHold'
  OBVIOUS
<1>8. StoppedIsMarked' /\ RecordedAtRest'
  OBVIOUS
<1> QED  BY <1>1, <1>2, <1>3, <1>4, <1>5, <1>6, <1>7, <1>8

LEMMA ShutdownKeeps ==
  ASSUME IInv, Faults = {}, NEW a \in Api, Shutdown(a)
  PROVE  IInv'
<1> USE ActorAssumption, BoundAssumption DEF IInv, Shutdown
<1>1. TypeOK'
  OBVIOUS
<1>2. CopiesKnow'
  OBVIOUS
<1>3. OnePause'
  OBVIOUS
<1>4. PauseHolds'
  OBVIOUS
<1>5. SweepsSpare'
  OBVIOUS
<1>6. ClearedIsUp'
  OBVIOUS
<1>7. ClaimsHold'
  OBVIOUS
<1>8. StoppedIsMarked' /\ RecordedAtRest'
  OBVIOUS
<1> QED  BY <1>1, <1>2, <1>3, <1>4, <1>5, <1>6, <1>7, <1>8

LEMMA ExitKeeps ==
  ASSUME IInv, Faults = {}, NEW a \in Api, Exit(a)
  PROVE  IInv'
<1> USE ActorAssumption, BoundAssumption DEF IInv, Exit, Gone, CopyType
<1>1. TypeOK'
  OBVIOUS
<1>2. CopiesKnow'
  OBVIOUS
<1>3. OnePause'
  OBVIOUS
<1>4. PauseHolds'
  OBVIOUS
<1>5. SweepsSpare'
  OBVIOUS
<1>6. ClearedIsUp'
  OBVIOUS
<1>7. ClaimsHold'
  OBVIOUS
<1>8. StoppedIsMarked' /\ RecordedAtRest'
  OBVIOUS
<1> QED  BY <1>1, <1>2, <1>3, <1>4, <1>5, <1>6, <1>7, <1>8

LEMMA CrashKeeps ==
  ASSUME IInv, Faults = {}, NEW a \in Api, Crash(a)
  PROVE  IInv'
<1> USE ActorAssumption, BoundAssumption DEF IInv, Crash, Gone, CopyType
<1>1. TypeOK'
  OBVIOUS
<1>2. CopiesKnow'
  OBVIOUS
<1>3. OnePause'
  OBVIOUS
<1>4. PauseHolds'
  OBVIOUS
<1>5. SweepsSpare'
  OBVIOUS
<1>6. ClearedIsUp'
  OBVIOUS
<1>7. ClaimsHold'
  OBVIOUS
<1>8. StoppedIsMarked' /\ RecordedAtRest'
  OBVIOUS
<1> QED  BY <1>1, <1>2, <1>3, <1>4, <1>5, <1>6, <1>7, <1>8

LEMMA BootKeeps ==
  ASSUME IInv, Faults = {}, NEW a \in Api, Boot(a)
  PROVE  IInv'
<1> USE ActorAssumption, BoundAssumption DEF IInv, Boot
<1>1. TypeOK'
  OBVIOUS
<1>2. CopiesKnow'
  OBVIOUS
<1>3. OnePause'
  OBVIOUS
<1>4. PauseHolds'
  OBVIOUS
<1>5. SweepsSpare'
  OBVIOUS
<1>6. ClearedIsUp'
  OBVIOUS
<1>7. ClaimsHold'
  OBVIOUS
<1>8. StoppedIsMarked' /\ RecordedAtRest'
  OBVIOUS
<1> QED  BY <1>1, <1>2, <1>3, <1>4, <1>5, <1>6, <1>7, <1>8

LEMMA PodsStartKeeps ==
  ASSUME IInv, Faults = {}, PodsStart
  PROVE  IInv'
<1> USE ActorAssumption, BoundAssumption DEF IInv
<1>1. scaled /\ UNCHANGED <<api, scaled, mark, job, pc, ledger, spared, budget>>
      /\ pods' = TRUE
  BY DEF PodsStart
<1>2. ASSUME NEW c \in Copy
      PROVE  /\ copy'[c] \in CopyType
             /\ copy'[c].home = copy[c].home /\ copy'[c].ours = copy[c].ours
             /\ copy'[c].claim = copy[c].claim
             /\ pc[c] # "follow" => copy'[c] = copy[c]
  <2> DEFINE torn == copy[c].torn \/ (pc[c] = "follow" /\ job[c] = "running")
  <2>1. copy[c] \in CopyType /\ copy'[c] = [copy[c] EXCEPT !.torn = torn]
    BY CopyTypes DEF PodsStart
  <2>2. torn \in BOOLEAN /\ (pc[c] # "follow" => torn = copy[c].torn)
    BY <2>1 DEF CopyType
  <2> HIDE DEF torn
  <2> QED  BY <2>1, <2>2 DEF CopyType
<1>3. copy' \in [Copy -> CopyType]
  BY <1>2 DEF PodsStart
<1>4. TypeOK'
  BY <1>1, <1>2, <1>3
<1>5. CopiesKnow'
  BY <1>1, <1>2, <1>3
<1>6. OnePause'
  BY <1>1, <1>2, <1>3
<1>7. PauseHolds'
  BY <1>1, <1>2, <1>3
<1>8. SweepsSpare'
  BY <1>1, <1>2, <1>3
<1>9. ClearedIsUp'
  BY <1>1, <1>2, <1>3
<1>10. ClaimsHold'
  BY <1>1, <1>2, <1>3
<1>11. StoppedIsMarked' /\ RecordedAtRest'
  BY <1>1, <1>2, <1>3
<1> QED  BY <1>4, <1>5, <1>6, <1>7, <1>8, <1>9, <1>10, <1>11

LEMMA PodsStopKeeps ==
  ASSUME IInv, Faults = {}, PodsStop
  PROVE  IInv'
<1> USE ActorAssumption, BoundAssumption DEF IInv, PodsStop
<1>1. TypeOK'
  OBVIOUS
<1>2. CopiesKnow'
  OBVIOUS
<1>3. OnePause'
  OBVIOUS
<1>4. PauseHolds'
  OBVIOUS
<1>5. SweepsSpare'
  OBVIOUS
<1>6. ClearedIsUp'
  OBVIOUS
<1>7. ClaimsHold'
  OBVIOUS
<1>8. StoppedIsMarked' /\ RecordedAtRest'
  OBVIOUS
<1> QED  BY <1>1, <1>2, <1>3, <1>4, <1>5, <1>6, <1>7, <1>8

LEMMA JobEndsKeeps ==
  ASSUME IInv, Faults = {}, NEW c \in Copy, JobEnds(c)
  PROVE  IInv'
<1> USE ActorAssumption, BoundAssumption DEF IInv
<1>1. budget' \in [{"failures", "restarts"} -> Nat]
  BY DEF JobEnds
<1>2. job' \in [Copy -> {"none", "running", "succeeded", "failed"}]
  BY DEF JobEnds
<1>3. UNCHANGED <<api, scaled, mark, pods, pc, copy, ledger, spared>>
  BY DEF JobEnds
<1>4. TypeOK'
  BY <1>1, <1>2, <1>3
<1>5. CopiesKnow'
  BY <1>1, <1>2, <1>3
<1>6. OnePause'
  BY <1>1, <1>2, <1>3
<1>7. PauseHolds'
  BY <1>1, <1>2, <1>3
<1>8. SweepsSpare'
  BY <1>1, <1>2, <1>3
<1>9. ClearedIsUp'
  BY <1>1, <1>2, <1>3
<1>10. ClaimsHold'
  BY <1>1, <1>2, <1>3
<1>11. StoppedIsMarked' /\ RecordedAtRest'
  BY <1>1, <1>2, <1>3
<1> QED  BY <1>4, <1>5, <1>6, <1>7, <1>8, <1>9, <1>10, <1>11

LEMMA ExpireKeeps ==
  ASSUME IInv, Faults = {}, Expire
  PROVE  IInv'
<1> USE ActorAssumption, BoundAssumption DEF IInv, Expire
<1>1. TypeOK'
  OBVIOUS
<1>2. CopiesKnow'
  OBVIOUS
<1>3. OnePause'
  OBVIOUS
<1>4. PauseHolds'
  OBVIOUS
<1>5. SweepsSpare'
  OBVIOUS
<1>6. ClearedIsUp'
  OBVIOUS
<1>7. ClaimsHold'
  OBVIOUS
<1>8. StoppedIsMarked' /\ RecordedAtRest'
  OBVIOUS
<1> QED  BY <1>1, <1>2, <1>3, <1>4, <1>5, <1>6, <1>7, <1>8

-----------------------------------------------------------------------------
LEMMA InitHolds == Init => IInv
BY ActorAssumption, BoundAssumption DEF Init, IInv, CopyType

LEMMA NextKeeps ==
  ASSUME IInv, Faults = {}, [Next]_vars
  PROVE  IInv'
<1>1. ASSUME NEW c \in Copy, CopyStep(c)
      PROVE  IInv'
  BY <1>1, CheckKeeps, InspectKeeps, TakeMarkKeeps, ScaleDownKeeps, WaitKeeps, StartJobKeeps,
     JobFollowedKeeps, RecordKeeps DEF CopyStep
<1>2. ASSUME NEW c \in Copy, AcquireFails(c) \/ CopyFails(c) \/ JobEnds(c)
      PROVE  IInv'
  BY <1>2, AcquireFailsKeeps, CopyFailsKeeps, JobEndsKeeps
<1>3. ASSUME NEW c \in Copy, NEW a \in Api, Ask(c, a)
      PROVE  IInv'
  BY <1>3, AskKeeps
<1>4. ASSUME NEW x \in Actor, ReleaseStep(x) \/ ReleaseFails(x)
      PROVE  IInv'
  BY <1>4, ReadLiveKeeps, ScaleUpKeeps, ClearMarkKeeps, ReleaseFailsKeeps DEF ReleaseStep
<1>5. ASSUME NEW a \in Api, Sweep(a) \/ List(a) \/ Shutdown(a) \/ Exit(a) \/ Crash(a) \/ Boot(a)
      PROVE  IInv'
  BY <1>5, SweepKeeps, ListKeeps, ShutdownKeeps, ExitKeeps, CrashKeeps, BootKeeps
<1>6. CASE PodsStart \/ PodsStop \/ Expire
  BY <1>6, PodsStartKeeps, PodsStopKeeps, ExpireKeeps
<1>7. CASE UNCHANGED vars
  BY <1>7 DEF vars, IInv
<1> HIDE DEF Actor
<1> QED  BY <1>1, <1>2, <1>3, <1>4, <1>5, <1>6, <1>7 DEF Next

LEMMA Invariance ==
  ASSUME Faults = {}
  PROVE  Spec => []IInv
<1>1. IInv /\ [Next]_vars => IInv'
  BY NextKeeps
<1> QED  BY <1>1, InitHolds, PTL DEF Spec

\* While a copy in a living process keeps a workload stopped, no other step
\* touches the mark or the scale: there is one pause at a time, and nobody
\* releases under it.
LEMMA KeptByEveryStep ==
  ASSUME IInv, Faults = {}, [Next]_vars, NEW c \in Copy,
         UnderWay(c), mark.by = copy[c].home, ~mark.stale
  PROVE  scaled' = scaled /\ mark'.by = mark.by
<1> USE DEF IInv
<1>1. pc[c] \in {"wait", "copy", "follow"} /\ copy[c].ours /\ copy[c].home \in Api
  <2>1. pc[c] \in Taking /\ copy[c].ours
    BY DEF UnderWay
  <2>2. CASE pc[c] \in {"mark", "scaleDown"}
    BY <2>1, <2>2
  <2> QED  BY <2>1, <2>2
<1>2. Up(c) /\ Pauses(c) /\ Owns(c)
  BY <1>1 DEF UnderWay
<1>3. \A x \in Actor : pc[x] \notin Releasing
  BY <1>2
<1>4. \A d \in Copy : pc[d] \notin {"mark", "scaleDown"}
  <2> SUFFICES ASSUME NEW d \in Copy, pc[d] \in {"mark", "scaleDown"}
               PROVE  FALSE
    OBVIOUS
  <2>1. c = d
    BY <1>2
  <2> QED  BY <1>1, <2>1
<1> HIDE DEF IInv
<1>5. ASSUME NEW d \in Copy, CopyStep(d) \/ AcquireFails(d) \/ CopyFails(d) \/ JobEnds(d)
      PROVE  UNCHANGED <<scaled, mark>>
  BY <1>4, <1>5 DEF CopyStep, Check, Inspect, TakeMark, ScaleDown, Wait, StartJob, JobFollowed,
     Record, AcquireFails, CopyFails, JobEnds
<1>6. ASSUME NEW d \in Copy, NEW a \in Api, Ask(d, a)
      PROVE  UNCHANGED <<scaled, mark>>
  BY <1>6 DEF Ask
<1>7. ASSUME NEW x \in Actor
      PROVE  ~ReleaseStep(x) /\ ~ReleaseFails(x)
  BY <1>3 DEF ReleaseStep, ReadLive, ScaleUp, ClearMark, ReleaseFails
<1>8. ASSUME NEW a \in Api, Sweep(a) \/ List(a) \/ Shutdown(a) \/ Exit(a) \/ Crash(a) \/ Boot(a)
      PROVE  UNCHANGED <<scaled, mark>>
  BY <1>8 DEF Sweep, List, Shutdown, Exit, Crash, Boot, Gone
<1>9. CASE PodsStart \/ PodsStop
  BY <1>9 DEF PodsStart, PodsStop
<1>10. CASE Expire
  <2>1. mark \in Mark
    BY <1>10 DEF Expire, IInv
  <2>2. scaled' = scaled /\ mark' = [mark EXCEPT !.stale = TRUE]
    BY <1>10 DEF Expire
  <2> QED  BY <2>1, <2>2
<1>11. CASE UNCHANGED vars
  BY <1>11 DEF vars
<1> HIDE DEF Actor
<1> QED  BY <1>5, <1>6, <1>7, <1>8, <1>9, <1>10, <1>11 DEF Next

-----------------------------------------------------------------------------
\* Every variable keeps to its values.
THEOREM TypeCorrect ==
  ASSUME Faults = {}
  PROVE  Spec => []TypeOK
<1>1. IInv => TypeOK
  BY DEF IInv
<1> QED  BY <1>1, Invariance, PTL

\* A workload that a copy stopped carries the mark by which any copy of the
\* API brings it back, however copies, releases and processes end
\* (volume-pause-lease.service.ts:48-56).
THEOREM StoppedWorkloadsAreMarked ==
  ASSUME Faults = {}
  PROVE  Spec => []StoppedIsMarked
<1>1. IInv => StoppedIsMarked
  BY DEF IInv
<1> QED  BY <1>1, Invariance, PTL

\* What the ledger says was copied with its writers stopped had none while
\* it was copied (volume-pause-lease.service.ts:72-73).
THEOREM RecordedCopiesWereAtRest ==
  ASSUME Faults = {}
  PROVE  Spec => []RecordedAtRest
<1>1. IInv => RecordedAtRest
  BY DEF IInv
<1> QED  BY <1>1, Invariance, PTL

\* Nobody ends the fresh pause of a copy under way in a living process
\* (volume-pause-lease.service.ts:298-303).
THEOREM LivePausesAreKept ==
  ASSUME Faults = {}
  PROVE  Spec => LivePauseIsKept
<1>1. IInv /\ [Next]_vars =>
        [\A c \in Copy : UnderWay(c) /\ mark.by = copy[c].home /\ ~mark.stale =>
           scaled' = scaled /\ mark'.by = mark.by]_vars
  BY KeptByEveryStep
<1> QED  BY <1>1, Invariance, PTL DEF Spec, LivePauseIsKept
=============================================================================
