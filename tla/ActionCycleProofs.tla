------------------------- MODULE ActionCycleProofs -------------------------
(***************************************************************************)
(* A yes given once is spent once, and a stop is honoured, for every       *)
(* number of calls, answers, operations, steps and redeliveries.           *)
(***************************************************************************)
EXTENDS ActionCycle, TLAPS

\* What keeps the properties inductive: a row nobody inserted is nobody's work;
\* the two families of workers keep to their own writes; a worker past the
\* boundary when the stop is asked has one step left to write; only rows that
\* exist are asked to stop; and a request that will write a question holds one.
RowsAreWorked ==
  \A o \in Op : op[o].status = "none" => at[o] = "none" /\ ~Asked(o)
FamiliesApart ==
  \A o \in Op : /\ family[o] = "application" => at[o] \notin {"read", "save"}
                /\ at[o] = "save" => seen[o].status # "none"
OneStepLeft ==
  \A o \in Op : family[o] = "application" /\ Asked(o) =>
    /\ step[o] <= op[o].cancelRequestedAt + 1
    /\ at[o] = "write" => step[o] = op[o].cancelRequestedAt
AskedExist == \A o \in revoker.running : op[o].status # "none"
RowsHeld ==
  /\ \A c \in Call : call[c].at \in {"decide", "refresh"} => call[c].existing \in Proposal
  /\ \A a \in Answer : answer[a].at # "idle" => answer[a].p \in Proposal

OpInv == OpTypeOK /\ RowsAreWorked /\ FamiliesApart /\ OneStepLeft
IInv == TypeOK /\ OpInv /\ AskedExist /\ RowsHeld /\ EachYesOnce

\* A stop that was written is kept by this step.
Kept(o) ==
  family[o] = "application" /\ op[o].status = "CANCELLED" => op'[o].status = "CANCELLED"
AllKept == \A o \in Op : Kept(o)

USE DEF Asked, NotAsked, NoRow, OpRow, OpStatus, Running, Family

-----------------------------------------------------------------------------
\* Every step of an operation keeps the invariant, keeps a cancellation and
\* leaves each row that exists in existence.
LEMMA CreateKeeps ==
  ASSUME OpInv, NEW o \in Op, NEW f \in Family, Create(o, f)
  PROVE  OpInv' /\ AllKept
<1> USE DEF OpInv, OpTypeOK, RowsAreWorked, FamiliesApart, OneStepLeft, Create, Start
<1>1. OpTypeOK'
  OBVIOUS
<1>2. RowsAreWorked' /\ FamiliesApart' /\ OneStepLeft' /\ AllKept
  BY DEF AllKept, Kept
<1> QED  BY <1>1, <1>2

LEMMA RecordKeeps ==
  ASSUME OpInv, NEW o \in Op, op[o].status # "none", RecordRequest(o)
  PROVE  OpInv' /\ AllKept /\ \A p \in Op : op[p].status # "none" => op'[p].status # "none"
<1> USE DEF OpInv, OpTypeOK, RowsAreWorked, FamiliesApart, OneStepLeft, RecordRequest
<1>1. OpTypeOK'
  OBVIOUS
<1>2. RowsAreWorked' /\ FamiliesApart' /\ AllKept
  BY DEF AllKept, Kept
<1>3. OneStepLeft'
  OBVIOUS
<1>4. \A p \in Op : op[p].status # "none" => op'[p].status # "none"
  OBVIOUS
<1> QED  BY <1>1, <1>2, <1>3, <1>4

LEMMA ProcessKeeps ==
  ASSUME OpInv, NEW o \in Op, Process(o)
  PROVE  OpInv' /\ AllKept /\ \A p \in Op : op[p].status # "none" => op'[p].status # "none"
<1> DEFINE Exist == \A p \in Op : op[p].status # "none" => op'[p].status # "none"
<1> USE DEF OpInv, OpTypeOK, RowsAreWorked, FamiliesApart, OneStepLeft, AllKept, Kept, Write
<1>1. CASE HaltIfCancelled(o)
  <2>1. CASE op' = [op EXCEPT ![o].status = "CANCELLED"] /\ at' = [at EXCEPT ![o] = "unwind"]
    <3>1. UNCHANGED <<family, seen, step, kills>>
      BY <1>1 DEF HaltIfCancelled
    <3>2. at[o] = "work"
      BY <1>1 DEF HaltIfCancelled
    <3>3. op' \in [Op -> OpRow]
      BY <2>1
    <3> QED  BY <2>1, <3>1, <3>2, <3>3
  <2>2. CASE ~Asked(o) /\ at' = [at EXCEPT ![o] = "write"] /\ UNCHANGED op
    BY <1>1, <2>2 DEF HaltIfCancelled
  <2> QED  BY <1>1, <2>1, <2>2 DEF HaltIfCancelled
<1>2. CASE WriteProgress(o)
  BY <1>2 DEF WriteProgress
<1>3. CASE WriteCompleted(o)
  BY <1>3 DEF WriteCompleted
<1>4. CASE WriteFailed(o)
  BY <1>4 DEF WriteFailed
<1>5. ASSUME NEW status \in {"IN_PROGRESS", "COMPLETED", "FAILED"}, ReadRow(o, status)
      PROVE  OpInv' /\ AllKept /\ Exist
  BY <1>5 DEF ReadRow
<1>6. CASE SaveRow(o)
  BY <1>6 DEF SaveRow
<1>7. CASE Redeliver(o)
  BY <1>7 DEF Redeliver, Start
<1> QED  BY <1>1, <1>2, <1>3, <1>4, <1>5, <1>6, <1>7 DEF Process

-----------------------------------------------------------------------------
\* A step that leaves the operations alone, and the revoke's list as it was or
\* of rows that exist.
LEMMA OperationsAlone ==
  ASSUME IInv, UNCHANGED opVars
  PROVE  OpInv' /\ AllKept /\ (revoker' = revoker => AskedExist')
BY DEF IInv, opVars, OpInv, OpTypeOK, RowsAreWorked, FamiliesApart, OneStepLeft, AllKept, Kept,
       AskedExist

LEMMA GuardKeeps ==
  ASSUME IInv, NEW c \in Call, Guard(c)
  PROVE  IInv' /\ AllKept
<1> DEFINE CallRow == [at : {"idle", "find", "decide", "refresh", "raise", "through"},
                       existing : Proposal \cup {None}, grant : Grant]
           Held(r) == r.at \in {"decide", "refresh"} => r.existing \in Proposal
<1>t. TypeOK /\ EachYesOnce /\ RowsHeld
  BY DEF IInv
<1>a. /\ call \in [Call -> CallRow] /\ prop \in [Proposal -> PropRow] /\ tries \in Nat
      /\ yes \in [Proposal -> Nat] /\ through \in [Proposal -> Nat]
  BY <1>t DEF TypeOK
<1>g. NoCall \in CallRow /\ \A g \in Grant : ThroughBy(g) \in CallRow /\ Held(ThroughBy(g))
  BY DEF NoCall, Grant, NoGrant, None, ThroughBy
<1> HIDE DEF CallRow
<1>b. ASSUME UNCHANGED opVars, UNCHANGED revoker
      PROVE  OpInv' /\ AllKept /\ AskedExist'
  BY <1>b, OperationsAlone
\* What is left to show of a step that changes this call and nothing of the person's.
<1>c. ASSUME NEW r \in CallRow, Held(r), call' = [call EXCEPT ![c] = r],
             UNCHANGED <<conc, answer, revoker, grant, yes, revokes, opVars>>,
             tries' \in Nat, prop' \in [Proposal -> PropRow], through' \in [Proposal -> Nat],
             EachYesOnce'
      PROVE  IInv' /\ AllKept
  <2>1. OpInv' /\ AllKept /\ AskedExist'
    BY <1>b, <1>c
  <2>2. TypeOK'
    BY <1>t, <1>a, <1>c, <2>1 DEF TypeOK, OpInv, CallRow
  <2>3. RowsHeld'
    BY <1>t, <1>a, <1>c DEF RowsHeld
  <2> QED  BY <1>c, <2>1, <2>2, <2>3 DEF IInv
<1>d. ASSUME UNCHANGED <<prop, through, yes>>
      PROVE  EachYesOnce' /\ prop' \in [Proposal -> PropRow] /\ through' \in [Proposal -> Nat]
  BY <1>d, <1>a, <1>t DEF EachYesOnce
<1>1. CASE MatchingConcession(c)
  <2>1. UNCHANGED <<prop, through, yes>> /\ tries' \in Nat
    BY <1>1, <1>a DEF MatchingConcession
  <2>2. CASE \E k \in Concession : LetThrough(c, <<"concession", k>>)
    <3>1. PICK k \in Concession : call' = [call EXCEPT ![c] = ThroughBy(<<"concession", k>>)]
      BY <2>2 DEF LetThrough
    <3>2. <<"concession", k>> \in Grant
      BY DEF Grant
    <3> HIDE DEF Held
    <3> QED  BY <1>1, <1>g, <1>c, <1>d, <2>1, <3>1, <3>2 DEF MatchingConcession
  <2>3. CASE call' = [call EXCEPT ![c].at = "find"]
    <3>1. call' = [call EXCEPT ![c] = [call[c] EXCEPT !.at = "find"]] /\ [call[c] EXCEPT !.at = "find"] \in CallRow
      BY <2>3, <1>a DEF CallRow
    <3> QED  BY <1>1, <1>a, <1>c, <1>d, <2>1, <3>1 DEF MatchingConcession, CallRow
  <2> QED  BY <1>1, <2>2, <2>3 DEF MatchingConcession
<1>2. CASE FindExisting(c)
  <2>1. UNCHANGED <<prop, through, yes>> /\ tries' \in Nat
    BY <1>2, <1>a DEF FindExisting
  <2>2. CASE call' = [call EXCEPT ![c].at = "raise"]
    <3>1. call' = [call EXCEPT ![c] = [call[c] EXCEPT !.at = "raise"]] /\ [call[c] EXCEPT !.at = "raise"] \in CallRow
      BY <2>2, <1>a DEF CallRow
    <3> QED  BY <1>2, <1>a, <1>c, <1>d, <2>1, <3>1 DEF FindExisting, CallRow
  <2>3. ASSUME NEW p \in Proposal, call' = [call EXCEPT ![c] =
               IF AfterFind(p) = "idle" THEN NoCall
               ELSE [@ EXCEPT !.at = AfterFind(p), !.existing = p]]
        PROVE  IInv' /\ AllKept
    <3> DEFINE r == IF AfterFind(p) = "idle" THEN NoCall
                    ELSE [call[c] EXCEPT !.at = AfterFind(p), !.existing = p]
    <3>1. AfterFind(p) \in {"idle", "decide", "raise", "refresh"}
      BY DEF AfterFind
    <3>2. r \in CallRow /\ Held(r)
      BY <1>a, <1>g, <3>1 DEF CallRow, NoCall
    <3>3. call' = [call EXCEPT ![c] = r]
      BY <2>3
    <3> HIDE DEF r, Held
    <3> QED  BY <1>2, <1>c, <1>d, <2>1, <3>2, <3>3 DEF FindExisting
  <2> QED  BY <1>2, <2>2, <2>3 DEF FindExisting
<1>3. CASE Spend(c)
  <2>1. PICK p \in Proposal : p = call[c].existing
    BY <1>3, <1>t DEF Spend, RowsHeld
  <2>2. CASE prop[p].status # "APPROVED"
    <3>1. /\ call' = [call EXCEPT ![c] = [call[c] EXCEPT !.at = "raise"]]
          /\ [call[c] EXCEPT !.at = "raise"] \in CallRow
          /\ UNCHANGED <<prop, through, yes>> /\ tries' \in Nat
      BY <1>3, <2>1, <2>2, <1>a DEF CallRow, Spend
    <3> QED  BY <1>3, <1>c, <1>d, <2>1, <3>1 DEF Spend, CallRow
  <2>3. CASE prop[p].status = "APPROVED"
    <3> DEFINE r == ThroughBy(<<"proposal", p>>)
    <3>1. r \in CallRow /\ Held(r) /\ call' = [call EXCEPT ![c] = r]
      BY <1>3, <1>g, <2>1, <2>3 DEF Spend, LetThrough, Grant
    <3>2. /\ prop' = [prop EXCEPT ![p].status = "CONSUMED"]
          /\ through' = [through EXCEPT ![p] = @ + 1]
          /\ yes' = yes /\ tries' \in Nat
      BY <1>3, <2>1, <2>3, <1>a DEF Spend
    <3>3. prop' \in [Proposal -> PropRow] /\ through' \in [Proposal -> Nat]
      BY <3>2, <1>a DEF PropRow, PropStatus
    <3>4. EachYesOnce'
      <4> SUFFICES ASSUME NEW q \in Proposal
                   PROVE  through'[q] + (IF prop'[q].status = "APPROVED" THEN 1 ELSE 0) <= yes'[q]
        BY DEF EachYesOnce
      <4>1. CASE q = p
        BY <4>1, <3>2, <1>a, <1>t, <2>3 DEF PropRow, EachYesOnce
      <4>2. CASE q # p
        BY <4>2, <3>2, <1>a, <1>t DEF EachYesOnce
      <4> QED  BY <4>1, <4>2
    <3> HIDE DEF r, Held
    <3> QED  BY <1>3, <1>c, <2>1, <3>1, <3>2, <3>3, <3>4 DEF Spend
  <2> QED  BY <2>2, <2>3
<1>4. NoCall \in CallRow /\ Held(NoCall)
  BY <1>g DEF NoCall
<1> HIDE DEF Held
<1>5. CASE Refresh(c) \/ Raise(c)
  <2>1. PICK p \in Proposal : prop' = [prop EXCEPT ![p] = [status |-> "PENDING", live |-> TRUE]]
    BY <1>5, <1>t DEF Refresh, Raise, RowsHeld
  <2>2. prop' \in [Proposal -> PropRow] /\ UNCHANGED <<through, yes, tries>>
    BY <1>5, <2>1, <1>a DEF Refresh, Raise, PropRow, PropStatus
  <2>3. EachYesOnce'
    <3> SUFFICES ASSUME NEW q \in Proposal
                 PROVE  through'[q] + (IF prop'[q].status = "APPROVED" THEN 1 ELSE 0) <= yes'[q]
      BY DEF EachYesOnce
    <3>1. through[q] <= yes[q] /\ through[q] \in Nat /\ yes[q] \in Nat
      BY <1>a, <1>t DEF PropRow, EachYesOnce
    <3>2. CASE q = p
      BY <3>1, <3>2, <2>1, <2>2, <1>a
    <3>3. CASE q # p
      BY <3>3, <2>1, <2>2, <1>a, <1>t DEF EachYesOnce
    <3> QED  BY <3>2, <3>3
  <2> QED  BY <1>5, <1>a, <1>c, <1>4, <2>2, <2>3 DEF Refresh, Raise
<1>6. CASE CallEnds(c)
  <2>1. EachYesOnce'
    BY <1>6, <1>a, <1>t DEF CallEnds, EachYesOnce
  <2> QED  BY <1>6, <1>a, <1>c, <1>4, <1>d, <2>1 DEF CallEnds
<1>7. ASSUME NEW o \in Op, NEW f \in Family, Depart(c, o, f)
      PROVE  IInv' /\ AllKept
  <2>1. OpInv' /\ AllKept
    BY <1>7, CreateKeeps DEF Depart, IInv
  <2>2. AskedExist'
    BY <1>7 DEF Depart, Create, IInv, AskedExist, OpInv, OpTypeOK
  <2>3. /\ call' = [call EXCEPT ![c] = NoCall]
        /\ grant' = [grant EXCEPT ![o] = call[c].grant]
        /\ UNCHANGED <<prop, conc, answer, revoker, yes, through, tries, revokes>>
    BY <1>7 DEF Depart
  <2>4. TypeOK'
    BY <1>t, <1>a, <1>4, <2>1, <2>3 DEF TypeOK, OpInv, CallRow
  <2>5. RowsHeld' /\ EachYesOnce'
    BY <1>t, <1>a, <1>4, <2>3 DEF RowsHeld, EachYesOnce, Held
  <2> QED  BY <2>1, <2>2, <2>4, <2>5 DEF IInv
<1> QED  BY <1>1, <1>2, <1>3, <1>5, <1>6, <1>7 DEF Guard

LEMMA PersonKeeps ==
  ASSUME IInv, Person
  PROVE  IInv' /\ AllKept
<1>t. TypeOK /\ EachYesOnce /\ RowsHeld /\ AskedExist /\ OpInv
  BY DEF IInv
<1>a. /\ prop \in [Proposal -> PropRow] /\ revokes \in Nat /\ yes \in [Proposal -> Nat]
      /\ conc \in [Concession -> {"none", "given", "revoked"}]
      /\ through \in [Proposal -> Nat]
      /\ answer \in [Answer -> [at : {"idle", "concede", "save"},
                                p : Proposal \cup {None}, decision : Decision]]
      /\ revoker \in [at : {"idle", "list", "ask"}, k : Concession \cup {None}, running : SUBSET Op]
  BY <1>t DEF TypeOK
<1>b. NoAnswer.at = "idle" /\ NoRevoke.running = {}
  BY DEF NoAnswer, NoRevoke
\* A step that answers: it leaves the operations and the agent's calls alone.
<1>c. ASSUME UNCHANGED <<opVars, call, revoker, grant, through, tries>>, TypeOK',
             \A a \in Answer : answer'[a].at # "idle" => answer'[a].p \in Proposal,
             \/ UNCHANGED <<prop, yes>>
             \/ \E p \in Proposal, v \in PropRow :
                  /\ prop' = [prop EXCEPT ![p] = v]
                  /\ \/ v.status = "APPROVED" /\ yes' = [yes EXCEPT ![p] = @ + 1]
                     \/ v.status # "APPROVED" /\ yes' = yes
      PROVE  IInv' /\ AllKept
  <2>1. OpInv' /\ AllKept /\ AskedExist'
    BY <1>c, OperationsAlone
  <2>2. RowsHeld'
    BY <1>t, <1>c DEF RowsHeld
  <2>3. EachYesOnce'
    <3> SUFFICES ASSUME NEW q \in Proposal
                 PROVE  through'[q] + (IF prop'[q].status = "APPROVED" THEN 1 ELSE 0) <= yes'[q]
      BY DEF EachYesOnce
    <3>1. /\ through[q] + (IF prop[q].status = "APPROVED" THEN 1 ELSE 0) <= yes[q]
          /\ through[q] <= yes[q] /\ through[q] \in Nat /\ yes[q] \in Nat /\ through' = through
      BY <1>a, <1>t, <1>c DEF EachYesOnce
    <3>2. CASE UNCHANGED <<prop, yes>>
      BY <3>1, <3>2
    <3>3. ASSUME NEW p \in Proposal, NEW v \in PropRow, prop' = [prop EXCEPT ![p] = v],
                 \/ v.status = "APPROVED" /\ yes' = [yes EXCEPT ![p] = @ + 1]
                 \/ v.status # "APPROVED" /\ yes' = yes
          PROVE  through'[q] + (IF prop'[q].status = "APPROVED" THEN 1 ELSE 0) <= yes'[q]
      <4>1. CASE q = p
        BY <4>1, <3>1, <3>3, <1>a
      <4>2. CASE q # p
        BY <4>2, <3>1, <3>3, <1>a
      <4> QED  BY <4>1, <4>2
    <3> QED  BY <1>c, <3>2, <3>3
  <2> QED  BY <1>c, <2>1, <2>2, <2>3 DEF IInv
<1>1. ASSUME NEW p \in Proposal, Expire(p)
      PROVE  IInv' /\ AllKept
  <2> DEFINE v == [prop[p] EXCEPT !.live = FALSE]
  <2>1. v \in PropRow /\ v.status # "APPROVED" /\ prop' = [prop EXCEPT ![p] = v]
    BY <1>1, <1>a DEF Expire, PropRow
  <2> HIDE DEF v
  <2>2. UNCHANGED <<opVars, call, revoker, grant, through, tries, answer, yes, conc, revokes>>
    BY <1>1 DEF Expire
  <2>3. prop' \in [Proposal -> PropRow]
    BY <2>1, <1>a
  <2>4. TypeOK'
    BY <1>t, <2>2, <2>3 DEF TypeOK, opVars, OpTypeOK
  <2> QED  BY <1>t, <1>c, <2>1, <2>2, <2>4 DEF RowsHeld
<1>2. ASSUME NEW a \in Answer, NEW p \in Proposal, NEW decision \in Decision,
             ReadProposal(a, p, decision)
      PROVE  IInv' /\ AllKept
  <2>1. UNCHANGED <<opVars, prop, conc, call, revoker, grant, yes, through, tries, revokes>>
    BY <1>2 DEF ReadProposal
  <2>2. PICK r \in [at : {"idle", "concede", "save"}, p : Proposal \cup {None}, decision : Decision] :
          r.p \in Proposal /\ answer' = [answer EXCEPT ![a] = r]
    <3> DEFINE r == [at |-> IF decision = "always" THEN "concede" ELSE "save",
                     p |-> p, decision |-> decision]
    <3>1. r \in [at : {"idle", "concede", "save"}, p : Proposal \cup {None}, decision : Decision]
      OBVIOUS
    <3>2. r.p \in Proposal /\ answer' = [answer EXCEPT ![a] = r]
      BY <1>2 DEF ReadProposal
    <3> QED  BY <3>1, <3>2
  <2>3. TypeOK'
    BY <1>t, <1>a, <2>1, <2>2 DEF TypeOK, opVars, OpTypeOK
  <2>4. \A b \in Answer : answer'[b].at # "idle" => answer'[b].p \in Proposal
    BY <1>t, <1>a, <2>2 DEF RowsHeld
  <2> QED  BY <1>c, <2>1, <2>3, <2>4
<1>3. ASSUME NEW a \in Answer, Concede(a)
      PROVE  IInv' /\ AllKept
  <2>1. UNCHANGED <<opVars, prop, call, revoker, grant, yes, through, tries, revokes>>
    BY <1>3 DEF Concede
  <2>2. conc' \in [Concession -> {"none", "given", "revoked"}] /\ answer[a].at = "concede"
        /\ answer' = [answer EXCEPT ![a].at = "save"]
    BY <1>3, <1>a DEF Concede
  <2>3. TypeOK'
    BY <1>t, <1>a, <2>1, <2>2 DEF TypeOK, opVars, OpTypeOK
  <2>4. \A b \in Answer : answer'[b].at # "idle" => answer'[b].p \in Proposal
    BY <1>t, <1>a, <2>2 DEF RowsHeld
  <2> QED  BY <1>c, <2>1, <2>3, <2>4
<1>4. ASSUME NEW a \in Answer, Decide(a)
      PROVE  IInv' /\ AllKept
  <2>1. PICK p \in Proposal : p = answer[a].p
    BY <1>4, <1>t DEF Decide, RowsHeld
  <2> DEFINE v == [prop[p] EXCEPT !.status = DecidedStatus(answer[a].decision)]
  <2>2. /\ UNCHANGED <<opVars, conc, call, revoker, grant, through, tries, revokes>>
        /\ answer' = [answer EXCEPT ![a] = NoAnswer]
    BY <1>4 DEF Decide
  <2>3. answer[a].decision \in {"once", "always", "deny"}
    BY <1>a DEF Decision
  <2>4. v \in PropRow /\ prop' = [prop EXCEPT ![p] = v]
    BY <1>4, <1>a, <2>1, <2>3 DEF Decide, DecidedStatus, PropRow, PropStatus
  <2>5. \/ v.status = "APPROVED" /\ yes' = [yes EXCEPT ![p] = @ + 1]
        \/ v.status # "APPROVED" /\ yes' = yes
    BY <1>4, <1>a, <2>1, <2>3 DEF Decide, DecidedStatus, PropRow
  <2> HIDE DEF v
  <2>6. TypeOK'
    <3>1. prop' \in [Proposal -> PropRow] /\ yes' \in [Proposal -> Nat]
      BY <1>a, <2>4, <2>5
    <3>2. answer' \in [Answer -> [at : {"idle", "concede", "save"},
                                  p : Proposal \cup {None}, decision : Decision]]
      BY <1>a, <2>2 DEF NoAnswer, Decision
    <3> QED  BY <1>t, <2>2, <3>1, <3>2 DEF TypeOK, opVars, OpTypeOK
  <2>7. \A b \in Answer : answer'[b].at # "idle" => answer'[b].p \in Proposal
    BY <1>t, <1>a, <1>b, <2>2 DEF RowsHeld
  <2> QED  BY <1>c, <2>2, <2>4, <2>5, <2>6, <2>7
<1>5. ASSUME NEW a \in Answer, AnswerFails(a)
      PROVE  IInv' /\ AllKept
  <2>1. /\ UNCHANGED <<opVars, prop, conc, call, revoker, grant, yes, through, tries, revokes>>
        /\ answer' = [answer EXCEPT ![a] = NoAnswer]
    BY <1>5 DEF AnswerFails
  <2>2. TypeOK'
    BY <1>t, <1>a, <2>1 DEF TypeOK, opVars, OpTypeOK, NoAnswer, Decision
  <2>3. \A b \in Answer : answer'[b].at # "idle" => answer'[b].p \in Proposal
    BY <1>t, <1>a, <1>b, <2>1 DEF RowsHeld
  <2> QED  BY <1>c, <2>1, <2>2, <2>3
<1>6. ASSUME NEW k \in Concession, NEW alsoStop \in BOOLEAN, Revoke(k, alsoStop)
      PROVE  IInv' /\ AllKept
  <2>1. UNCHANGED <<opVars, prop, call, answer, grant, yes, through, tries>>
    BY <1>6 DEF Revoke
  <2>2. /\ revoker' \in [at : {"idle", "list", "ask"}, k : Concession \cup {None}, running : SUBSET Op]
        /\ revoker'.running = {}
    BY <1>6 DEF Revoke, NoRevoke
  <2>3. conc' \in [Concession -> {"none", "given", "revoked"}] /\ revokes' \in Nat
    BY <1>6, <1>a DEF Revoke
  <2>4. TypeOK'
    BY <1>t, <2>1, <2>2, <2>3 DEF TypeOK, opVars, OpTypeOK
  <2> QED  BY <1>t, <2>1, <2>2, <2>4, OperationsAlone DEF IInv, AskedExist, RowsHeld, EachYesOnce
<1>7. CASE ListRunning
  <2>1. UNCHANGED <<opVars, prop, conc, call, answer, grant, yes, through, tries, revokes>>
    BY <1>7 DEF ListRunning
  <2>2. /\ revoker' \in [at : {"idle", "list", "ask"}, k : Concession \cup {None}, running : SUBSET Op]
        /\ revoker'.running \subseteq {o \in Op : op[o].status # "none"}
    BY <1>7, <1>a DEF ListRunning, NoRevoke, RunningUnder
  <2>3. TypeOK'
    BY <1>t, <2>1, <2>2 DEF TypeOK, opVars, OpTypeOK
  <2>4. AskedExist'
    BY <2>1, <2>2 DEF AskedExist, opVars
  <2> QED  BY <1>t, <2>1, <2>3, <2>4, OperationsAlone DEF IInv, RowsHeld, EachYesOnce
<1>8. ASSUME NEW o \in Op, AskToStop(o)
      PROVE  IInv' /\ AllKept
  <2>1. op[o].status # "none" /\ RecordRequest(o)
        /\ UNCHANGED <<prop, conc, call, answer, grant, yes, through, tries, revokes>>
    BY <1>8, <1>t DEF AskToStop, AskedExist
  <2>2. OpInv' /\ AllKept /\ \A p \in Op : op[p].status # "none" => op'[p].status # "none"
    BY <1>t, <2>1, RecordKeeps
  <2>3. /\ revoker' \in [at : {"idle", "list", "ask"}, k : Concession \cup {None}, running : SUBSET Op]
        /\ revoker'.running \subseteq revoker.running
    BY <1>8, <1>a DEF AskToStop, NoRevoke
  <2>4. TypeOK'
    BY <1>t, <2>1, <2>2, <2>3 DEF TypeOK, OpInv
  <2>5. AskedExist'
    BY <1>t, <1>a, <2>2, <2>3 DEF AskedExist
  <2> QED  BY <1>t, <2>1, <2>2, <2>4, <2>5 DEF IInv, RowsHeld, EachYesOnce
<1> QED  BY <1>1, <1>2, <1>3, <1>4, <1>5, <1>6, <1>7, <1>8 DEF Person

LEMMA OperationsKeep ==
  ASSUME IInv, Operations
  PROVE  IInv' /\ AllKept
<1>1. PICK o \in Op : RequestCancellation(o) \/ Process(o)
  BY DEF Operations
<1>2. OpInv' /\ AllKept /\ \A p \in Op : op[p].status # "none" => op'[p].status # "none"
  BY <1>1, RecordKeeps, ProcessKeeps DEF IInv, RequestCancellation
<1>3. UNCHANGED cycleVars
  BY DEF Operations
<1>4. TypeOK'
  BY <1>2, <1>3 DEF IInv, TypeOK, OpInv, cycleVars
<1>5. AskedExist'
  BY <1>2, <1>3 DEF IInv, AskedExist, TypeOK, cycleVars
<1>6. RowsHeld' /\ EachYesOnce'
  BY <1>3 DEF IInv, RowsHeld, EachYesOnce, cycleVars
<1> QED  BY <1>2, <1>4, <1>5, <1>6 DEF IInv

LEMMA Inductive ==
  ASSUME IInv, [Next]_vars
  PROVE  IInv' /\ AllKept
<1>1. ASSUME NEW c \in Call, Guard(c)
      PROVE  IInv' /\ AllKept
  BY <1>1, GuardKeeps
<1>2. CASE UNCHANGED vars
  <2>1. UNCHANGED opVars /\ UNCHANGED cycleVars
    BY <1>2 DEF vars
  <2>2. OpInv' /\ AllKept /\ AskedExist'
    BY <2>1, OperationsAlone DEF cycleVars
  <2> QED  BY <2>1, <2>2 DEF IInv, TypeOK, OpInv, RowsHeld, EachYesOnce, cycleVars
<1> QED  BY <1>1, <1>2, PersonKeeps, OperationsKeep DEF Next

LEMMA Initially == ASSUME Init PROVE IInv
<1>1. OpInv
  BY StepAssumption DEF Init, OpInit, OpInv, OpTypeOK, RowsAreWorked, FamiliesApart, OneStepLeft
<1>2. TypeOK
  BY <1>1, CycleAssumption DEF Init, TypeOK, OpInv, PropRow, PropStatus, NoCall, NoAnswer,
     NoRevoke, Grant, NoGrant, None, Decision
<1>3. AskedExist /\ RowsHeld /\ EachYesOnce
  BY DEF Init, AskedExist, RowsHeld, EachYesOnce, NoCall, NoAnswer, NoRevoke
<1> QED  BY <1>1, <1>2, <1>3 DEF IInv

LEMMA Invariant == Spec => []IInv
<1>1. Init => IInv
  BY Initially
<1>2. IInv /\ [Next]_vars => IInv'
  BY Inductive
<1> QED  BY <1>1, <1>2, PTL DEF Spec

-----------------------------------------------------------------------------
\* Every state is one the types describe.
THEOREM TypeCorrect == Spec => []TypeOK
<1>1. IInv => TypeOK
  BY DEF IInv
<1> QED  BY <1>1, Invariant, PTL

\* A yes given once lets one call through, however many calls and answers are
\* in flight.
THEOREM YesIsSpentOnce == Spec => []EachYesOnce
<1>1. IInv => EachYesOnce
  BY DEF IInv
<1> QED  BY <1>1, Invariant, PTL

\* An application operation that is asked to stop begins at most one more step.
THEOREM StopTakesOneStep == Spec => []StopIsHonoured
<1>1. IInv => StopIsHonoured
  BY DEF IInv, OpInv, OneStepLeft, StopIsHonoured, StopsAtBoundary
<1> QED  BY <1>1, Invariant, PTL

\* A stop that was honoured stays what the row says.
THEOREM StopIsForGood == Spec => CancelledIsTerminal
<1>1. IInv /\ [Next]_vars =>
        [\A o \in Op : family[o] = "application" /\ op[o].status = "CANCELLED"
                         => op'[o].status = "CANCELLED"]_opVars
  BY Inductive DEF AllKept, Kept
<1> QED  BY <1>1, Invariant, PTL DEF Spec, CancelledIsTerminal
=============================================================================
