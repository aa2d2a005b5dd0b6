---------------------------- MODULE ActionCycle ----------------------------
(***************************************************************************)
(* The pause before an agent's call (src/src/modules/action-cycle): the    *)
(* guard raises a question, a person answers once, always or no, and the   *)
(* identical call, made again, goes through.  "Always" is a concession,    *)
(* which can be taken back, with or without stopping what runs under it.   *)
(*                                                                         *)
(* The calls carry the same arguments and the same key; the answers and    *)
(* the revoke are requests to the API.  Each reads its rows, and writes    *)
(* them in a later step.  What a call starts is an operation of            *)
(* OperationStop.                                                          *)
(***************************************************************************)
EXTENDS OperationStop

CONSTANTS
  Call,            \* an agent's requests that are in flight at once
  Answer,          \* the person's answers that are in flight at once
  MaxProposals,    \* bound: rows of action_proposals
  MaxConcessions,  \* bound: rows of agent_concessions
  MaxTries,        \* bound: calls the agent makes
  MaxRevokes       \* bound: revoke requests

ASSUME CycleAssumption ==
  /\ MaxProposals \in Nat /\ MaxConcessions \in Nat
  /\ MaxTries \in Nat /\ MaxRevokes \in Nat

Proposal == 1..MaxProposals      \* numbered as they are created
Concession == 1..MaxConcessions
None == 0

VARIABLES
  prop,     \* the questions
  conc,     \* the standing permissions
  call,     \* the requests of the agent
  answer,   \* the requests of the person
  revoker,  \* the revoke in progress: what it still has to ask to stop
  grant,    \* what let an operation through
  yes,      \* history: answers "once" written for each question
  through,  \* history: calls each question's answer let through
  tries,    \* what is left of MaxTries
  revokes   \* what is left of MaxRevokes

cycleVars == <<prop, conc, call, answer, revoker, grant, yes, through, tries, revokes>>
vars == <<opVars, cycleVars>>

PropStatus == {"none", "PENDING", "APPROVED", "DENIED", "CONSUMED"}
PropRow == [status : PropStatus, live : BOOLEAN]
Decision == {"once", "always", "deny"}
NoGrant == <<"none", None>>
Grant == {NoGrant} \cup ({"concession"} \X Concession) \cup ({"proposal"} \X Proposal)

TypeOK ==
  /\ OpTypeOK
  /\ prop \in [Proposal -> PropRow]
  /\ conc \in [Concession -> {"none", "given", "revoked"}]
  /\ call \in [Call -> [at : {"idle", "find", "decide", "refresh", "raise", "through"},
                        existing : Proposal \cup {None}, grant : Grant]]
  /\ answer \in [Answer -> [at : {"idle", "concede", "save"},
                            p : Proposal \cup {None}, decision : Decision]]
  /\ revoker \in [at : {"idle", "list", "ask"}, k : Concession \cup {None},
                  running : SUBSET Op]
  /\ grant \in [Op -> Grant]
  /\ yes \in [Proposal -> Nat]
  /\ through \in [Proposal -> Nat]
  /\ tries \in Nat
  /\ revokes \in Nat

NoCall == [at |-> "idle", existing |-> None, grant |-> NoGrant]
NoAnswer == [at |-> "idle", p |-> None, decision |-> "deny"]
NoRevoke == [at |-> "idle", k |-> None, running |-> {}]

Init ==
  /\ OpInit
  /\ prop = [p \in Proposal |-> [status |-> "none", live |-> FALSE]]
  /\ conc = [k \in Concession |-> "none"]
  /\ call = [c \in Call |-> NoCall]
  /\ answer = [a \in Answer |-> NoAnswer]
  /\ revoker = NoRevoke
  /\ grant = [o \in Op |-> NoGrant]
  /\ yes = [p \in Proposal |-> 0]
  /\ through = yes
  /\ tries = MaxTries
  /\ revokes = MaxRevokes

Raised == {p \in Proposal : prop[p].status # "none"}
Newest(p) == p \in Raised /\ \A q \in Raised : q <= p
\* Rows are inserted in the order of their numbers.
NextProposal(p) == p \notin Raised /\ \A q \in Proposal : q < p => q \in Raised
NextConcession(k) == conc[k] = "none" /\ \A j \in Concession : j < k => conc[j] # "none"

-----------------------------------------------------------------------------
(* The guard. *)
ThroughBy(g) == [at |-> "through", existing |-> None, grant |-> g]
LetThrough(c, g) == call' = [call EXCEPT ![c] = ThroughBy(g)]

MatchingConcession(c) ==
  /\ call[c].at = "idle"
  /\ tries > 0
  /\ tries' = tries - 1
  /\ \/ \E k \in Concession : conc[k] = "given" /\ LetThrough(c, <<"concession", k>>)
     \/ /\ \A k \in Concession : conc[k] # "given"
        /\ call' = [call EXCEPT ![c].at = "find"]
  /\ UNCHANGED <<opVars, prop, conc, answer, revoker, grant, yes, through, revokes>>

\* A pending question that is still live is returned as it is; a denied one refuses.
AfterFind(p) ==
  CASE prop[p].status = "APPROVED" -> "decide"
    [] prop[p].status = "CONSUMED" -> "raise"
    [] prop[p].status = "PENDING" /\ ~prop[p].live -> "refresh"
    [] OTHER -> "idle"

FindExisting(c) ==
  /\ call[c].at = "find"
  /\ \/ Raised = {} /\ call' = [call EXCEPT ![c].at = "raise"]
     \/ \E p \in Proposal :
          /\ Newest(p)
          /\ call' = [call EXCEPT ![c] =
               IF AfterFind(p) = "idle" THEN NoCall
               ELSE [@ EXCEPT !.at = AfterFind(p), !.existing = p]]
  /\ UNCHANGED <<opVars, prop, conc, answer, revoker, grant, yes, through, tries, revokes>>

\* Mutated: the approval is spent by its id, whatever became of it since.
SpendById(c) ==
  /\ call[c].at = "decide"
  /\ LET p == call[c].existing IN
       /\ prop' = [prop EXCEPT ![p].status = "CONSUMED"]
       /\ through' = [through EXCEPT ![p] = @ + 1]
       /\ LetThrough(c, <<"proposal", p>>)
  /\ UNCHANGED <<opVars, conc, answer, revoker, grant, yes, tries, revokes>>

\* The approval is spent if it is still one; else the call asks again.
Spend(c) ==
  /\ call[c].at = "decide"
  /\ LET p == call[c].existing IN
     \/ /\ prop[p].status = "APPROVED"
        /\ prop' = [prop EXCEPT ![p].status = "CONSUMED"]
        /\ through' = [through EXCEPT ![p] = @ + 1]
        /\ LetThrough(c, <<"proposal", p>>)
     \/ /\ prop[p].status # "APPROVED"
        /\ call' = [call EXCEPT ![c].at = "raise"]
        /\ UNCHANGED <<prop, through>>
  /\ UNCHANGED <<opVars, conc, answer, revoker, grant, yes, tries, revokes>>

\* An expired question is saved whole, as it was read, and asked again.
Refresh(c) ==
  /\ call[c].at = "refresh"
  /\ prop' = [prop EXCEPT ![call[c].existing] = [status |-> "PENDING", live |-> TRUE]]
  /\ call' = [call EXCEPT ![c] = NoCall]
  /\ UNCHANGED <<opVars, conc, answer, revoker, grant, yes, through, tries, revokes>>

\* Mutated: the question is inserted without the moment it expires.
RaiseWithoutExpiry(c) ==
  /\ call[c].at = "raise"
  /\ \E p \in Proposal :
       NextProposal(p) /\ prop' = [prop EXCEPT ![p] = [status |-> "PENDING"]]
  /\ call' = [call EXCEPT ![c] = NoCall]
  /\ UNCHANGED <<opVars, conc, answer, revoker, grant, yes, through, tries, revokes>>

Raise(c) ==
  /\ call[c].at = "raise"
  /\ \E p \in Proposal :
       /\ NextProposal(p)
       /\ prop' = [prop EXCEPT ![p] = [status |-> "PENDING", live |-> TRUE]]
  /\ call' = [call EXCEPT ![c] = NoCall]
  /\ UNCHANGED <<opVars, conc, answer, revoker, grant, yes, through, tries, revokes>>

\* The handler inserts its operation, stamped with what let the call through.
Depart(c, o, f) ==
  /\ call[c].at = "through"
  /\ Create(o, f)
  /\ grant' = [grant EXCEPT ![o] = call[c].grant]
  /\ call' = [call EXCEPT ![c] = NoCall]
  /\ UNCHANGED <<prop, conc, answer, revoker, yes, through, tries, revokes>>

\* ... or the call ends without starting anything: the handler refused it.
CallEnds(c) ==
  /\ call[c].at = "through"
  /\ call' = [call EXCEPT ![c] = NoCall]
  /\ UNCHANGED <<opVars, prop, conc, answer, revoker, grant, yes, through, tries, revokes>>

-----------------------------------------------------------------------------
(* The person. *)
Expire(p) ==
  /\ prop[p].status = "PENDING" /\ prop[p].live
  /\ prop' = [prop EXCEPT ![p].live = FALSE]
  /\ UNCHANGED <<opVars, conc, call, answer, revoker, grant, yes, through, tries, revokes>>

ReadProposal(a, p, decision) ==
  /\ answer[a].at = "idle"
  /\ prop[p].status = "PENDING" /\ prop[p].live
  /\ answer' = [answer EXCEPT ![a] =
       [at |-> IF decision = "always" THEN "concede" ELSE "save", p |-> p, decision |-> decision]]
  /\ UNCHANGED <<opVars, prop, conc, call, revoker, grant, yes, through, tries, revokes>>

Concede(a) ==
  /\ answer[a].at = "concede"
  /\ \E k \in Concession :
       NextConcession(k) /\ conc' = [conc EXCEPT ![k] = "given"]
  /\ answer' = [answer EXCEPT ![a].at = "save"]
  /\ UNCHANGED <<opVars, prop, call, revoker, grant, yes, through, tries, revokes>>

\* Mutated: "always" leaves an approval beside its concession.
DecidedStatusApproved(decision) == IF decision = "deny" THEN "DENIED" ELSE "APPROVED"

DecidedStatus(decision) ==
  CASE decision = "deny" -> "DENIED"
    [] decision = "always" -> "CONSUMED"
    [] decision = "once" -> "APPROVED"

\* The question is saved whole, as it was read, with its answer.
Decide(a) ==
  /\ answer[a].at = "save"
  /\ LET p == answer[a].p IN
       /\ prop' = [prop EXCEPT ![p].status = DecidedStatus(answer[a].decision)]
       /\ yes' = IF answer[a].decision = "once" THEN [yes EXCEPT ![p] = @ + 1] ELSE yes
  /\ answer' = [answer EXCEPT ![a] = NoAnswer]
  /\ UNCHANGED <<opVars, conc, call, revoker, grant, through, tries, revokes>>

\* The database fails: a concession that was saved stays.
AnswerFails(a) ==
  /\ answer[a].at # "idle"
  /\ answer' = [answer EXCEPT ![a] = NoAnswer]
  /\ UNCHANGED <<opVars, prop, conc, call, revoker, grant, yes, through, tries, revokes>>

-----------------------------------------------------------------------------
(* Taking a concession back. *)
Revoke(k, alsoStop) ==
  /\ revoker.at = "idle"
  /\ conc[k] # "none"
  /\ revokes > 0
  /\ revokes' = revokes - 1
  /\ conc' = [conc EXCEPT ![k] = "revoked"]
  /\ revoker' = IF alsoStop THEN [NoRevoke EXCEPT !.at = "list", !.k = k] ELSE NoRevoke
  /\ UNCHANGED <<opVars, prop, call, answer, grant, yes, through, tries>>

RunningUnder(k) == {o \in Op : grant[o] = <<"concession", k>> /\ op[o].status \in Running}

ListRunning ==
  /\ revoker.at = "list"
  /\ LET running == RunningUnder(revoker.k) IN
       revoker' = IF running # {}
                    THEN [revoker EXCEPT !.at = "ask", !.running = running]
                    ELSE NoRevoke
  /\ UNCHANGED <<opVars, prop, conc, call, answer, grant, yes, through, tries, revokes>>

AskToStop(o) ==
  /\ revoker.at = "ask"
  /\ o \in revoker.running
  /\ RecordRequest(o)
  /\ revoker' = IF revoker.running = {o} THEN NoRevoke
                ELSE [revoker EXCEPT !.running = @ \ {o}]
  /\ UNCHANGED <<prop, conc, call, answer, grant, yes, through, tries, revokes>>

-----------------------------------------------------------------------------
Guard(c) ==
  \/ MatchingConcession(c) \/ FindExisting(c) \/ Spend(c)
  \/ Refresh(c) \/ Raise(c) \/ CallEnds(c)
  \/ \E o \in Op, f \in Family : Depart(c, o, f)

Person ==
  \/ \E p \in Proposal : Expire(p)
  \/ \E a \in Answer :
       \/ \E p \in Proposal, decision \in Decision : ReadProposal(a, p, decision)
       \/ Concede(a) \/ Decide(a) \/ AnswerFails(a)
  \/ \E k \in Concession, alsoStop \in BOOLEAN : Revoke(k, alsoStop)
  \/ ListRunning
  \/ \E o \in Op : AskToStop(o)

Operations ==
  /\ \E o \in Op : RequestCancellation(o) \/ Process(o)
  /\ UNCHANGED cycleVars

Next == (\E c \in Call : Guard(c)) \/ Person \/ Operations
Spec == Init /\ [][Next]_vars

-----------------------------------------------------------------------------
\* A yes given once lets one call through, however many identical calls are
\* made at once: what was let through and what could still be never exceeds
\* what was answered.  An "always" leaves no approval behind, so a concession
\* that was taken back lets nothing more through.
EachYesOnce ==
  \A p \in Proposal :
    through[p] + (IF prop[p].status = "APPROVED" THEN 1 ELSE 0) <= yes[p]
=============================================================================
