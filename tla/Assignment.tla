----------------------------- MODULE Assignment -----------------------------
(***************************************************************************)
(* Who does which task: recommendations of owners, the members' answers,   *)
(* negotiations about tasks somebody would rather do, finalization, the    *)
(* project memory of it, and the two ways around it (a task edited by      *)
(* hand, a replan).  assignment_service.py and its callers.                *)
(*                                                                         *)
(* As in Proposals, a request reads without a lock until its first flush   *)
(* and commits from there in one step, so it is a step that reads (ReadX)  *)
(* and a step that writes (WriteX) by the rows it has read.  Finalization  *)
(* commits twice and extracts memory after that, each a pair of steps of   *)
(* its own.                                                                *)
(*                                                                         *)
(* Left out: backup owners, reasons and constraint evidence (data of a     *)
(* payload), members who join or leave, and the idempotency key of the     *)
(* recommendation tool (a repetition finds its key and writes nothing; one *)
(* that overlaps is a second recommendation like any other).               *)
(***************************************************************************)
EXTENDS Integers, Sequences, FiniteSets

CONSTANTS
    Sessions,         \* requests that may be under way at one time
    Users,            \* members of the workspace
    Tasks,            \* tasks of the project
    StageOf,          \* [Tasks -> stages]
    None,             \* no owner
    MaxProposals,     \* bound: recommendations
    MaxNegotiations,  \* bound: negotiations
    MaxRaced,         \* bound: requests that write on the basis of rows that changed
    PatchOwners,      \* bound: what owners are set to by hand
    MaxEdits          \* bound: owners set by hand or by a replan, and negotiations
                      \*   created by the route that checks nothing

ASSUME AssignmentAssumption ==
    /\ DOMAIN StageOf = Tasks
    /\ None \notin Users
    /\ PatchOwners \subseteq Users \cup {None}
    /\ {MaxProposals, MaxNegotiations, MaxRaced, MaxEdits} \subseteq Nat

VARIABLES
    proposals,     \* assignment_proposals in the order they were inserted
    negotiations,  \* assignment_negotiations, likewise
    owner,         \* [Tasks -> owner_user_id]
    memories,      \* project memories of assignments: the proposal and its task
    session,       \* the requests under way
    consents,      \* history: <<user, task>> where the user accepted a recommendation
                   \*   of the task or had a negotiation for it accepted
    edits,         \* history: how often an owner was set by hand or by a replan, or a
                   \*   negotiation created unchecked, and the tasks whose owner was set
    unsettled,     \* history: proposals whose finalization ended after its first commit
    raced          \* history: how many requests have written on the basis of rows that
                   \*   had changed since they read them

rows == <<proposals, negotiations, owner, memories>>
vars == <<proposals, negotiations, owner, memories, session, consents, edits, unsettled, raced>>

ProposalStatus    == {"proposed", "owner_confirmed", "owner_rejected", "finalized"}
NegotiationStatus == {"pending", "accepted", "declined", "resolved"}

Idle == [op |-> "idle"]

Init ==
    /\ proposals = <<>>
    /\ negotiations = <<>>
    /\ owner = [t \in Tasks |-> None]
    /\ memories = {}
    /\ session = [s \in Sessions |-> Idle]
    /\ consents = {}
    /\ edits = [count |-> 0, patched |-> {}, replanned |-> {}]
    /\ unsettled = {}
    /\ raced = 0

-----------------------------------------------------------------------------
(* What requests look for *)

ProposalsOn(t, statuses) ==
    {p \in DOMAIN proposals : proposals[p].task = t /\ proposals[p].status \in statuses}

Active(t)    == ProposalsOn(t, {"proposed", "owner_confirmed", "finalized"})
Confirmed(t) == ProposalsOn(t, {"owner_confirmed", "finalized"})

\* The proposals an accepted negotiation may be about: the query has no order
\* and takes the first.
RejectedBy(n) == {p \in DOMAIN proposals :
                    /\ proposals[p].stage = negotiations[n].stage
                    /\ proposals[p].user = negotiations[n].user
                    /\ proposals[p].status = "owner_rejected"}

Pending(tasks) == {n \in DOMAIN negotiations : negotiations[n].task \in tasks
                                            /\ negotiations[n].status = "pending"}

\* Faulty variant: a recommendation that waits for its answer is not looked for.
NobodyAgreed(t, u) ==
    /\ owner[t] = None
    /\ Confirmed(t) = {}
    /\ \A p \in ProposalsOn(t, {"owner_rejected"}) : proposals[p].user # u

\* _validate_proposal_relationships.
MayRecommend(t, u) ==
    /\ owner[t] = None
    /\ Active(t) = {}
    /\ \A p \in ProposalsOn(t, {"owner_rejected"}) : proposals[p].user # u

\* Faulty variant: any member may answer.
AnyoneAnswers(p, u) == proposals[p].status = "proposed"

\* Faulty variant: an answer can be changed.
AnswersAgain(p, u) == u = proposals[p].user

MayAnswer(p, u) == proposals[p].status = "proposed" /\ u = proposals[p].user

MayFinalize(p) == proposals[p].status = "owner_confirmed"

MayNegotiate(p, t) == proposals[p].status = "owner_rejected" /\ Confirmed(t) = {}

MayAccept(n) == negotiations[n].status = "pending" /\ Confirmed(negotiations[n].task) = {}

\* The guard of confirm_replan.
MayReplan(t, u) == u # owner[t] /\ ProposalsOn(t, {"finalized"}) = {}

\* Whether the request r that was read would be refused, or read otherwise, now.
Outdated(r) ==
    CASE r.op = "create"    -> ~MayRecommend(r.task, r.user)
      [] r.op = "respond"   -> ~MayAnswer(r.p, r.user)
      [] r.op = "finalize"  -> \/ \E p \in DOMAIN r.task : ~MayFinalize(p)
                               \/ \E p \in DOMAIN r.task :
                                    \/ proposals[p].task # r.task[p]
                                    \/ owner[r.task[p]] # r.seen[p]
      [] r.op = "settling"  -> \E n \in r.stale : negotiations[n].status # "pending"
      [] r.op = "negotiate" -> ~MayNegotiate(r.p, r.task)
      [] r.op = "resolve"   -> \/ negotiations[r.n].status # "pending"
                               \/ r.p # 0 /\ \/ proposals[r.p].status # "owner_rejected"
                                             \/ Confirmed(negotiations[r.n].task) # {}
      [] r.op = "replan"    -> ~MayReplan(r.task, r.user)
      [] OTHER              -> FALSE

\* Request s has read what it needs for r, and writes nothing yet.
Reads(s, r) ==
    /\ session' = [session EXCEPT ![s] = r]
    /\ UNCHANGED <<proposals, negotiations, owner, memories, consents, edits, unsettled, raced>>

\* Request s has written and continues as `next'.
Wrote(s, next) ==
    /\ session' = [session EXCEPT ![s] = next]
    /\ raced' = IF Outdated(session[s]) THEN raced + 1 ELSE raced
    /\ raced' <= MaxRaced

\* Negotiations ns get a status.
With(ns, status) ==
    [n \in DOMAIN negotiations |->
        IF n \in ns THEN [negotiations[n] EXCEPT !.status = status] ELSE negotiations[n]]

\* Faulty variant: negotiations about a task that is taken are left alone.
LeaveStale(ns) == negotiations

\* Faulty variant: they are deleted.
DeleteStale(ns) == LET Kept(n) == n \notin ns
                       keep == SelectSeq([n \in DOMAIN negotiations |-> n], Kept)
                   IN  [i \in DOMAIN keep |-> negotiations[keep[i]]]

\* _resolve_stale_negotiations_for_task, of the negotiations it finds.
ResolveStale(ns) == With(ns, "resolved")

-----------------------------------------------------------------------------
(* create_assignment_proposal, of the route and of the tool *)

ReadCreate(s, t, u) ==
    /\ session[s] = Idle
    /\ MayRecommend(t, u)
    /\ Len(proposals) < MaxProposals
    /\ Reads(s, [op |-> "create", task |-> t, user |-> u])

WriteCreate(s) ==
    /\ session[s].op = "create"
    /\ Len(proposals) < MaxProposals
    /\ LET t == session[s].task
       IN  proposals' = Append(proposals, [task |-> t, stage |-> StageOf[t],
                                           user |-> session[s].user, status |-> "proposed"])
    /\ Wrote(s, Idle)
    /\ UNCHANGED <<negotiations, owner, memories, consents, edits, unsettled>>

-----------------------------------------------------------------------------
(* create_assignment_response *)

ReadRespond(s, p, u, accept) ==
    /\ session[s] = Idle
    /\ MayAnswer(p, u)
    /\ Reads(s, [op |-> "respond", p |-> p, user |-> u, task |-> proposals[p].task,
                 accept |-> accept])

\* The query for stale negotiations flushes the status first, so it sees what is
\* pending when the request writes.
WriteRespond(s) ==
    /\ session[s].op = "respond"
    /\ LET r == session[s]
       IN  /\ proposals' = [proposals EXCEPT ![r.p].status =
                              IF r.accept THEN "owner_confirmed" ELSE "owner_rejected"]
           /\ negotiations' = IF r.accept THEN ResolveStale(Pending({r.task}))
                                          ELSE negotiations
           /\ consents' = IF r.accept THEN consents \cup {<<r.user, r.task>>} ELSE consents
    /\ Wrote(s, Idle)
    /\ UNCHANGED <<owner, memories, edits, unsettled>>

-----------------------------------------------------------------------------
(* finalize_assignment_proposal and finalize_assignment_proposals_by_stage *)

\* The request with the tasks of the proposals ps and the owners it has read.
Finalizing(ps) == [op   |-> "finalize",
                   task |-> [p \in ps |-> proposals[p].task],
                   seen |-> [p \in ps |-> owner[proposals[p].task]]]

ReadFinalize(s, p) ==
    /\ session[s] = Idle
    /\ MayFinalize(p)
    /\ Reads(s, Finalizing({p}))

\* Nothing is written when one of the tasks has another owner.
ReadFinalizeStage(s, stage) ==
    LET ps == {p \in DOMAIN proposals : proposals[p].stage = stage /\ MayFinalize(p)}
    IN  /\ session[s] = Idle
        /\ ps # {}
        /\ \A p \in ps : owner[proposals[p].task] \in {None, proposals[p].user}
        /\ Reads(s, Finalizing(ps))

\* The owner task t gets where p is the proposal for it that is written last; an
\* owner that is there already is not written again.
OwnerBy(r, p) == IF r.seen[p] = proposals[p].user THEN owner[r.task[p]] ELSE proposals[p].user

\* First commit.  The list of a stage has no order: of two proposals for a task
\* either may be the last.
WriteFinalize(s) ==
    /\ session[s].op = "finalize"
    /\ LET r  == session[s]
           ps == DOMAIN r.task
       IN  /\ \E last \in {f \in [{r.task[p] : p \in ps} -> ps] :
                             \A t \in DOMAIN f : r.task[f[t]] = t} :
                owner' = [t \in Tasks |->
                            IF t \in DOMAIN last THEN OwnerBy(r, last[t]) ELSE owner[t]]
           /\ proposals' = [p \in DOMAIN proposals |->
                              IF p \in ps THEN [proposals[p] EXCEPT !.status = "finalized"]
                                          ELSE proposals[p]]
           /\ Wrote(s, [op |-> "settle", ps |-> ps])
    /\ UNCHANGED <<negotiations, memories, consents, edits, unsettled>>

\* The refreshed proposals and the negotiations about their tasks: without any
\* there is nothing to write.
ReadSettle(s) ==
    /\ session[s].op = "settle"
    /\ LET ps    == session[s].ps
           stale == Pending({proposals[p].task : p \in ps})
       IN  Reads(s, IF stale = {} THEN [op |-> "extract", ps |-> ps]
                                  ELSE [op |-> "settling", ps |-> ps, stale |-> stale])

\* Second commit.
WriteSettle(s) ==
    /\ session[s].op = "settling"
    /\ negotiations' = ResolveStale(session[s].stale)
    /\ Wrote(s, [op |-> "extract", ps |-> session[s].ps])
    /\ UNCHANGED <<proposals, owner, memories, consents, edits, unsettled>>

-----------------------------------------------------------------------------
(* extract_from_event for one finalized proposal after the other *)

\* The hash of a memory tells the task its proposal is about now: with another
\* task it is another memory, which supersedes the former one.
Extract(s, p) ==
    /\ session[s].op = "extract"
    /\ p \in session[s].ps
    /\ memories' = memories \cup {[p |-> p, task |-> proposals[p].task]}
    /\ LET rest == session[s].ps \ {p}
       IN  session' = [session EXCEPT ![s] =
                         IF rest = {} THEN Idle ELSE [op |-> "extract", ps |-> rest]]
    /\ UNCHANGED <<proposals, negotiations, owner, consents, edits, unsettled, raced>>

-----------------------------------------------------------------------------
(* Negotiations *)

Negotiation(u, stage, t, checked) ==
    [user |-> u, stage |-> stage, task |-> t, status |-> "pending", checked |-> checked]

\* create_assignment_negotiation_from_proposal: by the owner who has rejected it.
ReadNegotiate(s, p, t) ==
    /\ session[s] = Idle
    /\ MayNegotiate(p, t)
    /\ Len(negotiations) < MaxNegotiations
    /\ Reads(s, [op |-> "negotiate", p |-> p, task |-> t])

WriteNegotiate(s) ==
    /\ session[s].op = "negotiate"
    /\ Len(negotiations) < MaxNegotiations
    /\ LET p == proposals[session[s].p]
       IN  negotiations' = Append(negotiations,
                                  Negotiation(p.user, p.stage, session[s].task, TRUE))
    /\ Wrote(s, Idle)
    /\ UNCHANGED <<proposals, owner, memories, consents, edits, unsettled>>

\* create_assignment_negotiation checks only that what it names exists.
CreateNegotiation(u, stage, t) ==
    /\ Len(negotiations) < MaxNegotiations
    /\ edits.count < MaxEdits
    /\ negotiations' = Append(negotiations, Negotiation(u, stage, t, FALSE))
    /\ edits' = [edits EXCEPT !.count = @ + 1]
    /\ UNCHANGED <<proposals, owner, memories, session, consents, unsettled, raced>>

\* resolve_assignment_negotiation: p is the proposal that moves to the desired
\* task, 0 when the negotiation is declined.
ReadResolve(s, n) ==
    /\ session[s] = Idle
    /\ \/ /\ negotiations[n].status = "pending"
          /\ Reads(s, [op |-> "resolve", n |-> n, p |-> 0, task |-> None])
       \/ /\ MayAccept(n)
          /\ \E p \in RejectedBy(n) :
               Reads(s, [op |-> "resolve", n |-> n, p |-> p, task |-> proposals[p].task])

WriteResolve(s) ==
    /\ session[s].op = "resolve"
    /\ LET r == session[s]
           t == negotiations[r.n].task
       IN  IF r.p = 0
           THEN /\ negotiations' = With({r.n}, "declined")
                /\ UNCHANGED <<proposals, consents>>
           ELSE /\ negotiations' = With({r.n}, "accepted")
                /\ proposals' = [proposals EXCEPT
                                   ![r.p].task = IF r.task = t THEN @ ELSE t,
                                   ![r.p].status = "owner_confirmed"]
                /\ consents' = consents \cup {<<negotiations[r.n].user, t>>}
    /\ Wrote(s, Idle)
    /\ UNCHANGED <<owner, memories, edits, unsettled>>

-----------------------------------------------------------------------------
(* Owners set otherwise *)

\* update_task: an owner or none, without any check.
PatchOwner(t, u) ==
    /\ edits.count < MaxEdits
    /\ u # owner[t]
    /\ owner' = [owner EXCEPT ![t] = u]
    /\ edits' = [edits EXCEPT !.count = @ + 1, !.patched = @ \cup {t}]
    /\ UNCHANGED <<proposals, negotiations, memories, session, consents, unsettled, raced>>

\* The change of an owner in confirm_replan.
ReadReplan(s, t, u) ==
    /\ session[s] = Idle
    /\ MayReplan(t, u)
    /\ edits.count < MaxEdits
    /\ Reads(s, [op |-> "replan", task |-> t, user |-> u])

WriteReplan(s) ==
    /\ session[s].op = "replan"
    /\ edits.count < MaxEdits
    /\ LET t == session[s].task
       IN  /\ owner' = [owner EXCEPT ![t] = session[s].user]
           /\ edits' = [edits EXCEPT !.count = @ + 1, !.replanned = @ \cup {t}]
    /\ Wrote(s, Idle)
    /\ UNCHANGED <<proposals, negotiations, memories, consents, unsettled>>

-----------------------------------------------------------------------------
(* Failures *)

\* A request ends by an exception, or with the process, after its first commit:
\* what it has not yet written is never written.  (One that ends before has left
\* nothing behind, as if it had not begun; a crash is the end of every request.)
Fail(s) ==
    /\ session[s].op \in {"settle", "settling", "extract"}
    /\ session' = [session EXCEPT ![s] = Idle]
    /\ unsettled' = IF session[s].op = "extract" THEN unsettled
                                                 ELSE unsettled \cup session[s].ps
    /\ UNCHANGED <<proposals, negotiations, owner, memories, consents, edits, raced>>

-----------------------------------------------------------------------------
Stages == {StageOf[t] : t \in Tasks}

Begin(s) ==
    \/ \E t \in Tasks, u \in Users : ReadCreate(s, t, u) \/ ReadReplan(s, t, u)
    \/ \E p \in DOMAIN proposals :
         \/ ReadFinalize(s, p)
         \/ \E u \in Users, accept \in BOOLEAN : ReadRespond(s, p, u, accept)
         \/ \E t \in Tasks : ReadNegotiate(s, p, t)
    \/ \E stage \in Stages : ReadFinalizeStage(s, stage)
    \/ \E n \in DOMAIN negotiations : ReadResolve(s, n)

Continue(s) ==
    \/ WriteCreate(s) \/ WriteRespond(s) \/ WriteFinalize(s) \/ ReadSettle(s) \/ WriteSettle(s)
    \/ WriteNegotiate(s) \/ WriteResolve(s) \/ WriteReplan(s) \/ Fail(s)
    \/ \E p \in DOMAIN proposals : Extract(s, p)

Next ==
    \/ \E s \in Sessions : Begin(s) \/ Continue(s)
    \/ \E u \in Users, stage \in Stages, t \in Tasks : CreateNegotiation(u, stage, t)
    \/ \E t \in Tasks, u \in PatchOwners : PatchOwner(t, u)

Spec == Init /\ [][Next]_vars

-----------------------------------------------------------------------------
(* Properties *)

Proposal    == [task : Tasks, stage : Stages, user : Users, status : ProposalStatus]
NegotiationType == [user : Users, stage : Stages, task : Tasks, status : NegotiationStatus,
                    checked : BOOLEAN]

\* Rows and history have their types, and requests and memories point to rows
\* that exist.
TypeOK ==
    /\ proposals \in Seq(Proposal)
    /\ negotiations \in Seq(NegotiationType)
    /\ owner \in [Tasks -> Users \cup {None}]
    /\ memories \in SUBSET [p : DOMAIN proposals, task : Tasks]
    /\ consents \in SUBSET (Users \X Tasks)
    /\ edits \in [count : Nat, patched : SUBSET Tasks, replanned : SUBSET Tasks]
    /\ unsettled \in SUBSET (DOMAIN proposals)
    /\ raced \in 0..MaxRaced
    /\ \A s \in Sessions :
         LET r == session[s]
         IN  /\ r.op \in {"respond", "negotiate"} => r.p \in DOMAIN proposals
             /\ r.op \in {"settle", "settling", "extract"} =>
                    r.ps \subseteq DOMAIN proposals
             /\ r.op = "settling" => r.stale \subseteq DOMAIN negotiations
             /\ r.op = "resolve" => /\ r.n \in DOMAIN negotiations
                                    /\ r.p \in DOMAIN proposals \cup {0}

\* Whoever a task or the project memory names as the one who does the task has
\* agreed to it, whatever requests overlap and wherever they fail: the member
\* has accepted a recommendation of this task, or a negotiation in which the
\* member asked for it was accepted.  Only owners set by hand or by a replan
\* are nobody's consent.
OwnersConsented ==
    /\ \A t \in Tasks : \/ owner[t] = None
                        \/ t \in edits.patched \cup edits.replanned
                        \/ <<owner[t], t>> \in consents
    /\ \A m \in memories : <<proposals[m.p].user, m.task>> \in consents

Swapped(t) == {n \in DOMAIN negotiations : negotiations[n].task = t
                                        /\ negotiations[n].status = "accepted"}

\* As long as no request has written on the basis of rows that had changed, a
\* task has one active recommendation, and a second one only by a negotiation
\* that was accepted beside it; and the owner of a task with a finalized
\* recommendation is the member of one of those, unless set by hand: a replan
\* does not change it.
SerialAssignment ==
    raced = 0 => \A t \in Tasks :
        /\ Cardinality(Active(t)) <= (IF Swapped(t) = {} THEN 1 ELSE 2)
        /\ Cardinality(Swapped(t)) <= 1
        /\ ProposalsOn(t, {"finalized"}) # {} =>
              \/ t \in edits.patched
              \/ \E p \in ProposalsOn(t, {"finalized"}) : owner[t] = proposals[p].user

BeingSettled == UNION {session[s].ps : s \in {x \in Sessions : session[x].op \in {"settle", "settling"}}}

\* As long as no request has written on the basis of rows that had changed, no
\* negotiation waits for a task whose recommendation was finalized, once the
\* finalization is over; a failure between its two commits may leave one, and
\* the route that checks nothing may create one.
NoStaleNegotiation ==
    raced = 0 => \A t \in Tasks :
        ProposalsOn(t, {"finalized"}) \ (unsettled \cup BeingSettled) # {} =>
            \A n \in Pending({t}) : ~negotiations[n].checked

\* Request s ends by writing its answer to proposal p, or the negotiation that
\* moves p, although it would be refused by now.
WritesLate(s, p) ==
    /\ session[s].op \in {"respond", "resolve"}
    /\ session[s].p = p
    /\ Outdated(session[s])
    /\ session'[s] = Idle

\* A finalized recommendation stays finalized and for its task, however many
\* requests have raced before: the one step that takes it back is the write of
\* an answer or of a negotiation about this very recommendation that was read
\* before it was finalized.
FinalizedIsFinal ==
    [][\A p \in DOMAIN proposals :
         proposals[p].status = "finalized" =>
             \/ /\ proposals'[p].status = "finalized"
                /\ proposals'[p].task = proposals[p].task
             \/ \E s \in Sessions : WritesLate(s, p)]_vars
=============================================================================
