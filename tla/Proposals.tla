----------------------------- MODULE Proposals -----------------------------
(***************************************************************************)
(* Agent proposals from the tool call that drafts them to the decision of  *)
(* a member, and what the decision writes: the project's plan, the         *)
(* timeline, the events of the run that drafted it and the project memory. *)
(*                                                                         *)
(* The endpoints are synchronous functions that FastAPI runs in a thread   *)
(* pool, each with its own SQLAlchemy session on one SQLite database.      *)
(* pysqlite opens a transaction at the first INSERT or UPDATE, so what a   *)
(* request reads before that it reads without a lock, and from there to    *)
(* its commit no other request writes.  A request is therefore two steps:  *)
(* it reads (ReadX), and it writes and commits in one (WriteX), with the   *)
(* rows it has read kept in its session.  A request whose first statement  *)
(* is an INSERT is one step, and so is an UPDATE of a column to a value    *)
(* that does not depend on what was read.  Extraction of project memory is *)
(* a request of its own, made after the decision's commit.                 *)
(***************************************************************************)
EXTENDS ProjectPlan

CONSTANTS
    Sessions,      \* requests that may be under way at one time
    Keys,          \* idempotency keys of proposal tool calls
    KindOf,        \* [Keys -> Kinds]: the tool each key is used with
    Reasons,       \* what members give as the reason of a rejection
    ReasonsFor,    \* [Keys -> SUBSET Reasons]: bound: the reasons given for a
                   \*   proposal of each key
    MaxProposals,  \* bound: proposals
    MaxStages,     \* bound: stages
    MaxTasks,      \* bound: tasks
    Edits,         \* bound: what is written by hand (EditKinds)
    EditStatuses,  \* bound: the statuses given to stages and the project by hand
    MaxEdits       \* bound: stages created, and stages, tasks and the project
                   \*   changed, by hand

Kinds == {"clarify", "plan", "breakdown", "replan"}
EditKinds == {"add_stage", "stage", "add_task", "task", "status", "card"}

ASSUME ProposalsAssumption ==
    /\ IsFiniteSet(Sessions)
    /\ KindOf \in [Keys -> Kinds]
    /\ None \notin Reasons
    /\ ReasonsFor \in [Keys -> SUBSET Reasons]
    /\ Edits \subseteq EditKinds
    /\ EditStatuses \subseteq StageStatus \cup ProjectStatus
    /\ {MaxProposals, MaxStages, MaxTasks, MaxEdits} \subseteq Nat

VARIABLES
    proposals,  \* agent_proposals in the order they were inserted
    trail,      \* what has been recorded of each proposal
    plan,       \* stages, tasks and project row
    card,       \* the proposal the project's direction card comes from, or None
                \*   where there is no card or one written by hand
    session,    \* the requests under way
    edits,      \* history: how much was written by hand, the stages that were given
                \*   a status so, the statuses the project was given so, and whether
                \*   its card was
    raced       \* history: the operations of the requests that have written on the
                \*   basis of rows that had changed since they read them

vars == <<proposals, trail, plan, card, session, edits, raced>>

-----------------------------------------------------------------------------
(* Data *)

RunEvents == {"confirmed", "committed", "rejected"}
Sources   == {"confirmed", "rejected"}

\* What a proposal proposes: `row' is the stage of the tasks of a breakdown, or
\* the task a replan sets to done or not done; the others have no target.
Targets  == [row : Nat, done : BOOLEAN]
NoTarget == [row |-> 0, done |-> FALSE]

\* `reason' is the column rejection_reason; None is null or blank.
Proposal == [kind : Kinds, key : Keys, target : Targets,
             status : {"pending", "confirmed", "rejected"},
             reason : Reasons \cup {None}]

\* A row of the project memory: the decision it is of and, for a rejection, the
\* reason, which with the type of the proposal makes its hash.  The hash of a
\* confirmation is that of the payload, which does not change.  (A clarification
\* leaves two rows, written together: they are one here.)
Memories == [source : Sources, reason : Reasons \cup {None}]

\* How often a proposal was confirmed (timeline events) and rejected, the events
\* of its run, the rows of the project memory that name it, and which of them
\* are active, the others being superseded; and, as history, the reasons it was
\* rejected with and the decisions of which an extraction was lost.
Trail == [confirmed : Nat, rejected : Nat, run : SUBSET RunEvents,
          memory : SUBSET Memories, active : SUBSET Memories,
          reasons : SUBSET (Reasons \cup {None}), lost : SUBSET Sources]

NoTrail == [confirmed |-> 0, rejected |-> 0, run |-> {}, memory |-> {},
            active |-> {}, reasons |-> {}, lost |-> {}]

\* A request under way has an operation, what it was asked for, and the rows it
\* has read as far as it still needs them:
\*   create (key, target), confirm (p, seen), reject (p), repair (seen), and
\*   after a decision the extraction of memory, which is to read the proposal
\*   (extract: p, source), to look for rows like its candidate (remember: p,
\*   memory) and to insert it in place of a row it found (insert: p, memory, old).
Idle == [op |-> "idle"]

Extraction == {"extract", "remember", "insert"}

Ops == {"idle", "create", "confirm", "reject", "repair"} \cup Extraction

Init ==
    /\ proposals = <<>>
    /\ trail = <<>>
    /\ plan = EmptyPlan
    /\ card = None
    /\ session = [s \in Sessions |-> Idle]
    /\ edits = [count |-> 0, stages |-> {}, statuses |-> {}, card |-> FALSE]
    /\ raced = {}

-----------------------------------------------------------------------------
(* What a request reads and checks before it writes *)

WithKey(k)     == {p \in DOMAIN proposals : proposals[p].kind = KindOf[k]
                                         /\ proposals[p].key = k}
PendingReplans == {p \in DOMAIN proposals : proposals[p].kind = "replan"
                                         /\ proposals[p].status = "pending"}

\* The call is not a repetition, and no replan waits for its decision.  (A
\* repetition returns the first proposal and a second replan is blocked:
\* neither writes.)
MayDraft(k) == WithKey(k) = {} /\ (KindOf[k] = "replan" => PendingReplans = {})

\* Faulty variant: a rejected proposal can still be confirmed.
NotConfirmed(p) == proposals[p].status # "confirmed"

MayDecide(p) == proposals[p].status = "pending"

\* The rows a confirmation reads before it writes, as far as what it writes
\* depends on them: stages and project for a plan, tasks for a replan.
Loaded(p) ==
    CASE proposals[p].kind = "plan"   -> [plan EXCEPT !.tasks = <<>>]
      [] proposals[p].kind = "replan" -> [EmptyPlan EXCEPT !.tasks = plan.tasks]
      [] OTHER                        -> EmptyPlan

\* Whether request s would read something else now than it has read.
Outdated(s) ==
    CASE session[s].op = "create"  -> ~MayDraft(session[s].key)
      [] session[s].op = "confirm" -> \/ ~MayDecide(session[s].p)
                                      \/ Loaded(session[s].p) # session[s].seen
      [] session[s].op = "reject"  -> ~MayDecide(session[s].p)
      [] session[s].op = "repair"  -> plan # session[s].seen
      [] OTHER                     -> FALSE

\* Request s has written and continues as `next'.
Wrote(s, next) ==
    /\ session' = [session EXCEPT ![s] = next]
    /\ raced' = IF Outdated(s) THEN raced \cup {session[s].op} ELSE raced

-----------------------------------------------------------------------------
(* Drafting: execute_agent_tool for the four proposal tools *)

\* The payloads the model may come up with for a tool.
Payloads(k) ==
    CASE KindOf[k] = "breakdown" -> [row : Nat \cap DOMAIN plan.stages, done : {FALSE}]
      [] KindOf[k] = "replan"    -> [row : Nat \cap DOMAIN plan.tasks, done : BOOLEAN]
      [] OTHER                   -> {NoTarget}

ReadDraft(s, k) ==
    /\ session[s] = Idle
    /\ MayDraft(k)
    /\ Len(proposals) < MaxProposals
    /\ \E target \in Payloads(k) :
         session' = [session EXCEPT ![s] =
             [op |-> "create", key |-> k, target |-> target]]
    /\ UNCHANGED <<proposals, trail, plan, card, edits, raced>>

\* _persist_proposal_from_sidecar: the agent event with the key and the
\* proposal, in one commit.
WriteDraft(s) ==
    /\ session[s].op = "create"
    /\ Len(proposals) < MaxProposals
    /\ proposals' = Append(proposals,
                           [kind |-> KindOf[session[s].key], key |-> session[s].key,
                            target |-> session[s].target, status |-> "pending",
                            reason |-> None])
    /\ trail' = Append(trail, NoTrail)
    /\ Wrote(s, Idle)
    /\ UNCHANGED <<plan, card, edits>>

-----------------------------------------------------------------------------
(* Decisions *)

\* confirm_proposal up to its first flush.  The confirmer's membership is
\* checked here too; members do not change in this model.
ReadConfirm(s, p) ==
    /\ session[s] = Idle
    /\ MayDecide(p)
    /\ session' = [session EXCEPT ![s] =
                     [op |-> "confirm", p |-> p, seen |-> Loaded(p)]]
    /\ UNCHANGED <<proposals, trail, plan, card, edits, raced>>

\* The payload of proposal p, persisted by its type.
Persisted(p, seen) ==
    CASE proposals[p].kind = "clarify"   -> plan
      [] proposals[p].kind = "plan"      -> PersistStagePlan(plan, seen)
      [] proposals[p].kind = "breakdown" -> PersistTaskBreakdown(plan, proposals[p].target.row)
      [] proposals[p].kind = "replan"    -> ConfirmReplan(plan, seen, proposals[p].target)

Fits(p) == /\ proposals[p].kind = "plan" => Len(plan.stages) + PlanSize <= MaxStages
           /\ proposals[p].kind = "breakdown" => Len(plan.tasks) < MaxTasks

\* Faulty variant: a run that knows of a decision takes no events of another.
WithFirstEvents(run, first, others) == IF run = {} THEN {first} \cup others ELSE run

\* _record_proposal_confirmation_runtime_events: append_events returns without
\* writing when the first of the events is already in the run.
WithRunEvents(run, first, others) == IF first \in run THEN run ELSE run \cup {first} \cup others

\* Faulty variant: the hook does not know confirmed replans.
AfterClarify(p) ==
    IF proposals[p].kind = "clarify"
    THEN [op |-> "extract", p |-> p, source |-> "confirmed"] ELSE Idle

\* The hook after the commit knows two types of confirmed proposals.
AfterConfirm(p) ==
    IF proposals[p].kind \in {"clarify", "replan"}
    THEN [op |-> "extract", p |-> p, source |-> "confirmed"] ELSE Idle

\* Payload, status, timeline event and run events, in one commit.
WriteConfirm(s) ==
    /\ session[s].op = "confirm"
    /\ LET p == session[s].p
       IN  /\ Fits(p)
           /\ plan' = Persisted(p, session[s].seen)
           /\ card' = IF proposals[p].kind = "clarify" THEN p ELSE card
           /\ proposals' = [proposals EXCEPT ![p].status = "confirmed"]
           /\ trail' = [trail EXCEPT
                          ![p].confirmed = @ + 1,
                          ![p].run = WithRunEvents(@, "confirmed", {"committed"})]
           /\ Wrote(s, AfterConfirm(p))
    /\ UNCHANGED edits

\* reject_proposal up to its first flush.
ReadReject(s, p) ==
    /\ session[s] = Idle
    /\ MayDecide(p)
    /\ session' = [session EXCEPT ![s] = [op |-> "reject", p |-> p]]
    /\ UNCHANGED <<proposals, trail, plan, card, edits, raced>>

\* The hook after the commit asks for the reason this request was given.
AfterReject(p, given) ==
    IF given # None THEN [op |-> "extract", p |-> p, source |-> "rejected"] ELSE Idle

\* The column after a rejection.  The proposal was loaded without a reason, so a
\* request that gives none leaves the column as it is now, and one that gives a
\* blank one writes that.
ReasonWritten(p, given) ==
    IF given = None THEN {proposals[p].reason, None} ELSE {given}

WriteReject(s) ==
    /\ session[s].op = "reject"
    /\ LET p == session[s].p
       IN  \E given \in ReasonsFor[proposals[p].key] \cup {None} :
             /\ \E reason \in ReasonWritten(p, given) :
                  proposals' = [proposals EXCEPT ![p].status = "rejected",
                                                 ![p].reason = reason]
             /\ trail' = [trail EXCEPT
                            ![p].rejected = @ + 1,
                            ![p].run = WithRunEvents(@, "rejected", {}),
                            ![p].reasons = @ \cup {given}]
             /\ Wrote(s, AfterReject(p, given))
    /\ UNCHANGED <<plan, card, edits>>

-----------------------------------------------------------------------------
(* Project memory: extract_from_event for agent proposals *)

\* What the extractors make of proposal p as it is now.
Candidate(p, source) ==
    [source |-> source, reason |-> IF source = "rejected" THEN proposals[p].reason ELSE None]

Asks(s, next) ==
    /\ session' = [session EXCEPT ![s] = next]
    /\ UNCHANGED <<proposals, trail, plan, card, edits, raced>>

\* The proposal is read again, in a session of its own; a rejection without a
\* reason has no candidate.
ReadCandidate(s) ==
    /\ session[s].op = "extract"
    /\ LET p == session[s].p
           memory == Candidate(p, session[s].source)
       IN  Asks(s, IF memory = [source |-> "rejected", reason |-> None] THEN Idle
                   ELSE [op |-> "remember", p |-> p, memory |-> memory])

\* The active rows of the same decision: _write_candidates takes the first.
SameSource(p, memory) == {m \in trail[p].active : m.source = memory.source}

\* _write_candidates up to its flush: a row with the same hash is enough; of the
\* active rows with another hash one is to be superseded.
LookUp(s) ==
    /\ session[s].op = "remember"
    /\ LET p == session[s].p
           memory == session[s].memory
       IN  \/ memory \in trail[p].memory /\ Asks(s, Idle)
           \/ /\ memory \notin trail[p].memory
              /\ \E old \in IF SameSource(p, memory) = {} THEN {{}}
                            ELSE {{m} : m \in SameSource(p, memory)} :
                   Asks(s, [op |-> "insert", p |-> p, memory |-> memory, old |-> old])

\* The insert and its commit.  Where another request has inserted the same row
\* the unique index refuses it, and the exception is swallowed.
Insert(s) ==
    /\ session[s].op = "insert"
    /\ LET p == session[s].p
           memory == session[s].memory
       IN  trail' = IF memory \in trail[p].memory THEN trail
                    ELSE [trail EXCEPT ![p].memory = @ \cup {memory},
                                       ![p].active = (@ \ session[s].old) \cup {memory}]
    /\ session' = [session EXCEPT ![s] = Idle]
    /\ UNCHANGED <<proposals, plan, card, edits, raced>>

Extract(s) == ReadCandidate(s) \/ LookUp(s) \/ Insert(s)

-----------------------------------------------------------------------------
(* Progress and rows written by hand *)

UpdateTaskStatus(t, done) ==
    /\ plan' = StatusUpdate(plan, t, done)
    /\ UNCHANGED <<proposals, trail, card, session, edits, raced>>

\* repair_project_state: its reads, where it finds something to repair.
ReadRepair(s) ==
    /\ session[s] = Idle
    /\ Stalled(plan.stages, plan.tasks) # {}
    /\ session' = [session EXCEPT ![s] = [op |-> "repair", seen |-> plan]]
    /\ UNCHANGED <<proposals, trail, plan, card, edits, raced>>

WriteRepair(s) ==
    /\ session[s].op = "repair"
    /\ plan' = Repair(plan, session[s].seen)
    /\ Wrote(s, Idle)
    /\ UNCHANGED <<proposals, trail, card, edits>>

\* A step by hand, counted: it gives `stages' and the project a status of
\* `statuses', and the project a direction card.
ByHandOf(kind, stages, statuses, newCard) ==
    /\ kind \in Edits
    /\ edits.count < MaxEdits
    /\ edits' = [count |-> edits.count + 1, stages |-> edits.stages \cup stages,
                 statuses |-> edits.statuses \cup statuses, card |-> edits.card \/ newCard]
    /\ UNCHANGED <<proposals, trail, session, raced>>

AddStage ==
    /\ Len(plan.stages) < MaxStages
    /\ plan' = CreateStage(plan)
    /\ ByHandOf("add_stage", {}, {}, FALSE)
    /\ UNCHANGED card

EditStage(i, status) ==
    /\ plan' = UpdateStage(plan, i, status)
    /\ ByHandOf("stage", {i}, {}, FALSE)
    /\ UNCHANGED card

AddTask(i) ==
    /\ "add_task" \in Edits
    /\ Len(plan.tasks) < MaxTasks
    /\ plan' = CreateTask(plan, i)
    /\ UNCHANGED <<proposals, trail, card, session, edits, raced>>

EditTask(t, done) ==
    /\ plan' = UpdateTask(plan, t, done)
    /\ ByHandOf("task", {}, {}, FALSE)
    /\ UNCHANGED card

\* PATCH /projects/{id} writes the columns it is given, among them the status
\* and the direction card.
EditStatus(status) ==
    /\ plan' = UpdateProject(plan, status)
    /\ ByHandOf("status", {}, {status}, FALSE)
    /\ UNCHANGED card

EditCard ==
    /\ card' = None
    /\ ByHandOf("card", {}, {}, TRUE)
    /\ UNCHANGED plan

-----------------------------------------------------------------------------
(* Failures *)

\* What is recorded of proposal p once the requests S have ended in failure.
LostBy(S, p) ==
    [trail[p] EXCEPT !.lost = @ \cup
       {IF session[s].op = "extract" THEN session[s].source ELSE session[s].memory.source :
          s \in {r \in S : session[r].op \in Extraction /\ session[r].p = p}}]

\* A request ends in an exception ("database is locked", a payload that no
\* longer validates): nothing it has flushed is kept.  Of an extraction the
\* exception is swallowed.
Fail(s) ==
    /\ session[s] # Idle
    /\ session' = [session EXCEPT ![s] = Idle]
    /\ trail' = [p \in DOMAIN trail |-> LostBy({s}, p)]
    /\ UNCHANGED <<proposals, plan, card, edits, raced>>

\* The process stops: every request is gone, the rows stay.
Crash ==
    /\ \E s \in Sessions : session[s] # Idle
    /\ session' = [s \in Sessions |-> Idle]
    /\ trail' = [p \in DOMAIN trail |-> LostBy(Sessions, p)]
    /\ UNCHANGED <<proposals, plan, card, edits, raced>>

-----------------------------------------------------------------------------
Draft    == \E s \in Sessions : WriteDraft(s) \/ \E k \in Keys : ReadDraft(s, k)
Decide   == \E s \in Sessions :
              \/ WriteConfirm(s) \/ WriteReject(s) \/ Extract(s)
              \/ \E p \in DOMAIN proposals : ReadConfirm(s, p) \/ ReadReject(s, p)
Progress == \/ \E t \in DOMAIN plan.tasks, done \in BOOLEAN : UpdateTaskStatus(t, done)
            \/ \E s \in Sessions : ReadRepair(s) \/ WriteRepair(s)
ByHand   == \/ AddStage
            \/ \E i \in DOMAIN plan.stages :
                 AddTask(i) \/ \E status \in EditStatuses \cap StageStatus : EditStage(i, status)
            \/ \E t \in DOMAIN plan.tasks, done \in BOOLEAN : EditTask(t, done)
            \/ \E status \in EditStatuses \cap ProjectStatus : EditStatus(status)
            \/ EditCard

Next == Draft \/ Decide \/ Progress \/ ByHand \/ Crash \/ \E s \in Sessions : Fail(s)

Spec == Init /\ [][Next]_vars

-----------------------------------------------------------------------------
(* Properties *)

\* Proposals, what is recorded of them and requests have their types, and a
\* request decides a proposal that exists.
DecisionTypeOK ==
    /\ proposals \in Seq(Proposal)
    /\ trail \in Seq(Trail)
    /\ Len(trail) = Len(proposals)
    /\ card \in Nat \cup {None}
    /\ session = [s \in Sessions |-> session[s]]
    /\ \A s \in Sessions :
         /\ session[s].op \in Ops
         /\ session[s].op = "create" => session[s] \in [op : {"create"}, key : Keys,
                                                       target : Targets]
         /\ session[s].op \in {"confirm", "reject"} \cup Extraction =>
                session[s].p \in DOMAIN proposals
         /\ session[s].op = "extract" => session[s].source \in Sources
         /\ session[s].op \in {"remember", "insert"} => session[s].memory \in Memories

\* The plan has its type, as it is and as requests have read it, and the current
\* stage and the stages of tasks exist.
PlanTypeOK ==
    /\ plan \in Plans
    /\ plan.current \in DOMAIN plan.stages \cup {None}
    /\ \A t \in DOMAIN plan.tasks : plan.tasks[t].stage \in DOMAIN plan.stages
    /\ \A s \in Sessions : session[s].op \in {"confirm", "repair"} => session[s].seen \in Plans
    /\ edits \in [count : Nat, stages : SUBSET (DOMAIN plan.stages),
                  statuses : SUBSET ProjectStatus, card : BOOLEAN]
    /\ raced \subseteq {"create", "confirm", "reject", "repair"}

\* Every row, record and request has its type, and every row and proposal it
\* points to exists.
TypeOK == DecisionTypeOK /\ PlanTypeOK

\* What is recorded of a decision in three places agrees at every moment, also
\* when two decisions of one proposal overlap and requests or the process
\* fail: a proposal is pending exactly when neither the timeline nor its run
\* knows of a decision, and the run says `confirmed' and `committed' exactly when
\* the timeline has a confirmation.  The direction card is that of a confirmed
\* clarification, and there is one as soon as a clarification is confirmed,
\* unless it was changed by hand.
DecisionRecorded ==
    /\ \A p \in DOMAIN proposals :
         LET t == trail[p]
         IN  /\ proposals[p].status = "pending" <=> t.confirmed + t.rejected = 0
             /\ proposals[p].status = "confirmed" => t.confirmed > 0
             /\ proposals[p].status = "rejected" => t.rejected > 0
             /\ "confirmed" \in t.run <=> t.confirmed > 0
             /\ "committed" \in t.run <=> t.confirmed > 0
             /\ "rejected" \in t.run <=> t.rejected > 0
             /\ proposals[p].kind = "clarify" /\ t.confirmed > 0 /\ ~edits.card => card # None
    /\ card # None => /\ card \in DOMAIN proposals
                      /\ proposals[card].kind = "clarify"
                      /\ trail[card].confirmed > 0

\* The checks before the lock let requests that overlap repeat each other, but
\* no more than those: a proposal is decided, the proposal of one tool call is
\* drafted, and replans wait, at most as often as requests can be under way at
\* one time.  A request that begins after another has committed never repeats
\* it.
RepeatedOnlyByOverlap ==
    LET limit == Cardinality(Sessions)
    IN  /\ \A p \in DOMAIN proposals : trail[p].confirmed + trail[p].rejected <= limit
        /\ \A k \in Keys : Cardinality(WithKey(k)) <= limit
        /\ Cardinality(PendingReplans) <= limit

\* The decision gives rise to a memory: of a confirmation by the kind of the
\* proposal, of rejections where every one had a reason.
Memorable(p, source) ==
    IF source = "confirmed"
    THEN proposals[p].kind \in {"clarify", "replan"} /\ trail[p].confirmed > 0
    ELSE trail[p].reasons # {} /\ None \notin trail[p].reasons

\* A request under way is to write the memory of it.
BeingRemembered(p, source) ==
    \E s \in Sessions :
        /\ session[s].op \in Extraction
        /\ session[s].p = p
        /\ source = IF session[s].op = "extract" THEN session[s].source
                    ELSE session[s].memory.source

\* The project memory and the decisions agree, although it is written after
\* their commit, by a request that reads the proposal again and can overlap
\* others: it holds no reason nobody rejected the proposal with and no
\* confirmation that was not made; where a row was superseded another one of
\* the same decision is active; a proposal decided once has no memory but of
\* its status and its reason, and an active one; and a decision to be
\* remembered is, or will be, unless a failure has lost it.
MemoryIsTrue ==
    \A p \in DOMAIN proposals :
        LET t == trail[p]
        IN  /\ \A m \in t.memory :
                  /\ m.source = "confirmed" => Memorable(p, "confirmed")
                  /\ m.source = "rejected" => m.reason \in t.reasons \ {None}
                  /\ \E n \in t.active : n.source = m.source
            /\ t.active \subseteq t.memory
            /\ t.confirmed + t.rejected = 1 =>
                  t.memory \subseteq t.active \cap {Candidate(p, proposals[p].status)}
            /\ \A source \in Sources : Memorable(p, source) =>
                  \/ \E m \in t.memory : m.source = source
                  \/ BeingRemembered(p, source)
                  \/ source \in t.lost

\* Whatever plans, status updates and repairs do to each other, the project's
\* current stage is a live one: only a status written by hand makes it another,
\* or a repair of rows that have changed since it read them (it completes the
\* stage another request has made the current one, and does not go on from it,
\* because it knows of another current stage).  Then it is a completed one, and
\* never one that has not begun.
CurrentIsLive ==
    plan.current # None =>
        \/ IsLive(plan.stages[plan.current])
        \/ plan.current \in edits.stages
        \/ "repair" \in raced /\ plan.stages[plan.current].status = "completed"

\* Each disorder of the project comes from one kind of overlap, and from no
\* other, or was written by hand:
\*   - the current stage is live, and the only live one, apart from stages that
\*     were given a status by hand, unless a confirmation or a repair has written
\*     on the basis of rows that had changed;
\*   - a project with a current stage is active, or has a status given by hand,
\*     unless a confirmation or a repair has written so;
\*   - a proposal is decided twice only by a confirmation or rejection of that
\*     kind, and a tool call has two proposals, or two replans wait, only by a
\*     draft.
SerialPlan ==
    /\ raced \cap {"confirm", "repair"} = {} =>
         /\ LiveStages(plan) \ edits.stages = {plan.current} \ ({None} \cup edits.stages)
         /\ plan.current # None => plan.status \in {"active"} \cup edits.statuses
    /\ raced \cap {"confirm", "reject"} = {} =>
         \A p \in DOMAIN proposals : trail[p].confirmed + trail[p].rejected <= 1
    /\ "create" \notin raced =>
         /\ \A k \in Keys : Cardinality(WithKey(k)) <= 1
         /\ Cardinality(PendingReplans) <= 1

\* agent_proposal_service.py:385, "Mark all existing non-completed stages for this
\* project as completed": the confirmation of a plan, on the basis of rows as
\* they are, leaves no stage of the former plan open.  The query that follows the
\* comment does not ask for the stages at risk.
PlanReplacesStages ==
    [][\A p \in DOMAIN proposals :
         /\ proposals[p].kind = "plan"
         /\ trail'[p].confirmed > trail[p].confirmed
         /\ raced' = {}
         => \A i \in DOMAIN plan.stages : plan'.stages[i].status = "completed"]_vars
=============================================================================
