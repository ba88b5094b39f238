---------------------------- MODULE AgentResume ----------------------------
(***************************************************************************)
(* A run that outlives its process: the executions of one run, the first   *)
(* and those that POST /runs/:runId/resume starts, over the run's event    *)
(* log.  An execution calls tools that write, saves checkpoints, takes     *)
(* steering and reports the end of the run (executeRun); the sidecar may   *)
(* stop between any two requests; a resume rebuilds from the snapshot page *)
(* of FastAPI, which begins at the latest checkpoint, what an execution    *)
(* needs (rehydrateFromEvents) or refuses to.  Nothing keeps a run from    *)
(* being resumed while another execution of it is alive.                   *)
(*                                                                         *)
(* Left to AgentRun: the single events of a turn, the poller's timer and   *)
(* the limits of steering.  Left to ToolExecutor: the attempts of a call,  *)
(* of which the log here holds the last.                                   *)
(***************************************************************************)
EXTENDS Integers, Sequences, FiniteSets

CONSTANTS Calls,        \* what a tool may be asked to write: tool, manifest
                        \* version and hash of the input
          MaxRuns,      \* bound: executions of the run, the first included
          MaxCalls,     \* the budget of tool calls, anew in every execution
          MaxRequests,  \* bound: messages and cancellations of the users
          MaxAlive,     \* bound: executions alive at a time
          MaxEvents     \* bound: events in the log

ASSUME ResumeAssumption ==
  MaxRuns \in Nat \ {0} /\ {MaxCalls, MaxRequests, MaxAlive, MaxEvents} \subseteq Nat

Runs     == 1..MaxRuns
User     == 0                  \* who writes an event, beside the executions
None     == "none"
Terminal == {"completed", "cancelled", "failed"}

\* No call is taken for the absence of one.
ASSUME NoneAssumption == None \notin Calls

\* The running statuses are one.
Status == {"running", "cancelling"} \cup Terminal

\* How a call that writes ends: with a success; timed out, when the executor
\* records an unknown side effect; or with an error, of which the ledger says
\* nothing about side effects.
Results == {"success", "unknown", "transient", "permanent"}

-----------------------------------------------------------------------------
VARIABLES
  status,     \* agent_runs_v2.status
  log,        \* the events of the run a resume reads, by event_seq
  pc,         \* per execution: where executeRun is
  fresh,      \* runState.stateVersion is the run's state_version
  memory,     \* what else the process remembers of an execution
  start,      \* the checkpoint it was resumed from, and the last event it read
  prompt,     \* consumedSteeringSeqs: the steering in its prompts so far
  called      \* which execution had what written

ledger == <<status, log>>
facts  == <<start, prompt, called>>
vars   == <<ledger, pc, fresh, memory, facts>>

\* The calls with a success in resumeContext.toolLedger; whether the combined
\* ledger has a call no resume may pass; budget.useToolCall; the call that is
\* under way; the steering read and about to be consumed.
Forgotten == [recovered |-> {}, blocks |-> FALSE, calls |-> 0, doing |-> None, todo |-> {}]

Init ==
  /\ status = "running" /\ log = << >>
  /\ pc = [e \in Runs |-> IF e = 1 THEN "loop" ELSE "none"]
  /\ fresh = [e \in Runs |-> e = 1]
  /\ memory = [e \in Runs |-> Forgotten]
  /\ start = [e \in Runs |-> [from |-> 0, read |-> 0]]
  /\ prompt = [e \in Runs |-> {}]
  /\ called = {}

Alive(e) == pc[e] \notin {"none", "over"}

-----------------------------------------------------------------------------
(* The log, and the page of it a snapshot returns. *)

Seqs(type) == {i \in DOMAIN log : log[i].type = type}

Latest(k) == /\ k \in Seqs("checkpoint.saved")
             /\ \A j \in Seqs("checkpoint.saved") : j <= k

Page == {i \in DOMAIN log : \A k \in Seqs("checkpoint.saved") : k <= i}

InPage(type) == Page \cap Seqs(type)

\* Faulty variant: everything queued.
Queued == InPage("steering.queued")

\* unconsumed_steering of the snapshot.
Unconsumed == {q \in InPage("steering.queued") :
                 ~\E j \in InPage("steering.consumed") : log[j].val = q}

\* An append of execution e makes the versions of the others stale, and one of
\* the users all of them.
Stamp(e) == fresh' = [x \in Runs |-> x = e]

Write(e, type, val) ==
  /\ Len(log) < MaxEvents
  /\ log' = Append(log, [type |-> type, by |-> e, val |-> val])
  /\ Stamp(e)

\* An event's id is made of its type and the last event_seq its sender knows:
\* what a stale execution sends may have the id of what another one has sent
\* since, and is answered as if it were recorded.
Echo(e, type) ==
  /\ ~fresh[e]
  /\ \E i \in Seqs(type) :
       /\ log[i].by # e /\ start[e].read < i
       /\ \A j \in DOMAIN log : log[j].by = e => j < i
  /\ fresh' = [fresh EXCEPT ![e] = TRUE]
  /\ UNCHANGED log

\* An append that is not repeated after a 409.
Send(e, type, val) == (fresh[e] /\ Write(e, type, val)) \/ Echo(e, type)

Goes(e, next) == pc' = [pc EXCEPT ![e] = next]

\* What FastAPI takes as a next status.
Legal(s) == CASE status = "running"    -> TRUE
              [] status = "cancelling" -> s \in {"cancelling", "cancelled", "failed"}
              [] OTHER                 -> s = status

-----------------------------------------------------------------------------
(* The model loop. *)

\* The events of a turn carry a running status; one that is refused ends the
\* loop with an error.  They too may have the ids of another execution's.
Turn(e) ==
  \/ fresh[e] /\ Legal("running") /\ Stamp(e)
  \/ /\ ~fresh[e] /\ \E d \in Runs \ {e} : pc[d] # "none"
     /\ fresh' = [fresh EXCEPT ![e] = TRUE]

\* Faulty variants: no budget; no look at the recovered ledger.
Unlimited(e, c) == c \notin memory[e].recovered
Affordable(e, c) == memory[e].calls < MaxCalls

\* execute of toPiTool skips what the recovered ledger says is done.
MayCall(e, c) == memory[e].calls < MaxCalls /\ c \notin memory[e].recovered

\* tool.started is recorded, and the tool is called.
CallTool(e) ==
  /\ pc[e] = "loop" /\ Turn(e)
  /\ \E c \in Calls :
       /\ MayCall(e, c)
       /\ memory' = [memory EXCEPT ![e].doing = c, ![e].calls = @ + 1]
       /\ called' = called \cup {<<e, c>>}
  /\ Goes(e, "record")
  /\ UNCHANGED <<ledger, start, prompt>>

\* Faulty variant: only a permanent error stands in the way of a resume.
BlocksPermanent(r) == r = "permanent"

\* classifyToolRecovery: blocked_unknown and blocked_incompatible.
Blocks(r) == r \in {"unknown", "permanent"}

\* The executor keeps the entry; the log has it if the append is accepted.  An
\* error of the append is a result for the model.
RecordCall(e) ==
  /\ pc[e] = "record"
  /\ \E r \in Results :
       /\ memory' = [memory EXCEPT ![e].blocks = @ \/ Blocks(r), ![e].doing = None]
       /\ \/ Send(e, "tool.ledger_entry", [call |-> memory[e].doing, result |-> r])
          \/ UNCHANGED <<log, fresh>>
  /\ Goes(e, "loop")
  /\ UNCHANGED <<status, facts>>

\* The model ends, or the poller has noticed steering and interrupts it: then
\* the steering is read before the checkpoint hides it.
EndLoop(e) ==
  /\ pc[e] = "loop"
  /\ \/ Turn(e) /\ UNCHANGED memory
     \/ /\ Unconsumed \ prompt[e] # {}
        /\ memory' = [memory EXCEPT ![e].todo = Unconsumed \ prompt[e]]
        /\ fresh' = [fresh EXCEPT ![e] = TRUE]
  /\ Goes(e, "checkpoint")
  /\ UNCHANGED <<ledger, facts>>

-----------------------------------------------------------------------------
(* The loop boundary and the end. *)

\* persistCheckpoint, which meets a 409 with the version of a new snapshot.
Save(e, here, over, next) ==
  /\ pc[e] = here
  /\ \/ Write(e, "checkpoint.saved", [over |-> over, blocked |-> memory[e].blocks])
     \/ Echo(e, "checkpoint.saved")
  /\ Goes(e, next)
  /\ UNCHANGED <<status, memory, facts>>

Checkpoint(e) == Save(e, "checkpoint", FALSE, "pull")

\* A snapshot that cannot be read counts as one without steering.
Pull(e) ==
  LET list == (IF memory[e].todo # {} THEN memory[e].todo ELSE Unconsumed) \ prompt[e] IN
  /\ pc[e] = "pull"
  /\ \/ /\ memory' = [memory EXCEPT ![e].todo = list]
        /\ fresh' = [fresh EXCEPT ![e] = TRUE]
        /\ Goes(e, IF list = {} THEN "plan" ELSE "consume")
     \/ /\ memory' = [memory EXCEPT ![e].todo = {}]
        /\ Goes(e, "plan")
        /\ UNCHANGED fresh
  /\ UNCHANGED <<ledger, facts>>

\* Oldest first; after the last one the model loop begins again.
Consume(e) ==
  /\ pc[e] = "consume"
  /\ \E q \in memory[e].todo :
       /\ \A p \in memory[e].todo : q <= p
       /\ Send(e, "steering.consumed", q)
       /\ prompt' = [prompt EXCEPT ![e] = @ \cup {q}]
       /\ memory' = [memory EXCEPT ![e].todo = @ \ {q}]
       /\ Goes(e, IF memory[e].todo = {q} THEN "loop" ELSE "consume")
  /\ UNCHANGED <<status, start, called>>

\* The plan is recorded with the steps the tools of this execution completed; a
\* run without a plan is like one whose plan is not done.
Plan(e) ==
  /\ pc[e] = "plan"
  /\ \E done \in BOOLEAN : Send(e, "run_plan.created", done)
  /\ Goes(e, "final")
  /\ UNCHANGED <<status, memory, facts>>

FinalCheckpoint(e) == Save(e, "final", TRUE, "terminal")

\* The execution is over, or has only its end to report: it needs no memory.
Leaves(e, next) ==
  /\ Goes(e, next)
  /\ memory' = [memory EXCEPT ![e] = Forgotten]

\* How the run may end: by the verdict; because the last checkpoint failed; by
\* the outer catch.
Ends(e) == CASE pc[e] = "terminal" -> Terminal
             [] pc[e] = "failing"  -> {"failed"}
             [] OTHER              -> {"failed", "cancelled"}

\* A terminal event with its status, which FastAPI refuses in a run that ended
\* otherwise.  When its answer is lost the outer catch reports again.
Report(e) ==
  /\ pc[e] \in {"terminal", "failing", "report"}
  /\ \/ \E s \in Ends(e) :
          Legal(s) /\ status' = s /\ Write(e, "run.state_changed", s)
     \/ Echo(e, "run.state_changed") /\ UNCHANGED status
  /\ \/ Leaves(e, "over")
     \/ pc[e] # "report" /\ Leaves(e, "report")
  /\ UNCHANGED facts

\* A request fails or is refused, or its answer is lost: the outer catch
\* reports, and gives up when that fails too.
Fails(e) ==
  /\ \/ /\ pc[e] \in {"loop", "checkpoint", "consume", "plan", "final", "terminal", "failing"}
        /\ Leaves(e, "report")
     \/ pc[e] = "final" /\ Leaves(e, "failing")
     \/ pc[e] = "report" /\ Leaves(e, "over")
  /\ UNCHANGED <<ledger, fresh, facts>>

-----------------------------------------------------------------------------
(* Crash and resume. *)

\* The sidecar stops, and its memory is gone.
Crash ==
  /\ \E e \in Runs : Alive(e)
  /\ pc' = [e \in Runs |-> IF Alive(e) THEN "over" ELSE pc[e]]
  /\ fresh' = [e \in Runs |-> FALSE]
  /\ memory' = [e \in Runs |-> Forgotten]
  /\ UNCHANGED <<ledger, facts>>

LedgerOf(result) == {i \in InPage("tool.ledger_entry") : log[i].val.result = result}

\* Faulty variants: one look less.
EligibleWithUnknown(k) ==
  /\ \A i \in InPage("run.state_changed") : log[i].val \notin Terminal
  /\ ~log[k].val.over
  /\ ~log[k].val.blocked
EligibleWhenOver(k) ==
  /\ ~log[k].val.over
  /\ LedgerOf("unknown") = {}
  /\ ~log[k].val.blocked

\* checkResumeEligibility.
Eligible(k) ==
  /\ \A i \in InPage("run.state_changed") : log[i].val \notin Terminal
  /\ ~log[k].val.over
  /\ LedgerOf("unknown") = {}
  /\ ~log[k].val.blocked

\* Every step of the latest plan in the page is completed.
PlanDone == \E i \in InPage("run_plan.created") :
              /\ \A j \in InPage("run_plan.created") : j <= i
              /\ log[i].val

\* The steps of a plan that is not done may all be those of recovered successes:
\* which tools its steps allow is not told.
StepsRecovered == InPage("run_plan.created") # {} /\ LedgerOf("success") # {}

\* handleResumeRun reads the snapshot, and an execution begins: with the model
\* loop, or with the verifier when the plan was done, or is by the recovered
\* successes.  (When the rest of its context is refused, nothing happens.)
\* Steering that is not consumed counts as taken at once and is never recorded
\* as consumed.
Resume(e) ==
  /\ pc[e] = "none"
  /\ \A d \in Runs : d < e => pc[d] # "none"
  /\ Cardinality({d \in Runs : Alive(d)}) < MaxAlive
  /\ \E k \in DOMAIN log :
       /\ Latest(k) /\ Eligible(k)
       /\ start' = [start EXCEPT ![e] = [from |-> k, read |-> Len(log)]]
  /\ memory' = [memory EXCEPT
       ![e].recovered = {log[i].val.call : i \in LedgerOf("success")},
       ![e].blocks = \E i \in InPage("tool.ledger_entry") : Blocks(log[i].val.result)]
  /\ prompt' = [prompt EXCEPT ![e] = Unconsumed]
  /\ fresh' = [fresh EXCEPT ![e] = TRUE]
  /\ \/ ~PlanDone /\ Goes(e, "loop")
     \/ (PlanDone \/ StepsRecovered) /\ Goes(e, "final")
  /\ UNCHANGED <<ledger, called>>

Requests == Cardinality(Seqs("steering.queued")) + (IF status = "cancelling" THEN 1 ELSE 0)

\* append_steering, and the cancellation of the run.
Steer ==
  /\ status \notin Terminal /\ Requests < MaxRequests
  /\ Write(User, "steering.queued", None)
  /\ UNCHANGED <<status, pc, memory, facts>>

Cancel ==
  /\ status = "running" /\ Requests < MaxRequests
  /\ status' = "cancelling"
  /\ Stamp(User)
  /\ UNCHANGED <<log, pc, memory, facts>>

Execute(e) ==
  \/ CallTool(e) \/ RecordCall(e) \/ EndLoop(e)
  \/ Checkpoint(e) \/ Pull(e) \/ Consume(e) \/ Plan(e)
  \/ FinalCheckpoint(e) \/ Report(e) \/ Fails(e)

Next ==
  \/ \E e \in Runs : Execute(e) \/ Resume(e)
  \/ Crash \/ Steer \/ Cancel

Spec == Init /\ [][Next]_vars

-----------------------------------------------------------------------------
CallResult == [call : Calls, result : Results]

IsEvent(i, queued) ==
  /\ log[i].by \in Runs \cup {User}
  /\ CASE log[i].type = "tool.ledger_entry" -> log[i].val \in CallResult
       [] log[i].type = "checkpoint.saved"  -> log[i].val \in [over : BOOLEAN, blocked : BOOLEAN]
       [] log[i].type = "steering.queued"   -> log[i].val = None
       [] log[i].type = "steering.consumed" -> log[i].val \in queued /\ log[i].val < i
       [] log[i].type = "run_plan.created"  -> log[i].val \in BOOLEAN
       [] log[i].type = "run.state_changed" -> log[i].val \in Terminal
       [] OTHER                             -> FALSE

IsExecution(e, queued) ==
  /\ pc[e] \in {"none", "loop", "record", "checkpoint", "pull", "consume", "plan",
                "final", "terminal", "failing", "report", "over"}
  /\ fresh[e] \in BOOLEAN
  /\ DOMAIN memory[e] = DOMAIN Forgotten
  /\ memory[e].recovered \subseteq Calls /\ memory[e].blocks \in BOOLEAN
  /\ memory[e].calls \in 0..MaxCalls /\ memory[e].doing \in Calls \cup {None}
  /\ pc[e] = "record" <=> memory[e].doing # None
  /\ memory[e].todo \cup prompt[e] \subseteq queued
  /\ start[e].from = 0 \/ log[start[e].from].type = "checkpoint.saved"
  /\ start[e].read \in start[e].from..Len(log)

TypeOK ==
  LET queued == Seqs("steering.queued") IN
  /\ status \in Status
  /\ \A i \in DOMAIN log : IsEvent(i, queued)
  /\ \A e \in Runs : IsExecution(e, queued)
  /\ called \subseteq Runs \X Calls

\* A resumed execution has written again what another one recorded as written
\* only behind its checkpoint: a success recorded after the checkpoint it was
\* resumed from, and before it read the log, is never repeated.
RepeatedOnlyBehindCheckpoint ==
  \A i \in Seqs("tool.ledger_entry"), e \in Runs :
    log[i].val.result = "success" /\ <<e, log[i].val.call>> \in called
      => ~(start[e].from <= i /\ i <= start[e].read)

\* Whether another execution saved the checkpoint that e was resumed from, past
\* the event at i.
HiddenByAnother(i, e) ==
  i < start[e].from /\ log[start[e].from].by # log[i].by

\* No execution is resumed past a call with an unknown side effect, however many
\* checkpoints were saved since: the page or the decisions of the checkpoint
\* stop it.  Only the checkpoint of another execution, alive at the same time,
\* hides the call.
UnknownStopsResume ==
  \A i \in Seqs("tool.ledger_entry"), e \in Runs :
    log[i].val.result = "unknown" /\ i <= start[e].read => HiddenByAnother(i, e)

\* A finished run is not resumed, though the resume reads no further back than
\* the latest checkpoint, unless another execution has saved one since; and the
\* terminal events of all executions tell the same end.
FinishedStaysFinished ==
  \A i \in Seqs("run.state_changed") :
    /\ log[i].val = status
    /\ \A e \in Runs : i <= start[e].read => HiddenByAnother(i, e)

\* What was recorded as consumed before an execution read the log is not in its
\* prompts, whether the record lies before or after the checkpoint; and no
\* execution consumes a message twice.
ConsumedOnce ==
  /\ \A i \in Seqs("steering.consumed"), e \in Runs :
       i <= start[e].read => log[i].val \notin prompt[e]
  /\ \A i, j \in Seqs("steering.consumed") :
       log[i].by = log[j].by /\ log[i].val = log[j].val => i = j
=============================================================================
