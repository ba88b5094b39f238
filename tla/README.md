# ProjectFlow in TLA+

Models, model-checking runs and machine-checked proofs about ProjectFlow, a
project-planning assistant whose agent runs are executed by a Node "sidecar" and
recorded by a FastAPI backend. Paths below are relative to the repository root.

- `RunRecord`: statuses, legal transitions and the reading of an event log
- `RunLedger`: the abstract ledger of one run
- `RunLog`, `MCRunLog`, `RunLogProofs`: FastAPI's append path under concurrent
  requests; proved to implement `RunLedger`
- `AgentRun`, `AgentRunProofs`: one run as the sidecar executes it, with steering,
  cancellation, the poller and failing requests; proved to use `RunLedger` legally
- `AgentResume`, `MCAgentResume`, `AgentResumeProofs`: the executions of one run
  over its log, with checkpoints, crashes and resumes
- `ToolExecutor`, `MCToolExecutor`, `ToolExecutorProofs`, `ToolLedgerProofs`: the tool
  calls of a run, with slots, attempts, time-outs, aborts and the appends of their entries
- `ProjectPlan`, `Proposals`, `MCProposals`, `ProposalsProofs`: stages and tasks
  of a project, and the proposals whose decisions write them
- `Assignment`, `MCAssignment`, `AssignmentProofs`, `AssignmentSerialProofs`: who gets a
  task: recommendations, answers, negotiations, finalization

## 1. The system

| Part | State it keeps | Operations |
| --- | --- | --- |
| **Run ledger**: `backend/app/services/agent_runtime_service.py`, `models/agent_run_state.py` | `agent_runs_v2` (status, state_version, last_event_seq, side_effects, checkpoint), `agent_run_events` (one row per event, unique (run_id, event_seq)) | start_run, append_events, append_steering, get_run_snapshot, tool resources |
| **Runtime loop**: `agent-bridge/src/runtime/pi-runtime.ts` | runState, the consumed steering, the pending terminal, the controllers | executeRun: model loop, loop boundary (checkpoint, steering, re-entry), plan, verifier, terminal event |
| **Steering poller, session store**: `runtime/steering-poller.ts`, `runtime/session-store.ts` | timer, consumedSeqs, steeringAvailable, abort controllers by run | start, tick, stop, markConsumed; abort, setSteeringAvailable |
| **Routes of the sidecar**: `server/routes/*.ts` | none of their own | start, stream, cancel, steering, resume |
| **Tool executor and ledger**: `tools/tool-executor.ts`, `tools/tool-ledger.ts` | semaphore, calls under way | execute with policy, budget, timeout, retry; persist a ledger entry |
| **Checkpoint, rehydration**: `runtime/checkpoint.ts`, `runtime/rehydrate.ts`, `server/routes/resume-run.ts` | the checkpoint event and column | save, resume a run in another process |
| **Work state, run plan, verifier** (`runtime/`) | the work state of a run | pure functions of events and results |
| **Policy, budget** (`policy/`), **skills** (`skills/`) | counters; skill files | decide, select |
| **Proposals**: `backend/app/services/agent_proposal_service.py` | `agent_proposals`: pending, confirmed, rejected | confirm (persists stages, tasks, ... and reports to the run), reject |
| **Assignment**: `services/assignment_service.py` | proposals, responses, negotiations, owners | propose, respond, negotiate, finalise |
| **Stages, tasks, check-ins, risks, replans** (`services/`) | rows with statuses | create, activate, complete, accept, ignore |
| **Project memory**: `services/memory_service.py` | active and superseded entries | extract: record, supersede |
| **Conversations, legacy agent flow, read models, export, timeline, model configuration, evaluation lab** | see `PROJECT.json` | mostly single-request reads and writes |
| **Frontend** (`frontend/src`) | the turn being streamed | start, follow, cancel, confirm |

How they interact: the browser starts a run at the sidecar and follows its
server-sent events. The sidecar reads and writes the run only through FastAPI:
every event, tool result, checkpoint and terminal outcome is a POST that names
the `expected_state_version` and a `client_event_id`; 409 means the version is
stale. The user's steering and the first half of a cancellation go straight into the same ledger
and raise its version without telling the sidecar, which learns of them by a
1.5-second poll, by a 409, or by the second half of the cancel route, which
aborts the controller in the sidecar's memory. A confirmed proposal also appends to the ledger of
the run that made it.

What is hard here, component by component, and what makes it correct:

- *Run ledger*: requests read the row, check, and write with nothing locked in
  between. Correct: it behaves as if batches were appended one at a time; no id
  twice, no lost update, no move out of a terminal status, the log replays to the
  row.
- *Runtime loop*: everything it knows of the ledger is stale after every await;
  three parties abort the same controllers for different reasons; a lost answer
  is not a lost write. Correct: one outcome, told alike by the log, the row and the sidecar;
  nothing after it; no tool after an accepted cancellation; it ends.
- *Steering*: a message may arrive at any await. Correct: consumed in order, once,
  not lost, and harmless to the run.
- *Resume*: the snapshot starts at the latest checkpoint, and nothing keeps a run
  from being resumed while it is executed. Correct: no side effect that can be
  seen is repeated, none that is unknown is passed, a finished run stays finished,
  consumed steering stays consumed.
- *Tool executor*: a call that timed out still runs. Correct: slots bounded,
  every effect in the ledger.
- *Proposals, assignment, stages, memory*: read-check-commit without locks and
  chains of statuses over several tables. Correct: what is recorded of a decision in
  several tables agrees, a task has one owner who consented, the current stage is the
  only live one, and the memory holds what was decided; where requests that overlap
  break one of these, only they do.

`PROJECT.json` lists the hazards at their lines with the property that covers each.

## 2. Modules and the code

### RunRecord and RunLedger

`RunRecord` has the status set, `VALID_STATUS_TRANSITIONS` and the replay of a
log. `RunLedger` is what callers rely on: `AppendBatch` extends the log by a
whole batch of fresh entries, raises the version by one, takes a legal step of
the status and keeps the log replaying to it.

### RunLog

One run, any number of request threads. A request goes through the steps the
code has between two points where another transaction may commit:

| Action | Code |
| --- | --- |
| `Begin` | `session.get(AgentRunV2)`: copies the row into `snap` |
| `AnswerDuplicate`, `AnswerStale`, `AnswerRejected`, `PassChecks` | idempotency lookup, version check, patch or terminal-status check, in that order |
| `Commit` | the inserts and the update in one transaction, from the copied row; needs the unique index (`Collides`) |
| `FailCommit` | the index or the database lock refuses it: rolled back |
| `Finish` | the answer is delivered or lost |
| `Crash` | the process dies |

The column updates follow SQLAlchemy: only attributes that were assigned another
value are written, the others keep what the table has. `events` is a function of
event_seq, so that a gap or an overwritten row would be expressible.

A caller that lost its answer sends the same request again (`Begin` may pick
any request any number of times), with any version it was told. `MCRunLog` gives
five kinds of requests: a failure that ends the run, a cancellation, a tool result
without events, a confirmation with two events, and a steering message.

### AgentRun

One fresh run over the ledger, whose requests are atomic because `RunLog`
implements `RunLedger`. `pc` is where executeRun is. A step of the sidecar lasts
from one answer to the next: the code that runs when an answer is there, and the
next request with its effect on the ledger. In between run the poller, the HTTP
handlers and the users.

| Actions | Code |
| --- | --- |
| `AgentStart` .. `AgentEnd`, `ToolLedger`, `ToolResult` | handlePiEvent and toPiTool: one append each, with the version last known, no retry |
| `LoopError` | the catch around runAgentLoop, with the outer catch when it is no steering interrupt |
| `Capture`, `Checkpoint`, `Pull`, `Consume`, `Reenter` | the loop boundary: flag, snapshot, checkpoint, steering, a fresh controller |
| `Plan`, `Verifying`, `Verify`, `Decide` | run plan, work state, verifier, the choice of the terminal event |
| `FinalCheckpoint`, `Terminate`, `Catch`, `Report`, `ReportDuplicate` | the terminal checkpoint and event, the outer catch and its last report |
| `PollRead`, `PollAct`, `PollGivesUp` | a tick is a read and a later reaction; three failures stop the timer |
| `Steer`, `BackendCancel`, `LocalCancel`, `Disconnect` | the steering route, both halves of the cancel route, the disconnect of the stream |

`Call` is one append: accepted, 409, refused, or lost with or without having
been written. `Retried` is the pattern of persistCheckpoint and
persistAndEmitMappedEvent: on a 409 the snapshot is read and the request sent
once more.

Abstractions: text, prompts and payloads are left out, as are the message
events of Pi (they follow turn_start and behave like it); the model's choice is
nondeterministic, as are the verdict of the verifier and whether there is a
plan; the start routes always give a contract, so that the verifier runs; ids are
left out because each request of the sidecar has its own, but for the one case
`ReportDuplicate` models; the page size of the
snapshot is not reached. A request that timed out was written or was not; one
that is written later than its time-out is not modelled. One tick of the poller
is in flight at a time, and a user asks once to stop. The user's steering is of a kind
that the runtime only puts into the prompt.

### AgentResume

The same run seen from further away: any number of executions, the first and
those that POST /runs/:runId/resume starts, over one log. What `AgentRun` has in
detail (the events of a turn, the poller, the limits) is left out here; what it
leaves out (a stop of the process, a second execution) is the subject.

| Actions | Code |
| --- | --- |
| `CallTool`, `RecordCall` | execute of toPiTool with its budget and the look at the recovered ledger; the entry of the call |
| `EndLoop`, `Checkpoint`, `Pull`, `Consume`, `Plan`, `FinalCheckpoint`, `Report`, `Fails` | the loop boundary, the end of the run, the outer catch |
| `Crash` | the sidecar stops; all of its executions lose their memory |
| `Resume` | handleResumeRun: snapshot, rehydrateFromEvents, checkResumeEligibility, and an execution that begins with the loop or, when the plan is done or its open steps may all be those of recovered successes, with the verifier |
| `Steer`, `Cancel` | the two requests of the users |

`Page` is what get_run_snapshot returns: everything from the latest checkpoint
on. `fresh` says whether an execution knows the current version, so that
the append is accepted. `Echo` is the consequence of event ids: an id is made
of the run, the last event_seq the sender knows and the type, so that a stale
execution may send the id of an event that another one has recorded since, and
is answered as if its own were recorded. Abstractions: the running statuses are
one; of the attempts of a call the log has the last; calls are those that write,
known by tool, manifest version and hash of the input; a snapshot is one page
(the code reads at most ten of 200 events and otherwise refuses; of several pages it keeps
the unconsumed steering of the first); content,
contract and viewer of the run are there (otherwise the resume is refused and
nothing happens); a run without a plan is like one whose plan is not done.

### ToolExecutor

One JavaScript thread: a step is what runs between two awaits.

| Actions | Code |
| --- | --- |
| `StartRefused`, `StartRun`, `StartWait`, `Finish` | execute: refusal by schema or policy, acquire and release of the semaphore |
| `Return`, `Timeout`, `Throw`, `Store`, `Recorded`, `RecordFails`, `Rethrow`, `TryAgain` | executeWithRetry and executeWithTimeout: the attempts of a call |
| `Unawaited` | createErrorResult, whose append nobody waits for |
| `AppendNew`, `AppendDuplicate`, `AppendFails`, `OtherAppend` | persistLedgerEntry at FastAPI, beside other writers of the run |
| `Act` | the request of the tool takes effect, also after the executor gave it up |
| `Abort` | the signal of the run: waiters leave the queue, running calls end |

`Parallel` is canExecuteInParallel: calls overlap only when every tool the model
may use reads. The instance gives a write two attempts and retries of time-outs
and transient errors, more than the manifests of the repository do (no writing
tool is tried twice, and "network_error" of READ_ONLY manifests is no error code):
the executor has to be right for any manifest.

### ProjectPlan and Proposals

`ProjectPlan` has the plan of a project as a record and what the services make
of it as operators: the stages of a new plan, the tasks of a breakdown, replans,
the completion of a stage with the activation of the next, and the repair, which
makes a `RepairPass` for each stage: the first by the rows its session has loaded, the
others by the stages it has written and the tasks it has read.
`Proposals` has the requests. FastAPI runs them in threads, each with its session
on one SQLite file; what a request reads before its first flush it reads
without a lock, and from the flush to the commit nobody else writes. A request
is therefore a `ReadX` and a `WriteX`, with the rows it saw kept in `session`; a
column is written only when it differs from the row that was loaded. Two history
variables record what the properties exempt: `edits`, what was written by hand (the
stages and the project that were given a status, and whether the direction card was
changed), and `raced`, the operations of the requests that wrote by rows that had changed
meanwhile. `trail` has what is recorded of each proposal in the timeline, in its run and in
the memory and, as history, the reasons it was rejected with and the extractions that
were lost.

| Actions | Code |
| --- | --- |
| `ReadDraft`, `WriteDraft` | the proposal tools: look-up by key, pending replan, insert |
| `ReadConfirm`, `WriteConfirm`, `ReadReject`, `WriteReject` | the decision: payload, timeline, status, events of the run |
| `ReadCandidate`, `LookUp`, `Insert` (`Extract`) | project memory after the commit, in a session of its own: the proposal is read again; a row with the same hash is enough; otherwise the insert, which supersedes an active row of the decision and which the unique index may refuse |
| `UpdateTaskStatus`, `ReadRepair`, `WriteRepair` | progress of tasks and stages |
| `AddStage`, `EditStage`, `AddTask`, `EditTask` | the plain routes for stages and tasks |
| `EditStatus`, `EditCard` | PATCH /projects/{id}: the columns other parts of the model depend on |
| `Fail`, `Crash` | a request ends before its commit; the process dies |

A hash is made of the proposal's type and, for a rejection, its reason, so that a row of
the memory is a decision and a reason. The two rows a confirmed clarification leaves are
written together and are one here.

### Assignment

The same two steps per request. `Read/WriteCreate`, `Read/WriteRespond`,
`ReadFinalize`, `ReadFinalizeStage`, `WriteFinalize`, `Read/WriteSettle` (the
second commit of a finalization), `Extract`, `Read/WriteNegotiate`,
`CreateNegotiation` (the route that checks nothing), `Read/WriteResolve`, and the
ways around it, `PatchOwner` and `Read/WriteReplan`. `consents`, `edits`,
`unsettled` and `raced` are history variables: they record what the properties
speak of and no guard but the bounds reads them.

## 3. Runs

| Run | Instance | Shows |
| --- | --- | --- |
| `run_log` | 2 threads, 5 requests, `MaxLag` 1, symmetry over the threads | ids recorded once; what is acknowledged is recorded; `side_effects` loses and repeats no call; the log replays to the status; writes happen at the version they name; a finished run stays; `RunLedger` is implemented |
| `agent_run` | 1 steering message, 1 tool call, 1 fault, 2 loops | row, log and sidecar agree on the outcome; nothing but a repeated report follows it; no tool call is recorded after an accepted cancellation; the ledger is used legally |
| `agent_run_steering` | 2 messages, no tool, no fault, 2 loops | order of consumption; liveness: the run ends, and is recorded with an end whatever the users do, cancelling and steering included, unless steering overtakes the last report twice or the stream of a steered run is closed |
| `agent_resume` | 3 executions, 2 alive at a time, 1 call, 1 request of the users, 4 events | what was recorded after the checkpoint is not repeated; an unknown side effect and the end of a run stop every resume but for the checkpoint of a concurrent execution; steering recorded as consumed stays consumed |
| `tool_executor` | 2 reads for one slot, or a read and a write; 2 attempts, 1 other append, an abort | slots are accounted for; a write acts once; the ledger tells the truth; an answered call is recorded; after the abort only retries start; liveness: every call ends |
| `proposals` | 2 requests at a time, 5 tools, 2 proposals, 2 stages per plan, 1 task, 2 reasons for a rejected clarification, 1 edit by hand, crashes | proposal, timeline and run agree on a decision; repetitions only by overlap; the memory holds what was decided and loses nothing but by a failure; the current stage is live unless a status by hand or a repair of outdated rows made it otherwise; each disorder of the plan comes from one kind of overlap |
| `assignment` | 2 members, 2 tasks of a stage, 2 recommendations, 1 negotiation, 2 requests at a time, 1 race, 1 edit by hand | nobody owns a task without consent; a finalization is undone only by a late answer or negotiation about it; without overlap one owner and no negotiation left over |
| `agent_run_abort`, `_steer`, `_queued`, `_interrupt` | 1 message, 1 tool call, no fault | disagreements 1 to 4 of section 6 |
| `proposals_plan` | 2 plans, 1 stage status by hand | disagreement 5 of section 6 |

Bounds. In `run_log` nothing but the ids bounds the log: each request can be
recorded once, so that the state space is finite without a bound on versions.
Two threads suffice for a write between another request's read and write, and a
third copy of a request is reached by `Begin` after `Finish`. `MaxLag` 1 is a
caller one version behind: every larger lag meets the same branch. In `AgentRun`
two loops (the code has five) give a first loop, a re-entry and the limit; two
messages give an order; one tool call gives effects that can overrule a model
error; one fault at any request is where the recovery code differs, and a second
only meets the same catch. Three failing polls in a row are counted as one
fault.

In `agent_resume` three executions are two resumes, and the third can read what
two that overlapped have written; two alive at a time is the least that lets
one hide the other's events. Four events are enough for a write, its checkpoint,
and the write and the checkpoint of the next execution. `MaxRequests` 1 is a
message or a cancellation: they meet only in the version, which either makes
stale. In `tool_executor` one slot and two calls give a waiter, two attempts a
retry with an earlier attempt still out, and the other append a stale version.
In `proposals` two requests overlap in every pair of kinds, two proposals are the
ones that compete (two plans, a plan and a breakdown, two replans), two stages
per plan give a next one, and four a plan over another one. Two reasons are what two
rejections can differ in; they are given for one kind only (`ReasonsFor`), because the
memory of a rejection is the same for all. The status given by hand is
at_risk (`EditStatuses`), the one that stages and projects share and nothing else sets.
With one task no repair leaves a completed current stage, so that the
exemption of `CurrentIsLive` is not met in this instance; with two tasks, two edits and two
repairs beside a second plan it is, and the theorem speaks of any number. In `assignment`
`MaxRaced` 1 lets one request write by rows that have changed: the first such
write already breaks what needs no overlap, and the property that must survive
any number of them, `OwnersConsented`, is also proved. Owners set by hand are only
cleared (`PatchOwners`), since setting one is what `patched` exempts.

`CHECK_DEADLOCK FALSE` is set where the system stops by itself: a run that
ended, calls that are done, rows that are all final at the bounds, requests that
are answered and nothing obliges to be followed by others.

Fairness. `WF_vars(Sidecar)` says that executeRun goes on: requests have a
time-out (`AbortSignal.timeout` in the FastAPI client) and the model stream ends or is aborted. Users,
timer and network owe nothing. `RunEnds` and `RunRecorded` need no more.
In `ToolExecutor` the steps of the executor and the answers to its appends are
weakly fair for each call, because timers fire and the client gives a request up;
nothing is assumed of the tools, of the agent or of other writers, so that
`CallsEnd` holds although a tool never answers. `AgentResume`, `Proposals` and
`Assignment` state no fairness: nothing obliges a user or a caller to go on.
`RunLog` has no liveness: whether a caller tries again is the caller's choice.

Each property has a mutant in `PROJECT.json` that it catches: the operators
marked "Faulty variant" in the modules are not part of any specification.

## 4. What is proved

`RunLogProofs`, for all values of the constants that satisfy the assumptions:
`TypeCorrect`, `IdsRecordedOnceHolds`, `AcknowledgedIsRecordedHolds`,
`EffectsReportedOnceHolds`, `StatusReplaysHolds`, `WritesAtExpectedVersionHolds`,
`FinishedIsFinalHolds`, `Refinement` (`Spec => Ledger!LedgerSpec`), from
`Invariance` (`Spec => []IInv`).

Assumptions, all named in `RunLog` and evaluated by TLC on the instance:

- `RequestsAssumption`, `LagAssumption`: types, and some request exists.
- `PayloadAssumption`: payloads of callers are not statuses, and callers do not
  send run.state_changed themselves.
- `IdsAssumption`: the entries of a request have distinct ids, and a request
  whose looked-up ids are in another one *is* that request as far as ids go. The
  code only looks up the key, the first event and the ids of the entries it adds;
  it relies on callers deriving ids and key from the same parts. Without this
  assumption `IdsRecordedOnce` and `AcknowledgedIsRecorded` are false.
- `ToolsAssumption`: a tool call is reported by one request.

The argument. None of the properties is inductive: that a `Commit` is right
depends on checks made on a row that may be old. The invariant is
`IInv == TypeOK /\ SnapFresh /\ ChecksHold /\ IdsWhole /\ EffectsWhole /\ Inv`:

- `SnapFresh`: if last_event_seq is still what the thread read, the whole row
  is; each write with entries moves last_event_seq, so that a thread with an old
  row collides at the unique index and writes nothing. This is why the code is
  right without a lock, and it holds only because *every* mutation inserts at
  least one event, the purpose of the marker entries (`MarkerEntries`).
- `ChecksHold`: for a thread whose row is current, the checks it passed still
  hold of the table.
- `IdsWhole`: the log contains all ids of a request or none; with it, the few
  ids looked up stand for the others.
- `EffectsWhole`: a call in side_effects comes from a request that is recorded.
- `Inv`: the safety properties above.

A commit is split into lemmas, one for each part (`CommitWrites`, `CommitKeepsIds`,
`CommitKeepsEffects`, `CommitKeepsStatus`, `CommitKeepsThreads`,
`CommitKeepsTypes`); `NextKeepsInvariant` has one step per action.

`AgentRunProofs` (any limits of loops, messages, tool calls and faults;
`BoundsAssumption`, which asks for one loop at least): `TypesHold`, `TerminalsAgree`,
`SidecarAgrees`, `SteeringInOrder`, `FinishedStaysQuiet`, `CancelStopsTools`, and
`AppendsToLedger` (`Spec => ImplementsLedger`: every step of sidecar, poller and users
is a legal append to `RunLedger` or none), with the invariant
`IInv == Scalars /\ Control /\ LogTyped /\ HeldTyped /\ RowAgrees /\ SteerPlace /\ SteerOrder`.

- `Control`: what the sidecar knows at each place of executeRun. The row is
  terminal only once executeRun is in its outer catch or past it, and without a
  fault only when it is done and holds the same status; while a tool call is recorded and the
  run is being cancelled, the version held is old, so that the append is refused. The
  last is what makes `NoToolAfterCancel` true although the sidecar is not told.
- `RowAgrees`: the log replays to the status of the row, and every terminal event says
  that status; without a fault there is one at most.
- `SteerPlace`, `SteerOrder`: between two loops the steering taken from the
  snapshot is held in one place, what is consumed is older than what is held, and a
  message that is neither is younger than all of these, or lies behind a
  checkpoint where no later snapshot finds it. Without the last case the invariant would be
  false: that is the disagreement of `agent_run_queued`.

Each action is one request, so that the proof reasons about `Call` and `Retried` once
(`Answered`, `Refused`, `Failed`) and about the kinds of batches they write (`Writes`);
the conjuncts follow from these and not from the thirty actions.

`ToolExecutorProofs` (calls, groups, limits and numbers of attempts are any;
`CallsAssumption` .. `RetryAssumption`): `TypeCorrect`, `SlotsCorrect`,
`WritesCorrect`, `LedgerCorrect`. The queue of a group holds calls that wait, each
once (`QueueInv`), so that a slot that is handed over moves between a holder
and one that had none. A write comes to a further attempt only when the last
one was refused by the tool (`WriteInv`): what may have acted was recorded as
unknown, which shouldRetry does not repeat, or was thrown.

`ToolLedgerProofs`: `AbortStartsRetriesOnly` and `ResultsRecorded`. After an abort nobody
waits for a slot and acquire refuses (`Closed`), so that no call starts; a call whose
entry is being recorded does not hear the signal and may try again, and the theorem says
that the attempt is its next one and that a write does so only after an attempt the tool
refused. For `ResultsRecorded`, tools that
are called one after the other send event ids that exceed those of all entries whose
answers were taken over (`OneByOne`); an entry found under the id of a new one is
then that of a call that was refused or threw. With tools in parallel two calls
may share an id, which the property allows.


`ProposalsProofs` (any number of sessions, keys, proposals, stages and tasks): `TypesHold`,
`DecisionsRecorded`, `MemoryCorrect`, `RepeatsBounded`, `CurrentStaysLive`, `SerialProject`.

- Decisions: no request begins to decide a proposal that is decided, so every further
  decision uses up a request that was under way: decisions made plus requests deciding
  never exceed the sessions (`DecideInv`, and likewise `DraftInv`, `ReplanInv`).
- Memory: `MemoryInv` has for each proposal what its rows and the requests that are to
  write some rest on (`MemoryOf`): a reason in the memory, or about to be, was one of a
  rejection (`ExtractionOf`); a proposal decided once has either its memory or the one
  request that is to write it (`OneMemory`); and a decision to be remembered has a row, a
  request, or was lost. A row is superseded only by one of the same decision.
- Plan: each operator of `ProjectPlan` has a lemma about what it keeps (`CompleteForm`,
  `StagePlanKeeps`, `BreakdownKeeps`, `ReplanKeeps`, `RepairKeeps`, ...), and every step does
  to the plan what `PlanMoves` allows: the form stays, only a status by hand puts a stage
  at risk (`OnlyByHand`), the current stage stands unless a repair of outdated rows
  writes (`CurrentStands`, together `LiveInv`), and the order stays unless a confirmation or a
  repair of outdated rows writes (`SerialInv`). The histories only grow (`HistoryGrows`). A breakdown is
  of a stage that exists (`TargetInv`), also when it is written later than it was read.
- The repair is a recursive function over the number of stages. The induction
  theorems of the library take an operator and cannot be used, but that every
  nonempty set of numbers has a least one can be proved from well-foundedness
  (`LeastNumber`); applied to the set of counterexamples it gives the existence of the
  function and that its result lies in every set closed under `RepairPass` (`RepairIsIn`).

`PlanSizeAssumption` and `NoneAssumption` (what stands for no current stage is not
the number of one) are in `ProjectPlan`.

`AssignmentProofs` (any members, tasks, stages, requests): `OwnersHaveConsented`,
`FinalizedStays`. For the latter each step that takes a finalization back is shown to be the
write of an answer or negotiation about it (`WritesLate`). When a finalization writes, the rows it has read may have
changed; the invariant says how rows may move (`Moves`: a proposal changes its
task only with a consent) and what stays true of a request all the same
(`RequestsInv`).

`AssignmentSerialProofs`: `TypesHold`, `SerialTasks`, `NoneWaitsInVain`.
`SerialAssignment` counts the recommendations of a task, and a count is not
inductive: `OneEach` says which of them may be active side by side (an accepted
negotiation adds one, which nobody can take back), `HeldByMember` that a
finalized one is that of the owner, and `ReadTaskStands` that a negotiation about to
move a recommendation finds it where it was read. Every step without an outdated write is
one of four moves (`SerialMove`). `NoStaleNegotiation` does not speak of a finalization
between its two commits; `StaleOK` does: it has read every negotiation that waits for
its tasks, and no other can come.

`AgentResumeProofs` (any executions, calls, requests and events):
`TypesHold`, `RepeatsOnlyBehindCheckpoint`, `UnknownStops`, `FinishedStays`,
`ConsumesOnce`. `NoneAssumption`: the value that stands for no call is not a call.
`LogSteps` says what any step does to the log and `ExecutionSteps` what it does to
one execution; with these each part of the invariant needs one argument,
about `Resume`. The strengthening: a working execution knows every success of the
page it read (`RecoveredInv`); one that met an unknown side effect says so in all
later checkpoints (`BlockedInv`); one that reported the end writes no
checkpoint after it (`OverInv`); steering about to be consumed is neither in a
prompt nor consumed before the log was read (`SteeringInv`). The types are not
inductive as they stand: what an execution records is a call or an effect because of
the place it is at (`CallInv`, `FormInv`), and what it resumes with was in the log
(`SourceInv`).

Only model-checked: liveness, that is `RunEnds`, `RunRecorded` and `CallsEnd`, because the
prover has no rule for fairness and ENABLED. The five runs of section 6 are
counterexamples and need no proof. Every other property that a run checks is a theorem.
What a theorem cannot say is that the interesting states occur; the runs
do, since each property has a faulty variant that TLC refutes.

## 5. Not modelled

- Of modelled parts: start_run beyond its row, tool resources and list routes of the
  ledger; steering of the types clarification_answer and approval_response; the
  evaluation seams of the runtime; in the plan of a project dates, texts and the
  task statuses that nothing tells apart; the columns of PATCH /projects/{id} other than
  status and direction card; visibility, retrieval and sync records of memories, and a
  decision that returns to an earlier content, which takes three rejections that overlap;
  check-ins, risks and action cards; members who join or leave; deletion of a project.
- Pure rules that other parts use as a nondeterministic choice: work state,
  verifier, policy and budget.
- Left out for good: text processing (skills, prompts, sanitising), retrieval by
  vectors or full text, read models and exports, conversations and the legacy flow
  (single-request reads and writes around a language model), configuration files,
  the evaluation lab and the presentation of the frontend. They are most of the
  repository's lines and keep little state that two actors share.

## 6. Disagreements between code and documents

Each is a run that finds the counterexample; documents are in
`docs/superpowers/specs/2026-07-14-merge-constraint-composer-design.md` unless
another file is named.

1. `agent_run_abort`: after a steering re-entry, a stream the user aborts
   ends as failed, since the outer catch ignores the signal of re-entered runs (line 166).
2. `agent_run_steer`: steering the poller has not yet noticed raises the
   version; the next append of the stream is answered 409, is not retried, and the
   run fails (line 206: it waits for the loop boundary).
3. `agent_run_queued`: a message queued between the read of the flag and the
   checkpoint lies before the checkpoint, where the snapshot does not read
   (docstring at `backend/app/services/agent_runtime_service.py:803`).
4. `agent_run_interrupt`: a tick that reacts after the flag was read aborts
   the first controller without a re-entry, which the end of the run takes for a
   cancellation (line 165).
5. `proposals_plan`: the confirmation of a plan closes the pending and active stages
   of the former one and leaves those at risk open beside its own, although the
   comment says all that are not completed are closed
   (`backend/app/services/agent_proposal_service.py:385`; the query follows it).

Seen while modelling, without a run of their own:

- *Runtime.* The message consumed in the last loop is recorded as consumed and
  never reaches the model; a prompt only carries the last batch of steering; a
  lost answer to agent.failed is followed by run.failed, two terminal events with
  one status (`TerminalAgrees` allows it under a fault); a cancelling run accepts
  steering. The outer catch leaves the poller running
  (`agent-bridge/src/runtime/pi-runtime.ts:1524`; line 163 of the design document has
  executeRun stop it). When the stream of a run that was
  steered is closed while the run is still in context_building, the outer catch reports
  run.cancelled, which is no legal step from there, and the run stays without an end
  (`RunRecorded` exempts it).
- *Resume.* A write whose success was recorded before the checkpoint is repeated by
  a resumed run that asks for it again, since the ledger is rebuilt from the page
  only (`RepeatedOnlyBehindCheckpoint` says no more than that); the comment at
  `agent-bridge/src/runtime/pi-runtime.ts:1193` and
  `docs/T43/CLAUDE_FIX_HANDOFF.md:123` promise that a completed write is not repeated, and
  `agent-bridge/src/server/routes/resume-run.ts:13` that completed tools are skipped.
  Steering restored by a resume is never recorded as consumed, so that the next
  one restores it again (same document: "queued steering is consumed once"). After the
  final checkpoint a crash leaves the run without an end, because the recovered
  state says it is over. A run whose plan
  is done is resumed at the verifier, which then judges by the recovered ledger alone.
- *Tool executor.* "Every attempt ... is persisted" (`tools/tool-executor.ts`) does
  not hold: entries with the same ordering hint have the same id and all but one
  are dropped, as `ReturnedIsRecorded` spells out. "network_error" in retryOn
  names no code, so that transient errors are never tried again.
- *Proposals.* Two confirmations, or a confirmation and a rejection, may both
  succeed; the docstring of reject says no state is changed. Two rejections that overlap
  with different reasons leave two memories of one decision, one of them superseded. The
  extraction of a memory that fails or is interrupted is never repeated. Two overlapping plans leave two live stages. A repair that overlaps a
  confirmation can complete the stage the confirmation has just made current and not
  go on from it, since the project row it has read names another stage
  (`backend/app/services/project_state_service.py:219`): the current stage is then a completed
  one, which is why `CurrentIsLive` exempts a repair of outdated rows. Tasks done
  by a replan or by hand do not advance the stage.
- *Assignment.* Two recommendations of a task can both be finalized and the last
  one silently owns it; an accepted negotiation moves the first rejected
  recommendation of the member in that stage, whichever it was about; a failure
  between the two commits of a finalization leaves negotiations open for good;
  `assignment_service.py:546` reads `.value` of a plain string.

## 7. Plan

The modules above were written in this order: ledger, runtime loop, tool executor,
proposals, assignment, resume; then the proofs. What is left, in order of weight:

1. `Memory`: the memory of all sources in one module, with a decision that returns to an
   earlier content (`memory_service.py:209`).
2. Pure rules as functions checked against references: work-state transitions,
   policy and budget decisions, the verdict of the verifier.
3. Check-ins and risks, and the stream of a turn in the frontend.
4. `AgentResume` as an implementation of the ledger as well, which would join it to
   `AgentRun` and `RunLog` by proof and not only by shared operators.
