------------------------------ MODULE AgentRun ------------------------------
(***************************************************************************)
(* One agent run from the model loop to its end: executeRun of the         *)
(* sidecar (pi-runtime.ts), the steering poller, the cancel route of the   *)
(* sidecar and the users who steer and cancel, over the run ledger of      *)
(* FastAPI.  Every append is one atomic batch, which RunLog and its        *)
(* refinement of RunLedger justify.                                        *)
(*                                                                         *)
(* One step of the sidecar is what it does from one answer to the next:    *)
(* the code that runs once an answer is there, and the next request with   *)
(* its effect on the ledger.  Between two steps, while an answer or a      *)
(* model stream is awaited, the poller's timer and the HTTP handlers of    *)
(* the same process run, and others write to the ledger, so that the       *)
(* expected_state_version the sidecar sends next is stale.                 *)
(***************************************************************************)
EXTENDS RunRecord, FiniteSets

CONSTANTS MaxSteeringLoops,  \* MAX_STEERING_LOOPS
          MaxSteering,       \* bound: messages the users send
          MaxTools,          \* the budget of tool calls
          MaxFaults          \* bound: requests that time out or fail on the way

NoPatch == "no patch"
None    == "none"

ASSUME BoundsAssumption ==
  /\ MaxSteeringLoops \in Nat \ {0}
  /\ MaxSteering \in Nat /\ MaxTools \in Nat /\ MaxFaults \in Nat

TerminalEvents == {"agent.completed", "agent.failed", "run.cancelled", "run.failed"}

ToolEvents == {"tool.ledger_entry", "tool.result"}

EventTypes ==
  TerminalEvents \cup ToolEvents \cup
  {StateChange, "agent.started", "agent.status", "tool.started", "tool.finished",
   "agent.ended", "checkpoint.saved", "steering.queued", "steering.consumed",
   "run_plan.created", "work_state.changed", "verifier.completed"}

StatusOf(type) == CASE type = "agent.completed" -> "completed"
                    [] type = "run.cancelled"   -> "cancelled"
                    [] OTHER                    -> "failed"

-----------------------------------------------------------------------------
VARIABLES
  status, version, log,    \* the ledger
  pc, try,                 \* where executeRun is; where a retried request is
  st, ver,                 \* runState.status, runState.stateVersion
  reason, stop,            \* how the stream ended; pendingTerminal.stopReason
  tools,                   \* tool calls made
  consumed,                \* consumedSteeringSeqs
  pre, todo,               \* preCheckpointSteering; steering being consumed
  loops, reentered,        \* steeringLoopCount, steeringReentryOccurred
  verdict, term,           \* the verifier's verdict; the terminal event chosen
  lost,                    \* the terminal event written by a request whose
                           \* answer was lost, if lastEventSeq is as it was
  signal, firstAborted,    \* why the current controller is aborted; whether
                           \* options.signal is
  flag,                    \* SessionStore.steeringAvailable
  polling, seen, tick,     \* the poller: its timer, consumedSeqs, the snapshot
                           \* a tick is about to act on
  cancel,                  \* the user's request to stop the run
  steered, faults          \* counters of the bounds

ledger  == <<status, version, log>>
stream  == <<reason, stop, tools>>
steer   == <<consumed, pre, todo, loops, reentered>>
ending  == <<verdict, term, lost>>
abort   == <<signal, firstAborted, flag>>
poller  == <<polling, seen, tick>>
sidecar == <<pc, try, st, ver, stream, steer, ending>>
users   == <<cancel, steered>>
vars    == <<ledger, sidecar, abort, poller, users, faults>>

Init ==
  /\ status = "created" /\ version = 0 /\ log = << >>
  /\ pc = "agent_start" /\ try = "first"
  /\ st = "model_streaming" /\ ver = 0
  /\ reason = None /\ stop = None /\ tools = 0
  /\ consumed = {} /\ pre = {} /\ todo = {} /\ loops = 0 /\ reentered = FALSE
  /\ verdict = None /\ term = None /\ lost = None
  /\ signal = None /\ firstAborted = FALSE /\ flag = FALSE
  /\ polling = TRUE /\ seen = {} /\ tick = {}
  /\ cancel = None /\ steered = 0 /\ faults = 0

-----------------------------------------------------------------------------
(* The ledger, as one request meets it. *)

Entry(type, val) == [type |-> type, val |-> val]

Record(patch, entries) ==
  /\ log' = log \o (IF patch = NoPatch THEN << >> ELSE <<Entry(StateChange, patch)>>)
                \o entries
  /\ version' = version + 1
  /\ status' = IF patch = NoPatch THEN status ELSE patch

\* Faulty variants: no expected_state_version; patches of finished runs are not
\* validated; only those are.
NeverStale == FALSE
IllegalUnlessFinal(patch) ==
  patch # NoPatch /\ status \notin Terminal /\ ~MayMove(status, patch)
IllegalIfFinal(patch) ==
  patch # NoPatch /\ status \in Terminal /\ ~MayMove(status, patch)

Stale == ver # version

Illegal(patch) == patch # NoPatch /\ ~MayMove(status, patch)

Seqs(type) == {i \in DOMAIN log : log[i].type = type}

LatestCheckpoint == {i \in Seqs("checkpoint.saved") :
                       \A j \in Seqs("checkpoint.saved") : j <= i}

\* unconsumed_steering of the snapshot: only the page that starts at the
\* latest checkpoint is read.
Unconsumed ==
  {i \in Seqs("steering.queued") :
     /\ \A c \in LatestCheckpoint : i >= c
     /\ ~\E j \in Seqs("steering.consumed") :
           log[j].val = i /\ \A c \in LatestCheckpoint : j >= c}

\* A request of the sidecar, answered, refused or lost.  `stale` and `bad` are
\* where the code goes on after a 409 and after any other error; an answer may
\* be lost though the batch was written.
Fault(bad) == faults < MaxFaults /\ faults' = faults + 1 /\ pc' = bad

Call(patch, type, val, ok, stale, bad) ==
  \/ /\ ~Stale /\ ~Illegal(patch)
     /\ Record(patch, <<Entry(type, val)>>)
     /\ ver' = version + 1
     /\ pc' = ok
     /\ UNCHANGED faults
  \/ /\ Stale
     /\ pc' = stale
     /\ UNCHANGED <<ledger, ver, faults>>
  \/ /\ ~Stale /\ Illegal(patch)
     /\ pc' = bad
     /\ UNCHANGED <<ledger, ver, faults>>
  \/ /\ Fault(bad)
     /\ UNCHANGED ver
     /\ \/ UNCHANGED ledger
        \/ ~Stale /\ ~Illegal(patch) /\ Record(patch, <<Entry(type, val)>>)

\* persistCheckpoint and persistAndEmitMappedEvent: after a 409 the snapshot
\* is read and the same request is sent once more.
Retried(here, patch, type, ok, bad) ==
  \/ /\ try = "first"
     /\ Call(patch, type, None, ok, here, bad)
     /\ try' = IF pc' = here THEN "refresh" ELSE "first"
  \/ /\ try = "refresh"
     /\ \/ ver' = version /\ pc' = here /\ try' = "again" /\ UNCHANGED faults
        \/ Fault(bad) /\ try' = "first" /\ UNCHANGED ver
     /\ UNCHANGED ledger
  \/ /\ try = "again"
     /\ Call(patch, type, None, ok, bad, bad)
     /\ try' = "first"

-----------------------------------------------------------------------------
(* The model loop: handlePiEvent, toPiTool and the events Pi emits. *)

\* applyPiEventToRunState, for the events it guards.
Local(s) == IF st \in Terminal THEN st ELSE s

PiEvent(here, s, type, ok) ==
  /\ pc = here
  /\ st' = s
  /\ Call(s, type, None, ok, "loop_error", "loop_error")
  /\ UNCHANGED <<try, tools, steer, ending, abort, poller, users>>

AgentStart == /\ PiEvent("agent_start", "context_building", "agent.started", "turn_start")
              /\ UNCHANGED <<reason, stop>>
TurnStart  == /\ PiEvent("turn_start", Local("model_streaming"), "agent.status", "stream")
              /\ reason' = None
              /\ UNCHANGED stop
ToolStart  == /\ PiEvent("tool_start", Local("tool_preparing"), "tool.started", "tool_check")
              /\ UNCHANGED <<reason, stop>>
ToolEnd    == /\ PiEvent("tool_end", Local("persisting_tool_result"), "tool.finished", "turn_end")
              /\ UNCHANGED <<reason, stop>>

\* A turn that called a tool is followed by another one.
TurnEnd    == /\ PiEvent("turn_end", Local("model_streaming"), "agent.status",
                         IF reason = None THEN "turn_start" ELSE "agent_end")
              /\ UNCHANGED <<reason, stop>>

\* The model calls a tool or ends; an aborted stream ends at once.
Stream ==
  /\ pc = "stream"
  /\ \/ /\ signal = None /\ tools < MaxTools
        /\ pc' = "tool_start" /\ UNCHANGED reason
     \/ /\ pc' = "turn_end"
        /\ reason' \in IF signal = None THEN {"stop", "error"} ELSE {"aborted"}
  /\ UNCHANGED <<ledger, try, st, ver, stop, tools, steer, ending, abort, poller, users, faults>>

\* beforeToolCall blocks the call of an aborted run.
ToolCheck ==
  /\ pc = "tool_check"
  /\ IF signal = None
     THEN tools' = tools + 1 /\ pc' = "tool_ledger"
     ELSE pc' = "tool_end" /\ UNCHANGED tools
  /\ UNCHANGED <<ledger, try, st, ver, reason, stop, steer, ending, abort, poller, users, faults>>

\* The ledger entry and then the result of the call.  An error thrown here
\* becomes a tool result for the model; the loop goes on.
ToolAppend(here, type, ok) ==
  /\ pc = here
  /\ Call(NoPatch, type, None, ok, "tool_end", "tool_end")
  /\ UNCHANGED <<try, st, stream, steer, ending, abort, poller, users>>

ToolLedger == ToolAppend("tool_ledger", "tool.ledger_entry", "tool_result")
ToolResult == ToolAppend("tool_result", "tool.result", "tool_end")

\* piEventSink drops the agent_end of a stream that steering interrupted.
AgentEnd ==
  \/ /\ signal = None \/ ~flag
     /\ PiEvent("agent_end", "persisting_tool_result", "agent.ended", "capture")
     /\ stop' = reason
     /\ UNCHANGED reason
  \/ /\ pc = "agent_end"
     /\ signal # None /\ flag
     /\ pc' = "capture"
     /\ UNCHANGED <<ledger, try, st, ver, stream, steer, ending, abort, poller, users, faults>>

\* The outer catch chooses the last event of the run.
Caught ==
  LET wasCancelled == \/ firstAborted /\ ~reentered
                      \/ st \in {"cancelling", "cancelled"}
  IN
  /\ term' = IF wasCancelled THEN "run.cancelled" ELSE "run.failed"
  /\ st' = StatusOf(term')
  /\ pc' = "report"

\* The catch around runAgentLoop: an abort by the poller is a steering
\* interrupt, and so is any other abort while steering is available.
LoopError ==
  LET clears    == signal \notin {None, "steering_available"}
      interrupt == signal = "steering_available" \/ (clears /\ flag)
  IN
  /\ pc = "loop_error"
  /\ flag' = (flag /\ ~clears)
  /\ IF interrupt
     THEN pc' = (IF flag' THEN "capture" ELSE "checkpoint") /\ UNCHANGED <<st, term>>
     ELSE Caught
  /\ polling' = (polling /\ interrupt)
  /\ UNCHANGED <<ledger, try, ver, stream, steer, verdict, lost, signal, firstAborted,
                 seen, tick, users, faults>>

-----------------------------------------------------------------------------
(* The loop boundary: checkpoint, steering, re-entry. *)

\* Steering the poller noticed is read before the checkpoint hides it.
Capture ==
  /\ pc = "capture"
  /\ \/ flag /\ pre' = Unconsumed \ consumed /\ ver' = version
             /\ pc' = "checkpoint" /\ UNCHANGED faults
     \/ flag /\ Fault("catch") /\ UNCHANGED <<pre, ver>>
     \/ ~flag /\ pre' = {} /\ pc' = "checkpoint" /\ UNCHANGED <<ver, faults>>
  /\ UNCHANGED <<ledger, try, st, stream, consumed, todo, loops, reentered, ending,
                 abort, poller, users>>

Checkpoint ==
  /\ pc = "checkpoint"
  /\ Retried("checkpoint", NoPatch, "checkpoint.saved", "pull", "catch")
  /\ UNCHANGED <<st, stream, steer, ending, abort, poller, users>>

\* The unconsumed steering of a fresh snapshot, unless some was captured; the
\* snapshot that cannot be read ends the loop like one without steering.
Pull ==
  LET list == (IF pre # {} THEN pre ELSE Unconsumed) \ consumed IN
  /\ pc = "pull"
  /\ \/ /\ list # {}
        /\ pre' = {} /\ todo' = list /\ reentered' = TRUE /\ ver' = version
        /\ pc' = "consume"
        /\ UNCHANGED <<polling, faults>>
     \/ /\ list = {}
        /\ pre' = {} /\ ver' = version
        /\ pc' = "plan" /\ polling' = FALSE
        /\ UNCHANGED <<todo, reentered, faults>>
     \/ /\ Fault("plan") /\ polling' = FALSE
        /\ UNCHANGED <<pre, todo, reentered, ver>>
  /\ UNCHANGED <<ledger, try, st, stream, consumed, loops, ending, abort, seen, tick, users>>

\* Faulty variant: the last message first.
Newest == CHOOSE s \in todo : \A u \in todo : s >= u

Oldest == CHOOSE s \in todo : \A u \in todo : s <= u

Consume ==
  /\ pc = "consume" /\ todo # {}
  /\ consumed' = consumed \cup {Oldest}
  /\ todo' = todo \ {Oldest}
  /\ Call(NoPatch, "steering.consumed", Oldest, "consume", "catch", "catch")
  /\ UNCHANGED <<try, st, stream, pre, loops, reentered, ending, abort, poller, users>>

\* A fresh abort controller, and another model loop unless the limit is
\* reached.  piEventSink drops the agent_start of a later loop, whose first
\* request is that of its turn_start.
Reenter ==
  /\ pc = "consume" /\ todo = {}
  /\ seen' = consumed
  /\ signal' = None
  /\ loops' = loops + 1
  /\ IF loops' < MaxSteeringLoops
     THEN /\ st' = Local("model_streaming") /\ reason' = None
          /\ Call(st', "agent.status", None, "stream", "loop_error", "loop_error")
          /\ UNCHANGED polling
     ELSE /\ pc' = "plan" /\ polling' = FALSE
          /\ UNCHANGED <<ledger, st, ver, reason, faults>>
  /\ UNCHANGED <<try, stop, tools, consumed, pre, todo, reentered, ending,
                 firstAborted, flag, tick, users>>

-----------------------------------------------------------------------------
(* After the loops: plan, verifier and the terminal event. *)

\* persistControlPlaneEvent.
Stage(here, type, val, ok, bad) ==
  /\ pc = here
  /\ Call(NoPatch, type, val, ok, bad, bad)
  /\ UNCHANGED <<try, st, stream, steer, term, lost, abort, poller, users>>

\* Some runs have no plan.
Plan ==
  \/ /\ Stage("plan", "run_plan.created", None, "verifying", "catch")
     /\ UNCHANGED verdict
  \/ /\ pc = "plan" /\ pc' = "verifying"
     /\ UNCHANGED <<ledger, try, st, ver, stream, steer, ending, abort, poller, users, faults>>

\* The change of the work state may be lost; the verdict may not.
Verifying == /\ Stage("verifying", "work_state.changed", None, "verify", "verify")
             /\ UNCHANGED verdict
Verify    == /\ Stage("verify", "verifier.completed", None, "decide", "catch")
             /\ verdict' \in {"passed", "failed"}

\* Faulty variant: an event type no reader takes for a terminal event.
ByCompletion == IF verdict = "failed" THEN "agent.blocked" ELSE "agent.completed"

ByVerdict == IF verdict = "failed" THEN "agent.failed" ELSE "agent.completed"

\* A model error is overruled by the verdict when a tool had side effects.
Decision ==
  CASE firstAborted /\ ~reentered -> {"run.cancelled"}
    [] stop = "aborted"           -> {"run.cancelled"}
    [] stop = "error"             -> {"agent.failed"} \cup {ByVerdict : i \in Seqs("tool.result")}
    [] OTHER                      -> {ByVerdict}

Decide ==
  /\ pc = "decide"
  /\ term' \in Decision
  /\ pc' = "final"
  /\ UNCHANGED <<ledger, try, st, ver, stream, steer, verdict, lost, abort, poller, users, faults>>

FinalCheckpoint ==
  /\ pc = "final"
  /\ Retried("final", NoPatch, "checkpoint.saved", "terminal", "unsaved")
  /\ UNCHANGED <<st, stream, steer, ending, abort, poller, users>>

\* Faulty variant: the terminal event is sent outside of the outer try.
TerminateOutside(here, type) ==
  /\ pc = here
  /\ st' = StatusOf(type)
  /\ Retried(here, StatusOf(type), type, "done", "done")
  /\ UNCHANGED <<stream, steer, ending, abort, poller, users>>

\* The terminal event, or run.failed when the checkpoint could not be saved.
Terminate(here, type) ==
  /\ pc = here
  /\ st' = StatusOf(type)
  /\ Retried(here, StatusOf(type), type, "done", "catch")
  /\ lost' = IF try = "first" /\ pc' = "catch" /\ log' # log THEN type ELSE lost
  /\ UNCHANGED <<stream, steer, verdict, term, abort, poller, users>>

Catch ==
  /\ pc = "catch"
  /\ Caught
  /\ UNCHANGED <<ledger, try, ver, stream, steer, verdict, lost, abort, poller, users, faults>>

\* Faulty variant: report until the ledger takes it.
ReportAgain ==
  /\ pc = "report" /\ term # lost
  /\ Retried("report", StatusOf(term), term, "done", "report")
  /\ UNCHANGED <<st, stream, steer, ending, abort, poller, users>>

\* A second failure leaves executeRun with an exception.
Report ==
  /\ pc = "report" /\ term # lost
  /\ Retried("report", StatusOf(term), term, "done", "done")
  /\ UNCHANGED <<st, stream, steer, ending, abort, poller, users>>

\* The client_event_id is made of lastEventSeq and the type: the same event
\* as the lost one is answered as a duplicate, before its version is looked at.
ReportDuplicate ==
  /\ pc = "report" /\ term = lost
  /\ pc' = "done"
  /\ \/ ver' = version /\ UNCHANGED faults
     \/ Fault("done") /\ UNCHANGED ver
  /\ UNCHANGED <<ledger, try, st, stream, steer, ending, abort, poller, users>>

-----------------------------------------------------------------------------
(* The poller, and the users. *)

\* sessionStore.abort of the controller registered last; the first one is also
\* options.signal.
Abort(why) ==
  IF pc = "done" THEN UNCHANGED <<signal, firstAborted>>
  ELSE /\ signal' = IF signal = None THEN why ELSE signal
       /\ firstAborted' = (firstAborted \/ loops = 0)

\* A tick that finds nothing new does nothing.
PollRead ==
  /\ polling /\ tick = {}
  /\ Unconsumed \ seen # {}
  /\ tick' = Unconsumed
  /\ UNCHANGED <<ledger, sidecar, abort, polling, seen, users, faults>>

\* The answer may come after the steering was consumed, or the poller stopped.
PollAct ==
  /\ tick # {}
  /\ tick' = {}
  /\ IF tick \ seen = {} THEN UNCHANGED abort
     ELSE flag' = TRUE /\ Abort("steering_available")
  /\ UNCHANGED <<ledger, sidecar, polling, seen, users, faults>>

\* Three ticks in a row have failed, which counts as one fault.
PollGivesUp ==
  /\ polling /\ polling' = FALSE
  /\ faults < MaxFaults /\ faults' = faults + 1
  /\ UNCHANGED <<ledger, sidecar, abort, seen, tick, users>>

\* Faulty variant: steering is taken at any time.
SteerAnytime ==
  /\ steered < MaxSteering
  /\ Record(NoPatch, <<Entry("steering.queued", None)>>)
  /\ steered' = steered + 1
  /\ UNCHANGED <<sidecar, abort, poller, cancel, faults>>

Steer ==
  /\ steered < MaxSteering
  /\ status \notin Terminal
  /\ Record(NoPatch, <<Entry("steering.queued", None)>>)
  /\ steered' = steered + 1
  /\ UNCHANGED <<sidecar, abort, poller, cancel, faults>>

\* FastAPI takes the cancellation first, without an expected version.  The
\* steering route only does this half of the cancel route.
BackendCancel ==
  /\ cancel = None
  /\ MayMove(status, "cancelling")
  /\ Record("cancelling", << >>)
  /\ cancel' \in {"accepted", "forwarded"}
  /\ UNCHANGED <<sidecar, abort, poller, steered, faults>>

\* Faulty variant: the local status is overwritten whatever it is.
LocalCancelAlways ==
  /\ cancel = "accepted" /\ cancel' = "done"
  /\ st' = "cancelling"
  /\ Abort("user_cancelled")
  /\ UNCHANGED <<ledger, pc, try, ver, stream, steer, ending, flag, poller, steered, faults>>

LocalCancel ==
  /\ cancel = "accepted" /\ cancel' = "done"
  /\ st' = IF st \in Terminal THEN st ELSE "cancelling"
  /\ Abort("user_cancelled")
  /\ UNCHANGED <<ledger, pc, try, ver, stream, steer, ending, flag, poller, steered, faults>>

\* The browser closes the event stream of the run: only the first controller
\* is aborted, and FastAPI is not told.
Disconnect ==
  /\ cancel = None /\ pc # "done"
  /\ cancel' = "disconnected"
  /\ firstAborted' = TRUE
  /\ signal' = IF loops = 0 /\ signal = None THEN "disconnected" ELSE signal
  /\ UNCHANGED <<ledger, sidecar, flag, poller, steered, faults>>

-----------------------------------------------------------------------------
Sidecar ==
  \/ AgentStart \/ TurnStart \/ Stream \/ ToolStart \/ ToolCheck
  \/ ToolLedger \/ ToolResult \/ ToolEnd \/ TurnEnd \/ AgentEnd \/ LoopError
  \/ Capture \/ Checkpoint \/ Pull \/ Consume \/ Reenter
  \/ Plan \/ Verifying \/ Verify \/ Decide \/ FinalCheckpoint
  \/ Terminate("terminal", term) \/ Terminate("unsaved", "run.failed")
  \/ Catch \/ Report \/ ReportDuplicate

Environment ==
  \/ PollRead \/ PollAct \/ PollGivesUp
  \/ Steer \/ BackendCancel \/ LocalCancel \/ Disconnect

Next == Sidecar \/ Environment

\* executeRun goes on by itself: every request is answered or times out.
Spec == Init /\ [][Next]_vars /\ WF_vars(Sidecar)

-----------------------------------------------------------------------------
TypeOK ==
  /\ status \in Status
  /\ version \in Nat
  /\ \A i \in DOMAIN log :
       IF log[i].type = "steering.consumed"
       THEN log[i].val \in 1..(i - 1)
       ELSE log[i] \in [type : EventTypes, val : Status \cup {None}]
  /\ pc \in {"agent_start", "turn_start", "stream", "tool_start", "tool_check",
             "tool_ledger", "tool_result", "tool_end", "turn_end", "agent_end",
             "loop_error", "capture", "checkpoint", "pull", "consume", "plan",
             "verifying", "verify", "decide", "final", "terminal", "unsaved",
             "catch", "report", "done"}
  /\ try \in {"first", "refresh", "again"}
  /\ st \in Status /\ ver \in 0..version
  /\ reason \in {None, "stop", "error", "aborted"}
  /\ stop \in {None, "stop", "error", "aborted"}
  /\ tools \in 0..MaxTools
  /\ consumed \in SUBSET DOMAIN log /\ seen \in SUBSET DOMAIN log
  /\ pre \in SUBSET DOMAIN log /\ todo \in SUBSET DOMAIN log /\ tick \in SUBSET DOMAIN log
  /\ loops \in 0..MaxSteeringLoops
  /\ verdict \in {None, "passed", "failed"}
  /\ {term, lost} \subseteq TerminalEvents \cup {None}
  /\ signal \in {None, "steering_available", "user_cancelled", "disconnected"}
  /\ {reentered, firstAborted, flag, polling} \subseteq BOOLEAN
  /\ cancel \in {None, "accepted", "forwarded", "done", "disconnected"}
  /\ steered \in 0..MaxSteering /\ faults \in 0..MaxFaults

TerminalSeqs == {i \in DOMAIN log : log[i].type \in TerminalEvents}

\* However a run ends, its log and its row tell the same outcome: there is a
\* terminal event exactly when the status is terminal, every terminal event
\* stands for that status, and there is one only, unless a request was lost
\* (a lost answer to agent.failed lets the outer catch report run.failed too).
TerminalAgrees ==
  /\ status \in Terminal <=> TerminalSeqs # {}
  /\ \A i \in TerminalSeqs : StatusOf(log[i].type) = status
  /\ faults = 0 => Cardinality(TerminalSeqs) <= 1

\* The sidecar, whose runState.status is what its own clients are told, does
\* not contradict the ledger about a finished run, even when the cancel route
\* touches it after the run ended; a lost answer excepted.
LocalAgrees == faults = 0 /\ status \in Terminal => st = status

\* Steering takes effect in the order in which it was sent, and no message
\* twice, over captures, snapshots that hide older entries, and re-entries.
SteeringConsumedInOrder ==
  \A i, j \in Seqs("steering.consumed") : i < j => log[i].val < log[j].val

Appended == (Len(log) + 1)..Len(log')

\* Nothing is added to the log of a finished run but a repeated report of the
\* same outcome.
OnlyRepeatsAfterTerminal ==
  status \in Terminal =>
    /\ status' = status
    /\ \A i \in Appended : log'[i].type \in TerminalEvents \cup {StateChange}

QuietAfterTerminal == [][OnlyRepeatsAfterTerminal]_vars

\* Once FastAPI has accepted the cancellation, no tool call is recorded any
\* more.  The tool appends carry no status, so that only the version they
\* expect stands in their way, and checkpoints and snapshots refresh it.
RecordsNoTool ==
  status = "cancelling" => \A i \in Appended : log'[i].type \notin ToolEvents

NoToolAfterCancel == [][RecordsNoTool]_vars

\* executeRun comes to an end, whatever fails.
RunEnds == <>(pc = "done")

\* The last report of the run was sent again, and steering has come in between
\* once more.
Overtaken == pc = "report" /\ try = "again" /\ Stale

\* Whatever the users do, steering a run that is being cancelled included, a run
\* is in the end recorded with a terminal status, unless a request is lost, the
\* last report is overtaken twice, or the stream of a steered run is closed: then
\* the run can be reported as cancelled while it is still in context_building,
\* which cannot be cancelled.
RunRecorded ==
  [](faults = 0 /\ ~Overtaken /\ (cancel = "disconnected" => steered = 0))
    => <>(status \in Terminal)

Ledger == INSTANCE RunLedger WITH
  log     <- [i \in DOMAIN log |-> [type |-> log[i].type, val |-> log[i].val, id |-> i]],
  effects <- << >>

\* The sidecar and its users drive the ledger only as RunLedger allows: legal
\* steps of the status, to which the log replays.
ImplementsLedger == Ledger!LedgerSpec

-----------------------------------------------------------------------------
(* What the documents say, and the code does not do. *)

\* A run whose stream the user aborted is a cancelled run, not a failed one.
UserAbortEndsCancelled ==
  pc = "done" /\ faults = 0 /\ reason = "aborted" /\ signal = "user_cancelled"
    => status \notin {"failed", "completed"}

\* Steering queued before the post-loop checkpoint of a run that went on to
\* complete was consumed at that loop boundary, if a re-entry was left.
QueuedIsConsumed ==
  status = "completed" /\ loops < MaxSteeringLoops =>
    \A q \in Seqs("steering.queued") :
      (\E c, d \in Seqs("checkpoint.saved") : q < c /\ c < d) => q \in consumed

\* Steering that the poller has not noticed waits for the loop boundary and
\* does not disturb the run: it only fails for a reason of its own.
SteeringNeverFailsRun ==
  pc = "done" /\ status = "failed" =>
    faults > 0 \/ cancel # None \/ stop = "error" \/ verdict = "failed"

\* A steering interrupt leads to the consumption of steering, not to an end of
\* the run: only who asked for it, or left, cancels a run.
OnlyUsersCancel == status = "cancelled" => cancel # None
=============================================================================
