--------------------------- MODULE AgentRunProofs ---------------------------
(***************************************************************************)
(* Proofs about AgentRun, for any limits of steering loops, messages, tool *)
(* calls and faults: its types, that log, row and sidecar agree about the  *)
(* end of a run, that a finished run stays quiet, that no tool call is     *)
(* recorded after a cancellation, that steering is consumed in order, and  *)
(* that sidecar and users drive the ledger as RunLedger allows.            *)
(*                                                                         *)
(* The argument: a request that is neither stale nor illegal writes one    *)
(* batch, whose kind the place of executeRun determines (Writes).  What    *)
(* the sidecar holds agrees with the row at each of these places (Control) *)
(* and the steering that is neither consumed nor held is newer than all    *)
(* that is, or hidden behind the latest checkpoint (SteerOrder).           *)
(***************************************************************************)
EXTENDS AgentRun, SequenceTheorems, FiniteSetTheorems, WellFoundedInduction, TLAPS

LoopPcs == {"agent_start", "turn_start", "stream", "tool_start", "tool_check",
            "tool_ledger", "tool_result", "tool_end", "turn_end", "agent_end",
            "loop_error"}

BoundaryPcs == {"capture", "checkpoint", "pull", "consume"}

StagePcs == {"plan", "verifying", "verify", "decide", "final"}

Pcs == LoopPcs \cup BoundaryPcs \cup StagePcs
         \cup {"terminal", "unsaved", "catch", "report", "done"}

\* The types of what is not read off the log.
Scalars ==
  /\ status \in Status /\ version \in Nat
  /\ pc \in Pcs /\ try \in {"first", "refresh", "again"}
  /\ st \in Status /\ ver \in 0..version
  /\ reason \in {None, "stop", "error", "aborted"}
  /\ stop \in {None, "stop", "error", "aborted"}
  /\ tools \in 0..MaxTools
  /\ loops \in 0..MaxSteeringLoops
  /\ verdict \in {None, "passed", "failed"}
  /\ term \in TerminalEvents \cup {None} /\ lost \in TerminalEvents \cup {None}
  /\ signal \in {None, "steering_available", "user_cancelled", "disconnected"}
  /\ reentered \in BOOLEAN /\ firstAborted \in BOOLEAN
  /\ flag \in BOOLEAN /\ polling \in BOOLEAN
  /\ cancel \in {None, "accepted", "forwarded", "done", "disconnected"}
  /\ steered \in 0..MaxSteering /\ faults \in 0..MaxFaults

\* What the sidecar knows of the row at each place: the limits are not yet
\* reached, the run is not over before executeRun reports it, the event to
\* report is chosen, and after a cancellation every tool append is stale.
Control ==
  /\ pc \in LoopPcs \cup BoundaryPcs => loops < MaxSteeringLoops
  /\ pc \in {"tool_start", "tool_check"} => tools < MaxTools
  /\ pc \in LoopPcs \cup BoundaryPcs \cup StagePcs => st \notin Terminal
  /\ pc \in {"final", "terminal", "report"} => term \in TerminalEvents
  /\ pc = "report" => st = StatusOf(term)
  /\ status \in Terminal => pc \in {"catch", "report", "done"}
  /\ faults = 0 /\ status \in Terminal => pc = "done" /\ st = status
  /\ pc \in {"tool_check", "tool_ledger", "tool_result"} /\ status = "cancelling"
       => ver < version

-----------------------------------------------------------------------------
(* One request. *)

LEMMA StatusOfType ==
  ASSUME NEW type
  PROVE  StatusOf(type) \in Terminal
  BY DEF StatusOf, Terminal

LEMMA TerminalIsStatus == Terminal \subseteq Status /\ NoPatch \notin Status
  BY DEF Terminal, Status, NoPatch

\* A finished run does not move.
LEMMA TerminalStays ==
  ASSUME NEW s \in Terminal, NEW t, MayMove(s, t)
  PROVE  t = s
  BY DEF MayMove, ValidTransitions, Terminal

\* What one request does to the row and to the sidecar.
RowWritten(patch) ==
  /\ ver = version
  /\ patch # NoPatch => MayMove(status, patch)
  /\ version' = version + 1
  /\ status' = IF patch = NoPatch THEN status ELSE patch

Answered(patch, ok) ==
  RowWritten(patch) /\ ver' = version + 1 /\ pc' = ok /\ faults' = faults

Refused(next) ==
  status' = status /\ version' = version /\ ver' = ver /\ faults' = faults /\ pc' \in next

Failed(patch, bad) ==
  /\ faults < MaxFaults /\ faults' = faults + 1 /\ pc' = bad /\ ver' = ver
  /\ RowWritten(patch) \/ (status' = status /\ version' = version)

LEMMA CallOutcome ==
  ASSUME NEW patch, NEW type, NEW val, NEW ok, NEW stale, NEW bad,
         Call(patch, type, val, ok, stale, bad)
  PROVE  Answered(patch, ok) \/ Refused({stale, bad}) \/ Failed(patch, bad)
  BY DEF Call, Stale, Illegal, Record, Fault, ledger, Answered, Refused, Failed, RowWritten

\* A retried request stays where it is until it is answered, or gives up.
LEMMA RetriedOutcome ==
  ASSUME NEW here, NEW patch, NEW type, NEW ok, NEW bad,
         Retried(here, patch, type, ok, bad)
  PROVE  /\ try' \in {"first", "refresh", "again"}
         /\ \/ Answered(patch, ok) \/ Refused({here, bad}) \/ Failed(patch, bad)
            \/ /\ status' = status /\ version' = version /\ ver' = version
               /\ pc' = here /\ faults' = faults
<1>1. CASE try = "first" /\ Call(patch, type, None, ok, here, bad)
  BY <1>1, CallOutcome DEF Retried
<1>2. CASE try = "refresh"
  BY <1>2 DEF Retried, Refused, Failed, Fault, ledger
<1>3. CASE try = "again" /\ Call(patch, type, None, ok, bad, bad)
  <2>1. Answered(patch, ok) \/ Refused({bad}) \/ Failed(patch, bad)
    BY <1>3, CallOutcome
  <2> QED
    BY <1>3, <2>1 DEF Retried, Refused
<1> QED
  BY <1>1, <1>2, <1>3 DEF Retried

-----------------------------------------------------------------------------
(* Types and Control. *)

\* An event of the model loop leaves the loop running, or ends it.
LEMMA PiEventKeeps ==
  ASSUME Scalars, Control, NEW here \in LoopPcs, NEW s \in Status \ Terminal,
         NEW type, NEW ok \in LoopPcs \cup {"capture"}, PiEvent(here, s, type, ok),
         ok \in {"tool_start", "tool_check"} => tools < MaxTools,
         ok \in {"tool_check", "tool_ledger", "tool_result"} => s # "cancelling",
         reason' \in {None, "stop", "error", "aborted"},
         stop' \in {None, "stop", "error", "aborted"}
  PROVE  Scalars' /\ Control'
<1>1. /\ pc = here /\ st' = s
      /\ Answered(s, ok) \/ Refused({"loop_error"}) \/ Failed(s, "loop_error")
  BY CallOutcome DEF PiEvent, Refused
<1>2. s \in Status /\ s # NoPatch /\ s \notin Terminal
  BY TerminalIsStatus
<1>3. UNCHANGED <<try, tools, loops, verdict, term, lost, signal, reentered, firstAborted,
                  flag, polling, cancel, steered>>
  BY DEF PiEvent, steer, ending, abort, poller, users
<1>4. status' \in {status, s} /\ version' \in {version, version + 1}
      /\ ver' \in 0..version' /\ faults' \in 0..MaxFaults
  BY <1>1, <1>2, BoundsAssumption DEF Answered, Refused, Failed, RowWritten, Scalars
<1>5. pc' \in {ok, "loop_error"} /\ pc' \in LoopPcs \cup {"capture"}
  BY <1>1 DEF Answered, Refused, Failed, LoopPcs
<1>6. Scalars'
  BY <1>1, <1>2, <1>3, <1>4, <1>5, BoundsAssumption DEF Scalars, Pcs, BoundaryPcs
<1>7. status' \notin Terminal
  BY <1>1, <1>2, <1>4 DEF Control, LoopPcs
<1>8. loops < MaxSteeringLoops
  BY <1>1 DEF Control
<1>9. pc' \in {"tool_check", "tool_ledger", "tool_result"} => status' # "cancelling"
  BY <1>1, <1>2 DEF Answered, Refused, Failed, RowWritten, LoopPcs
<1> QED
  BY <1>1, <1>2, <1>3, <1>5, <1>6, <1>7, <1>8, <1>9 DEF Control, LoopPcs, BoundaryPcs, StagePcs

LEMMA LoopKeeps ==
  ASSUME Scalars, Control,
         AgentStart \/ TurnStart \/ ToolStart \/ ToolEnd \/ TurnEnd \/ AgentEnd
  PROVE  Scalars' /\ Control'
<1>1. pc \in LoopPcs => st \notin Terminal
  BY DEF Control
<1>2. \A s \in {"context_building", "model_streaming", "tool_preparing",
               "persisting_tool_result"} :
        s \in Status \ Terminal /\ s # "cancelling" /\ (pc \in LoopPcs => Local(s) = s)
  BY <1>1 DEF Status, Terminal, Local
<1>3. CASE AgentStart
  BY <1>2, <1>3, PiEventKeeps DEF AgentStart, Scalars, LoopPcs
<1>4. CASE TurnStart
  <2>1. PiEvent("turn_start", "model_streaming", "agent.status", "stream") /\ pc = "turn_start"
    BY <1>2, <1>4 DEF TurnStart, LoopPcs, PiEvent
  <2> QED
    BY <1>2, <1>4, <2>1, PiEventKeeps DEF TurnStart, Scalars, LoopPcs
<1>5. CASE ToolStart
  <2>1. PiEvent("tool_start", "tool_preparing", "tool.started", "tool_check") /\ pc = "tool_start"
    BY <1>2, <1>5 DEF ToolStart, LoopPcs, PiEvent
  <2> QED
    BY <1>2, <1>5, <2>1, PiEventKeeps DEF ToolStart, Scalars, LoopPcs, Control
<1>6. CASE ToolEnd
  <2>1. PiEvent("tool_end", "persisting_tool_result", "tool.finished", "turn_end") /\ pc = "tool_end"
    BY <1>2, <1>6 DEF ToolEnd, LoopPcs, PiEvent
  <2> QED
    BY <1>2, <1>6, <2>1, PiEventKeeps DEF ToolEnd, Scalars, LoopPcs
<1>7. CASE TurnEnd
  <2> DEFINE ok == IF reason = None THEN "turn_start" ELSE "agent_end"
  <2>1. PiEvent("turn_end", "model_streaming", "agent.status", ok) /\ pc = "turn_end"
    BY <1>2, <1>7 DEF TurnEnd, LoopPcs, PiEvent
  <2>2. ok \in {"turn_start", "agent_end"}
    OBVIOUS
  <2> HIDE DEF ok
  <2> QED
    BY <1>2, <1>7, <2>1, <2>2, PiEventKeeps DEF TurnEnd, Scalars, LoopPcs
<1>8. CASE AgentEnd
  <2>1. CASE PiEvent("agent_end", "persisting_tool_result", "agent.ended", "capture")
             /\ stop' = reason /\ UNCHANGED reason
    BY <1>2, <2>1, PiEventKeeps DEF Scalars, LoopPcs
  <2>2. CASE /\ pc = "agent_end" /\ pc' = "capture"
             /\ UNCHANGED <<ledger, try, st, ver, stream, steer, ending, abort, poller, users, faults>>
    BY <2>2 DEF Scalars, Control, Pcs, LoopPcs, BoundaryPcs, StagePcs,
                ledger, stream, steer, ending, abort, poller, users
  <2> QED
    BY <1>8, <2>1, <2>2 DEF AgentEnd
<1> QED
  BY <1>3, <1>4, <1>5, <1>6, <1>7, <1>8

LEMMA ToolsKeep ==
  ASSUME Scalars, Control, Stream \/ ToolCheck \/ ToolLedger \/ ToolResult
  PROVE  Scalars' /\ Control'
<1>1. CASE Stream
  BY <1>1 DEF Stream, Scalars, Control, Pcs, LoopPcs, BoundaryPcs, StagePcs,
              ledger, steer, ending, abort, poller, users
<1>2. CASE ToolCheck
  BY <1>2, BoundsAssumption DEF ToolCheck, Scalars, Control, Pcs, LoopPcs, BoundaryPcs, StagePcs,
              ledger, steer, ending, abort, poller, users
<1>3. ASSUME NEW here \in {"tool_ledger", "tool_result"}, NEW type,
             NEW ok \in {"tool_result", "tool_end"}, ToolAppend(here, type, ok)
      PROVE  Scalars' /\ Control'
  <2>1. /\ pc = here
        /\ Answered(NoPatch, ok) \/ Refused({"tool_end"}) \/ Failed(NoPatch, "tool_end")
    BY <1>3, CallOutcome DEF ToolAppend, Refused
  <2>2. status' = status /\ version' \in {version, version + 1} /\ pc' \in {"tool_result", "tool_end"}
        /\ ver' \in 0..version' /\ faults' \in 0..MaxFaults
        /\ (pc' = "tool_result" => status # "cancelling")
    BY <2>1, BoundsAssumption DEF Answered, Refused, Failed, RowWritten, Scalars, Control
  <2>3. UNCHANGED <<try, st, reason, stop, tools, loops, verdict, term, lost, signal, reentered,
                    firstAborted, flag, polling, cancel, steered>>
    BY <1>3 DEF ToolAppend, steer, ending, abort, poller, users, stream
  <2>4. Scalars'
    BY <2>2, <2>3 DEF Scalars, Pcs, LoopPcs
  <2> QED
    BY <2>1, <2>2, <2>3, <2>4 DEF Control, LoopPcs, BoundaryPcs, StagePcs
<1> QED
  BY <1>1, <1>2, <1>3 DEF ToolLedger, ToolResult

\* The catch clauses end the loop and choose what to report, or go on with the
\* loop boundary.
LEMMA CaughtKeeps ==
  ASSUME Scalars, Control, Caught, faults' = faults,
         pc \in {"loop_error", "catch"}, polling' \in BOOLEAN, flag' \in BOOLEAN,
         UNCHANGED <<status, version, ver, try, reason, stop, tools, loops, reentered, verdict,
                     lost, signal, firstAborted, cancel, steered>>
  PROVE  Scalars' /\ Control'
<1>1. term' \in TerminalEvents /\ st' = StatusOf(term') /\ pc' = "report"
  BY DEF Caught, TerminalEvents
<1>2. st' \in Terminal /\ st' \in Status
  BY <1>1, StatusOfType, TerminalIsStatus
<1>3. Scalars'
  BY <1>1, <1>2 DEF Scalars, Pcs
<1>4. ~(faults = 0 /\ status \in Terminal)
  BY DEF Control
<1> QED
  BY <1>1, <1>2, <1>3, <1>4 DEF Control, LoopPcs, BoundaryPcs, StagePcs

LEMMA CatchesKeep ==
  ASSUME Scalars, Control, LoopError \/ Catch
  PROVE  Scalars' /\ Control'
<1>1. CASE Catch
  BY <1>1, CaughtKeeps DEF Catch, Scalars, ledger, stream, steer, abort, poller, users
<1>2. CASE LoopError
  <2> DEFINE clears    == signal \notin {None, "steering_available"}
             interrupt == signal = "steering_available" \/ (clears /\ flag)
  <2>1. /\ pc = "loop_error" /\ flag' = (flag /\ ~clears) /\ polling' = (polling /\ interrupt)
        /\ UNCHANGED <<status, version, ver, try, reason, stop, tools, loops, reentered, verdict,
                       lost, signal, firstAborted, cancel, steered, faults>>
    BY <1>2 DEF LoopError, ledger, stream, steer, users
  <2>2. flag' \in BOOLEAN /\ polling' \in BOOLEAN
    BY <2>1 DEF Scalars
  <2>3. CASE interrupt
    <3>1. pc' \in {"capture", "checkpoint"} /\ UNCHANGED <<st, term>>
      BY <1>2, <2>3 DEF LoopError
    <3>2. Scalars'
      BY <2>1, <2>2, <3>1 DEF Scalars, Pcs, BoundaryPcs
    <3> QED
      BY <2>1, <3>1, <3>2 DEF Control, LoopPcs, BoundaryPcs, StagePcs
  <2>4. CASE ~interrupt
    <3>1. Caught
      BY <1>2, <2>4 DEF LoopError
    <3> QED
      BY <2>1, <2>2, <3>1, CaughtKeeps
  <2> QED
    BY <2>3, <2>4
<1> QED
  BY <1>1, <1>2

\* The loop boundary, as far as the row and the place of executeRun go.
LEMMA BoundaryKeeps ==
  ASSUME Scalars, Control, Capture \/ Checkpoint \/ Pull \/ Consume
  PROVE  Scalars' /\ Control'
<1>1. CASE Capture
  BY <1>1, BoundsAssumption DEF Capture, Fault, Scalars, Control, Pcs, LoopPcs, BoundaryPcs, StagePcs,
              ledger, stream, ending, abort, poller, users
<1>2. CASE Checkpoint
  <2>1. UNCHANGED <<st, reason, stop, tools, loops, reentered, verdict, term, lost, signal,
                    firstAborted, flag, polling, cancel, steered>>
    BY <1>2 DEF Checkpoint, stream, steer, ending, abort, poller, users
  <2>2. /\ pc = "checkpoint" /\ try' \in {"first", "refresh", "again"}
        /\ pc' \in {"checkpoint", "pull", "catch"} /\ status' = status
        /\ version' \in {version, version + 1} /\ ver' \in 0..version' /\ faults' \in 0..MaxFaults
    BY <1>2, RetriedOutcome, BoundsAssumption
       DEF Checkpoint, Answered, Refused, Failed, RowWritten, Scalars
  <2>3. Scalars'
    BY <2>1, <2>2 DEF Scalars, Pcs, BoundaryPcs
  <2> QED
    BY <2>1, <2>2, <2>3 DEF Control, LoopPcs, BoundaryPcs, StagePcs
<1>3. CASE Pull
  <2>1. /\ pc = "pull" /\ pc' \in {"consume", "plan"}
        /\ UNCHANGED <<status, version, try, st, reason, stop, tools, loops, verdict, term, lost,
                       signal, firstAborted, flag, cancel, steered>>
        /\ ver' \in {ver, version} /\ faults' \in 0..MaxFaults
    BY <1>3, BoundsAssumption DEF Pull, Fault, Scalars, ledger, stream, ending, abort, users
  <2>2. reentered' \in BOOLEAN /\ polling' \in BOOLEAN
    BY <1>3 DEF Pull, Scalars
  <2>3. Scalars'
    BY <2>1, <2>2 DEF Scalars, Pcs, BoundaryPcs, StagePcs
  <2> QED
    BY <2>1, <2>3 DEF Control, LoopPcs, BoundaryPcs, StagePcs
<1>4. CASE Consume
  <2>1. UNCHANGED <<try, st, reason, stop, tools, loops, reentered, verdict, term, lost, signal,
                    firstAborted, flag, polling, cancel, steered>>
    BY <1>4 DEF Consume, stream, ending, abort, poller, users
  <2>2. /\ pc = "consume" /\ pc' \in {"consume", "catch"} /\ status' = status
        /\ version' \in {version, version + 1} /\ ver' \in 0..version' /\ faults' \in 0..MaxFaults
    BY <1>4, CallOutcome, BoundsAssumption
       DEF Consume, Answered, Refused, Failed, RowWritten, Scalars
  <2>3. Scalars'
    BY <2>1, <2>2 DEF Scalars, Pcs, BoundaryPcs
  <2> QED
    BY <2>1, <2>2, <2>3 DEF Control, LoopPcs, BoundaryPcs, StagePcs
<1> QED
  BY <1>1, <1>2, <1>3, <1>4

\* A re-entry that the limit still allows leaves room for it.
LEMMA ReenterKeeps ==
  ASSUME Scalars, Control, Reenter
  PROVE  Scalars' /\ Control'
<1>1. /\ pc = "consume" /\ loops < MaxSteeringLoops /\ st \notin Terminal /\ status \notin Terminal
      /\ signal' = None /\ loops' = loops + 1 /\ loops' \in 0..MaxSteeringLoops
      /\ UNCHANGED <<try, stop, tools, reentered, verdict, term, lost, firstAborted, flag,
                     cancel, steered>>
  BY BoundsAssumption DEF Reenter, Control, Scalars, LoopPcs, BoundaryPcs, StagePcs, ending, users
<1>2. CASE loops' < MaxSteeringLoops
  <2>1. st' = "model_streaming" /\ reason' = None /\ polling' = polling
        /\ Call("model_streaming", "agent.status", None, "stream", "loop_error", "loop_error")
    BY <1>1, <1>2 DEF Reenter, Local
  <2>2. /\ pc' \in {"stream", "loop_error"} /\ status' \in {status, "model_streaming"}
        /\ version' \in {version, version + 1} /\ ver' \in 0..version' /\ faults' \in 0..MaxFaults
    BY <2>1, CallOutcome, BoundsAssumption, TerminalIsStatus
       DEF Answered, Refused, Failed, RowWritten, Scalars
  <2>3. "model_streaming" \in Status \ Terminal
    BY DEF Status, Terminal
  <2>4. Scalars'
    BY <1>1, <2>1, <2>2, <2>3 DEF Scalars, Pcs, LoopPcs
  <2> QED
    BY <1>1, <1>2, <2>1, <2>2, <2>3, <2>4 DEF Control, LoopPcs, BoundaryPcs, StagePcs
<1>3. CASE ~(loops' < MaxSteeringLoops)
  <2>1. pc' = "plan" /\ polling' \in BOOLEAN /\ UNCHANGED <<status, version, st, ver, reason, faults>>
    BY <1>3 DEF Reenter, ledger
  <2>2. Scalars'
    BY <1>1, <2>1 DEF Scalars, Pcs, StagePcs
  <2> QED
    BY <1>1, <2>1, <2>2 DEF Control, LoopPcs, BoundaryPcs, StagePcs
<1> QED
  BY <1>2, <1>3

\* The requests between the loops and the terminal event, and the choice of it.
LEMMA StagesKeep ==
  ASSUME Scalars, Control, Plan \/ Verifying \/ Verify \/ Decide \/ FinalCheckpoint
  PROVE  Scalars' /\ Control'
<1>1. ASSUME NEW here \in {"plan", "verifying", "verify"}, NEW type, NEW val,
             NEW ok \in StagePcs \ {"final"}, NEW bad \in {"catch", "verify"},
             Stage(here, type, val, ok, bad), verdict' \in {None, "passed", "failed"}
      PROVE  Scalars' /\ Control'
  <2>1. /\ pc = here /\ pc' \in {ok, bad} /\ status' = status
        /\ version' \in {version, version + 1} /\ ver' \in 0..version' /\ faults' \in 0..MaxFaults
    BY <1>1, CallOutcome, BoundsAssumption
       DEF Stage, Answered, Refused, Failed, RowWritten, Scalars
  <2>2. UNCHANGED <<try, st, reason, stop, tools, loops, reentered, term, lost, signal,
                    firstAborted, flag, polling, cancel, steered>>
    BY <1>1 DEF Stage, stream, steer, abort, poller, users
  <2>3. Scalars'
    BY <1>1, <2>1, <2>2 DEF Scalars, Pcs, StagePcs
  <2> QED
    BY <2>1, <2>2, <2>3 DEF Control, LoopPcs, BoundaryPcs, StagePcs
<1>2. CASE Plan
  <2>1. CASE Stage("plan", "run_plan.created", None, "verifying", "catch") /\ UNCHANGED verdict
    BY <1>1, <2>1 DEF StagePcs, Scalars
  <2>2. CASE /\ pc = "plan" /\ pc' = "verifying"
             /\ UNCHANGED <<ledger, try, st, ver, stream, steer, ending, abort, poller, users, faults>>
    BY <2>2 DEF Scalars, Control, Pcs, LoopPcs, BoundaryPcs, StagePcs,
                ledger, stream, steer, ending, abort, poller, users
  <2> QED
    BY <1>2, <2>1, <2>2 DEF Plan
<1>3. CASE Verifying
  BY <1>1, <1>3 DEF Verifying, StagePcs, Scalars
<1>4. CASE Verify
  BY <1>1, <1>4 DEF Verify, StagePcs, Scalars
<1>5. CASE Decide
  <2>1. term' \in TerminalEvents
    BY <1>5 DEF Decide, Decision, ByVerdict, TerminalEvents
  <2>2. /\ pc = "decide" /\ pc' = "final"
        /\ UNCHANGED <<status, version, try, st, ver, reason, stop, tools, loops, reentered, verdict,
                       lost, signal, firstAborted, flag, polling, cancel, steered, faults>>
    BY <1>5 DEF Decide, ledger, stream, steer, abort, poller, users
  <2>3. Scalars'
    BY <2>1, <2>2 DEF Scalars, Pcs, StagePcs
  <2> QED
    BY <2>1, <2>2, <2>3 DEF Control, LoopPcs, BoundaryPcs, StagePcs
<1>6. CASE FinalCheckpoint
  <2>1. UNCHANGED <<st, reason, stop, tools, loops, reentered, verdict, term, lost, signal,
                    firstAborted, flag, polling, cancel, steered>>
    BY <1>6 DEF FinalCheckpoint, stream, steer, ending, abort, poller, users
  <2>2. /\ pc = "final" /\ try' \in {"first", "refresh", "again"}
        /\ pc' \in {"final", "terminal", "unsaved"} /\ status' = status
        /\ version' \in {version, version + 1} /\ ver' \in 0..version' /\ faults' \in 0..MaxFaults
    BY <1>6, RetriedOutcome, BoundsAssumption
       DEF FinalCheckpoint, Answered, Refused, Failed, RowWritten, Scalars
  <2>3. Scalars'
    BY <2>1, <2>2 DEF Scalars, Pcs, StagePcs
  <2> QED
    BY <2>1, <2>2, <2>3 DEF Control, LoopPcs, BoundaryPcs, StagePcs
<1> QED
  BY <1>2, <1>3, <1>4, <1>5, <1>6

\* A request with a terminal event that is answered ends executeRun, with the
\* status of the event on both sides; after a lost one the outer catch reports.
LEMMA TerminalRequestKeeps ==
  ASSUME Scalars, Control,
         NEW here \in {"terminal", "unsaved", "report"}, pc = here,
         NEW type \in TerminalEvents, NEW bad \in {"catch", "done"},
         Retried(here, StatusOf(type), type, "done", bad), st' = StatusOf(type),
         here = "report" => type = term,
         lost' \in TerminalEvents \cup {None},
         UNCHANGED <<reason, stop, tools, loops, reentered, verdict, term, signal,
                     firstAborted, flag, polling, cancel, steered>>
  PROVE  Scalars' /\ Control'
<1> DEFINE s == StatusOf(type)
<1>1. s \in Terminal /\ s \in Status /\ s # NoPatch
  BY StatusOfType, TerminalIsStatus
<1>2. try' \in {"first", "refresh", "again"}
  BY RetriedOutcome
<1>3. Answered(s, "done") \/ Refused({here, bad}) \/ Failed(s, bad)
      \/ (/\ status' = status /\ version' = version /\ ver' = version
          /\ pc' = here /\ faults' = faults)
  BY RetriedOutcome
<1>4. pc' \in {here, "done", bad} /\ status' \in {status, s}
      /\ version' \in {version, version + 1} /\ ver' \in 0..version' /\ faults' \in 0..MaxFaults
  BY <1>1, <1>3, BoundsAssumption DEF Answered, Refused, Failed, RowWritten, Scalars
<1>5. status' \in Terminal => status \in Terminal \/ (status' = s /\ pc' \in {"done", bad})
  BY <1>1, <1>3 DEF Answered, Refused, Failed, RowWritten
<1>6. faults' = 0 /\ status' \in Terminal => status' = s /\ pc' = "done"
  BY <1>1, <1>3 DEF Answered, Refused, Failed, RowWritten, Scalars, Control
<1> HIDE DEF s
<1>7. Scalars'
  BY <1>1, <1>2, <1>4 DEF Scalars, Pcs, s
<1>8. status \in Terminal => here = "report"
  BY DEF Control
<1> QED
  BY <1>1, <1>4, <1>5, <1>6, <1>7, <1>8 DEF Control, LoopPcs, BoundaryPcs, StagePcs, s

LEMMA ReportsKeep ==
  ASSUME Scalars, Control,
         Terminate("terminal", term) \/ Terminate("unsaved", "run.failed") \/ Report \/ ReportDuplicate
  PROVE  Scalars' /\ Control'
<1>1. ASSUME NEW here \in {"terminal", "unsaved"}, NEW type \in TerminalEvents, Terminate(here, type)
      PROVE  Scalars' /\ Control'
  <2>1. lost' \in TerminalEvents \cup {None}
    BY <1>1 DEF Terminate, Scalars
  <2> QED
    BY <1>1, <2>1, TerminalRequestKeeps DEF Terminate, stream, steer, abort, poller, users
<1>2. pc = "terminal" => term \in TerminalEvents
  BY DEF Control
<1>3. CASE Terminate("terminal", term) \/ Terminate("unsaved", "run.failed")
  BY <1>1, <1>2, <1>3 DEF Terminate, TerminalEvents
<1>4. CASE Report
  <2>1. /\ pc = "report" /\ term \in TerminalEvents /\ st = StatusOf(term)
        /\ Retried("report", StatusOf(term), term, "done", "done")
    BY <1>4 DEF Report, Control
  <2>2. /\ st' = StatusOf(term) /\ lost' \in TerminalEvents \cup {None}
        /\ UNCHANGED <<reason, stop, tools, loops, reentered, verdict, term, signal,
                       firstAborted, flag, polling, cancel, steered>>
    BY <1>4, <2>1 DEF Report, stream, steer, ending, abort, poller, users, Scalars
  <2> QED
    BY <2>1, <2>2, TerminalRequestKeeps
<1>5. CASE ReportDuplicate
  <2>1. /\ pc = "report" /\ pc' = "done"
        /\ UNCHANGED <<status, version, try, st, reason, stop, tools, loops, reentered, verdict, term,
                       lost, signal, firstAborted, flag, polling, cancel, steered>>
        /\ ver' \in 0..version' /\ faults' \in 0..MaxFaults /\ (faults' = 0 => faults = 0)
    BY <1>5, BoundsAssumption
       DEF ReportDuplicate, Fault, Scalars, ledger, stream, steer, ending, abort, poller, users
  <2>2. Scalars'
    BY <2>1 DEF Scalars, Pcs
  <2> QED
    BY <2>1, <2>2 DEF Control, LoopPcs, BoundaryPcs, StagePcs
<1> QED
  BY <1>3, <1>4, <1>5

\* The poller and the users move neither executeRun nor what it knows.
LEMMA EnvironmentKeeps ==
  ASSUME Scalars, Control, Environment
  PROVE  Scalars' /\ Control'
<1>1. CASE PollRead \/ PollAct \/ PollGivesUp
  <2>1. /\ UNCHANGED <<status, version, pc, try, st, ver, reason, stop, tools, loops, reentered,
                       verdict, term, lost, cancel, steered>>
        /\ signal' \in {None, "steering_available", "user_cancelled", "disconnected"}
        /\ faults' \in 0..MaxFaults /\ (faults' = 0 => faults = 0)
    BY <1>1, BoundsAssumption DEF PollRead, PollAct, PollGivesUp, Abort, Scalars,
       ledger, sidecar, stream, steer, ending, abort, users
  <2>2. firstAborted' \in BOOLEAN /\ flag' \in BOOLEAN /\ polling' \in BOOLEAN
    BY <1>1 DEF PollRead, PollAct, PollGivesUp, Abort, Scalars, abort
  <2>3. Scalars'
    BY <2>1, <2>2 DEF Scalars
  <2> QED
    BY <2>1, <2>3 DEF Control
<1>2. CASE Steer
  <2>1. /\ UNCHANGED <<status, pc, try, st, ver, reason, stop, tools, loops, reentered, verdict, term,
                       lost, signal, firstAborted, flag, polling, cancel, faults>>
        /\ version' = version + 1 /\ steered' \in 0..MaxSteering
    BY <1>2, BoundsAssumption DEF Steer, Record, Scalars,
       sidecar, stream, steer, ending, abort, poller
  <2>2. Scalars'
    BY <2>1 DEF Scalars
  <2> QED
    BY <2>1, <2>2 DEF Control, Scalars
<1>3. CASE BackendCancel
  <2>1. /\ UNCHANGED <<pc, try, st, ver, reason, stop, tools, loops, reentered, verdict, term,
                       lost, signal, firstAborted, flag, polling, steered, faults>>
        /\ version' = version + 1 /\ status' = "cancelling" /\ cancel' \in {"accepted", "forwarded"}
    BY <1>3 DEF BackendCancel, Record, NoPatch,
       sidecar, stream, steer, ending, abort, poller
  <2>2. "cancelling" \in Status \ Terminal
    BY DEF Status, Terminal
  <2>3. Scalars'
    BY <2>1, <2>2 DEF Scalars
  <2> QED
    BY <2>1, <2>2, <2>3 DEF Control, Scalars
<1>4. CASE LocalCancel
  <2>1. /\ UNCHANGED <<status, version, pc, try, ver, reason, stop, tools, loops, reentered, verdict,
                       term, lost, flag, polling, steered, faults>>
        /\ signal' \in {None, "steering_available", "user_cancelled", "disconnected"}
        /\ cancel' = "done" /\ st' = IF st \in Terminal THEN st ELSE "cancelling"
    BY <1>4 DEF LocalCancel, Abort, Scalars, ledger, stream, steer, ending, poller
  <2>2. firstAborted' \in BOOLEAN
    BY <1>4 DEF LocalCancel, Abort, Scalars
  <2>3. "cancelling" \in Status \ Terminal
    BY DEF Status, Terminal
  <2>4. Scalars'
    BY <2>1, <2>2, <2>3 DEF Scalars
  <2>5. pc = "report" => st \in Terminal
    BY StatusOfType DEF Control
  <2> QED
    BY <2>1, <2>3, <2>4, <2>5 DEF Control
<1>5. CASE Disconnect
  <2>1. /\ UNCHANGED <<status, version, pc, try, st, ver, reason, stop, tools, loops, reentered,
                       verdict, term, lost, flag, polling, steered, faults>>
        /\ signal' \in {None, "steering_available", "user_cancelled", "disconnected"}
        /\ cancel' = "disconnected" /\ firstAborted' \in BOOLEAN
    BY <1>5 DEF Disconnect, Scalars, ledger, sidecar, stream, steer, ending, poller
  <2>2. Scalars'
    BY <2>1 DEF Scalars
  <2> QED
    BY <2>1, <2>2 DEF Control
<1> QED
  BY <1>1, <1>2, <1>3, <1>4, <1>5 DEF Environment

LEMMA ControlInit == Init => Scalars /\ Control
<1> SUFFICES ASSUME Init
             PROVE  Scalars /\ Control
  OBVIOUS
<1>1. "created" \in Status \ Terminal /\ "model_streaming" \in Status \ Terminal
  BY DEF Status, Terminal
<1>2. Scalars
  <2>1. reentered \in BOOLEAN /\ firstAborted \in BOOLEAN /\ flag \in BOOLEAN /\ polling \in BOOLEAN
    BY DEF Init
  <2>2. /\ ver \in 0..version /\ tools \in 0..MaxTools /\ loops \in 0..MaxSteeringLoops
        /\ steered \in 0..MaxSteering /\ faults \in 0..MaxFaults /\ version \in Nat
    BY BoundsAssumption DEF Init
  <2> QED
    BY <1>1, <2>1, <2>2 DEF Init, Scalars, Pcs, LoopPcs
<1>3. Control
  BY <1>1, BoundsAssumption DEF Init, Control
<1> QED
  BY <1>2, <1>3

LEMMA ControlStep == Scalars /\ Control /\ [Next]_vars => Scalars' /\ Control'
<1> SUFFICES ASSUME Scalars, Control, [Next]_vars
             PROVE  Scalars' /\ Control'
  OBVIOUS
<1>1. CASE UNCHANGED vars
  BY <1>1 DEF vars, ledger, sidecar, stream, steer, ending, abort, poller, users, Scalars, Control
<1>2. CASE Sidecar
  BY <1>2, LoopKeeps, ToolsKeep, CatchesKeep, BoundaryKeeps, ReenterKeeps, StagesKeep, ReportsKeep
     DEF Sidecar
<1> QED
  BY <1>1, <1>2, EnvironmentKeeps DEF Next

-----------------------------------------------------------------------------
(* The log. *)

Rec == [type : EventTypes, val : Status \cup {None} \cup Nat]

LogTyped ==
  /\ log \in Seq(Rec)
  /\ \A i \in DOMAIN log : IF log[i].type = "steering.consumed"
                           THEN log[i].val \in 1..(i - 1)
                           ELSE log[i].val \in Status \cup {None}

\* The batch of a request: the move of the patch, if there is one, and the event.
Grew(patch, e) ==
  /\ log' \in Seq(Rec)
  /\ Len(log) \in Nat
  /\ Len(log') = Len(log) + (IF patch = NoPatch THEN 1 ELSE 2)
  /\ \A i \in 1..Len(log) : log'[i] = log[i]
  /\ patch # NoPatch => log'[Len(log) + 1] = Entry(StateChange, patch)
  /\ log'[Len(log')] = e

LEMMA EntryFields ==
  ASSUME NEW type, NEW val
  PROVE  /\ Entry(type, val).type = type /\ Entry(type, val).val = val
         /\ type \in EventTypes /\ val \in Status \cup {None} \cup Nat => Entry(type, val) \in Rec
  BY DEF Entry, Rec

LEMMA RecordGrows ==
  ASSUME log \in Seq(Rec), NEW patch \in Status \cup {NoPatch}, NEW e \in Rec,
         Record(patch, <<e>>)
  PROVE  Grew(patch, e)
<1> DEFINE m == Entry(StateChange, patch)
<1>1. CASE patch = NoPatch
  <2>1. log' = log \o << >> \o <<e>>
    BY <1>1 DEF Record
  <2>2. log \o << >> = log /\ log \o <<e>> = Append(log, e)
    OBVIOUS
  <2> QED
    BY <1>1, <2>1, <2>2 DEF Grew
<1>2. CASE patch # NoPatch
  <2>1. m \in Rec
    BY <1>2, EntryFields DEF EventTypes
  <2>2. log' = (log \o <<m>>) \o <<e>>
    BY <1>2 DEF Record
  <2> HIDE DEF m
  <2>3. log \o <<m>> = Append(log, m)
    BY <2>1
  <2>4. /\ Append(log, m) \in Seq(Rec) /\ Len(Append(log, m)) = Len(log) + 1
        /\ \A i \in 1..Len(log) : Append(log, m)[i] = log[i]
        /\ Append(log, m)[Len(log) + 1] = m
    BY <2>1
  <2> DEFINE l == Append(log, m)
  <2>5. log' = l \o <<e>> /\ l \in Seq(Rec) /\ Len(l) = Len(log) + 1
    BY <2>2, <2>3, <2>4
  <2> HIDE DEF l
  <2>6. /\ log' \in Seq(Rec) /\ Len(log') = Len(l) + 1
        /\ \A i \in 1..Len(l) : log'[i] = l[i]
        /\ log'[Len(l) + 1] = e
    BY <2>5
  <2>7. Len(log) \in Nat
    OBVIOUS
  <2>8. \A i \in 1..Len(log) : log'[i] = log[i]
    BY <2>4, <2>5, <2>6, <2>7 DEF l
  <2>9. log'[Len(log) + 1] = m
    BY <2>4, <2>5, <2>6, <2>7 DEF l
  <2> QED
    BY <1>2, <2>5, <2>6, <2>7, <2>8, <2>9 DEF Grew, m
<1> QED
  BY <1>1, <1>2

\* What a batch adds to the positions of the events of one type.
LEMMA SeqsGrow ==
  ASSUME log \in Seq(Rec), NEW patch, NEW e, Grew(patch, e), NEW t, t # StateChange
  PROVE  Seqs(t)' = Seqs(t) \cup (IF e.type = t THEN {Len(log')} ELSE {})
<1>1. DOMAIN log = 1..Len(log) /\ DOMAIN log' = 1..Len(log')
  BY DEF Grew
<1>2. patch # NoPatch => log'[Len(log) + 1].type = StateChange
  BY EntryFields DEF Grew
<1>3. \A i \in 1..Len(log') : i <= Len(log) \/ i = Len(log') \/ (patch # NoPatch /\ i = Len(log) + 1)
  BY DEF Grew
<1>4. Len(log) < Len(log') /\ Len(log) \in Nat /\ Len(log') \in Nat
  BY DEF Grew
<1> QED
  BY <1>1, <1>2, <1>3, <1>4 DEF Grew, Seqs

LEMMA TerminalSeqsGrow ==
  ASSUME log \in Seq(Rec), NEW patch, NEW e, Grew(patch, e)
  PROVE  TerminalSeqs' = TerminalSeqs \cup (IF e.type \in TerminalEvents THEN {Len(log')} ELSE {})
<1>1. DOMAIN log = 1..Len(log) /\ DOMAIN log' = 1..Len(log')
  BY DEF Grew
<1>2. patch # NoPatch => log'[Len(log) + 1].type \notin TerminalEvents
  BY EntryFields DEF Grew, TerminalEvents, StateChange
<1>3. \A i \in 1..Len(log') : i <= Len(log) \/ i = Len(log') \/ (patch # NoPatch /\ i = Len(log) + 1)
  BY DEF Grew
<1>4. Len(log) < Len(log') /\ Len(log) \in Nat /\ Len(log') \in Nat
  BY DEF Grew
<1> QED
  BY <1>1, <1>2, <1>3, <1>4 DEF Grew, TerminalSeqs

\* The moves among the entries.
LEMMA MovesGrow ==
  ASSUME log \in Seq(Rec), NEW patch \in Status \cup {NoPatch}, NEW e, Grew(patch, e)
  PROVE  Moves(log') = Moves(log)
           \cup (IF patch # NoPatch THEN {Len(log) + 1} ELSE {})
           \cup (IF e.type = StateChange /\ e.val \in Status THEN {Len(log')} ELSE {})
<1>1. DOMAIN log = 1..Len(log) /\ DOMAIN log' = 1..Len(log')
  BY DEF Grew
<1>2. patch # NoPatch => /\ log'[Len(log) + 1].type = StateChange
                         /\ log'[Len(log) + 1].val \in Status
  BY EntryFields DEF Grew
<1>3. \A i \in 1..Len(log') : i <= Len(log) \/ i = Len(log') \/ (patch # NoPatch /\ i = Len(log) + 1)
  BY DEF Grew
<1>4. /\ Len(log) < Len(log') /\ Len(log) \in Nat /\ Len(log') \in Nat
      /\ patch # NoPatch => Len(log) + 1 \in 1..Len(log') 
  BY DEF Grew
<1> QED
  BY <1>1, <1>2, <1>3, <1>4 DEF Grew, Moves

-----------------------------------------------------------------------------
(* What each step writes. *)

LoopEvents == {"agent.started", "agent.status", "tool.started", "tool.finished", "agent.ended"}

StageEvents == ToolEvents \cup {"checkpoint.saved", "run_plan.created", "work_state.changed",
                                "verifier.completed"}

\* A request of the sidecar that was written, its answer lost or not.
Wrote(patch, type, val) == RowWritten(patch) /\ Grew(patch, Entry(type, val))

LoopWrite ==
  \E s \in Status \ Terminal, t \in LoopEvents : Wrote(s, t, None)

StageWrite ==
  \E t \in StageEvents : /\ Wrote(NoPatch, t, None)
                         /\ t \in ToolEvents => status # "cancelling"

ConsumeWrite ==
  Wrote(NoPatch, "steering.consumed", Oldest)

TerminalWrite ==
  \E t \in TerminalEvents : /\ Wrote(StatusOf(t), t, None)
                            /\ faults' = 0 => status \notin Terminal

SteerWrite ==
  /\ Grew(NoPatch, Entry("steering.queued", None))
  /\ version' = version + 1 /\ status' = status

CancelWrite ==
  /\ Grew(NoPatch, Entry(StateChange, "cancelling"))
  /\ version' = version + 1 /\ status' = "cancelling" /\ MayMove(status, "cancelling")

\* What a step may do to the ledger.
Writes ==
  \/ UNCHANGED ledger
  \/ /\ status \notin Terminal
     /\ LoopWrite \/ StageWrite \/ (Consume /\ ConsumeWrite) \/ SteerWrite \/ CancelWrite
  \/ TerminalWrite

LEMMA CallWrites ==
  ASSUME log \in Seq(Rec), NEW patch \in Status \cup {NoPatch},
         NEW type \in EventTypes, NEW val \in Status \cup {None} \cup Nat,
         NEW ok, NEW stale, NEW bad, Call(patch, type, val, ok, stale, bad)
  PROVE  UNCHANGED ledger \/ Wrote(patch, type, val)
<1>1. UNCHANGED ledger \/ (RowWritten(patch) /\ Record(patch, <<Entry(type, val)>>))
  BY DEF Call, Stale, Illegal, Record, RowWritten
<1> QED
  BY <1>1, EntryFields, RecordGrows DEF Wrote

LEMMA RetriedWrites ==
  ASSUME log \in Seq(Rec), NEW patch \in Status \cup {NoPatch}, NEW type \in EventTypes,
         NEW here, NEW ok, NEW bad, Retried(here, patch, type, ok, bad)
  PROVE  UNCHANGED ledger \/ Wrote(patch, type, None)
<1>1. \/ UNCHANGED ledger
      \/ Call(patch, type, None, ok, here, bad)
      \/ Call(patch, type, None, ok, bad, bad)
  BY DEF Retried
<1> QED
  BY <1>1, CallWrites

LEMMA LoopWrites ==
  ASSUME Scalars, Control, log \in Seq(Rec),
         \/ AgentStart \/ TurnStart \/ ToolStart \/ ToolEnd \/ TurnEnd \/ AgentEnd \/ Reenter
  PROVE  UNCHANGED ledger \/ (status \notin Terminal /\ LoopWrite)
<1>1. pc \in LoopPcs \cup BoundaryPcs => st \notin Terminal /\ status \notin Terminal
  BY DEF Control, LoopPcs, BoundaryPcs
<1>2. \A s \in {"context_building", "model_streaming", "tool_preparing",
               "persisting_tool_result"} :
        s \in Status \ Terminal /\ (pc \in LoopPcs \cup BoundaryPcs => Local(s) = s)
  BY <1>1 DEF Status, Terminal, Local
<1>3. LoopEvents \subseteq EventTypes
  BY DEF LoopEvents, EventTypes
<1>4. ASSUME NEW s \in Status \ Terminal, NEW type \in LoopEvents, NEW ok, NEW stale, NEW bad,
             Call(s, type, None, ok, stale, bad), pc \in LoopPcs \cup BoundaryPcs
      PROVE  UNCHANGED ledger \/ (status \notin Terminal /\ LoopWrite)
  BY <1>1, <1>3, <1>4, CallWrites DEF LoopWrite
<1>5. CASE AgentStart
  BY <1>2, <1>4, <1>5 DEF AgentStart, PiEvent, LoopPcs, LoopEvents
<1>6. CASE TurnStart
  BY <1>2, <1>4, <1>6 DEF TurnStart, PiEvent, LoopPcs, LoopEvents
<1>7. CASE ToolStart
  BY <1>2, <1>4, <1>7 DEF ToolStart, PiEvent, LoopPcs, LoopEvents
<1>8. CASE ToolEnd
  BY <1>2, <1>4, <1>8 DEF ToolEnd, PiEvent, LoopPcs, LoopEvents
<1>9. CASE TurnEnd
  BY <1>2, <1>4, <1>9 DEF TurnEnd, PiEvent, LoopPcs, LoopEvents
<1>10. CASE AgentEnd
  BY <1>2, <1>4, <1>10 DEF AgentEnd, PiEvent, LoopPcs, LoopEvents, ledger
<1>11. CASE Reenter
  <2>1. pc \in LoopPcs \cup BoundaryPcs /\ Local("model_streaming") \in Status \ Terminal
    BY <1>2, <1>11 DEF Reenter, BoundaryPcs
  <2>2. \/ UNCHANGED ledger
        \/ Call(Local("model_streaming"), "agent.status", None, "stream", "loop_error", "loop_error")
    BY <1>11 DEF Reenter, ledger
  <2> QED
    BY <1>4, <2>1, <2>2 DEF LoopEvents
<1> QED
  BY <1>5, <1>6, <1>7, <1>8, <1>9, <1>10, <1>11

LEMMA StageWrites ==
  ASSUME Scalars, Control, log \in Seq(Rec),
         \/ ToolLedger \/ ToolResult \/ Checkpoint \/ Plan \/ Verifying \/ Verify \/ FinalCheckpoint
  PROVE  UNCHANGED ledger \/ (status \notin Terminal /\ StageWrite)
<1>1. pc \in LoopPcs \cup BoundaryPcs \cup StagePcs => status \notin Terminal
  BY DEF Control, LoopPcs, BoundaryPcs, StagePcs
<1>2. StageEvents \subseteq EventTypes
  BY DEF StageEvents, EventTypes
<1>3. ASSUME NEW t \in StageEvents, Wrote(NoPatch, t, None),
             pc \in LoopPcs \cup BoundaryPcs \cup StagePcs,
             t \in ToolEvents => status # "cancelling"
      PROVE  status \notin Terminal /\ StageWrite
  BY <1>1, <1>3 DEF StageWrite
<1>4. CASE ToolLedger \/ ToolResult
  <2>1. PICK t \in ToolEvents, ok \in {"tool_result", "tool_end"} :
          Call(NoPatch, t, None, ok, "tool_end", "tool_end")
    BY <1>4 DEF ToolLedger, ToolResult, ToolAppend, ToolEvents
  <2>2. pc \in {"tool_ledger", "tool_result"}
    BY <1>4 DEF ToolLedger, ToolResult, ToolAppend
  <2>3. t \in StageEvents
    BY DEF StageEvents
  <2>4. UNCHANGED ledger \/ Wrote(NoPatch, t, None)
    BY <1>2, <2>1, <2>3, CallWrites
  <2>5. Wrote(NoPatch, t, None) => status # "cancelling"
    BY <2>2 DEF Wrote, RowWritten, Control, Scalars
  <2> QED
    BY <1>3, <2>2, <2>3, <2>4, <2>5 DEF LoopPcs
<1>5. CASE Checkpoint \/ FinalCheckpoint
  <2>1. PICK here, ok, bad :
          here \in {"checkpoint", "final"} /\ pc = here /\ Retried(here, NoPatch, "checkpoint.saved", ok, bad)
    BY <1>5 DEF Checkpoint, FinalCheckpoint
  <2>2. "checkpoint.saved" \in StageEvents \ ToolEvents
    BY DEF StageEvents, ToolEvents
  <2>3. UNCHANGED ledger \/ Wrote(NoPatch, "checkpoint.saved", None)
    BY <1>2, <2>1, <2>2, RetriedWrites
  <2> QED
    BY <1>3, <2>1, <2>2, <2>3 DEF BoundaryPcs, StagePcs
<1>6. CASE Plan \/ Verifying \/ Verify
  <2>1. \/ UNCHANGED ledger
        \/ \E here \in {"plan", "verifying", "verify"},
              t \in {"run_plan.created", "work_state.changed", "verifier.completed"} :
             \E ok, bad : pc = here /\ Call(NoPatch, t, None, ok, bad, bad)
    BY <1>6 DEF Plan, Verifying, Verify, Stage, ledger
  <2>2. {"run_plan.created", "work_state.changed", "verifier.completed"}
          \subseteq StageEvents \ ToolEvents
    BY DEF StageEvents, ToolEvents
  <2>3. CASE UNCHANGED ledger
    BY <2>3
  <2>4. ASSUME NEW here \in {"plan", "verifying", "verify"},
               NEW t \in {"run_plan.created", "work_state.changed", "verifier.completed"},
               NEW ok, NEW bad, pc = here, Call(NoPatch, t, None, ok, bad, bad)
        PROVE  UNCHANGED ledger \/ (status \notin Terminal /\ StageWrite)
    <3>1. UNCHANGED ledger \/ Wrote(NoPatch, t, None)
      BY <1>2, <2>2, <2>4, CallWrites
    <3> QED
      BY <1>3, <2>2, <2>4, <3>1 DEF StagePcs
  <2> QED
    BY <2>1, <2>3, <2>4
<1> QED
  BY <1>4, <1>5, <1>6

LEMMA TerminalWrites ==
  ASSUME Scalars, Control, log \in Seq(Rec),
         Terminate("terminal", term) \/ Terminate("unsaved", "run.failed") \/ Report
  PROVE  UNCHANGED ledger \/ TerminalWrite
<1>1. PICK here, t, bad :
        /\ here \in {"terminal", "unsaved", "report"} /\ t \in TerminalEvents
        /\ pc = here /\ Retried(here, StatusOf(t), t, "done", bad)
  <2>1. pc \in {"terminal", "report"} => term \in TerminalEvents
    BY DEF Control
  <2>2. "run.failed" \in TerminalEvents
    BY DEF TerminalEvents
  <2> QED
    BY <2>1, <2>2 DEF Terminate, Report
<1>2. StatusOf(t) \in Status /\ t \in EventTypes
  BY <1>1, StatusOfType, TerminalIsStatus DEF EventTypes
<1>3. UNCHANGED ledger \/ Wrote(StatusOf(t), t, None)
  BY <1>1, <1>2, RetriedWrites
<1>4. faults' = 0 => status \notin Terminal
  <2>1. faults' \in {faults, faults + 1}
    BY <1>1, RetriedOutcome DEF Answered, Refused, Failed
  <2> QED
    BY <1>1, <2>1 DEF Scalars, Control
<1> QED
  BY <1>1, <1>3, <1>4 DEF TerminalWrite

LEMMA EnvironmentWrites ==
  ASSUME log \in Seq(Rec), Environment
  PROVE  UNCHANGED ledger \/ (status \notin Terminal /\ (SteerWrite \/ CancelWrite))
<1>1. CASE PollRead \/ PollAct \/ PollGivesUp \/ LocalCancel \/ Disconnect
  BY <1>1 DEF PollRead, PollAct, PollGivesUp, LocalCancel, Disconnect
<1>2. CASE Steer
  <2>1. Entry("steering.queued", None) \in Rec
    BY EntryFields DEF EventTypes
  <2> QED
    BY <1>2, <2>1, RecordGrows DEF Steer, Record, SteerWrite
<1>3. CASE BackendCancel
  <2>1. Entry(StateChange, "cancelling") \in Rec
    BY EntryFields DEF EventTypes, Status
  <2>2. log' = Append(log, Entry(StateChange, "cancelling"))
    BY <1>3, <2>1 DEF BackendCancel, Record, NoPatch
  <2> HIDE <1>3
  <2>3. Grew(NoPatch, Entry(StateChange, "cancelling"))
    BY <2>1, <2>2 DEF Grew
  <2>4. /\ version' = version + 1 /\ status' = "cancelling" /\ MayMove(status, "cancelling")
    BY <1>3 DEF BackendCancel, Record, NoPatch
  <2>5. status \notin Terminal
    BY <2>4, TerminalStays DEF Terminal
  <2> QED
    BY <2>3, <2>4, <2>5 DEF CancelWrite
<1> QED
  BY <1>1, <1>2, <1>3 DEF Environment

\* A set of numbers that is not empty has a smallest element, and if it is
\* bounded a largest one.
LEMMA SmallestExists ==
  ASSUME NEW T, T \subseteq Nat, T # {}
  PROVE  \E s \in T : \A u \in T : s <= u
<1> DEFINE L == {ss \in Nat \X Nat : ss[1] < ss[2]}
<1>1. IsWellFoundedOn(L, Nat)
  BY NatLessThanWellFounded DEF OpToRel
<1>2. \A u, s \in Nat : u < s => <<u, s>> \in L
  OBVIOUS
<1> HIDE DEF L
<1>3. PICK s \in T : \A u \in T : ~(<<u, s>> \in L)
  BY <1>1, WFMin
<1>4. ASSUME NEW u \in T
      PROVE  s <= u
  <2>1. u \in Nat /\ s \in Nat
    OBVIOUS
  <2>2. ~(u < s)
    BY <1>2, <1>3, <2>1
  <2> QED
    BY <2>1, <2>2
<1> QED
  BY <1>4

LEMMA LargestExists ==
  ASSUME NEW n \in Nat, NEW T, T \subseteq 1..n, T # {}
  PROVE  \E m \in T : \A x \in T : x <= m
<1> DEFINE D == {n - x : x \in T}
<1>1. \A x \in T : x \in Nat /\ n - x \in Nat /\ n - x \in D
  OBVIOUS
<1>2. D \subseteq Nat /\ D # {}
  BY <1>1
<1>3. PICK s \in D : \A u \in D : s <= u
  BY <1>2, SmallestExists
<1>4. PICK m \in T : s = n - m
  BY <1>3
<1>5. ASSUME NEW x \in T
      PROVE  x <= m
  <2>1. x \in Nat /\ m \in Nat /\ n - x \in D
    BY <1>1
  <2>2. n - m <= n - x
    BY <1>3, <1>4, <2>1
  <2> QED
    BY <2>1, <2>2
<1> QED
  BY <1>5

LEMMA OldestInTodo ==
  ASSUME log \in Seq(Rec), todo \subseteq DOMAIN log, todo # {}
  PROVE  Oldest \in todo /\ \A u \in todo : Oldest <= u
<1>1. todo \subseteq Nat
  BY DEF Rec
<1>2. \E s \in todo : \A u \in todo : s <= u
  BY <1>1, SmallestExists
<1> QED
  BY <1>2 DEF Oldest

LEMMA StepWrites ==
  ASSUME Scalars, Control, log \in Seq(Rec), todo \subseteq DOMAIN log, [Next]_vars
  PROVE  Writes
<1>1. CASE UNCHANGED vars
  BY <1>1 DEF vars, Writes
<1>2. CASE Environment
  BY <1>2, EnvironmentWrites DEF Writes
<1>3. CASE \/ AgentStart \/ TurnStart \/ ToolStart \/ ToolEnd \/ TurnEnd \/ AgentEnd \/ Reenter
  BY <1>3, LoopWrites DEF Writes
<1>4. CASE \/ ToolLedger \/ ToolResult \/ Checkpoint \/ Plan \/ Verifying \/ Verify \/ FinalCheckpoint
  BY <1>4, StageWrites DEF Writes
<1>5. CASE Terminate("terminal", term) \/ Terminate("unsaved", "run.failed") \/ Report
  BY <1>5, TerminalWrites DEF Writes
<1>6. CASE \/ Stream \/ ToolCheck \/ LoopError \/ Capture \/ Pull \/ Decide \/ Catch \/ ReportDuplicate
  BY <1>6 DEF Stream, ToolCheck, LoopError, Capture, Pull, Decide, Catch, ReportDuplicate, Writes
<1>7. CASE Consume
  <2>1. Oldest \in todo
    BY <1>7, OldestInTodo DEF Consume
  <2>2. Oldest \in Nat /\ "steering.consumed" \in EventTypes
    BY <2>1 DEF EventTypes
  <2>3. \/ UNCHANGED ledger
        \/ Wrote(NoPatch, "steering.consumed", Oldest)
    BY <1>7, <2>2, CallWrites DEF Consume
  <2>4. status \notin Terminal
    BY <1>7 DEF Consume, Control
  <2> QED
    BY <1>7, <2>3, <2>4 DEF Writes, ConsumeWrite
<1> QED
  BY <1>1, <1>2, <1>3, <1>4, <1>5, <1>6, <1>7 DEF Next, Sidecar

\* The common form of what is written: one event, after the move of a patch or
\* not, or the move of the cancel route; the run is over once a terminal event
\* is written and not before, and nothing but such an event is written then.
Batch(patch, type, val) ==
  /\ Grew(patch, Entry(type, val))
  /\ version' = version + 1
  /\ MayMove(status, status')
  /\ patch # NoPatch => status' = patch /\ type # StateChange
  /\ patch = NoPatch => status' = IF type = StateChange THEN val ELSE status
  /\ type = StateChange => val \in Status
  /\ IF type = "steering.consumed" THEN Consume /\ val = Oldest ELSE val \in Status \cup {None}
  /\ IF type \in TerminalEvents
     THEN status' = StatusOf(type) /\ (faults' = 0 => status \notin Terminal)
     ELSE status \notin Terminal /\ status' \notin Terminal
  /\ type \in ToolEvents => status # "cancelling"

Batches ==
  \E patch \in Status \cup {NoPatch}, type \in EventTypes : \E val : Batch(patch, type, val)

LEMMA WritesBatch ==
  ASSUME Writes
  PROVE  UNCHANGED ledger \/ Batches
<1>1. NoPatch \notin Status /\ Terminal \subseteq Status
  BY TerminalIsStatus
<1>2. CASE LoopWrite /\ status \notin Terminal
  <2>1. PICK s \in Status \ Terminal, t \in LoopEvents : Wrote(s, t, None)
    BY <1>2 DEF LoopWrite
  <2>2. t \in EventTypes /\ t \notin TerminalEvents \cup ToolEvents \cup {"steering.consumed", StateChange}
    BY DEF LoopEvents, EventTypes, TerminalEvents, ToolEvents, StateChange
  <2>3. Batch(s, t, None)
    BY <1>1, <1>2, <2>1, <2>2 DEF Wrote, RowWritten, Batch
  <2> QED
    BY <2>2, <2>3 DEF Batches
<1>3. CASE StageWrite /\ status \notin Terminal
  <2>1. PICK t \in StageEvents : Wrote(NoPatch, t, None) /\ (t \in ToolEvents => status # "cancelling")
    BY <1>3 DEF StageWrite
  <2>2. t \in EventTypes /\ t \notin TerminalEvents \cup {"steering.consumed", StateChange}
    BY DEF StageEvents, EventTypes, TerminalEvents, ToolEvents, StateChange
  <2>3. Batch(NoPatch, t, None)
    BY <1>1, <1>3, <2>1, <2>2 DEF Wrote, RowWritten, Batch, MayMove
  <2> QED
    BY <2>2, <2>3 DEF Batches
<1>4. CASE Consume /\ ConsumeWrite /\ status \notin Terminal
  <2>1. /\ "steering.consumed" \in EventTypes
        /\ "steering.consumed" \notin TerminalEvents \cup ToolEvents \cup {StateChange}
    BY DEF EventTypes, TerminalEvents, ToolEvents, StateChange
  <2>2. Batch(NoPatch, "steering.consumed", Oldest)
    BY <1>1, <1>4, <2>1 DEF ConsumeWrite, Wrote, RowWritten, Batch, MayMove
  <2> QED
    BY <2>1, <2>2 DEF Batches
<1>5. CASE SteerWrite /\ status \notin Terminal
  <2>1. /\ "steering.queued" \in EventTypes
        /\ "steering.queued" \notin TerminalEvents \cup ToolEvents \cup {StateChange, "steering.consumed"}
    BY DEF EventTypes, TerminalEvents, ToolEvents, StateChange
  <2>2. Batch(NoPatch, "steering.queued", None)
    BY <1>1, <1>5, <2>1 DEF SteerWrite, Batch, MayMove
  <2> QED
    BY <2>1, <2>2 DEF Batches
<1>6. CASE CancelWrite /\ status \notin Terminal
  <2>1. /\ StateChange \in EventTypes
        /\ StateChange \notin TerminalEvents \cup ToolEvents \cup {"steering.consumed"}
        /\ "cancelling" \in Status \ Terminal
    BY DEF EventTypes, TerminalEvents, ToolEvents, StateChange, Status, Terminal
  <2>2. Batch(NoPatch, StateChange, "cancelling")
    BY <1>1, <1>6, <2>1 DEF CancelWrite, Batch
  <2> QED
    BY <2>1, <2>2 DEF Batches
<1>7. CASE TerminalWrite
  <2>1. PICK t \in TerminalEvents :
          Wrote(StatusOf(t), t, None) /\ (faults' = 0 => status \notin Terminal)
    BY <1>7 DEF TerminalWrite
  <2>2. t \in EventTypes /\ t \notin ToolEvents \cup {"steering.consumed", StateChange}
    BY DEF EventTypes, TerminalEvents, ToolEvents, StateChange
  <2>3. StatusOf(t) \in Status
    BY <1>1, StatusOfType
  <2>4. Batch(StatusOf(t), t, None)
    BY <1>1, <2>1, <2>2, <2>3 DEF Wrote, RowWritten, Batch
  <2> QED
    BY <2>2, <2>3, <2>4 DEF Batches
<1> QED
  BY <1>2, <1>3, <1>4, <1>5, <1>6, <1>7 DEF Writes

-----------------------------------------------------------------------------
(* The log and the row. *)

Held == consumed \cup pre \cup todo

\* The positions the sidecar holds are positions of the log.
HeldTyped ==
  /\ consumed \subseteq DOMAIN log /\ pre \subseteq DOMAIN log /\ todo \subseteq DOMAIN log
  /\ seen \subseteq DOMAIN log /\ tick \subseteq DOMAIN log

RowAgrees ==
  /\ Replays(log, status)
  /\ status \in Terminal <=> TerminalSeqs # {}
  /\ \A i \in TerminalSeqs : StatusOf(log[i].type) = status
  /\ faults = 0 => \A i, j \in TerminalSeqs : i = j

\* The log only grows.
LEMMA LogGrows ==
  ASSUME log \in Seq(Rec), UNCHANGED ledger \/ Batches
  PROVE  /\ log' \in Seq(Rec) /\ DOMAIN log \subseteq DOMAIN log'
         /\ Len(log) <= Len(log') /\ Len(log) \in Nat
         /\ \A i \in DOMAIN log : log'[i] = log[i]
<1>1. CASE UNCHANGED ledger
  BY <1>1 DEF ledger
<1>2. CASE Batches
  <2>1. PICK patch, e : Grew(patch, e)
    BY <1>2 DEF Batches, Batch
  <2> QED
    BY <2>1 DEF Grew
<1> QED
  BY <1>1, <1>2

LEMMA LogTypedStep ==
  ASSUME LogTyped, HeldTyped, UNCHANGED ledger \/ Batches
  PROVE  LogTyped'
<1>1. CASE UNCHANGED ledger
  BY <1>1 DEF ledger, LogTyped
<1>2. CASE Batches
  <2>1. PICK patch, type, val :
          patch \in Status \cup {NoPatch} /\ type \in EventTypes /\ Batch(patch, type, val)
    BY <1>2 DEF Batches
  <2>2. Grew(patch, Entry(type, val)) /\ log \in Seq(Rec)
    BY <2>1 DEF Batch, LogTyped
  <2>3. DOMAIN log' = 1..Len(log') /\ DOMAIN log = 1..Len(log) /\ Len(log) < Len(log')
    BY <2>2 DEF Grew
  <2>4. IF type = "steering.consumed" THEN val \in DOMAIN log ELSE val \in Status \cup {None}
    BY <2>1, OldestInTodo DEF Batch, Consume, HeldTyped, LogTyped
  <2>5. log'[Len(log')].type = type /\ log'[Len(log')].val = val
    BY <2>2, EntryFields DEF Grew
  <2>6. patch # NoPatch => /\ log'[Len(log) + 1].type = StateChange
                           /\ log'[Len(log) + 1].val \in Status
    BY <2>1, <2>2, EntryFields DEF Grew
  <2>7. ASSUME NEW i \in DOMAIN log'
        PROVE  IF log'[i].type = "steering.consumed" THEN log'[i].val \in 1..(i - 1)
               ELSE log'[i].val \in Status \cup {None}
    <3>1. CASE i \in DOMAIN log
      BY <2>2, <2>3, <3>1 DEF Grew, LogTyped
    <3>2. CASE i = Len(log')
      BY <2>2, <2>3, <2>4, <2>5, <3>2 DEF Grew
    <3>3. CASE patch # NoPatch /\ i = Len(log) + 1
      BY <2>6, <3>3 DEF StateChange
    <3> QED
      BY <2>2, <2>3, <3>1, <3>2, <3>3 DEF Grew
  <2> QED
    BY <2>2, <2>7 DEF Grew, LogTyped
<1> QED
  BY <1>1, <1>2

\* The last move of the log is the status of the row.
LEMMA ReplaysStep ==
  ASSUME log \in Seq(Rec), Replays(log, status), UNCHANGED ledger \/ Batches
  PROVE  Replays(log', status')
<1>1. CASE UNCHANGED ledger
  BY <1>1 DEF ledger
<1>2. CASE Batches
  <2>1. PICK patch, type, val :
          patch \in Status \cup {NoPatch} /\ type \in EventTypes /\ Batch(patch, type, val)
    BY <1>2 DEF Batches
  <2> DEFINE e == Entry(type, val)
  <2>2. Grew(patch, e) /\ e.type = type /\ e.val = val
    BY <2>1, EntryFields DEF Batch
  <2> HIDE DEF e
  <2>3. Moves(log') = Moves(log)
           \cup (IF patch # NoPatch THEN {Len(log) + 1} ELSE {})
           \cup (IF type = StateChange /\ val \in Status THEN {Len(log')} ELSE {})
    BY <2>1, <2>2, MovesGrow
  <2>4. Moves(log) \subseteq 1..Len(log) /\ Len(log) \in Nat /\ Len(log) < Len(log')
    BY <2>2 DEF Moves, Grew
  <2>5. CASE patch # NoPatch
    <3>1. Moves(log') = Moves(log) \cup {Len(log) + 1} /\ status' = patch
      BY <2>1, <2>3, <2>5 DEF Batch
    <3>2. log'[Len(log) + 1].val = patch
      BY <2>2, <2>5, EntryFields DEF Grew
    <3> QED
      BY <2>4, <3>1, <3>2 DEF Replays
  <2>6. CASE patch = NoPatch /\ type = StateChange
    <3>1. Moves(log') = Moves(log) \cup {Len(log')} /\ status' = val
      BY <2>1, <2>3, <2>6 DEF Batch
    <3>2. log'[Len(log')].val = val
      BY <2>2 DEF Grew
    <3> QED
      BY <2>2, <2>4, <3>1, <3>2 DEF Replays, Grew
  <2>7. CASE patch = NoPatch /\ type # StateChange
    <3>1. Moves(log') = Moves(log) /\ status' = status
      BY <2>1, <2>3, <2>7 DEF Batch
    <3>2. \A i \in Moves(log) : log'[i] = log[i]
      BY <2>2, <2>4 DEF Grew
    <3> QED
      BY <3>1, <3>2 DEF Replays
  <2> QED
    BY <2>5, <2>6, <2>7
<1> QED
  BY <1>1, <1>2

LEMMA RowAgreesStep ==
  ASSUME log \in Seq(Rec), RowAgrees, UNCHANGED ledger \/ Batches,
         faults \in Nat, faults' = 0 => faults = 0
  PROVE  RowAgrees'
<1>1. Replays(log', status')
  BY ReplaysStep DEF RowAgrees
<1>2. CASE UNCHANGED ledger
  BY <1>1, <1>2 DEF ledger, RowAgrees, TerminalSeqs
<1>3. CASE Batches
  <2>1. PICK patch, type, val :
          patch \in Status \cup {NoPatch} /\ type \in EventTypes /\ Batch(patch, type, val)
    BY <1>3 DEF Batches
  <2> DEFINE e == Entry(type, val)
  <2>2. Grew(patch, e) /\ e.type = type
    BY <2>1, EntryFields DEF Batch
  <2> HIDE DEF e
  <2>3. TerminalSeqs' = TerminalSeqs \cup (IF type \in TerminalEvents THEN {Len(log')} ELSE {})
    BY <2>2, TerminalSeqsGrow
  <2>4. \A i \in TerminalSeqs : log'[i] = log[i]
    BY <2>2 DEF Grew, TerminalSeqs
  <2>5. CASE type \in TerminalEvents
    <3>1. status' = StatusOf(type) /\ status' \in Terminal /\ (faults' = 0 => status \notin Terminal)
      BY <2>1, <2>5, StatusOfType DEF Batch
    <3>2. status \in Terminal => status' = status
      BY <2>1, TerminalStays DEF Batch
    <3>3. log'[Len(log')].type = type
      BY <2>2 DEF Grew
    <3>4. \A i \in TerminalSeqs' : StatusOf(log'[i].type) = status'
      BY <2>3, <2>4, <3>1, <3>2, <3>3 DEF RowAgrees
    <3>5. faults' = 0 => TerminalSeqs' = {Len(log')}
      BY <2>3, <2>5, <3>1 DEF RowAgrees
    <3> QED
      BY <1>1, <2>3, <2>5, <3>1, <3>4, <3>5 DEF RowAgrees
  <2>6. CASE type \notin TerminalEvents
    <3>1. status \notin Terminal /\ status' \notin Terminal
      BY <2>1, <2>6 DEF Batch
    <3>2. TerminalSeqs' = {}
      BY <2>3, <2>6, <3>1 DEF RowAgrees
    <3> QED
      BY <1>1, <3>1, <3>2 DEF RowAgrees
  <2> QED
    BY <2>5, <2>6
<1> QED
  BY <1>2, <1>3

-----------------------------------------------------------------------------
(* The order of the steering. *)

\* Where executeRun may hold steering that is not consumed yet.
SteerPlace ==
  /\ todo # {} => pc \in {"consume", "catch", "report", "done"}
  /\ pc \in LoopPcs \cup {"capture", "consume"} => pre = {}

\* What is recorded as consumed is counted as consumed and is in order; what is
\* held waits behind it; and a message that is neither, unless a checkpoint
\* hides it from every later snapshot, was sent after all of them.
SteerOrder ==
  /\ SteeringConsumedInOrder
  /\ \A i \in Seqs("steering.consumed") : log[i].val \in consumed
  /\ \A w \in consumed, u \in pre \cup todo : w < u
  /\ \A u \in Seqs("steering.queued") :
       u \notin Held /\ (\A c \in Seqs("checkpoint.saved") : c <= u)
         => \A w \in Held : w < u

\* The snapshot page shows what no checkpoint is younger than.
LEMMA UnconsumedShown ==
  ASSUME log \in Seq(Rec)
  PROVE  \A u : u \in Unconsumed <=>
           /\ u \in Seqs("steering.queued")
           /\ \A c \in Seqs("checkpoint.saved") : c <= u
           /\ ~\E j \in Seqs("steering.consumed") :
                 log[j].val = u /\ \A c \in LatestCheckpoint : j >= c
<1> DEFINE C == Seqs("checkpoint.saved")
<1>1. C \subseteq 1..Len(log) /\ Len(log) \in Nat /\ Seqs("steering.queued") \subseteq Nat
  BY DEF Seqs
<1>2. LatestCheckpoint = {i \in C : \A j \in C : j <= i}
  BY DEF LatestCheckpoint
<1> HIDE DEF C
<1>3. ASSUME NEW u \in Nat
      PROVE  (\A c \in LatestCheckpoint : u >= c) <=> (\A c \in C : c <= u)
  <2>1. CASE C = {}
    BY <1>2, <2>1
  <2>2. CASE C # {}
    <3>1. PICK m \in C : \A x \in C : x <= m
      BY <1>1, <2>2, LargestExists
    <3>2. m \in LatestCheckpoint
      BY <1>2, <3>1
    <3>3. C \subseteq Nat
      BY <1>1
    <3>4. (\A c \in LatestCheckpoint : u >= c) => u >= m
      BY <3>2
    <3> QED
      BY <1>2, <3>1, <3>3, <3>4
  <2> QED
    BY <2>1, <2>2
<1> QED
  BY <1>1, <1>3 DEF Unconsumed, C

\* A snapshot taken while nothing is held shows messages younger than all that
\* are consumed, and misses none that a later one could show.
LEMMA SnapshotIsNewer ==
  ASSUME log \in Seq(Rec), SteerOrder, pre = {}, todo = {}
  PROVE  /\ Unconsumed \subseteq DOMAIN log
         /\ \A w \in consumed, u \in Unconsumed \ consumed : w < u
         /\ \A u \in Seqs("steering.queued") :
              (\A c \in Seqs("checkpoint.saved") : c <= u) => u \in consumed \cup Unconsumed
<1>1. Held = consumed
  BY DEF Held
<1>2. Unconsumed \subseteq DOMAIN log
  BY DEF Unconsumed, Seqs
<1>3. \A w \in consumed, u \in Unconsumed \ consumed : w < u
  BY <1>1, UnconsumedShown DEF SteerOrder
<1>4. \A j \in Seqs("steering.consumed") : log[j].val \in consumed
  BY DEF SteerOrder
<1> QED
  BY <1>2, <1>3, <1>4, UnconsumedShown

\* Only the boundary touches the steering, and only from it does the loop go on.
LEMMA OtherSteps ==
  ASSUME Scalars, Control, [Next]_vars, ~Capture, ~Pull, ~Consume, ~Reenter
  PROVE  /\ UNCHANGED <<consumed, pre, todo, seen>>
         /\ tick' \in {tick, {}, Unconsumed}
         /\ pc = "consume" => pc' = "consume"
         /\ pc \in {"catch", "report", "done"} => pc' \in {"catch", "report", "done"}
         /\ pc' \in LoopPcs \cup {"capture", "consume"} => pc \in LoopPcs \cup {"capture", "consume"}
<1> DEFINE Goal ==
       /\ UNCHANGED <<consumed, pre, todo, seen>>
       /\ tick' \in {tick, {}, Unconsumed}
       /\ pc = "consume" => pc' = "consume"
       /\ pc \in {"catch", "report", "done"} => pc' \in {"catch", "report", "done"}
       /\ pc' \in LoopPcs \cup {"capture", "consume"} => pc \in LoopPcs \cup {"capture", "consume"}
<1> SUFFICES Goal
  OBVIOUS
<1>1. CASE UNCHANGED vars
  BY <1>1 DEF vars, sidecar, steer, poller
<1>2. CASE Environment
  <2>1. UNCHANGED <<pc, consumed, pre, todo, seen>>
    BY <1>2 DEF Environment, PollRead, PollAct, PollGivesUp, Steer, BackendCancel, LocalCancel,
       Disconnect, sidecar, steer, poller
  <2>2. tick' \in {tick, {}, Unconsumed}
    BY <1>2 DEF Environment, PollRead, PollAct, PollGivesUp, Steer, BackendCancel, LocalCancel,
       Disconnect, poller
  <2> QED
    BY <2>1, <2>2
<1>3. ASSUME NEW here \in LoopPcs, NEW next \in LoopPcs \cup {"capture", "checkpoint", "report"},
             pc = here, pc' = next, UNCHANGED <<steer, seen, tick>>
      PROVE  Goal
  BY <1>3 DEF steer, LoopPcs
<1>4. CASE AgentStart \/ TurnStart \/ ToolStart \/ ToolEnd \/ TurnEnd \/ AgentEnd
  <2>1. ASSUME NEW here \in LoopPcs, NEW s, NEW type, NEW ok \in LoopPcs \cup {"capture"},
               PiEvent(here, s, type, ok)
        PROVE  Goal
    <3>1. pc = here /\ UNCHANGED <<steer, seen, tick>> /\ pc' \in {ok, "loop_error"}
      BY <2>1, CallOutcome DEF PiEvent, Answered, Refused, Failed, poller
    <3> QED
      BY <1>3, <3>1 DEF LoopPcs
  <2>2. CASE pc = "agent_end" /\ pc' = "capture" /\ UNCHANGED <<steer, poller>>
    BY <1>3, <2>2 DEF LoopPcs, poller
  <2> HIDE DEF Goal
  <2>3. CASE AgentStart
    BY <2>1, <2>3 DEF AgentStart, LoopPcs
  <2>4. CASE TurnStart
    BY <2>1, <2>4 DEF TurnStart, LoopPcs
  <2>5. CASE ToolStart
    BY <2>1, <2>5 DEF ToolStart, LoopPcs
  <2>6. CASE ToolEnd
    BY <2>1, <2>6 DEF ToolEnd, LoopPcs
  <2>7. CASE TurnEnd
    <3> DEFINE ok == IF reason = None THEN "turn_start" ELSE "agent_end"
    <3>1. ok \in LoopPcs
      BY DEF LoopPcs
    <3>2. PiEvent("turn_end", Local("model_streaming"), "agent.status", ok)
      BY <2>7 DEF TurnEnd
    <3> HIDE DEF ok
    <3> QED
      BY <2>1, <3>1, <3>2 DEF LoopPcs
  <2>8. CASE AgentEnd
    BY <2>1, <2>2, <2>8 DEF AgentEnd, LoopPcs
  <2> QED
    BY <1>4, <2>3, <2>4, <2>5, <2>6, <2>7, <2>8
<1>5. CASE ToolLedger \/ ToolResult
  <2>1. ASSUME NEW here \in {"tool_ledger", "tool_result"}, NEW type,
               NEW ok \in {"tool_result", "tool_end"}, ToolAppend(here, type, ok)
        PROVE  Goal
    <3>1. pc = here /\ UNCHANGED <<steer, seen, tick>> /\ pc' \in {ok, "tool_end"}
      BY <2>1, CallOutcome DEF ToolAppend, Answered, Refused, Failed, poller
    <3> QED
      BY <1>3, <3>1 DEF LoopPcs
  <2> HIDE DEF Goal
  <2> QED
    BY <1>5, <2>1 DEF ToolLedger, ToolResult
<1>6. CASE Stream \/ ToolCheck
  BY <1>3, <1>6 DEF Stream, ToolCheck, LoopPcs, poller
<1>7. CASE LoopError
  <2>1. pc = "loop_error" /\ pc' \in {"capture", "checkpoint", "report"} /\ UNCHANGED <<steer, seen, tick>>
    BY <1>7 DEF LoopError, Caught
  <2> QED
    BY <1>3, <2>1 DEF LoopPcs
<1>8. ASSUME pc \notin LoopPcs \cup {"capture", "consume"},
             pc' \notin LoopPcs \cup {"capture", "consume"},
             pc \in {"catch", "report", "done"} => pc' \in {"catch", "report", "done"},
             UNCHANGED <<steer, seen, tick>>
      PROVE  Goal
  BY <1>8 DEF steer
<1>9. CASE Checkpoint \/ FinalCheckpoint
  <2>1. /\ pc \in {"checkpoint", "final"} /\ UNCHANGED <<steer, seen, tick>>
        /\ pc' \in {"checkpoint", "pull", "catch", "final", "terminal", "unsaved"}
    BY <1>9, RetriedOutcome DEF Checkpoint, FinalCheckpoint, Answered, Refused, Failed, poller
  <2> QED
    BY <1>8, <2>1 DEF LoopPcs
<1>10. CASE Plan \/ Verifying \/ Verify \/ Decide
  <2>1. /\ pc \in {"plan", "verifying", "verify", "decide"} /\ UNCHANGED <<steer, seen, tick>>
        /\ pc' \in {"verifying", "verify", "decide", "catch", "final"}
    <3>1. CASE Plan
      BY <3>1, CallOutcome DEF Plan, Stage, Answered, Refused, Failed, poller
    <3>2. CASE Verifying
      BY <3>2, CallOutcome DEF Verifying, Stage, Answered, Refused, Failed, poller
    <3>3. CASE Verify
      BY <3>3, CallOutcome DEF Verify, Stage, Answered, Refused, Failed, poller
    <3>4. CASE Decide
      BY <3>4 DEF Decide, poller
    <3> QED
      BY <1>10, <3>1, <3>2, <3>3, <3>4
  <2> QED
    BY <1>8, <2>1 DEF LoopPcs
<1>11. CASE Terminate("terminal", term) \/ Terminate("unsaved", "run.failed") \/ Report
  <2>1. ASSUME NEW here \in {"terminal", "unsaved", "report"}, NEW p, NEW type,
               NEW bad \in {"catch", "done"}, pc = here,
               Retried(here, p, type, "done", bad), UNCHANGED <<steer, seen, tick>>
        PROVE  Goal
    <3>1. pc' \in {here, "done", bad}
      BY <2>1, RetriedOutcome DEF Answered, Refused, Failed
    <3> QED
      BY <1>8, <2>1, <3>1 DEF LoopPcs
  <2> HIDE DEF Goal
  <2> QED
    BY <1>11, <2>1 DEF Terminate, Report, poller
<1>12. CASE Catch \/ ReportDuplicate
  <2>1. /\ pc \in {"catch", "report"} /\ pc' \in {"report", "done"}
        /\ UNCHANGED <<steer, seen, tick>>
    BY <1>12 DEF Catch, Caught, ReportDuplicate, Fault, poller
  <2> QED
    BY <1>8, <2>1 DEF LoopPcs
<1> QED
  BY <1>1, <1>2, <1>4, <1>5, <1>6, <1>7, <1>9, <1>10, <1>11, <1>12 DEF Next, Sidecar

LEMMA SteerPlaceStep ==
  ASSUME Scalars, Control, SteerPlace, [Next]_vars
  PROVE  SteerPlace'
<1>1. CASE ~Capture /\ ~Pull /\ ~Consume /\ ~Reenter
  BY <1>1, OtherSteps DEF SteerPlace
<1>2. CASE Capture
  BY <1>2 DEF Capture, Fault, SteerPlace, LoopPcs
<1>3. CASE Pull
  BY <1>3 DEF Pull, Fault, SteerPlace, LoopPcs
<1>4. CASE Consume
  <2>1. pc = "consume" /\ pc' \in {"consume", "catch"} /\ pre' = pre
    BY <1>4, CallOutcome DEF Consume, Answered, Refused, Failed
  <2> QED
    BY <2>1 DEF SteerPlace, LoopPcs
<1>5. CASE Reenter
  <2>1. pc = "consume" /\ todo = {} /\ pre' = pre /\ todo' = todo
    BY <1>5 DEF Reenter
  <2> QED
    BY <2>1 DEF SteerPlace
<1> QED
  BY <1>1, <1>2, <1>3, <1>4, <1>5

LEMMA HeldTypedStep ==
  ASSUME Scalars, Control, log \in Seq(Rec), HeldTyped, [Next]_vars,
         DOMAIN log \subseteq DOMAIN log'
  PROVE  HeldTyped'
<1>1. Unconsumed \subseteq DOMAIN log
  BY DEF Unconsumed, Seqs
<1>2. CASE ~Capture /\ ~Pull /\ ~Consume /\ ~Reenter
  BY <1>1, <1>2, OtherSteps DEF HeldTyped
<1>3. CASE Capture
  <2>1. /\ UNCHANGED <<consumed, todo, seen, tick>>
        /\ pre' \in {pre, {}, Unconsumed \ consumed}
    BY <1>3 DEF Capture, poller
  <2> QED
    BY <1>1, <2>1 DEF HeldTyped
<1>4. CASE Pull
  <2>1. /\ UNCHANGED <<consumed, seen, tick>> /\ pre' \in {pre, {}}
        /\ \/ todo' = todo
           \/ todo' = (IF pre # {} THEN pre ELSE Unconsumed) \ consumed
    BY <1>4 DEF Pull
  <2> QED
    BY <1>1, <2>1 DEF HeldTyped
<1>5. CASE Consume
  <2>1. Oldest \in todo
    BY <1>5, OldestInTodo DEF Consume, HeldTyped
  <2>2. /\ UNCHANGED <<pre, seen, tick>>
        /\ consumed' = consumed \cup {Oldest} /\ todo' = todo \ {Oldest}
    BY <1>5 DEF Consume, poller
  <2> QED
    BY <2>1, <2>2 DEF HeldTyped
<1>6. CASE Reenter
  <2>1. UNCHANGED <<consumed, pre, todo, tick>> /\ seen' = consumed
    BY <1>6 DEF Reenter
  <2> QED
    BY <2>1 DEF HeldTyped
<1> QED
  BY <1>2, <1>3, <1>4, <1>5, <1>6

\* Entries that consume nothing leave the order alone: a new message is younger
\* than all that are held, and a new checkpoint only hides more.
LEMMA OrderWithoutConsume ==
  ASSUME log \in Seq(Rec), HeldTyped, SteerOrder, UNCHANGED ledger \/ Batches,
         ~Consume, UNCHANGED <<consumed, pre, todo>>
  PROVE  SteerOrder'
<1>1. CASE UNCHANGED ledger
  BY <1>1 DEF ledger, SteerOrder, Held, Seqs, SteeringConsumedInOrder
<1>2. CASE Batches
  <2>1. PICK patch, type, val :
          patch \in Status \cup {NoPatch} /\ type \in EventTypes /\ Batch(patch, type, val)
    BY <1>2 DEF Batches
  <2> DEFINE e == Entry(type, val)
  <2>2. Grew(patch, e) /\ e.type = type /\ type # "steering.consumed"
    BY <2>1, EntryFields DEF Batch
  <2> HIDE DEF e
  <2>3. Seqs("steering.consumed")' = Seqs("steering.consumed")
    BY <2>2, SeqsGrow DEF StateChange
  <2>4. Seqs("steering.queued")' \subseteq Seqs("steering.queued") \cup {Len(log')}
    BY <2>2, SeqsGrow DEF StateChange
  <2>5. Seqs("checkpoint.saved") \subseteq Seqs("checkpoint.saved")'
    BY <2>2, SeqsGrow DEF StateChange
  <2>6. \A i \in DOMAIN log : log'[i] = log[i]
    BY <2>2 DEF Grew
  <2>7. Seqs("steering.consumed") \subseteq DOMAIN log
    BY DEF Seqs
  <2>8. Held' = Held /\ Held \subseteq DOMAIN log
    BY DEF Held, HeldTyped
  <2>9. \A w \in Held : w < Len(log')
    BY <2>2, <2>8 DEF Grew
  <2>10. SteeringConsumedInOrder'
    BY <2>3, <2>6, <2>7 DEF SteerOrder, SteeringConsumedInOrder
  <2>11. (\A i \in Seqs("steering.consumed") : log[i].val \in consumed)'
    BY <2>3, <2>6, <2>7 DEF SteerOrder
  <2>12. (\A u \in Seqs("steering.queued") :
            u \notin Held /\ (\A c \in Seqs("checkpoint.saved") : c <= u)
              => \A w \in Held : w < u)'
    BY <2>4, <2>5, <2>8, <2>9 DEF SteerOrder
  <2> QED
    BY <2>10, <2>11, <2>12 DEF SteerOrder
<1> QED
  BY <1>1, <1>2

\* The oldest message held is younger than all that are consumed.
LEMMA OrderOfConsume ==
  ASSUME log \in Seq(Rec), HeldTyped, SteerPlace, SteerOrder, UNCHANGED ledger \/ Batches, Consume
  PROVE  SteerOrder'
<1>1. /\ todo # {} /\ pc = "consume" /\ pre' = pre
      /\ consumed' = consumed \cup {Oldest} /\ todo' = todo \ {Oldest}
  BY DEF Consume
<1>2. Oldest \in todo /\ \A u \in todo : Oldest <= u
  BY <1>1, OldestInTodo DEF HeldTyped
<1>3. pre = {} /\ todo \subseteq Nat /\ Held \subseteq Nat
  BY <1>1 DEF SteerPlace, HeldTyped, Held
<1>4. \A w \in consumed : w < Oldest
  BY <1>2 DEF SteerOrder
<1>5. Held' = Held
  BY <1>1, <1>2 DEF Held
<1>6. (\A w \in consumed, u \in pre \cup todo : w < u)'
  <2> SUFFICES ASSUME NEW w \in consumed \cup {Oldest}, NEW u \in todo \ {Oldest}
               PROVE  w < u
    BY <1>1, <1>3
  <2>1. CASE w \in consumed
    BY <2>1 DEF SteerOrder
  <2>2. CASE w = Oldest
    <3>1. Oldest \in Nat /\ u \in Nat /\ Oldest <= u /\ u # Oldest
      BY <1>2, <1>3
    <3> QED
      BY <2>2, <3>1
  <2> QED
    BY <2>1, <2>2
<1>7. CASE UNCHANGED ledger
  <2>1. \A t : Seqs(t)' = Seqs(t)
    BY <1>7 DEF Seqs, ledger
  <2>2. SteeringConsumedInOrder'
    BY <1>7, <2>1 DEF SteerOrder, SteeringConsumedInOrder, ledger
  <2>3. (\A i \in Seqs("steering.consumed") : log[i].val \in consumed)'
    BY <1>1, <1>7, <2>1 DEF SteerOrder, ledger
  <2> QED
    BY <1>5, <1>6, <2>1, <2>2, <2>3 DEF SteerOrder
<1>8. CASE Batches
  <2>1. PICK patch, type, val :
          patch \in Status \cup {NoPatch} /\ type \in EventTypes /\ Batch(patch, type, val)
    BY <1>8 DEF Batches
  <2> DEFINE e == Entry(type, val)
  <2>2. /\ Grew(patch, e) /\ e.type = type /\ e.val = val
        /\ type = "steering.consumed" => val = Oldest
    BY <2>1, EntryFields DEF Batch
  <2> HIDE DEF e
  <2>3. Seqs("steering.consumed")' =
          Seqs("steering.consumed") \cup (IF type = "steering.consumed" THEN {Len(log')} ELSE {})
    BY <2>2, SeqsGrow DEF StateChange
  <2>4. Seqs("steering.queued")' \subseteq Seqs("steering.queued") \cup {Len(log')}
    BY <2>2, SeqsGrow DEF StateChange
  <2>5. Seqs("checkpoint.saved") \subseteq Seqs("checkpoint.saved")'
    BY <2>2, SeqsGrow DEF StateChange
  <2>6. /\ \A i \in DOMAIN log : log'[i] = log[i] /\ i < Len(log')
        /\ log'[Len(log')] = e /\ Len(log') \in Nat
    BY <2>2 DEF Grew
  <2>7. Seqs("steering.consumed") \subseteq DOMAIN log /\ DOMAIN log \subseteq Nat
    BY DEF Seqs
  <2>8. \A w \in Held : w < Len(log')
    BY <2>6 DEF Held, HeldTyped
  <2>9. \A i \in Seqs("steering.consumed") : log'[i] = log[i] /\ log[i].val \in consumed
    BY <2>6, <2>7 DEF SteerOrder
  <2>10. SteeringConsumedInOrder'
    <3> SUFFICES ASSUME NEW i \in Seqs("steering.consumed")', NEW j \in Seqs("steering.consumed")', i < j
                 PROVE  log'[i].val < log'[j].val
      BY DEF SteeringConsumedInOrder
    <3>1. CASE i \in Seqs("steering.consumed") /\ j \in Seqs("steering.consumed")
      BY <2>9, <3>1 DEF SteerOrder, SteeringConsumedInOrder
    <3>2. CASE i \in Seqs("steering.consumed") /\ j = Len(log') /\ type = "steering.consumed"
      BY <1>4, <2>2, <2>6, <2>9, <3>2
    <3>3. CASE i = Len(log')
      BY <2>3, <2>6, <2>7, <3>3
    <3> QED
      BY <2>3, <3>1, <3>2, <3>3
  <2>11. (\A i \in Seqs("steering.consumed") : log[i].val \in consumed)'
    BY <1>1, <2>2, <2>3, <2>6, <2>9
  <2>12. (\A u \in Seqs("steering.queued") :
            u \notin Held /\ (\A c \in Seqs("checkpoint.saved") : c <= u)
              => \A w \in Held : w < u)'
    BY <1>5, <2>4, <2>5, <2>8 DEF SteerOrder
  <2> QED
    BY <1>6, <2>10, <2>11, <2>12 DEF SteerOrder
<1> QED
  BY <1>7, <1>8

LEMMA OrderOfCapture ==
  ASSUME log \in Seq(Rec), SteerPlace, SteerOrder, Capture
  PROVE  SteerOrder'
<1>1. pc = "capture" /\ UNCHANGED <<log, consumed, todo>> /\ pre' \in {pre, {}, Unconsumed \ consumed}
  BY DEF Capture, ledger
<1>2. pre = {} /\ todo = {}
  BY <1>1 DEF SteerPlace
<1>3. \A t : Seqs(t)' = Seqs(t)
  BY <1>1 DEF Seqs
<1>4. SteeringConsumedInOrder' /\ (\A i \in Seqs("steering.consumed") : log[i].val \in consumed)'
  BY <1>1, <1>3 DEF SteerOrder, SteeringConsumedInOrder
<1>5. CASE pre' = {}
  BY <1>1, <1>2, <1>3, <1>4, <1>5 DEF SteerOrder, Held
<1>6. CASE pre' = Unconsumed \ consumed
  <2>1. (\A w \in consumed, u \in pre \cup todo : w < u)'
    BY <1>1, <1>2, <1>6, SnapshotIsNewer
  <2>2. \A u \in Seqs("steering.queued") :
          (\A c \in Seqs("checkpoint.saved") : c <= u) => u \in consumed \cup Unconsumed
    BY <1>2, SnapshotIsNewer
  <2>3. Held' = consumed \cup Unconsumed
    BY <1>1, <1>2, <1>6 DEF Held
  <2> QED
    BY <1>3, <1>4, <2>1, <2>2, <2>3 DEF SteerOrder
<1> QED
  BY <1>1, <1>2, <1>5, <1>6

LEMMA OrderOfPull ==
  ASSUME log \in Seq(Rec), SteerPlace, SteerOrder, Pull
  PROVE  SteerOrder'
<1> DEFINE list == (IF pre # {} THEN pre ELSE Unconsumed) \ consumed
<1>1. /\ pc = "pull" /\ UNCHANGED <<log, consumed>>
      /\ \/ list # {} /\ pre' = {} /\ todo' = list
         \/ list = {} /\ pre' = {} /\ todo' = todo
         \/ pre' = pre /\ todo' = todo
  BY DEF Pull, ledger
<1>2. todo = {}
  BY <1>1 DEF SteerPlace
<1>3. \A t : Seqs(t)' = Seqs(t)
  BY <1>1 DEF Seqs
<1>4. SteeringConsumedInOrder' /\ (\A i \in Seqs("steering.consumed") : log[i].val \in consumed)'
  BY <1>1, <1>3 DEF SteerOrder, SteeringConsumedInOrder
<1>5. CASE pre' = pre /\ todo' = todo
  BY <1>1, <1>3, <1>4, <1>5 DEF SteerOrder, Held
<1>6. CASE pre # {} /\ pre' = {} /\ (todo' = list \/ (list = {} /\ todo' = todo))
  <2>1. todo' = list /\ list = pre \ consumed
    BY <1>2, <1>6
  <2>2. Held' = Held
    BY <1>1, <1>2, <1>6, <2>1 DEF Held
  <2>3. (\A w \in consumed, u \in pre \cup todo : w < u)'
    BY <1>1, <1>6, <2>1 DEF SteerOrder
  <2> QED
    BY <1>3, <1>4, <2>2, <2>3 DEF SteerOrder
<1>7. CASE pre = {} /\ pre' = {} /\ (todo' = list \/ (list = {} /\ todo' = todo))
  <2>1. todo' = list /\ list = Unconsumed \ consumed
    BY <1>2, <1>7
  <2>2. (\A w \in consumed, u \in pre \cup todo : w < u)'
    BY <1>1, <1>2, <1>7, <2>1, SnapshotIsNewer
  <2>3. \A u \in Seqs("steering.queued") :
          (\A c \in Seqs("checkpoint.saved") : c <= u) => u \in consumed \cup Unconsumed
    BY <1>2, <1>7, SnapshotIsNewer
  <2>4. Held' = consumed \cup Unconsumed
    BY <1>1, <1>7, <2>1 DEF Held
  <2> QED
    BY <1>3, <1>4, <2>2, <2>3, <2>4 DEF SteerOrder
<1> QED
  BY <1>1, <1>5, <1>6, <1>7

LEMMA SteerOrderStep ==
  ASSUME Scalars, Control, log \in Seq(Rec), HeldTyped, SteerPlace, SteerOrder, [Next]_vars,
         UNCHANGED ledger \/ Batches
  PROVE  SteerOrder'
<1>1. CASE Capture
  BY <1>1, OrderOfCapture
<1>2. CASE Pull
  BY <1>2, OrderOfPull
<1>3. CASE Consume
  BY <1>3, OrderOfConsume
<1>4. CASE Reenter
  <2>1. todo = {} /\ UNCHANGED <<consumed, pre, todo>>
    BY <1>4 DEF Reenter
  <2> QED
    BY <2>1, OrderWithoutConsume DEF Consume
<1>5. CASE ~Capture /\ ~Pull /\ ~Consume /\ ~Reenter
  BY <1>5, OtherSteps, OrderWithoutConsume
<1> QED
  BY <1>1, <1>2, <1>3, <1>4, <1>5

-----------------------------------------------------------------------------
(* The inductive invariant. *)

IInv ==
  /\ Scalars /\ Control
  /\ LogTyped /\ HeldTyped
  /\ RowAgrees
  /\ SteerPlace /\ SteerOrder

LEMMA InitHolds == Init => IInv
<1> SUFFICES ASSUME Init
             PROVE  IInv
  OBVIOUS
<1>1. Scalars /\ Control
  BY ControlInit
<1>2. log = << >> /\ DOMAIN log = {} /\ log \in Seq(Rec)
  BY DEF Init
<1>3. LogTyped /\ HeldTyped
  BY <1>2 DEF Init, LogTyped, HeldTyped
<1>4. RowAgrees
  BY <1>2 DEF Init, RowAgrees, Replays, Moves, TerminalSeqs, Terminal
<1>5. SteerPlace /\ SteerOrder
  BY <1>2 DEF Init, SteerPlace, SteerOrder, SteeringConsumedInOrder, Seqs
<1> QED
  BY <1>1, <1>3, <1>4, <1>5 DEF IInv

LEMMA StepBatch ==
  ASSUME IInv, [Next]_vars
  PROVE  UNCHANGED ledger \/ Batches
<1>1. Writes
  BY StepWrites DEF IInv, LogTyped, HeldTyped
<1> QED
  BY <1>1, WritesBatch

\* A fault is counted once and never forgotten.
LEMMA FaultsCounted ==
  ASSUME Scalars, [Next]_vars, faults' = 0
  PROVE  faults = 0
<1>1. ASSUME NEW patch, NEW type, NEW val, NEW ok, NEW stale, NEW bad,
             Call(patch, type, val, ok, stale, bad)
      PROVE  faults' \in {faults, faults + 1}
  BY <1>1, CallOutcome DEF Answered, Refused, Failed
<1>2. ASSUME NEW here, NEW patch, NEW type, NEW ok, NEW bad,
             Retried(here, patch, type, ok, bad)
      PROVE  faults' \in {faults, faults + 1}
  BY <1>2, RetriedOutcome DEF Answered, Refused, Failed
<1> SUFFICES faults' \in {faults, faults + 1}
  BY DEF Scalars
<1>3. CASE UNCHANGED vars
  BY <1>3 DEF vars
<1>4. CASE Environment
  BY <1>4 DEF Environment, PollRead, PollAct, PollGivesUp, Steer, BackendCancel, LocalCancel, Disconnect
<1>5. CASE AgentStart \/ TurnStart \/ ToolStart \/ ToolEnd \/ TurnEnd \/ AgentEnd
  <2>1. ASSUME NEW here, NEW s, NEW type, NEW ok, PiEvent(here, s, type, ok)
        PROVE  faults' \in {faults, faults + 1}
    BY <1>1, <2>1 DEF PiEvent
  <2> QED
    BY <1>5, <2>1 DEF AgentStart, TurnStart, ToolStart, ToolEnd, TurnEnd, AgentEnd
<1>6. CASE \/ Stream \/ ToolCheck \/ LoopError \/ Capture \/ Pull \/ Decide \/ Catch \/ ReportDuplicate
  BY <1>6 DEF Stream, ToolCheck, LoopError, Capture, Pull, Decide, Catch, ReportDuplicate, Fault
<1>7. CASE ToolLedger \/ ToolResult \/ Consume \/ Reenter
  BY <1>1, <1>7 DEF ToolLedger, ToolResult, ToolAppend, Consume, Reenter
<1>8. CASE Plan \/ Verifying \/ Verify
  BY <1>1, <1>8 DEF Plan, Verifying, Verify, Stage
<1>9. CASE \/ Checkpoint \/ FinalCheckpoint \/ Report
           \/ Terminate("terminal", term) \/ Terminate("unsaved", "run.failed")
  BY <1>2, <1>9 DEF Checkpoint, FinalCheckpoint, Report, Terminate
<1> QED
  BY <1>3, <1>4, <1>5, <1>6, <1>7, <1>8, <1>9 DEF Next, Sidecar

LEMMA StepHolds == IInv /\ [Next]_vars => IInv'
<1> SUFFICES ASSUME IInv, [Next]_vars
             PROVE  IInv'
  OBVIOUS
<1>1. /\ Scalars /\ Control /\ LogTyped /\ HeldTyped /\ RowAgrees /\ SteerPlace /\ SteerOrder
      /\ log \in Seq(Rec)
  BY DEF IInv, LogTyped
<1>2. UNCHANGED ledger \/ Batches
  BY StepBatch
<1>3. Scalars' /\ Control'
  BY <1>1, ControlStep
<1>4. LogTyped'
  BY <1>1, <1>2, LogTypedStep
<1>5. HeldTyped'
  BY <1>1, <1>2, LogGrows, HeldTypedStep
<1>6. RowAgrees'
  <2>1. faults \in Nat
    BY <1>1 DEF Scalars
  <2>2. faults' = 0 => faults = 0
    BY <1>1, FaultsCounted
  <2> QED
    BY <1>1, <1>2, <2>1, <2>2, RowAgreesStep
<1>7. SteerPlace'
  BY <1>1, SteerPlaceStep
<1>8. SteerOrder'
  BY <1>1, <1>2, SteerOrderStep
<1> QED
  BY <1>3, <1>4, <1>5, <1>6, <1>7, <1>8 DEF IInv

LEMMA Inductive == Spec => []IInv
<1> QED
  BY InitHolds, StepHolds, PTL DEF Spec

-----------------------------------------------------------------------------
(* What follows from it. *)

\* The types of the log, the row, the sidecar, the poller and the users, of
\* AgentRun, hold throughout: among them that a consumed message is one that was
\* queued earlier in the log, that the sidecar's version never runs ahead of the
\* row, and that the limits of loops and tool calls are kept.
THEOREM TypesHold == Spec => []TypeOK
<1>1. IInv => TypeOK
  <2> SUFFICES ASSUME IInv
               PROVE  TypeOK
    OBVIOUS
  <2>1. \A i \in DOMAIN log :
          IF log[i].type = "steering.consumed" THEN log[i].val \in 1..(i - 1)
          ELSE log[i] \in [type : EventTypes, val : Status \cup {None}]
    <3> SUFFICES ASSUME NEW i \in DOMAIN log
                 PROVE  IF log[i].type = "steering.consumed" THEN log[i].val \in 1..(i - 1)
                        ELSE log[i] \in [type : EventTypes, val : Status \cup {None}]
      OBVIOUS
    <3>1. log[i] \in Rec /\ (IF log[i].type = "steering.consumed" THEN log[i].val \in 1..(i - 1)
                             ELSE log[i].val \in Status \cup {None})
      BY DEF IInv, LogTyped
    <3> QED
      BY <3>1 DEF Rec
  <2>2. /\ consumed \in SUBSET DOMAIN log /\ seen \in SUBSET DOMAIN log
        /\ pre \in SUBSET DOMAIN log /\ todo \in SUBSET DOMAIN log /\ tick \in SUBSET DOMAIN log
    BY DEF IInv, HeldTyped
  <2>3. {reentered, firstAborted, flag, polling} \subseteq BOOLEAN
    BY DEF IInv, Scalars
  <2>4. {term, lost} \subseteq TerminalEvents \cup {None}
    BY DEF IInv, Scalars
  <2>5. pc \in {"agent_start", "turn_start", "stream", "tool_start", "tool_check",
                "tool_ledger", "tool_result", "tool_end", "turn_end", "agent_end",
                "loop_error", "capture", "checkpoint", "pull", "consume", "plan",
                "verifying", "verify", "decide", "final", "terminal", "unsaved",
                "catch", "report", "done"}
    BY DEF IInv, Scalars, Pcs, LoopPcs, BoundaryPcs, StagePcs
  <2> QED
    BY <2>1, <2>2, <2>3, <2>4, <2>5 DEF IInv, Scalars, TypeOK
<1> QED
  BY <1>1, Inductive, PTL

\* Log and row tell the same end of a run: a terminal event exactly when the
\* status is terminal, only of that outcome, and one only unless a request was
\* lost (the requests of executeRun in pi-runtime.ts, the cancel route and the
\* transitions of the row).
THEOREM TerminalsAgree == Spec => []TerminalAgrees
<1>1. IInv => TerminalAgrees
  <2> SUFFICES ASSUME IInv
               PROVE  TerminalAgrees
    OBVIOUS
  <2>1. ASSUME \A i, j \in TerminalSeqs : i = j
        PROVE  Cardinality(TerminalSeqs) <= 1
    <3>1. CASE TerminalSeqs = {}
      BY <3>1, FS_EmptySet
    <3>2. CASE TerminalSeqs # {}
      <4>1. PICK x : TerminalSeqs = {x}
        BY <2>1, <3>2
      <4>2. Cardinality({x}) = 1
        BY FS_Singleton
      <4> QED
        BY <4>1, <4>2
    <3> QED
      BY <3>1, <3>2
  <2> QED
    BY <2>1 DEF IInv, RowAgrees, TerminalAgrees
<1> QED
  BY <1>1, Inductive, PTL

\* The status the sidecar tells its own clients does not contradict the row of a
\* finished run, unless a request was lost: neither the cancel route nor the
\* catch clauses touch runState.status after the terminal event was answered.
THEOREM SidecarAgrees == Spec => []LocalAgrees
<1>1. IInv => LocalAgrees
  BY DEF IInv, Control, LocalAgrees
<1> QED
  BY <1>1, Inductive, PTL

\* Steering is consumed in the order in which it was sent and no message twice,
\* over captures, checkpoints that hide older messages, and re-entries.
THEOREM SteeringInOrder == Spec => []SteeringConsumedInOrder
<1>1. IInv => SteeringConsumedInOrder
  BY DEF IInv, SteerOrder
<1> QED
  BY <1>1, Inductive, PTL

\* The entries a batch adds: the move of its patch, and its event.
LEMMA AppendedEntries ==
  ASSUME log \in Seq(Rec), NEW patch, NEW type, NEW val, Batch(patch, type, val)
  PROVE  \A i \in Appended : log'[i].type = StateChange \/ log'[i].type = type
<1>1. Grew(patch, Entry(type, val))
  BY DEF Batch
<1>2. Entry(type, val).type = type
  BY EntryFields
<1>3. patch # NoPatch => log'[Len(log) + 1].type = StateChange
  BY <1>1, EntryFields DEF Grew
<1> QED
  BY <1>1, <1>2, <1>3 DEF Grew, Appended

\* Nothing is added to the log of a finished run but a repeated report of the
\* same outcome: no checkpoint, tool result, consumption or message of a user.
THEOREM FinishedStaysQuiet == Spec => QuietAfterTerminal
<1>1. IInv /\ [Next]_vars => [OnlyRepeatsAfterTerminal]_vars
  <2> SUFFICES ASSUME IInv, [Next]_vars, status \in Terminal
               PROVE  /\ status' = status
                      /\ \A i \in Appended : log'[i].type \in TerminalEvents \cup {StateChange}
    BY DEF OnlyRepeatsAfterTerminal
  <2>1. log \in Seq(Rec)
    BY DEF IInv, LogTyped
  <2>2. CASE UNCHANGED ledger
    BY <2>1, <2>2 DEF ledger, Appended
  <2>3. CASE Batches
    <3>1. PICK patch, type, val : Batch(patch, type, val)
      BY <2>3 DEF Batches
    <3>2. type \in TerminalEvents
      BY <3>1 DEF Batch
    <3>3. status' = status
      BY <3>1, TerminalStays DEF Batch
    <3> QED
      BY <2>1, <3>1, <3>2, <3>3, AppendedEntries
  <2> QED
    BY <2>2, <2>3, StepBatch
<1> QED
  BY <1>1, Inductive, PTL DEF Spec, QuietAfterTerminal

\* Once FastAPI has accepted the cancellation, no tool call is recorded: a tool
\* append prepared before it is stale, and no later one is prepared.
THEOREM CancelStopsTools == Spec => NoToolAfterCancel
<1>1. IInv /\ [Next]_vars => [RecordsNoTool]_vars
  <2> SUFFICES ASSUME IInv, [Next]_vars, status = "cancelling"
               PROVE  \A i \in Appended : log'[i].type \notin ToolEvents
    BY DEF RecordsNoTool
  <2>1. log \in Seq(Rec)
    BY DEF IInv, LogTyped
  <2>2. CASE UNCHANGED ledger
    BY <2>1, <2>2 DEF ledger, Appended
  <2>3. CASE Batches
    <3>1. PICK patch, type, val : Batch(patch, type, val)
      BY <2>3 DEF Batches
    <3>2. type \notin ToolEvents /\ StateChange \notin ToolEvents
      BY <3>1 DEF Batch, ToolEvents, StateChange
    <3> QED
      BY <2>1, <3>1, <3>2, AppendedEntries
  <2> QED
    BY <2>2, <2>3, StepBatch
<1> QED
  BY <1>1, Inductive, PTL DEF Spec, NoToolAfterCancel

-----------------------------------------------------------------------------
(* The refinement. *)

\* The log of the ledger: the position of an entry stands for its
\* client_event_id.
WithIds(l) == [i \in DOMAIN l |-> [type |-> l[i].type, val |-> l[i].val, id |-> i]]

LEMMA WithIdsShape ==
  ASSUME NEW l \in Seq(Rec)
  PROVE  /\ Len(WithIds(l)) = Len(l) /\ DOMAIN WithIds(l) = DOMAIN l
         /\ \A i \in DOMAIN l : /\ WithIds(l)[i].type = l[i].type
                                /\ WithIds(l)[i].val = l[i].val
                                /\ WithIds(l)[i].id = i
<1>1. DOMAIN l = 1..Len(l) /\ Len(l) \in Nat
  OBVIOUS
<1>2. DOMAIN WithIds(l) = 1..Len(l)
  BY <1>1 DEF WithIds
<1>3. Len(WithIds(l)) = Len(l)
  BY <1>1, <1>2
<1> QED
  BY <1>1, <1>2, <1>3 DEF WithIds

LEMMA ReplaysWithIds ==
  ASSUME NEW l \in Seq(Rec), NEW s, Replays(l, s)
  PROVE  Ledger!Replays(WithIds(l), s)
<1>1. Ledger!Moves(WithIds(l)) = Moves(l)
  BY WithIdsShape DEF Ledger!Moves, Moves, Ledger!Status, Status, Ledger!StateChange, StateChange
<1>2. \A i \in Moves(l) : WithIds(l)[i].val = l[i].val
  BY WithIdsShape DEF Moves
<1> QED
  BY <1>1, <1>2 DEF Replays, Ledger!Replays

\* The sidecar, its users and the poller drive the ledger only as RunLedger
\* allows: every step appends one whole batch after what is there, counts the
\* version, takes a legal step of the status, and leaves a log that replays to
\* it.
THEOREM AppendsToLedger == Spec => ImplementsLedger
<1>1. Init => Ledger!LedgerInit
  <2> SUFFICES ASSUME Init
               PROVE  Ledger!LedgerInit
    OBVIOUS
  <2>1. WithIds(log) = << >>
    BY DEF Init, WithIds
  <2> QED
    BY <2>1 DEF Init, Ledger!LedgerInit, WithIds
<1>2. IInv /\ IInv' /\ [Next]_vars => [Ledger!AppendBatch]_(Ledger!ledgerVars)
  <2> SUFFICES ASSUME IInv, IInv', [Next]_vars
               PROVE  [Ledger!AppendBatch]_(Ledger!ledgerVars)
    OBVIOUS
  <2>1. CASE UNCHANGED ledger
    BY <2>1 DEF ledger, Ledger!ledgerVars
  <2>2. CASE Batches
    <3>1. PICK patch, type, val : Batch(patch, type, val)
      BY <2>2 DEF Batches
    <3>2. /\ Grew(patch, Entry(type, val)) /\ version' = version + 1
          /\ MayMove(status, status')
      BY <3>1 DEF Batch
    <3>3. log \in Seq(Rec) /\ log' \in Seq(Rec) /\ Replays(log', status')
      BY DEF IInv, LogTyped, RowAgrees
    <3>4. Ledger!Extends(WithIds(log), WithIds(log')) /\ Len(WithIds(log)) < Len(WithIds(log'))
      <4>1. /\ Len(WithIds(log)) = Len(log) /\ Len(WithIds(log')) = Len(log')
            /\ Len(log) < Len(log') /\ Len(log) \in Nat
        BY <3>2, <3>3, WithIdsShape DEF Grew
      <4>2. ASSUME NEW i \in 1..Len(log)
            PROVE  WithIds(log')[i] = WithIds(log)[i]
        <5>1. i \in DOMAIN log /\ i \in DOMAIN log' /\ log'[i] = log[i]
          BY <3>2, <3>3 DEF Grew
        <5> QED
          BY <5>1 DEF WithIds
      <4> QED
        BY <4>1, <4>2 DEF Ledger!Extends
    <3>5. Ledger!FreshEntries(WithIds(log), WithIds(log'))
      BY <3>2, <3>3, WithIdsShape DEF Grew, Ledger!FreshEntries
    <3>6. Ledger!MayMove(status, status')
      BY <3>2 DEF MayMove, Ledger!MayMove, ValidTransitions, Ledger!ValidTransitions
    <3>7. Ledger!Replays(WithIds(log'), status')
      BY <3>3, ReplaysWithIds
    <3>8. Ledger!Extends(<< >>, << >>)
      BY DEF Ledger!Extends
    <3> QED
      BY <3>2, <3>4, <3>5, <3>6, <3>7, <3>8 DEF Ledger!AppendBatch, WithIds
  <2> QED
    BY <2>1, <2>2, StepBatch
<1> QED
  BY <1>1, <1>2, Inductive, PTL DEF Spec, ImplementsLedger, Ledger!LedgerSpec
=============================================================================
