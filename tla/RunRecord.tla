----------------------------- MODULE RunRecord -----------------------------
(***************************************************************************)
(* What a persisted agent run is made of: the statuses of agent_runs_v2,   *)
(* the transitions FastAPI accepts between them, and the ways the event    *)
(* log of a run is read back (the replay of the status and the snapshot    *)
(* page of the sidecar).  A log is a sequence of entries; the index of an  *)
(* entry is its event_seq.                                                 *)
(***************************************************************************)
EXTENDS Naturals, Sequences

Status == {"created", "context_building", "model_streaming",
           "tool_preparing", "tool_running", "persisting_tool_result",
           "completed", "cancelling", "cancelled", "failed"}

Terminal == {"completed", "cancelled", "failed"}

\* The table the server validates a state patch against.
ValidTransitions(from) ==
  CASE from = "created" ->
         {"context_building", "cancelling", "failed"}
    [] from = "context_building" ->
         {"model_streaming", "cancelling", "failed"}
    [] from = "model_streaming" ->
         {"tool_preparing", "tool_running", "persisting_tool_result",
          "completed", "cancelling", "failed"}
    [] from = "tool_preparing" ->
         {"tool_running", "persisting_tool_result", "model_streaming",
          "completed", "cancelling", "failed"}
    [] from = "tool_running" ->
         {"persisting_tool_result", "model_streaming", "completed",
          "cancelling", "failed"}
    [] from = "persisting_tool_result" ->
         {"model_streaming", "completed", "cancelling", "cancelled", "failed"}
    [] from = "cancelling" -> {"cancelled", "failed"}
    [] OTHER -> {}

\* A patch naming the current status is accepted and changes nothing.
MayMove(from, to) == to = from \/ to \in ValidTransitions(from)

-----------------------------------------------------------------------------
(* Reading a log. *)

Recorded(log) == {log[i].id : i \in DOMAIN log}

StateChange == "run.state_changed"

\* The positions at which a state_changed entry carries a status.
Moves(log) == {i \in DOMAIN log : log[i].type = StateChange /\ log[i].val \in Status}

\* s is what replaying the state_changed entries of the log yields.
Replays(log, s) ==
  IF Moves(log) = {}
  THEN s = "created"
  ELSE \E i \in Moves(log) : /\ \A j \in Moves(log) : j <= i
                             /\ log[i].val = s
=============================================================================
