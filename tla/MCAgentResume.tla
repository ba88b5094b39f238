--------------------------- MODULE MCAgentResume ---------------------------
(* Three executions of a run of which two may be alive at a time, one thing  *)
(* to write, a call in each execution, and a message or a cancellation of    *)
(* the users.  Four events are enough for a write, its checkpoint, and the   *)
(* write and the checkpoint of a second execution, which the third one reads. *)
EXTENDS AgentResume
=============================================================================
