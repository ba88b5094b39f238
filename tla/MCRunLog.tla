------------------------------ MODULE MCRunLog ------------------------------
(***************************************************************************)
(* The requests one short run receives: the sidecar reports a tool result  *)
(* and the failure that ends the run, while the user steers and cancels it *)
(* and confirms a proposal it made.                                        *)
(***************************************************************************)
EXTENDS RunLog, TLC

CONSTANTS kFail, kCancel, kTool, kConfirm,
          eFail, eConfirmed, eCommitted, steer, tool, none

MCIds == {kFail, kCancel, kTool, kConfirm,
          eFail, eConfirmed, eCommitted, steer}
MCTypes == {"agent.failed", "steering.queued",
            "proposal.confirmation.confirmed", "proposal.confirmation.committed"}

Event(id, type) == [id |-> id, type |-> type, val |-> none]

Request(key, evs, tools, patch) ==
  [kind |-> "append", key |-> key, events |-> evs, tools |-> tools, patch |-> patch]

Fail    == Request(kFail, <<Event(eFail, "agent.failed")>>, << >>, "failed")
Cancel  == Request(kCancel, << >>, << >>, "cancelling")
Tool    == Request(kTool, << >>, <<tool>>, NoPatch)
Confirm == Request(kConfirm, <<Event(eConfirmed, "proposal.confirmation.confirmed"),
                               Event(eCommitted, "proposal.confirmation.committed")>>,
                   << >>, NoPatch)
Steer   == [kind |-> "steering", key |-> steer,
            events |-> <<Event(steer, "steering.queued")>>,
            tools |-> << >>, patch |-> NoPatch]

MCRequests == {Fail, Cancel, Tool, Confirm, Steer}

\* Threads are interchangeable in every formula checked.
ThreadSymmetry == Permutations(Threads)
=============================================================================
