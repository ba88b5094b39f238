--------------------------- MODULE MCToolExecutor ---------------------------
(***************************************************************************)
(* Two read-only tools that share a group with a single slot, and a tool   *)
(* that writes in a group of its own.                                      *)
(***************************************************************************)
EXTENDS ToolExecutor

CONSTANTS r1, r2, w, reads, proposals

MCCalls   == {r1, r2, w}
MCExposures == {{r1, r2}, {r1, w}}
MCGroups  == {reads, proposals}
MCGroupOf == [c \in MCCalls |-> IF c = w THEN proposals ELSE reads]
MCAttempts == [c \in MCCalls |-> IF c = r2 THEN 1 ELSE 2]
MCLimit   == [g \in MCGroups |-> 1]
=============================================================================
