---------------------------- MODULE MCAssignment ----------------------------
(* A small instance of Assignment: two tasks of one stage, two members. *)
EXTENDS Assignment, TLC

CONSTANTS s1, s2, u1, u2, t1, t2, stage1

MCStageOf == [t \in Tasks |-> stage1]

Symmetry == Permutations(Sessions) \cup Permutations(Users) \cup Permutations(Tasks)
=============================================================================
