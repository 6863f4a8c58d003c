---------------------------- MODULE MCTaskScheduler ----------------------------
(***************************************************************************)
(* TLC instances of TaskScheduler.  Agents are interchangeable, and so are *)
(* tasks; the symmetries are used where no liveness property is checked.   *)
(***************************************************************************)
EXTENDS TaskScheduler, TLC

TaskSymmetry == Permutations(Tasks)

AgentSymmetry == Permutations(Agents) \cup Permutations(Checkers)
=============================================================================
