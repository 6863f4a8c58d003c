------------------------------- MODULE MCHeartbeat -------------------------------
(***************************************************************************)
(* TLC instances of Heartbeat.  Agents are interchangeable, and so are     *)
(* checker invocations.                                                    *)
(***************************************************************************)
EXTENDS Heartbeat, TLC

HbSymmetry == Permutations(Agents) \cup Permutations(Checkers)

=============================================================================
