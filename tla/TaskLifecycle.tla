------------------------------ MODULE TaskLifecycle ------------------------------
(***************************************************************************)
(* What the scheduler promises a client about a task, without queue,       *)
(* agents, heartbeats or Lambdas: the states of the task state transition  *)
(* diagram (docs/workshop, 30_task_lifecycle), corrected to what the code  *)
(* does.  __finalize_tasks_state overwrites a final state with failed or   *)
(* cancelled, so final states are closed but not fixed; an execution may   *)
(* store a result at any time after the task was first started, because    *)
(* an agent that lost the task does not know it yet.                       *)
(***************************************************************************)
EXTENDS Naturals

CONSTANTS Tasks, MaxRetries

VARIABLES
  status,    \* state of the task as the state table shows it
  retries,   \* how often the task was put back
  started,   \* whether some agent has ever claimed it
  result     \* whether the data plane holds an output

vars == << status, retries, started, result >>

Final == {"finished", "failed", "cancelled"}

Init ==
  /\ status = [t \in Tasks |-> "absent"]
  /\ retries = [t \in Tasks |-> 0]
  /\ started = [t \in Tasks |-> FALSE]
  /\ result = [t \in Tasks |-> FALSE]

---------------------------------------------------------------------------

Register(t) ==
  /\ status[t] = "absent"
  /\ status' = [status EXCEPT ![t] = "pending"]
  /\ UNCHANGED << retries, started, result >>

Start(t) ==
  /\ status[t] = "pending"
  /\ status' = [status EXCEPT ![t] = "processing"]
  /\ started' = [started EXCEPT ![t] = TRUE]
  /\ UNCHANGED << retries, result >>

StoreResult(t) ==
  /\ started[t]
  /\ result' = [result EXCEPT ![t] = TRUE]
  /\ UNCHANGED << status, retries, started >>

Complete_WithoutResult(t) ==
  /\ status[t] = "processing"
  /\ status' = [status EXCEPT ![t] = "finished"]
  /\ UNCHANGED << retries, started, result >>

Complete(t) ==
  /\ status[t] = "processing" /\ result[t]
  /\ status' = [status EXCEPT ![t] = "finished"]
  /\ UNCHANGED << retries, started, result >>

PutBack_AnyStatus(t) ==
  /\ status[t] # "absent" /\ retries[t] < MaxRetries
  /\ status' = [status EXCEPT ![t] = "pending"]
  /\ retries' = [retries EXCEPT ![t] = @ + 1]
  /\ UNCHANGED << started, result >>

PutBack_NoLimit(t) ==
  /\ status[t] = "processing"
  /\ status' = [status EXCEPT ![t] = "pending"]
  /\ retries' = [retries EXCEPT ![t] = @ + 1]
  /\ UNCHANGED << started, result >>

PutBack(t) ==
  /\ status[t] = "processing" /\ retries[t] < MaxRetries
  /\ status' = [status EXCEPT ![t] = "pending"]
  /\ retries' = [retries EXCEPT ![t] = @ + 1]
  /\ UNCHANGED << started, result >>

\* A task that is waiting is never given up: only one that was taken by an
\* agent for the last time it is allowed to.
GiveUp(t) ==
  /\ status[t] \in {"processing"} \cup Final
  /\ retries[t] = MaxRetries
  /\ status' = [status EXCEPT ![t] = "failed"]
  /\ UNCHANGED << retries, started, result >>

Cancel(t) ==
  /\ status[t] # "absent"
  /\ status' = [status EXCEPT ![t] = "cancelled"]
  /\ UNCHANGED << retries, started, result >>

Next ==
  \E t \in Tasks :
    \/ Register(t) \/ Start(t) \/ StoreResult(t) \/ Complete(t)
    \/ PutBack(t) \/ GiveUp(t) \/ Cancel(t)

Spec == Init /\ [][Next]_vars
=============================================================================
