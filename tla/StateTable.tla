------------------------------- MODULE StateTable -------------------------------
(***************************************************************************)
(* The rows of the DynamoDB state table and the conditional updates that   *)
(* source/client/python/api-v0.1/api/state_table_dynamodb.py performs on   *)
(* them.  DynamoDB applies one update_item atomically, so an update is a   *)
(* pair of operators: CanX is the ConditionExpression, X the new row.      *)
(*                                                                         *)
(* A heartbeat is abstracted to whether it is in the past: the absolute    *)
(* time is the subject of a module of its own.  Only that of a processing  *)
(* row is ever read, by query_expired_tasks, so an update to any other     *)
(* status, which leaves the timestamp to pass by itself, makes it past.    *)
(* A receipt handle is the number of the receive that issued it, and 0     *)
(* stands for the "None" that submit_tasks writes.                         *)
(***************************************************************************)
EXTENDS Naturals

CONSTANTS
  Agents,      \* SELF_ID of the agents; a restarted pod keeps its id
  None,        \* the "None" that stands for no owner and no output
  MaxRetries   \* MAX_RETRIES of the TTL checker

ASSUME AgentsAssumption == None \notin Agents
ASSUME MaxRetriesAssumption == MaxRetries \in Nat

---------------------------------------------------------------------------

TerminalStatus == {"finished", "failed", "cancelled"}

Status == {"absent", "pending", "processing"} \cup TerminalStatus

Row == [ status  : Status,
         owner   : Agents \cup {None},
         retries : 0 .. MaxRetries,
         handle  : Nat,
         hb      : {"live", "expired"} ]

\* A task id that has no row yet.
NoRow == [ status |-> "absent", owner |-> None, retries |-> 0,
           handle |-> 0, hb |-> "expired" ]

\* The row submit_tasks writes; its heartbeat timestamp is 0, in the past.
NewRow == [ NoRow EXCEPT !.status = "pending" ]

---------------------------------------------------------------------------
(* claim_task_for_agent *)

CanClaim_OwnerIgnored(r) == r.status \in {"pending", "processing"}

CanClaim(r) == r.status = "pending" /\ r.owner = None

Claim_HandleNotStored(r, a, h) ==
  [ r EXCEPT !.owner = a, !.status = "processing", !.hb = "live" ]

Claim(r, a, h) ==
  [ r EXCEPT !.owner = a, !.status = "processing", !.hb = "live", !.handle = h ]

(* refresh_ttl_for_ongoing_task *)

CanRefresh(r, a) == r.status = "processing" /\ r.owner = a

Refresh(r) == [ r EXCEPT !.hb = "live" ]

(* update_task_status_to_finished: the owner stays in the row *)

CanFinish_AnyOwner(r, a) == r.status # "absent"

CanFinish(r, a) == r.status = "processing" /\ r.owner = a

Finish(r) == [ r EXCEPT !.status = "finished", !.hb = "expired" ]

(* retry_task: neither the owner nor the heartbeat is part of the condition *)

CanRetry_NoCondition(r) == r.status # "absent"

CanRetry_OwnerNone(r) == r.status = "processing" /\ r.owner = None

CanRetry(r) == r.status = "processing"

Retry(r, n) ==
  [ r EXCEPT !.owner = None, !.status = "pending", !.retries = n, !.hb = "expired" ]

(* __finalize_tasks_state: overwrites whatever the row holds *)

Finalize(r, s) == [ r EXCEPT !.owner = None, !.status = s, !.hb = "expired" ]

(* What query_expired_tasks selects through gsi_ttl_index *)

IsExpired(r) == r.status = "processing" /\ r.hb = "expired"

=============================================================================
