-------------------------------- MODULE TaskQueue --------------------------------
(***************************************************************************)
(* One message of the SQS task queue, as api/task_queue_sqs.py uses it.    *)
(* SQS itself is not part of the repository: its behaviour is modelled     *)
(* from the calls the code makes and from the redrive policy in            *)
(* deployment/grid/terraform/control_plane/sqs.tf.                         *)
(*                                                                         *)
(* A task has one message.  Every receive issues a new receipt handle, the *)
(* number of that receive.  A call with an older handle is undefined: SQS  *)
(* may honour it or not, so its outcomes are a set.                        *)
(*   unsent    not sent yet                                                *)
(*   visible   can be received                                             *)
(*   inflight  received, hidden for the queue's default timeout (40 s)     *)
(*   held      received, hidden for the agent's long timeout (3600 s)      *)
(*   deleted   removed by delete_message                                   *)
(*   dlq       moved to the dead letter queue, which nothing reads         *)
(***************************************************************************)
EXTENDS Naturals

CONSTANT MaxReceiveCount   \* maxReceiveCount of the redrive policy

ASSUME MaxReceiveCountAssumption == MaxReceiveCount \in Nat \ {0}

---------------------------------------------------------------------------

Location == {"unsent", "visible", "inflight", "held", "deleted", "dlq"}

Message == [ loc : Location, receives : Nat ]

NoMessage == [ loc |-> "unsent", receives |-> 0 ]

Hidden(m) == m.loc \in {"inflight", "held"}

InQueue(m) == m.loc = "visible" \/ Hidden(m)

(* send_messages *)

Send(m) == [ m EXCEPT !.loc = "visible" ]

(* receive_message; the new handle is the new value of receives *)

CanReceive(m) == m.loc = "visible" /\ m.receives < MaxReceiveCount

Receive(m) == [ loc |-> "inflight", receives |-> m.receives + 1 ]

(* The redrive policy takes a message that was received too often. *)

CanRedrive(m) == m.loc = "visible" /\ m.receives >= MaxReceiveCount

Redrive(m) == [ m EXCEPT !.loc = "dlq" ]

(* A hidden message comes back when its visibility timeout runs out. *)

Reappear(m) == [ m EXCEPT !.loc = "visible" ]

(* delete_message: with the newest handle it deletes, with an older one it  *)
(* may; a message that is gone is left as it is                             *)

DeleteOutcomes(m, h) ==
  IF InQueue(m)
    THEN {[ m EXCEPT !.loc = "deleted" ]} \cup (IF h = m.receives THEN {} ELSE {m})
    ELSE {m}

(* change_visibility: works on a hidden message, and is refused when the    *)
(* message is not hidden or the handle is not the newest                    *)

CanChangeVisibility(m) == Hidden(m)

MayRefuseVisibility(m, h) == ~Hidden(m) \/ h # m.receives

=============================================================================
