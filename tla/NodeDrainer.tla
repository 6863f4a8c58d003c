------------------------------- MODULE NodeDrainer -------------------------------
(***************************************************************************)
(* The drainer Lambda (lambda/drainer/handler.py and k8s_utils.py) empties *)
(* a Kubernetes node whose EC2 instance the autoscaling group wants to     *)
(* terminate, and then answers the lifecycle hook that holds the instance. *)
(* The pods it evicts are agents with their workers: what is still on the  *)
(* node when the instance goes is left to the TTL checker.                 *)
(*                                                                         *)
(* EventBridge delivers the event at least once, and Lambda starts an      *)
(* asynchronous invocation again when it failed or timed out, so that      *)
(* several invocations may work on one node, one after the other or at the *)
(* same time.  Kubernetes and the autoscaling group are external: they are *)
(* modelled from the calls the code makes.                                 *)
(***************************************************************************)
CONSTANTS
  Pods,          \* pods that may run on the node
  DaemonPods,    \* those of a DaemonSet, and mirror pods
  Invocations    \* bound: the invocations for the event

ASSUME PodsAssumption == DaemonPods \subseteq Pods

VARIABLES
  pod,        \* away from the node, running on it, or being terminated
  cordoned,   \* the node is unschedulable
  hook,       \* the lifecycle action of the instance
  inv         \* where each invocation is

ndVars == << pod, cordoned, hook, inv >>

---------------------------------------------------------------------------

\* pod_is_evictable
IsEvictable_Any(p) == p \in Pods

IsEvictable(p) == p \notin DaemonPods

OnNode == { p \in Pods : pod[p] # "away" }

\* get_evictable_pods
EvictablePods == { p \in OnNode : IsEvictable(p) }

NewInvocation == [ pc |-> "off", todo |-> {}, again |-> {}, dropped |-> {} ]

InvocationState ==
  [ pc : {"off", "exists", "cordon", "list", "evict", "wait", "complete", "abandon", "over"},
    todo : SUBSET (Pods \ DaemonPods), again : SUBSET (Pods \ DaemonPods),
    dropped : SUBSET (Pods \ DaemonPods) ]

\* The state space of node, hook and invocations.
NdTypeOK ==
  /\ pod \in [Pods -> {"away", "running", "terminating"}]
  /\ cordoned \in BOOLEAN
  /\ hook \in {"wait", "continue", "abandon", "terminated"}
  /\ inv \in [Invocations -> InvocationState]

Init ==
  /\ pod \in [Pods -> {"away", "running"}]
  /\ cordoned = FALSE
  /\ hook = "wait"
  /\ inv = [i \in Invocations |-> NewInvocation]

---------------------------------------------------------------------------
(* _lambda_handler *)

Goto(i, pc) == inv' = [inv EXCEPT ![i].pc = pc]

Invoke(i) ==
  /\ inv[i].pc = "off"
  /\ Goto(i, "exists")
  /\ UNCHANGED << pod, cordoned, hook >>

NodeExists(i) ==
  /\ inv[i].pc = "exists"
  /\ Goto(i, "cordon")
  /\ UNCHANGED << pod, cordoned, hook >>

\* The node left the cluster with its instance, or never joined: abandon.
NodeMissing(i) ==
  /\ inv[i].pc = "exists"
  /\ OnNode = {}
  /\ Goto(i, "abandon")
  /\ UNCHANGED << pod, cordoned, hook >>

CordonNode_Skipped(i) ==
  /\ inv[i].pc = "cordon"
  /\ Goto(i, "list")
  /\ UNCHANGED << pod, cordoned, hook >>

CordonNode(i) ==
  /\ inv[i].pc = "cordon"
  /\ cordoned' = TRUE
  /\ Goto(i, "list")
  /\ UNCHANGED << pod, hook >>

\* remove_all_pods lists the pods once.
ListPods(i) ==
  /\ inv[i].pc = "list"
  /\ inv' = [inv EXCEPT ![i] = [ inv[i] EXCEPT !.pc = "evict", !.todo = EvictablePods ]]
  /\ UNCHANGED << pod, cordoned, hook >>

EvictAccepted(i, p) ==
  /\ inv[i].pc = "evict" /\ p \in inv[i].todo
  /\ pod[p] # "away"
  /\ pod' = [pod EXCEPT ![p] = "terminating"]
  /\ inv' = [inv EXCEPT ![i].todo = @ \ {p}]
  /\ UNCHANGED << cordoned, hook >>

\* 429: the eviction would break a disruption budget, it is tried again.
EvictRefused(i, p) ==
  /\ inv[i].pc = "evict" /\ p \in inv[i].todo
  /\ pod[p] # "away"
  /\ inv' = [inv EXCEPT ![i] = [ inv[i] EXCEPT !.todo = @ \ {p}, !.again = @ \cup {p} ]]
  /\ UNCHANGED << pod, cordoned, hook >>

\* Any other error, 404 for a pod that is gone included: logged and dropped.
EvictFails(i, p) ==
  /\ inv[i].pc = "evict" /\ p \in inv[i].todo
  /\ inv' = [inv EXCEPT ![i] = [ inv[i] EXCEPT !.todo = @ \ {p}, !.dropped = @ \cup {p} ]]
  /\ UNCHANGED << pod, cordoned, hook >>

EvictNextPass_Once(i) ==
  /\ inv[i].pc = "evict" /\ inv[i].todo = {}
  /\ inv' = [inv EXCEPT ![i].pc = "wait", ![i].again = {}]
  /\ UNCHANGED << pod, cordoned, hook >>

\* evict_until_completed: another pass for the refused ones, or go on.
EvictNextPass(i) ==
  /\ inv[i].pc = "evict" /\ inv[i].todo = {}
  /\ inv' = [inv EXCEPT ![i] = [ inv[i] EXCEPT !.pc = IF inv[i].again = {} THEN "wait" ELSE "evict",
                                          !.todo = inv[i].again, !.again = {} ]]
  /\ UNCHANGED << pod, cordoned, hook >>

\* wait_until_empty; a poll that finds a pod sleeps and tries again.
WaitUntilEmpty(i) ==
  /\ inv[i].pc = "wait"
  /\ EvictablePods = {}
  /\ Goto(i, "complete")
  /\ UNCHANGED << pod, cordoned, hook >>

\* complete_lifecycle_action.  An action that is over is refused with a
\* ClientError, which the handler does not catch.
AnswerHook(i) ==
  /\ inv[i].pc \in {"complete", "abandon"}
  /\ hook' = IF hook # "wait" THEN hook ELSE IF inv[i].pc = "complete" THEN "continue" ELSE "abandon"
  /\ Goto(i, "over")
  /\ UNCHANGED << pod, cordoned >>

\* ApiException from any call but an eviction: answer ABANDON.
ApiError(i) ==
  /\ inv[i].pc \in {"exists", "cordon", "list", "wait"}
  /\ Goto(i, "abandon")
  /\ UNCHANGED << pod, cordoned, hook >>

\* Any other exception, or the 900 s of the Lambda are over: no answer.
InvocationDies(i) ==
  /\ inv[i].pc \notin {"off", "over"}
  /\ Goto(i, "over")
  /\ UNCHANGED << pod, cordoned, hook >>

---------------------------------------------------------------------------
(* Kubernetes and the autoscaling group *)

\* The scheduler binds a pod to the node; a DaemonSet ignores the cordon.
Schedule(p) ==
  /\ hook # "terminated"
  /\ pod[p] = "away"
  /\ ~cordoned \/ p \in DaemonPods
  /\ pod' = [pod EXCEPT ![p] = "running"]
  /\ UNCHANGED << cordoned, hook, inv >>

\* A pod ends: by itself, or because it was told to within its grace period.
PodEnds(p) ==
  /\ pod[p] # "away"
  /\ pod' = [pod EXCEPT ![p] = "away"]
  /\ UNCHANGED << cordoned, hook, inv >>

\* heartbeat_timeout is over; the default result is ABANDON.
HookExpires ==
  /\ hook = "wait"
  /\ hook' = "abandon"
  /\ UNCHANGED << pod, cordoned, inv >>

\* Both answers let the instance go, and what is on it.
Terminate ==
  /\ hook \in {"continue", "abandon"}
  /\ hook' = "terminated"
  /\ pod' = [p \in Pods |-> "away"]
  /\ UNCHANGED << cordoned, inv >>

---------------------------------------------------------------------------

\* The steps by which an invocation gets on.
Progress(i) ==
  \/ NodeExists(i) \/ NodeMissing(i) \/ CordonNode(i) \/ ListPods(i)
  \/ \E p \in Pods : EvictAccepted(i, p) \/ EvictRefused(i, p) \/ EvictFails(i, p)
  \/ EvictNextPass(i) \/ WaitUntilEmpty(i) \/ AnswerHook(i)

Next ==
  \/ \E i \in Invocations : Invoke(i) \/ Progress(i) \/ ApiError(i) \/ InvocationDies(i)
  \/ \E p \in Pods : Schedule(p) \/ PodEnds(p)
  \/ HookExpires \/ Terminate

\* An invocation gets on, and a pod that is told to terminate does.  Nothing is
\* assumed of disruption budgets, which may refuse for ever, of errors and timeouts,
\* of pods that end by themselves and of the hook.
Fairness ==
  /\ \A i \in Invocations : WF_ndVars(Progress(i))
  /\ \A p \in Pods : WF_ndVars(pod[p] = "terminating" /\ PodEnds(p))

Spec == Init /\ [][Next]_ndVars /\ Fairness

---------------------------------------------------------------------------
(* Properties *)

\* CONTINUE is answered for an empty node only: whatever the invocations do to
\* each other, no agent is on the node when the drainer lets the instance go,
\* and none comes back before it has gone.
ContinueMeansEmpty == hook = "continue" => EvictablePods = {}

\* An invocation waits only for pods that are on their way out, and for those
\* whose eviction failed with an unexpected error, which nobody asks again.
WaitsForTheDoomed ==
  \A i \in Invocations :
    inv[i].pc = "wait" => \A p \in EvictablePods : pod[p] = "terminating" \/ p \in inv[i].dropped

\* An invocation comes to an end of its own unless disruption budgets go on refusing
\* its pods or an eviction failed unexpectedly: a refused pod is tried again in every
\* pass, so that it is over once the budgets yield, and nothing but those two and the
\* timeout of the Lambda, other invocations and DaemonSets included, can keep it.
InvocationEnds ==
  \A i \in Invocations :
    []<>(inv[i].pc \in {"off", "over"} \/ inv[i].again # {} \/ inv[i].dropped # {})

---------------------------------------------------------------------------
(* The inductive invariant behind the first two *)

\* What an invocation relies on: once the node is cordoned the pods to be
\* evicted only get fewer, and each of them is listed, done, or given up.
InvocationKnows(i) ==
  /\ inv[i].pc \in {"list", "evict", "wait", "complete"} => cordoned
  /\ inv[i].pc \in {"evict", "wait"} =>
       \A p \in EvictablePods :
         pod[p] = "terminating" \/ p \in inv[i].todo \cup inv[i].again \cup inv[i].dropped
  /\ inv[i].pc = "wait" => inv[i].todo = {} /\ inv[i].again = {}
  /\ inv[i].pc = "complete" => EvictablePods = {}

NdInv ==
  /\ NdTypeOK
  /\ hook = "continue" => cordoned /\ EvictablePods = {}
  /\ \A i \in Invocations : InvocationKnows(i)

=============================================================================
