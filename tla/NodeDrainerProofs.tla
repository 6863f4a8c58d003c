---------------------------- MODULE NodeDrainerProofs ----------------------------
(***************************************************************************)
(* NdInv is an invariant of NodeDrainer for every set of pods and any      *)
(* number of invocations, whatever the disruption budgets, the errors and  *)
(* the lifecycle hook do.                                                  *)
(***************************************************************************)
EXTENDS NodeDrainer, TLAPS

\* The step of an invocation; every other step is one of the environment.
InvocationStep(i) == Invoke(i) \/ Progress(i) \/ ApiError(i) \/ InvocationDies(i)

\* Once the node is cordoned no pod that is to be evicted comes to it, and one
\* that is being terminated does not start to run again.
LEMMA PodsOnlyLeave ==
  ASSUME NdTypeOK, [Next]_ndVars
  PROVE  /\ cordoned => cordoned'
         /\ cordoned => EvictablePods' \subseteq EvictablePods
         /\ \A p \in EvictablePods' : pod[p] = "terminating" => pod'[p] = "terminating"
<1> USE DEF NdTypeOK, EvictablePods, OnNode, IsEvictable
<1>1. ASSUME NEW i \in Invocations, NEW p \in Pods, EvictAccepted(i, p)
      PROVE  UNCHANGED cordoned /\ EvictablePods' = EvictablePods
             /\ \A q \in Pods : pod[q] = "terminating" => pod'[q] = "terminating"
  BY <1>1 DEF EvictAccepted
<1>2. ASSUME NEW i \in Invocations, InvocationStep(i), ~ \E p \in Pods : EvictAccepted(i, p)
      PROVE  UNCHANGED pod /\ (cordoned => cordoned')
  <2>1. CASE \E p \in Pods : EvictRefused(i, p) \/ EvictFails(i, p)
    BY <2>1 DEF EvictRefused, EvictFails
  <2>2. CASE NodeExists(i) \/ NodeMissing(i) \/ CordonNode(i) \/ ListPods(i) \/ EvictNextPass(i)
             \/ WaitUntilEmpty(i) \/ AnswerHook(i)
    BY <2>2 DEF NodeExists, NodeMissing, CordonNode, ListPods, EvictNextPass, WaitUntilEmpty, AnswerHook
  <2>3. CASE Invoke(i) \/ ApiError(i) \/ InvocationDies(i)
    BY <2>3 DEF Invoke, ApiError, InvocationDies
  <2> QED  BY <1>2, <2>1, <2>2, <2>3 DEF InvocationStep, Progress
<1>3. ASSUME NEW p \in Pods, Schedule(p) \/ PodEnds(p)
      PROVE  /\ UNCHANGED cordoned
             /\ cordoned => EvictablePods' \subseteq EvictablePods
             /\ \A q \in EvictablePods' : pod[q] = "terminating" => pod'[q] = "terminating"
  BY <1>3 DEF Schedule, PodEnds
<1>4. CASE HookExpires \/ Terminate \/ UNCHANGED ndVars
  BY <1>4 DEF HookExpires, Terminate, ndVars
<1> QED  BY <1>1, <1>2, <1>3, <1>4 DEF Next, InvocationStep

\* Every action keeps to the state space: only evictable pods are listed, so
\* those of a DaemonSet never get among the pods to evict.
LEMMA NdTypeStep == NdTypeOK /\ [Next]_ndVars => NdTypeOK'
<1> SUFFICES ASSUME NdTypeOK, [Next]_ndVars PROVE NdTypeOK'
  OBVIOUS
<1> USE DEF NdTypeOK
<1>0. \A i \in Invocations : inv[i] \in InvocationState
  OBVIOUS
<1>1. ASSUME NEW i \in Invocations, NEW pc \in {"exists", "cordon", "list", "complete", "abandon", "over"},
             Goto(i, pc), UNCHANGED pod, cordoned' \in BOOLEAN,
             hook' \in {"wait", "continue", "abandon", "terminated"}
      PROVE  NdTypeOK'
  BY <1>1 DEF Goto, InvocationState
<1>2. ASSUME NEW i \in Invocations, Invoke(i) \/ NodeExists(i) \/ NodeMissing(i) \/ CordonNode(i)
                                    \/ WaitUntilEmpty(i) \/ ApiError(i) \/ InvocationDies(i)
      PROVE  NdTypeOK'
  BY <1>1, <1>2 DEF Invoke, NodeExists, NodeMissing, CordonNode, WaitUntilEmpty, ApiError, InvocationDies
<1>3. ASSUME NEW i \in Invocations, AnswerHook(i) PROVE NdTypeOK'
  BY <1>1, <1>3 DEF AnswerHook
<1>4. ASSUME NEW i \in Invocations, ListPods(i) PROVE NdTypeOK'
  <2> DEFINE v == [ inv[i] EXCEPT !.pc = "evict", !.todo = EvictablePods ]
  <2>1. EvictablePods \in SUBSET (Pods \ DaemonPods)
    BY DEF EvictablePods, OnNode, IsEvictable
  <2>2. v \in InvocationState
    BY <1>0, <2>1 DEF InvocationState
  <2>3. inv' = [inv EXCEPT ![i] = v] /\ UNCHANGED << pod, cordoned, hook >>
    BY <1>4 DEF ListPods
  <2> HIDE DEF v
  <2> QED
    BY <2>2, <2>3
<1>5. ASSUME NEW i \in Invocations, NEW p \in Pods, EvictAccepted(i, p) PROVE NdTypeOK'
  BY <1>0, <1>5 DEF EvictAccepted, InvocationState
<1>6. ASSUME NEW i \in Invocations, NEW p \in Pods, EvictRefused(i, p) \/ EvictFails(i, p) PROVE NdTypeOK'
  <2>1. inv[i].todo \ {p} \in SUBSET (Pods \ DaemonPods)  BY <1>0 DEF InvocationState
  <2>2. p \in Pods \ DaemonPods  BY <1>0, <1>6 DEF EvictRefused, EvictFails, InvocationState
  <2>3. /\ inv[i].again \cup {p} \in SUBSET (Pods \ DaemonPods)
        /\ inv[i].dropped \cup {p} \in SUBSET (Pods \ DaemonPods)
    BY <1>0, <2>2 DEF InvocationState
  <2>4. CASE EvictRefused(i, p)
    <3> DEFINE r == [ inv[i] EXCEPT !.todo = @ \ {p}, !.again = @ \cup {p} ]
    <3>1. r \in InvocationState  BY <1>0, <2>1, <2>3 DEF InvocationState
    <3>2. inv' = [inv EXCEPT ![i] = r] /\ UNCHANGED << pod, cordoned, hook >>  BY <2>4 DEF EvictRefused
    <3> HIDE DEF r
    <3> QED  BY <3>1, <3>2
  <2>5. CASE EvictFails(i, p)
    <3> DEFINE r == [ inv[i] EXCEPT !.todo = @ \ {p}, !.dropped = @ \cup {p} ]
    <3>1. r \in InvocationState  BY <1>0, <2>1, <2>3 DEF InvocationState
    <3>2. inv' = [inv EXCEPT ![i] = r] /\ UNCHANGED << pod, cordoned, hook >>  BY <2>5 DEF EvictFails
    <3> HIDE DEF r
    <3> QED  BY <3>1, <3>2
  <2> QED  BY <1>6, <2>4, <2>5
<1>7. ASSUME NEW i \in Invocations, EvictNextPass(i) PROVE NdTypeOK'
  <2>1. inv[i].again \in SUBSET (Pods \ DaemonPods)  BY <1>0 DEF InvocationState
  <2>2. \A pc \in {"wait", "evict"} :
          [ inv[i] EXCEPT !.pc = pc, !.todo = inv[i].again, !.again = {} ] \in InvocationState
    BY <1>0, <2>1 DEF InvocationState
  <2> QED  BY <1>7, <2>2 DEF EvictNextPass
<1>8. ASSUME NEW p \in Pods, Schedule(p) \/ PodEnds(p) PROVE NdTypeOK'
  BY <1>8 DEF Schedule, PodEnds
<1>9. CASE HookExpires \/ Terminate \/ UNCHANGED ndVars
  BY <1>9 DEF HookExpires, Terminate, ndVars
<1> QED  BY <1>1, <1>2, <1>3, <1>4, <1>5, <1>6, <1>7, <1>8, <1>9 DEF Next, Progress

\* What an invocation relies on is kept by its own steps, and by the steps of
\* the others and of the cluster, since the pods only get fewer.
LEMMA InvocationKnowsStep ==
  ASSUME NdInv, [Next]_ndVars, NEW j \in Invocations
  PROVE  InvocationKnows(j)'
<1>0. /\ NdTypeOK /\ InvocationKnows(j) /\ inv[j] \in InvocationState
      /\ inv \in [Invocations -> InvocationState]
  BY DEF NdInv, NdTypeOK
<1>1. /\ cordoned => cordoned'
      /\ cordoned => EvictablePods' \subseteq EvictablePods
      /\ \A p \in EvictablePods' : pod[p] = "terminating" => pod'[p] = "terminating"
  BY <1>0, PodsOnlyLeave
<1>2. ASSUME inv'[j] = inv[j] PROVE InvocationKnows(j)'
  BY <1>0, <1>1, <1>2 DEF InvocationKnows
<1>3. ASSUME NEW i \in Invocations, InvocationStep(i), i # j PROVE InvocationKnows(j)'
  <2>1. inv'[j] = inv[j]
    BY <1>0, <1>3
    DEF InvocationStep, Invoke, Progress, NodeExists, NodeMissing, CordonNode, ListPods, EvictAccepted,
        EvictRefused, EvictFails, EvictNextPass, WaitUntilEmpty, AnswerHook, ApiError, InvocationDies, Goto
  <2> QED  BY <1>2, <2>1
<1>4. ASSUME InvocationStep(j) PROVE InvocationKnows(j)'
  <2>1. CASE Invoke(j) \/ NodeExists(j) \/ NodeMissing(j) \/ AnswerHook(j) \/ ApiError(j) \/ InvocationDies(j)
    <3>1. inv'[j].pc \in {"exists", "cordon", "abandon", "over"}
      BY <1>0, <2>1
      DEF Invoke, NodeExists, NodeMissing, AnswerHook, ApiError, InvocationDies, Goto, InvocationState
    <3> QED  BY <3>1 DEF InvocationKnows
  <2>2. CASE CordonNode(j)
    BY <1>0, <2>2 DEF CordonNode, Goto, InvocationKnows
  <2>3. CASE ListPods(j)
    <3>1. EvictablePods' = EvictablePods  BY <2>3 DEF ListPods, EvictablePods, OnNode
    <3>2. inv'[j].pc = "evict" /\ inv'[j].todo = EvictablePods
      BY <1>0, <2>3 DEF ListPods, InvocationState
    <3>3. cordoned'  BY <1>0, <2>3 DEF ListPods, InvocationKnows
    <3> QED  BY <3>1, <3>2, <3>3 DEF InvocationKnows
  <2>4. ASSUME NEW p \in Pods, EvictAccepted(j, p) PROVE InvocationKnows(j)'
    <3>1. /\ inv'[j].pc = "evict" /\ inv'[j].todo = inv[j].todo \ {p}
          /\ inv'[j].again = inv[j].again /\ inv'[j].dropped = inv[j].dropped
      BY <1>0, <2>4 DEF EvictAccepted, InvocationState
    <3>2. inv[j].pc = "evict" /\ pod'[p] = "terminating"
      BY <1>0, <2>4 DEF EvictAccepted, NdTypeOK
    <3> QED  BY <1>0, <1>1, <3>1, <3>2 DEF InvocationKnows
  <2>5. ASSUME NEW p \in Pods, EvictRefused(j, p) \/ EvictFails(j, p) PROVE InvocationKnows(j)'
    <3>1. /\ inv[j].pc = "evict" /\ inv'[j].pc = "evict"
          /\ inv[j].todo \cup inv[j].again \cup inv[j].dropped
               \subseteq inv'[j].todo \cup inv'[j].again \cup inv'[j].dropped
      <4>1. CASE EvictRefused(j, p)
        <5>1. /\ inv'[j].pc = inv[j].pc /\ inv'[j].todo = inv[j].todo \ {p}
              /\ inv'[j].again = inv[j].again \cup {p} /\ inv'[j].dropped = inv[j].dropped
          BY <1>0, <4>1 DEF EvictRefused, InvocationState
        <5> QED  BY <4>1, <5>1 DEF EvictRefused
      <4>2. CASE EvictFails(j, p)
        <5>1. /\ inv'[j].pc = inv[j].pc /\ inv'[j].todo = inv[j].todo \ {p}
              /\ inv'[j].again = inv[j].again /\ inv'[j].dropped = inv[j].dropped \cup {p}
          BY <1>0, <4>2 DEF EvictFails, InvocationState
        <5> QED  BY <4>2, <5>1 DEF EvictFails
      <4> QED  BY <2>5, <4>1, <4>2
    <3> QED  BY <1>0, <1>1, <3>1 DEF InvocationKnows
  <2>6. CASE EvictNextPass(j)
    <3>1. /\ inv[j].pc = "evict" /\ inv[j].todo = {}
          /\ inv'[j].pc = IF inv[j].again = {} THEN "wait" ELSE "evict"
          /\ inv'[j].todo = inv[j].again /\ inv'[j].again = {} /\ inv'[j].dropped = inv[j].dropped
      BY <1>0, <2>6 DEF EvictNextPass, InvocationState
    <3> QED  BY <1>0, <1>1, <3>1 DEF InvocationKnows
  <2>7. CASE WaitUntilEmpty(j)
    <3>1. inv[j].pc = "wait" /\ inv'[j].pc = "complete" /\ EvictablePods = {}
      BY <1>0, <2>7 DEF WaitUntilEmpty, Goto, InvocationState
    <3> QED  BY <1>0, <1>1, <3>1 DEF InvocationKnows
  <2> QED  BY <1>4, <2>1, <2>2, <2>3, <2>4, <2>5, <2>6, <2>7 DEF InvocationStep, Progress
<1>5. CASE (\E p \in Pods : Schedule(p) \/ PodEnds(p)) \/ HookExpires \/ Terminate \/ UNCHANGED ndVars
  BY <1>2, <1>5 DEF Schedule, PodEnds, HookExpires, Terminate, ndVars
<1> QED  BY <1>3, <1>4, <1>5 DEF Next, InvocationStep

---------------------------------------------------------------------------

\* Node, hook and invocations keep to their state space; in particular the pods
\* of a DaemonSet (pod_is_evictable) are never among those to evict.
THEOREM NdTypeCorrect == Spec => []NdTypeOK
<1>1. Init => NdTypeOK
  <2>1. NewInvocation \in InvocationState  BY DEF NewInvocation, InvocationState
  <2> QED  BY <2>1 DEF Init, NdTypeOK
<1> QED  BY <1>1, NdTypeStep, PTL DEF Spec

\* The inductive invariant holds in every reachable state.
THEOREM NdInvariant == Spec => []NdInv
<1>1. Init => NdInv
  <2> SUFFICES ASSUME Init PROVE NdInv
    OBVIOUS
  <2>1. NewInvocation \in InvocationState  BY DEF NewInvocation, InvocationState
  <2>2. NdTypeOK  BY <2>1 DEF Init, NdTypeOK
  <2>3. \A i \in Invocations : InvocationKnows(i)
    BY DEF Init, NewInvocation, InvocationKnows
  <2> QED  BY <2>2, <2>3 DEF Init, NdInv
<1>2. NdInv /\ [Next]_ndVars => NdInv'
  <2> SUFFICES ASSUME NdInv, [Next]_ndVars PROVE NdInv'
    OBVIOUS
  <2>1. NdTypeOK'  BY NdTypeStep DEF NdInv
  <2>2. \A i \in Invocations : InvocationKnows(i)'  BY InvocationKnowsStep
  <2>3. (hook = "continue" => cordoned /\ EvictablePods = {})'
    <3>1. /\ cordoned => cordoned'
          /\ cordoned => EvictablePods' \subseteq EvictablePods
      BY PodsOnlyLeave DEF NdInv
    <3>2. hook' = "continue" =>
            hook = "continue" \/ \E i \in Invocations : inv[i].pc = "complete"
      <4>1. ASSUME NEW i \in Invocations, AnswerHook(i), hook' = "continue"
            PROVE  hook = "continue" \/ inv[i].pc = "complete"
        BY <4>1 DEF AnswerHook
      <4>2. ASSUME NEW i \in Invocations, InvocationStep(i), ~AnswerHook(i) PROVE hook' = hook
        BY <4>2
        DEF InvocationStep, Invoke, Progress, NodeExists, NodeMissing, CordonNode, ListPods, EvictAccepted,
            EvictRefused, EvictFails, EvictNextPass, WaitUntilEmpty, ApiError, InvocationDies
      <4>3. CASE (\E p \in Pods : Schedule(p) \/ PodEnds(p)) \/ UNCHANGED ndVars
        BY <4>3 DEF Schedule, PodEnds, ndVars
      <4>4. CASE HookExpires \/ Terminate
        BY <4>4 DEF HookExpires, Terminate
      <4> QED  BY <4>1, <4>2, <4>3, <4>4 DEF Next, InvocationStep
    <3>3. hook' = "continue" => cordoned /\ EvictablePods = {}
      BY <3>2 DEF NdInv, InvocationKnows
    <3> QED  BY <3>1, <3>3
  <2> QED  BY <2>1, <2>2, <2>3 DEF NdInv
<1> QED  BY <1>1, <1>2, PTL DEF Spec

\* The drainer answers CONTINUE (handler.py, complete_lifecycle_action) for an
\* empty node only, for any number of pods and invocations.
THEOREM ContinueOnlyWhenEmpty == Spec => []ContinueMeansEmpty
<1>1. NdInv => ContinueMeansEmpty  BY DEF NdInv, ContinueMeansEmpty
<1> QED  BY <1>1, NdInvariant, PTL

\* wait_until_empty waits for terminating pods and for those that evict_pods
\* gave up, and for no others.
THEOREM WaitIsForTheDoomed == Spec => []WaitsForTheDoomed
<1>1. NdInv => WaitsForTheDoomed
  BY DEF NdInv, InvocationKnows, WaitsForTheDoomed
<1> QED  BY <1>1, NdInvariant, PTL

=============================================================================
