---------------------------- MODULE CapacityController ----------------------------
(***************************************************************************)
(* The EC2 capacity controller: one tick a minute of                       *)
(* lambda/capacity_controller/ec2_capacity_controller.py over the          *)
(* instances ORB manages, their drain tags, the commands sent to them over *)
(* SSM, and the agents on them, which go on receiving and finishing tasks  *)
(* between any two calls of a tick.  Ticks do not overlap                  *)
(* (reserved_concurrent_executions = 1).                                   *)
(*                                                                         *)
(* Instances are numbered in the order of their launch, so that oldest     *)
(* first is smallest first; ids are not used again.  Capacity is counted   *)
(* in vCPUs: those an instance has, and those a tick takes it to have.     *)
(***************************************************************************)
EXTENDS Integers, FiniteSets, FiniteSetsExt

CONSTANTS
  MaxInstances,     \* bound: instances launched in a behaviour
  VcpusOf,          \* vCPUs of each instance
  Reports,          \* what _vcpus_of may make of ORB's status
  Backlogs,         \* queue lengths a tick may read
  TargetPerPair,    \* TARGET_PENDING_PER_PAIR
  PairCpu,          \* PAIR_CPU
  MinVcpus,         \* MIN_VCPUS
  MaxVcpus,         \* MAX_VCPUS
  Failures          \* the outside calls that may fail

Instances == 1 .. MaxInstances

ASSUME InstancesAssumption ==
  /\ MaxInstances \in Nat
  /\ Reports \subseteq [Instances -> Nat \ {0}] /\ VcpusOf \in Reports
ASSUME TargetAssumption ==
  /\ Backlogs \subseteq Nat /\ Backlogs # {}
  /\ TargetPerPair \in Nat \ {0} /\ PairCpu \in Nat \ {0}
  /\ MinVcpus \in Nat /\ MaxVcpus \in Nat /\ MinVcpus <= MaxVcpus
ASSUME FailuresAssumption ==
  Failures \subseteq {"status", "tags", "busy", "ssm", "orb", "crash"}

VARIABLES
  inst,   \* every instance: launched or not, tags, workers, work, commands under way
  tick,   \* the invocation under way and what it has read
  exact   \* history: every status so far was the live fleet and its true sizes

vars == << inst, tick, exact >>

---------------------------------------------------------------------------
(* State *)

NotLaunched ==
  [ state |-> "none", tag |-> "none", workers |-> "down", work |-> "idle", cmds |-> {} ]

Launched == [ NotLaunched EXCEPT !.state = "live", !.workers = "up" ]

Gone == [ NotLaunched EXCEPT !.state = "gone" ]

\* tag      none, draining, or overdue once drain_deadline has passed
\* workers  the compose project: up, stopping (SIGTERM received), down
\* work     idle, seen (in flight and shown as live by the heartbeat index), or
\*          unseen (just claimed, or the heartbeat is late)
\* cmds     SSM commands that have not run yet
Instance ==
  {NotLaunched, Gone} \cup
  [ state   : {"live"},
    tag     : {"none", "draining", "overdue"},
    workers : {"up", "stopping", "down"},
    work    : {"idle", "unseen", "seen"},
    cmds    : SUBSET {"stop", "start"} ]

Tick ==
  [ pc       : {"off", "list", "tags", "busy", "start", "untag", "resend",
                "terminate", "create", "cordon", "stop"},
    desired  : Nat,
    seen     : SUBSET Instances,
    size     : Reports,
    draining : SUBSET Instances,
    overdue  : SUBSET Instances,
    known    : BOOLEAN,
    busy     : SUBSET Instances ]

NoTick == [ pc |-> "off", desired |-> 0, seen |-> {}, size |-> VcpusOf, draining |-> {},
            overdue |-> {}, known |-> FALSE, busy |-> {} ]

\* The state space of fleet and tick.
TypeOK == inst \in [Instances -> Instance] /\ tick \in Tick /\ exact \in BOOLEAN

Init == inst = [i \in Instances |-> NotLaunched] /\ tick = NoTick /\ exact = TRUE

Live == { i \in Instances : inst[i].state = "live" }

EverLaunched == { i \in Instances : inst[i].state # "none" }

\* The vCPUs of a set of instances of these sizes, each one a pair, and their number
Cpus(size, S) == UNION { {i} \X (1 .. size[i]) : i \in S }

Vcpus(size, S) == Cardinality(Cpus(size, S))

\* Oldest first, whole instances, while those before do not cover n
Oldest(size, S, n) == { i \in S : Vcpus(size, { d \in S : d < i }) < n }

---------------------------------------------------------------------------
(* What a tick decides from what it has read *)

DesiredVcpus(backlog) ==
  LET pairs  == (backlog + TargetPerPair - 1) \div TargetPerPair
      wanted == pairs * PairCpu
  IN  Max({MinVcpus, Min({MaxVcpus, wanted})})

Active == tick.seen \ tick.draining

Deficit == tick.desired - Vcpus(tick.size, Active)

\* _sweep_draining, oldest first: taken back while a deficit is left
Reclaimed == Oldest(tick.size, tick.draining, Deficit)

\* _sweep_draining: drained or past the deadline
Terminable_NotReclaimed ==
  { i \in tick.draining : (tick.known /\ i \notin tick.busy) \/ i \in tick.overdue }

Terminable ==
  { i \in tick.draining \ Reclaimed :
      (tick.known /\ i \notin tick.busy) \/ i \in tick.overdue }

\* _sweep_draining: still busy
StillBusy_AllDraining == tick.draining \cap tick.busy

StillBusy == { i \in tick.draining \ Reclaimed : i \in tick.busy } \ Terminable

Shortfall_BeforeReclaim == Deficit

Shortfall == Deficit - Vcpus(tick.size, Reclaimed)

\* _victim_key: idle before busy, then oldest
DrainsBefore(i, j) ==
  \/ i \notin tick.busy /\ j \in tick.busy
  \/ (i \in tick.busy <=> j \in tick.busy) /\ i < j

\* _scale_down: whole instances until they cover the surplus
Victims ==
  { i \in Active :
      tick.known /\ Vcpus(tick.size, { d \in Active : DrainsBefore(d, i) }) < -Deficit }

---------------------------------------------------------------------------
(* Outside calls *)

\* create_tags: sets the deadline anew on an instance that has one
Tagged(i) == [ inst[i] EXCEPT !.tag = "draining" ]

Untagged(i) == [ inst[i] EXCEPT !.tag = "none" ]

\* _send_compose_command: errors are logged only, that of an id no longer known too;
\* commands run later, in any order
SendCommand_Any(S, c) ==
  inst' = [i \in Instances |->
    IF i \in S THEN [ inst[i] EXCEPT !.cmds = inst[i].cmds \cup {c} ] ELSE inst[i]]

SendCommand(S, c) ==
  \/ inst' = [i \in Instances |->
       IF i \in S \cap Live
       THEN [ inst[i] EXCEPT !.cmds = inst[i].cmds \cup {c} ] ELSE inst[i]]
  \/ ("ssm" \in Failures \/ ~ (S \subseteq Live)) /\ UNCHANGED inst

\* ORB adds instances until their vCPUs meet the target
NewInstances(n) ==
  Oldest(VcpusOf, Instances \ EverLaunched, n)

---------------------------------------------------------------------------
(* The tick *)

Goto(p) == tick' = [ tick EXCEPT !.pc = p ] /\ UNCHANGED exact

TickStart(b) ==
  /\ tick.pc = "off"
  /\ tick' = [ NoTick EXCEPT !.pc = "list", !.desired = DesiredVcpus(b) ]
  /\ UNCHANGED << inst, exact >>

\* list_live and _vcpus_of.  ORB lists a cache that is refreshed best effort: it may
\* lack machines that are up, show machines that are gone, and have no size for
\* them.  An error is answered with 500 and no body, which list_live makes an empty
\* list of.
TickList(listed, size) ==
  /\ tick.pc = "list"
  /\ "status" \in Failures \/ (listed = Live /\ size = VcpusOf)
  /\ tick' = [ tick EXCEPT !.pc = "tags", !.seen = listed, !.size = size ]
  /\ exact' = (exact /\ listed = Live /\ size = VcpusOf)
  /\ UNCHANGED inst

\* The deadline is compared with the time the tick began, a moment ago.
TickTags ==
  /\ tick.pc = "tags"
  /\ tick' = [ tick EXCEPT !.pc = "busy",
                 !.draining = { i \in tick.seen : inst[i].tag # "none" },
                 !.overdue = { i \in tick.seen : inst[i].tag = "overdue" } ]
  /\ UNCHANGED << inst, exact >>

\* read_drain_state answers {}: every instance looks active.  One id that EC2 no
\* longer knows is enough.
TickTagsFail ==
  /\ "tags" \in Failures \/ ~ (tick.seen \subseteq Live)
  /\ tick.pc = "tags"
  /\ Goto("busy")
  /\ UNCHANGED inst

TickBusy ==
  /\ tick.pc = "busy"
  /\ tick' = [ tick EXCEPT !.pc = "start", !.known = TRUE,
                 !.busy = { i \in Live : inst[i].work = "seen" } ]
  /\ UNCHANGED << inst, exact >>

\* The state table is throttling: None.
TickBusyUnknown ==
  /\ "busy" \in Failures
  /\ tick.pc = "busy"
  /\ Goto("start")
  /\ UNCHANGED inst

TickUncordonStart ==
  /\ tick.pc = "start"
  /\ SendCommand(Reclaimed, "start")
  /\ Goto("untag")

TickUncordonUntag ==
  /\ tick.pc = "untag"
  /\ inst' = [i \in Instances |-> IF i \in Reclaimed THEN Untagged(i) ELSE inst[i]]
  /\ Goto("resend")

TickResendStop ==
  /\ tick.pc = "resend"
  /\ SendCommand(StillBusy, "stop")
  /\ Goto("terminate")

TickTerminate ==
  /\ tick.pc = "terminate"
  /\ inst' = [i \in Instances |-> IF i \in Terminable THEN Gone ELSE inst[i]]
  /\ Goto("create")

TickCreate ==
  /\ tick.pc = "create"
  /\ inst' = [i \in Instances |-> IF i \in NewInstances(Shortfall) THEN Launched ELSE inst[i]]
  /\ Goto("cordon")

\* An error of the orchestrator is part of the answer, which is only logged.
TickOrbFails ==
  /\ "orb" \in Failures
  /\ \/ tick.pc = "terminate" /\ Goto("create")
     \/ tick.pc = "create" /\ Goto("cordon")
  /\ UNCHANGED inst

TickCordonTag ==
  /\ tick.pc = "cordon"
  /\ inst' = [i \in Instances |-> IF i \in Victims \cap Live THEN Tagged(i) ELSE inst[i]]
  /\ Goto("stop")

TickCordonStop ==
  /\ tick.pc = "stop"
  /\ SendCommand(Victims, "stop")
  /\ tick' = NoTick
  /\ UNCHANGED exact

\* A timeout, a crash or an exception that nothing catches, such as that of
\* create_tags for an id that EC2 no longer knows.
TickAbort ==
  /\ "crash" \in Failures
  /\ tick.pc # "off"
  /\ tick' = NoTick
  /\ UNCHANGED << inst, exact >>

TickStep ==
  \/ \E b \in Backlogs : TickStart(b)
  \/ \E listed \in SUBSET EverLaunched, size \in Reports : TickList(listed, size)
  \/ TickTags \/ TickTagsFail \/ TickBusy \/ TickBusyUnknown
  \/ TickUncordonStart \/ TickUncordonUntag \/ TickResendStop
  \/ TickTerminate \/ TickCreate \/ TickOrbFails \/ TickCordonTag \/ TickCordonStop
  \/ TickAbort

---------------------------------------------------------------------------
(* The instance: event_loop and GracefulKiller.  kill_now is looked at     *)
(* between two tasks only, so an agent that is waiting for a message when  *)
(* it gets SIGTERM may still claim the one it receives.                    *)

Change(i, rec) == inst' = [inst EXCEPT ![i] = rec] /\ UNCHANGED << tick, exact >>

AgentClaims(i) ==
  /\ inst[i].state = "live" /\ inst[i].workers # "down" /\ inst[i].work = "idle"
  /\ Change(i, [ inst[i] EXCEPT !.work = "unseen" ])

HeartbeatShows(i) ==
  /\ inst[i].work = "unseen"
  /\ Change(i, [ inst[i] EXCEPT !.work = "seen" ])

HeartbeatLate(i) ==
  /\ inst[i].work = "seen"
  /\ Change(i, [ inst[i] EXCEPT !.work = "unseen" ])

AgentFinishes(i) ==
  /\ inst[i].work # "idle"
  /\ Change(i, [ inst[i] EXCEPT !.work = "idle",
                   !.workers = IF inst[i].workers = "stopping" THEN "down" ELSE inst[i].workers ])

\* The loop ends; or stop_grace_period does, and the task with it.
WorkersExit(i) ==
  /\ inst[i].workers = "stopping"
  /\ Change(i, [ inst[i] EXCEPT !.work = "idle", !.workers = "down" ])

RunStop(i) ==
  /\ "stop" \in inst[i].cmds
  /\ Change(i, [ inst[i] EXCEPT !.cmds = inst[i].cmds \ {"stop"},
                   !.workers = IF inst[i].workers = "up" THEN "stopping" ELSE inst[i].workers ])

\* Starting containers that have not exited yet changes nothing.
RunStart(i) ==
  /\ "start" \in inst[i].cmds
  /\ Change(i, [ inst[i] EXCEPT !.cmds = inst[i].cmds \ {"start"},
                   !.workers = IF inst[i].workers = "down" THEN "up" ELSE inst[i].workers ])

DeadlinePasses(i) ==
  /\ inst[i].tag = "draining"
  /\ Change(i, [ inst[i] EXCEPT !.tag = "overdue" ])

InstanceStep(i) ==
  \/ AgentClaims(i) \/ HeartbeatShows(i) \/ HeartbeatLate(i) \/ AgentFinishes(i)
  \/ WorkersExit(i) \/ RunStop(i) \/ RunStart(i) \/ DeadlinePasses(i)

Next == TickStep \/ \E i \in Instances : InstanceStep(i)

Spec == Init /\ [][Next]_vars

---------------------------------------------------------------------------
(* Fairness: EventBridge goes on scheduling ticks, a tick ends, no call of *)
(* it fails for ever, and deadlines pass.  Nothing is assumed of SSM, of   *)
(* agents or of their tasks, which may run for ever.                       *)

Fairness ==
  /\ WF_vars(TickStep)
  /\ SF_vars(TickList(Live, VcpusOf))
  /\ \A i \in Instances :
       /\ WF_vars(DeadlinePasses(i))
       /\ SF_vars(i \in tick.seen /\ TickTags)
       /\ SF_vars(i \in tick.overdue /\ (TickBusy \/ TickBusyUnknown))
       /\ SF_vars(i \in tick.overdue /\ TickUncordonStart)
       /\ SF_vars(i \in tick.overdue /\ TickUncordonUntag)
       /\ SF_vars(i \in tick.overdue /\ TickResendStop)
       /\ SF_vars(i \in tick.overdue /\ TickTerminate)

FairSpec == Spec /\ Fairness

---------------------------------------------------------------------------
(* Properties *)

\* No instance is terminated but one that is marked draining at that moment:
\* not one that is active, nor one the same tick has just taken back.
TerminatedWasDraining ==
  [][ \A i \in Instances :
        inst[i].state = "live" /\ inst'[i].state = "gone" => inst[i].tag # "none" ]_vars

\* A stop command is sent only to an instance that is marked draining when it is
\* sent, on the cordon and on the repetitions of the sweep alike: an instance the
\* same tick has taken back is not stopped behind its back, and a tick that dies
\* between tag and command leaves tagged instances only.
StopOnlyDraining ==
  [][ \A i \in Instances :
        "stop" \in inst'[i].cmds /\ "stop" \notin inst[i].cmds => inst[i].tag # "none" ]_vars

\* As long as ORB's status has shown the live fleet with its true sizes to every
\* tick, the fleet is over MAX_VCPUS by less than one of its instances: without that
\* one it is below the limit, draining instances, failed calls and ticks that die
\* anywhere included.  One status that lacks a machine, or sizes it too small, is
\* enough to go over the limit, as ADR-005 says of a create that is not listed yet.
FleetBounded ==
  exact => Live = {} \/ \E i \in Live : Vcpus(VcpusOf, Live \ {i}) < MaxVcpus

\* A draining instance is taken back or terminated in the end, even if no stop
\* command ever reaches it and its task never ends: "the drain_deadline tag
\* guarantees eventual termination" (ADR-003).
DrainEnds ==
  \A i \in Instances : inst[i].tag # "none" ~> inst[i].tag = "none"

---------------------------------------------------------------------------
(* The inductive invariant *)

\* What a tick has read is not read before its call, draining instances are among
\* those listed, and the target keeps to MAX_VCPUS.
ReadInOrder ==
  /\ tick.pc \in {"off", "list", "tags"} => tick.draining = {}
  /\ tick.draining \subseteq tick.seen
  /\ tick.desired <= MaxVcpus

\* What the tick takes for draining stays tagged until the tick itself untags it.
DrainingIsTagged ==
  /\ tick.pc \in {"busy", "start", "untag"} =>
       \A i \in tick.draining : inst[i].tag # "none"
  /\ tick.pc \in {"resend", "terminate"} =>
       \A i \in tick.draining \ Reclaimed : inst[i].tag # "none"

\* Victims that are live are tagged before they are sent the stop command.
VictimIsTagged == tick.pc = "stop" => \A i \in Victims \cap Live : inst[i].tag # "none"

CapacityInv == TypeOK /\ ReadInOrder /\ DrainingIsTagged /\ VictimIsTagged

\* While the status is exact, a tick knows the whole fleet until it creates.
FleetIsListed ==
  exact /\ tick.pc \in {"tags", "busy", "start", "untag", "resend", "terminate", "create"} =>
    Live \subseteq tick.seen /\ tick.size = VcpusOf

FleetInv == CapacityInv /\ FleetIsListed /\ FleetBounded

=============================================================================
