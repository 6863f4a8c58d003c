------------------------------ MODULE PriorityQueue ------------------------------
(***************************************************************************)
(* The task queue of a grid with priorities: api/task_queue_priority_sqs.  *)
(* py puts one SQS queue for each priority behind the interface of one     *)
(* queue.  A receive scans the queues from the highest priority down, one  *)
(* call after the other; delete and change_visibility have to find the     *)
(* queue a message came from again, by a lookup table in the memory of the *)
(* process that received it, or else by the priority of the task.          *)
(*                                                                         *)
(* The agents receive and rely on the table; the TTL checker receives      *)
(* nothing and passes the priority it reads from the row.  Claims, the     *)
(* heartbeat and the retries are the subject of TaskScheduler: here a      *)
(* processing task may be taken back at any time.  Beside Tasks there is   *)
(* an unbounded stream of tasks of other sessions, of every priority.      *)
(***************************************************************************)
EXTENDS TaskQueue

CONSTANTS
  Tasks,             \* task ids
  Agents,            \* agent processes
  NoTask,            \* an agent or the checker handles no task
  PrioritiesCount    \* "priorities" of the queue's configuration

ASSUME PqTasksAssumption == NoTask \notin Tasks
ASSUME PrioritiesAssumption == PrioritiesCount \in Nat \ {0}

VARIABLES
  row,       \* status, priority and receipt handle in the state table
  msg,       \* the message of each task
  queue,     \* the priority of the queue the message was sent to
  agent,     \* where each agent is, and its QueuePrioritySQS object
  checker    \* the TTL checker, between its update of the row and its call

pqVars == << row, msg, queue, agent, checker >>

---------------------------------------------------------------------------

Priorities == 0 .. PrioritiesCount - 1

\* A message handle: the task and the number of the receive.
Handles == Tasks \X (1 .. MaxReceiveCount)

\* lookup   msg_handle_to_queue_lookup
\* at       the priority whose queue the scan polls next
\* due      history: tasks receivable ever since the scan began, but for those
\*          that a poll of their queue did not return
IdleAgent == [ pc |-> "idle", task |-> NoTask, handle |-> 0, at |-> 0, due |-> {} ]

IdleChecker == [ pc |-> "off", task |-> NoTask ]

PqRow ==
  [ status : {"absent", "pending", "processing", "finished", "failed"},
    priority : Priorities, handle : 0 .. MaxReceiveCount ]

PqMessage == [ loc : Location, receives : 0 .. MaxReceiveCount ]

Proc ==
  [ pc : {"idle", "scan", "other", "received", "claimed", "running", "finished"},
    task : Tasks \cup {NoTask}, handle : 0 .. MaxReceiveCount, at : Priorities,
    due : SUBSET Tasks ]

PqAgent == [ proc : Proc, lookup : SUBSET (Handles \X Priorities) ]

\* The state space of table, queues and processes.
PqTypeOK ==
  /\ row \in [Tasks -> PqRow]
  /\ msg \in [Tasks -> PqMessage]
  /\ queue \in [Tasks -> Priorities]
  /\ agent \in [Agents -> PqAgent]
  /\ checker \in [ pc : {"off", "reset", "fail"}, task : Tasks \cup {NoTask} ]

Init ==
  /\ row = [t \in Tasks |-> [ status |-> "absent", priority |-> 0, handle |-> 0 ]]
  /\ msg = [t \in Tasks |-> NoMessage]
  /\ queue = [t \in Tasks |-> 0]
  /\ agent = [a \in Agents |-> [ proc |-> IdleAgent, lookup |-> {} ]]
  /\ checker = IdleChecker

---------------------------------------------------------------------------
(* submit_tasks: the session's priority goes into the row and selects the  *)
(* queue.  Without a context in the event it is 0; for one without a queue *)
(* send_messages raises, which is a rejected submission of TaskScheduler.  *)

Submit_RowWithoutPriority(t, p) ==
  /\ row[t].status = "absent"
  /\ row' = [row EXCEPT ![t] = [ row[t] EXCEPT !.status = "pending" ]]
  /\ msg' = [msg EXCEPT ![t] = Send(@)]
  /\ queue' = [queue EXCEPT ![t] = p]
  /\ UNCHANGED << agent, checker >>

Submit(t, p) ==
  /\ row[t].status = "absent"
  /\ row' = [row EXCEPT ![t] = [ row[t] EXCEPT !.status = "pending", !.priority = p ]]
  /\ msg' = [msg EXCEPT ![t] = Send(@)]
  /\ queue' = [queue EXCEPT ![t] = p]
  /\ UNCHANGED << agent, checker >>

---------------------------------------------------------------------------
(* QueuePrioritySQS.receive_message *)

\* The process goes on; its lookup table stays as it is.
Becomes(a, proc) == agent' = [agent EXCEPT ![a] = [ agent[a] EXCEPT !.proc = proc ]]

\* The priorities a scan polls, highest first, and where it goes from p.
FirstPriority_Lowest == 0

FirstPriority == PrioritiesCount - 1

Receivable(t) == CanReceive(msg[t])

StartScan(a) ==
  /\ agent[a].proc.pc = "idle"
  /\ Becomes(a, [ IdleAgent EXCEPT !.pc = "scan", !.at = FirstPriority,
                                   !.due = { t \in Tasks : Receivable(t) } ])
  /\ UNCHANGED << row, msg, queue, checker >>

\* The queue object a handle came from is remembered.
Remember(a, t) ==
  agent[a].lookup \cup { << << t, msg[t].receives + 1 >>, agent[a].proc.at >> }

\* The task is not receivable throughout the scans under way.
NoLonger(t, b) ==
  [ agent[b] EXCEPT !.proc = [ agent[b].proc EXCEPT !.due = agent[b].proc.due \ {t} ]]

PollHit(a, t) ==
  /\ agent[a].proc.pc = "scan"
  /\ Receivable(t) /\ queue[t] = agent[a].proc.at
  /\ msg' = [msg EXCEPT ![t] = Receive(@)]
  /\ agent' = [b \in Agents |->
       IF b = a
         THEN [ proc |-> [ agent[a].proc EXCEPT !.pc = "received", !.task = t, !.handle = msg[t].receives + 1 ],
                lookup |-> Remember(a, t) ]
         ELSE NoLonger(t, b)]
  /\ UNCHANGED << row, queue, checker >>

PollEmpty_StopsEarly(a) ==
  LET proc == agent[a].proc IN
  /\ proc.pc = "scan"
  /\ Becomes(a, IF proc.at <= 1 THEN IdleAgent
                ELSE [ proc EXCEPT !.at = @ - 1, !.due = { t \in @ : queue[t] # proc.at } ])
  /\ UNCHANGED << row, msg, queue, checker >>

PollEmpty_PastLast(a) ==
  LET proc == agent[a].proc IN
  /\ proc.pc = "scan"
  /\ Becomes(a, [ proc EXCEPT !.at = @ - 1, !.due = { t \in @ : queue[t] # proc.at } ])
  /\ UNCHANGED << row, msg, queue, checker >>

\* The poll returns nothing.  It is a short poll, which asks some of the
\* servers of SQS only and may miss what others hold.
PollEmpty(a) ==
  LET proc == agent[a].proc IN
  /\ proc.pc = "scan"
  /\ Becomes(a, IF proc.at = 0 THEN IdleAgent
                ELSE [ proc EXCEPT !.at = @ - 1, !.due = { t \in @ : queue[t] # proc.at } ])
  /\ UNCHANGED << row, msg, queue, checker >>

\* The poll returns the message of a task that is not among Tasks.
PollOther(a) ==
  /\ agent[a].proc.pc = "scan"
  /\ Becomes(a, [ IdleAgent EXCEPT !.pc = "other" ])
  /\ UNCHANGED << row, msg, queue, checker >>

---------------------------------------------------------------------------
(* __get_queue_object: the queues a call for the handle may be made on;    *)
(* an empty set is the exception.                                          *)

QueueByHandle(lookup, t, h) == { q \in Priorities : << << t, h >>, q >> \in lookup }

QueueByPriority(p) == {p} \cap Priorities

AgentQueue(a) == QueueByHandle(agent[a].lookup, agent[a].proc.task, agent[a].proc.handle)

CheckerQueue == QueueByPriority(row[checker.task].priority)

---------------------------------------------------------------------------
(* The agent's calls, without a priority *)

AtPc(a, pc) == agent[a].proc.pc = pc

\* The end of a task for the process.
ToIdle(a) == Becomes(a, IdleAgent)

\* An exception ends the process, the table with it.
ProcessEnds(a) == agent' = [agent EXCEPT ![a] = [ proc |-> IdleAgent, lookup |-> {} ]]

\* The agent is done with that task, whatever became of it.
OtherDone(a) ==
  /\ AtPc(a, "other")
  /\ ToIdle(a)
  /\ UNCHANGED << row, msg, queue, checker >>

Claim(a) ==
  LET proc == agent[a].proc IN
  /\ AtPc(a, "received")
  /\ row[proc.task].status = "pending"
  /\ row' = [row EXCEPT ![proc.task] =
       [ row[proc.task] EXCEPT !.status = "processing", !.handle = proc.handle ]]
  /\ Becomes(a, [ proc EXCEPT !.pc = "claimed", !.at = 0, !.due = {} ])
  /\ UNCHANGED << msg, queue, checker >>

ClaimRejected(a) ==
  /\ AtPc(a, "received")
  /\ ToIdle(a)
  /\ UNCHANGED << row, msg, queue, checker >>

Hold(a) ==
  LET t == agent[a].proc.task IN
  /\ AtPc(a, "claimed")
  /\ queue[t] \in AgentQueue(a) /\ CanChangeVisibility(msg[t])
  /\ msg' = [msg EXCEPT ![t] = [ msg[t] EXCEPT !.loc = "held" ]]
  /\ Becomes(a, [ agent[a].proc EXCEPT !.pc = "running" ])
  /\ UNCHANGED << row, queue, checker >>

HoldRaises(a) ==
  LET t == agent[a].proc.task IN
  /\ AtPc(a, "claimed")
  /\ queue[t] \notin AgentQueue(a) \/ MayRefuseVisibility(msg[t], agent[a].proc.handle)
  /\ ProcessEnds(a)
  /\ UNCHANGED << row, msg, queue, checker >>

Finish(a) ==
  LET t == agent[a].proc.task IN
  /\ AtPc(a, "running")
  /\ row[t].status = "processing" /\ row[t].handle = agent[a].proc.handle
  /\ row' = [row EXCEPT ![t] = [ row[t] EXCEPT !.status = "finished" ]]
  /\ Becomes(a, [ agent[a].proc EXCEPT !.pc = "finished" ])
  /\ UNCHANGED << msg, queue, checker >>

FinishRejected(a) ==
  LET t == agent[a].proc.task IN
  /\ AtPc(a, "running")
  /\ ~(row[t].status = "processing" /\ row[t].handle = agent[a].proc.handle)
  /\ ToIdle(a)
  /\ UNCHANGED << row, msg, queue, checker >>

Delete(a) ==
  LET t == agent[a].proc.task IN
  /\ AtPc(a, "finished")
  /\ queue[t] \in AgentQueue(a)
  /\ \E m \in DeleteOutcomes(msg[t], agent[a].proc.handle) : msg' = [msg EXCEPT ![t] = m]
  /\ agent' = [b \in Agents |-> IF b = a THEN [ agent[a] EXCEPT !.proc = IdleAgent ] ELSE NoLonger(t, b)]
  /\ UNCHANGED << row, queue, checker >>

Crash(a) ==
  /\ agent[a].proc.pc # "idle"
  /\ ProcessEnds(a)
  /\ UNCHANGED << row, msg, queue, checker >>

---------------------------------------------------------------------------
(* The TTL checker's calls, with the priority from the row *)

TtlRetry(t) ==
  /\ checker.pc = "off" /\ row[t].status = "processing"
  /\ row' = [row EXCEPT ![t] = [ row[t] EXCEPT !.status = "pending" ]]
  /\ checker' = [ pc |-> "reset", task |-> t ]
  /\ UNCHANGED << msg, queue, agent >>

TtlReset ==
  LET t == checker.task IN
  /\ checker.pc = "reset"
  /\ queue[t] \in CheckerQueue /\ CanChangeVisibility(msg[t])
  /\ msg' = [msg EXCEPT ![t] = Reappear(@)]
  /\ checker' = IdleChecker
  /\ UNCHANGED << row, queue, agent >>

\* fail_task of a task whose retries are used up: message first, then row.
TtlFail(t) ==
  /\ checker.pc = "off" /\ row[t].status = "processing"
  /\ checker' = [ pc |-> "fail", task |-> t ]
  /\ UNCHANGED << row, msg, queue, agent >>

TtlDelete ==
  LET t == checker.task IN
  /\ checker.pc = "fail"
  /\ queue[t] \in CheckerQueue
  /\ \E m \in DeleteOutcomes(msg[t], row[t].handle) : msg' = [msg EXCEPT ![t] = m]
  /\ row' = [row EXCEPT ![t] = [ row[t] EXCEPT !.status = "failed" ]]
  /\ agent' = [a \in Agents |-> NoLonger(t, a)]
  /\ checker' = IdleChecker
  /\ UNCHANGED queue

\* The call is refused or raises, or the invocation ends.
TtlStops ==
  /\ checker.pc # "off"
  /\ checker' = IdleChecker
  /\ UNCHANGED << row, msg, queue, agent >>

---------------------------------------------------------------------------
(* SQS *)

VisibilityLapse(t) ==
  /\ Hidden(msg[t])
  /\ msg' = [msg EXCEPT ![t] = Reappear(@)]
  /\ UNCHANGED << row, queue, agent, checker >>

RedriveMessage(t) ==
  /\ CanRedrive(msg[t])
  /\ msg' = [msg EXCEPT ![t] = Redrive(@)]
  /\ UNCHANGED << row, queue, agent, checker >>

AgentStep(a) ==
  \/ StartScan(a) \/ (\E t \in Tasks : PollHit(a, t)) \/ PollEmpty(a) \/ PollOther(a) \/ OtherDone(a)
  \/ Claim(a) \/ ClaimRejected(a) \/ Hold(a) \/ HoldRaises(a)
  \/ Finish(a) \/ FinishRejected(a) \/ Delete(a)

Next ==
  \/ \E t \in Tasks , p \in Priorities : Submit(t, p)
  \/ \E a \in Agents : AgentStep(a) \/ Crash(a)
  \/ \E t \in Tasks : TtlRetry(t) \/ TtlFail(t)
  \/ TtlReset \/ TtlDelete \/ TtlStops
  \/ \E t \in Tasks : VisibilityLapse(t) \/ RedriveMessage(t)

\* An agent goes on with what it does and does not die at the same point of its
\* scan for ever, and a message whose queue is polled again and again is not missed,
\* or passed over for others of that queue, each time.  Nothing is assumed of how
\* often polls find tasks of other sessions.
Fairness ==
  /\ \A a \in Agents :
       /\ WF_pqVars(AgentStep(a))
       /\ \A p \in Priorities :
            SF_pqVars(agent[a].proc.at = p /\ (PollEmpty(a) \/ PollOther(a)))
  /\ \A t \in Tasks : SF_pqVars(\E a \in Agents : PollHit(a, t))

Spec == Init /\ [][Next]_pqVars /\ Fairness

---------------------------------------------------------------------------
(* Properties *)

\* Every call is made on the queue that holds the message: the table of an
\* agent knows each handle the agent still works under, across takeovers and
\* restarts, and the row sends the checker to the queue the message went to.
CallsReachTheMessage ==
  /\ \A a \in Agents :
       agent[a].proc.pc \in {"received", "claimed", "running", "finished"}
         => AgentQueue(a) = {queue[agent[a].proc.task]}
  /\ checker.pc # "off" => CheckerQueue = {queue[checker.task]}

\* Engines pull "respecting the rank of priority": an agent that received a
\* task passed over a more urgent one only if that one arrived while the scan
\* was under way, or was missed by a short poll of its queue.
NoInversion ==
  \A a \in Agents :
    agent[a].proc.pc = "received" =>
      \A u \in agent[a].proc.due : queue[u] <= queue[agent[a].proc.task]

\* A message of any priority, the lowest too, is received in the end unless polls
\* find more urgent tasks for ever: the scan is strict, so that a stream of those
\* starves the others, and nothing else does.
EveryPriorityServed ==
  \A t \in Tasks :
    \/ Receivable(t) ~> ~Receivable(t)
    \/ []<><<\E a \in Agents : PollOther(a) /\ agent[a].proc.at > queue[t]>>_pqVars

---------------------------------------------------------------------------
(* The inductive invariant *)

\* The row says which queue the message went to, and nothing is sent or received
\* before there is a row.
RowKnowsQueue ==
  \A t \in Tasks :
    /\ row[t].priority = queue[t]
    /\ row[t].status = "absent" => msg[t].loc = "unsent" /\ msg[t].receives = 0

\* Entries of the lookup table are right, and are about receives that happened.
LookupIsRight(a) ==
  \A t \in Tasks, h \in 1 .. MaxReceiveCount, q \in Priorities :
    << << t, h >>, q >> \in agent[a].lookup => q = queue[t] /\ h <= msg[t].receives

\* The handle an agent works under has an entry.
HandleIsKnown(a) ==
  agent[a].proc.pc \in {"received", "claimed", "running", "finished"} =>
    /\ agent[a].proc.task \in Tasks
    /\ << << agent[a].proc.task, agent[a].proc.handle >>, queue[agent[a].proc.task] >> \in agent[a].lookup

\* What is due was sent, and is no more urgent than where the scan has got to.
DueIsBelow(a) ==
  \A u \in agent[a].proc.due :
    /\ row[u].status # "absent"
    /\ agent[a].proc.pc = "scan" => queue[u] <= agent[a].proc.at
    /\ agent[a].proc.pc = "received" => queue[u] <= queue[agent[a].proc.task]

CheckerHasTask == checker.pc # "off" => checker.task \in Tasks

PqInv ==
  /\ PqTypeOK
  /\ RowKnowsQueue /\ CheckerHasTask
  /\ \A a \in Agents : LookupIsRight(a) /\ HandleIsKnown(a) /\ DueIsBelow(a)

=============================================================================
