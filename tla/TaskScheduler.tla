------------------------------ MODULE TaskScheduler ------------------------------
(***************************************************************************)
(* The scheduling core of HTC-Grid for the tasks of one session: the       *)
(* submit_tasks and cancel_tasks Lambdas, the agents that execute tasks,   *)
(* and the TTL checker Lambda that takes tasks away from agents whose      *)
(* heartbeat stopped.  They share nothing but the state table (StateTable) *)
(* and the task queue (TaskQueue); every call to one of the two is a step  *)
(* of its own, so that any other actor may move between two calls.         *)
(*                                                                         *)
(* A process that dies, a Lambda that times out and an exception that ends *)
(* a loop are the same step: the local state is lost, nothing is undone.   *)
(***************************************************************************)
EXTENDS StateTable, TaskQueue, FiniteSets

CONSTANTS
  Tasks,                   \* the task ids of the session
  NoTask,                  \* an agent or a checker that handles no task
  Checkers,                \* TTL checker invocations that may run at once
  TtlCheckerLoads,         \* whether the checker's module can be imported: not at
                           \* this commit, whose value is FALSE
  TasksOutliveVisibility   \* whether a task may run longer than its 3600 s

ASSUME TasksAssumption == NoTask \notin Tasks
ASSUME FlagsAssumption ==
  TtlCheckerLoads \in BOOLEAN /\ TasksOutliveVisibility \in BOOLEAN

VARIABLES
  submission,   \* outcome of the submit_tasks invocation
  row,          \* the state table
  msg,          \* the task queue
  output,       \* whose result the data plane holds
  agent,        \* where each agent is in its event loop
  checker,      \* where each TTL checker invocation is
  cancel        \* where the cancel_tasks invocation is

vars == << submission, row, msg, output, agent, checker, cancel >>

---------------------------------------------------------------------------
(* Types and initial state *)

\* An agent that holds a claim, or held one until it finished the task.
ExecutingPc == {"claimed", "running", "stored", "finished"}

IdleAgent == [ pc |-> "idle", task |-> NoTask, handle |-> 0 ]

AgentState ==
  {IdleAgent} \cup
  [ pc : {"received", "rejected"} \cup ExecutingPc, task : Tasks, handle : Nat ]

ReadyChecker == [ pc |-> "off", todo |-> {}, task |-> NoTask, retries |-> 0, handle |-> 0 ]

CheckerState ==
  [ pc : {"off", "scan", "decide", "reset", "failing"}, todo : SUBSET Tasks,
    task : Tasks \cup {NoTask}, retries : 0 .. MaxRetries, handle : Nat ]

ReadyCancel == [ pc |-> "off", todo |-> {}, missed |-> {} ]

\* The status a cancellation is at and the listed rows it has not overwritten
\* yet.  "missed" is a history variable: rows that were in the status of a scan
\* and were not listed by it.
CancelState ==
  [ pc : {"off", "pending", "processing"}, todo : SUBSET Tasks, missed : SUBSET Tasks ]

\* The state space of the components.
TypeOK ==
  /\ submission \in {"open", "accepted", "rejected"}
  /\ row \in [Tasks -> Row]
  /\ msg \in [Tasks -> Message]
  /\ output \in [Tasks -> Agents \cup {None}]
  /\ agent \in [Agents -> AgentState]
  /\ checker \in [Checkers -> CheckerState]
  /\ cancel \in CancelState

Init ==
  /\ submission = "open"
  /\ row = [t \in Tasks |-> NoRow]
  /\ msg = [t \in Tasks |-> NoMessage]
  /\ output = [t \in Tasks |-> None]
  /\ agent = [a \in Agents |-> IdleAgent]
  /\ checker = [c \in Checkers |-> ReadyChecker]
  /\ cancel = ReadyCancel

---------------------------------------------------------------------------
(* submit_tasks: all rows first, then the messages, then the answer.  An   *)
(* exception at any point answers 543 and leaves what was written.         *)

WriteRow(t) ==
  /\ submission = "open"
  /\ row[t].status = "absent"
  /\ row' = [row EXCEPT ![t] = NewRow]
  /\ UNCHANGED << submission, msg, output, agent, checker, cancel >>

SendMessage_BeforeRows(t) ==
  /\ submission = "open"
  /\ msg[t].loc = "unsent"
  /\ msg' = [msg EXCEPT ![t] = Send(@)]
  /\ UNCHANGED << submission, row, output, agent, checker, cancel >>

SendMessage(t) ==
  /\ submission = "open"
  /\ \A u \in Tasks : row[u].status # "absent"
  /\ msg[t].loc = "unsent"
  /\ msg' = [msg EXCEPT ![t] = Send(@)]
  /\ UNCHANGED << submission, row, output, agent, checker, cancel >>

AcceptSubmission_EarlyAnswer ==
  /\ submission = "open"
  /\ \A u \in Tasks : row[u].status # "absent"
  /\ submission' = "accepted"
  /\ UNCHANGED << row, msg, output, agent, checker, cancel >>

AcceptSubmission ==
  /\ submission = "open"
  /\ \A u \in Tasks : msg[u].loc # "unsent"
  /\ submission' = "accepted"
  /\ UNCHANGED << row, msg, output, agent, checker, cancel >>

RejectSubmission ==
  /\ submission = "open"
  /\ submission' = "rejected"
  /\ UNCHANGED << row, msg, output, agent, checker, cancel >>

---------------------------------------------------------------------------
(* The agent: try_to_acquire_a_task *)

AgentReceive(a, t) ==
  /\ agent[a].pc = "idle"
  /\ CanReceive(msg[t])
  /\ msg' = [msg EXCEPT ![t] = Receive(@)]
  /\ agent' = [agent EXCEPT ![a] =
                 [ pc |-> "received", task |-> t, handle |-> msg[t].receives + 1 ]]
  /\ UNCHANGED << submission, row, output, checker, cancel >>

AgentClaim(a) ==
  LET t == agent[a].task IN
  /\ agent[a].pc = "received"
  /\ CanClaim(row[t])
  /\ row' = [row EXCEPT ![t] = Claim(@, a, agent[a].handle)]
  /\ agent' = [agent EXCEPT ![a].pc = "claimed"]
  /\ UNCHANGED << submission, msg, output, checker, cancel >>

\* The condition of the claim does not hold, or the table is throttling: the
\* latter can happen in any state, so there is no guard on the row.
AgentClaimRejected(a) ==
  /\ agent[a].pc = "received"
  /\ agent' = [agent EXCEPT ![a].pc = "rejected"]
  /\ UNCHANGED << submission, row, msg, output, checker, cancel >>

AgentDropCancelled_AnyStatus(a) ==
  LET t == agent[a].task IN
  /\ agent[a].pc = "rejected"
  /\ \E m \in DeleteOutcomes(msg[t], agent[a].handle) : msg' = [msg EXCEPT ![t] = m]
  /\ agent' = [agent EXCEPT ![a] = IdleAgent]
  /\ UNCHANGED << submission, row, output, checker, cancel >>

\* is_task_has_been_cancelled found the row cancelled: remove its message.
AgentDropCancelled(a) ==
  LET t == agent[a].task IN
  /\ agent[a].pc = "rejected"
  /\ row[t].status = "cancelled"
  /\ \E m \in DeleteOutcomes(msg[t], agent[a].handle) : msg' = [msg EXCEPT ![t] = m]
  /\ agent' = [agent EXCEPT ![a] = IdleAgent]
  /\ UNCHANGED << submission, row, output, checker, cancel >>

\* Not cancelled, or the throttled read returned None: leave the message to
\* its visibility timeout.
AgentSkip(a) ==
  /\ agent[a].pc = "rejected"
  /\ agent' = [agent EXCEPT ![a] = IdleAgent]
  /\ UNCHANGED << submission, row, msg, output, checker, cancel >>

AgentHoldMessage(a) ==
  LET t == agent[a].task IN
  /\ agent[a].pc = "claimed"
  /\ CanChangeVisibility(msg[t])
  /\ msg' = [msg EXCEPT ![t].loc = "held"]
  /\ agent' = [agent EXCEPT ![a].pc = "running"]
  /\ UNCHANGED << submission, row, output, checker, cancel >>

\* change_visibility raised: the exception ends the agent, the claim stays.
AgentHoldRefused(a) ==
  /\ agent[a].pc = "claimed"
  /\ MayRefuseVisibility(msg[agent[a].task], agent[a].handle)
  /\ agent' = [agent EXCEPT ![a] = IdleAgent]
  /\ UNCHANGED << submission, row, msg, output, checker, cancel >>

---------------------------------------------------------------------------
(* The agent: run_task, the heartbeat coroutine *)

AgentRefresh(a) ==
  LET t == agent[a].task IN
  /\ agent[a].pc = "running"
  /\ CanRefresh(row[t], a)
  /\ row' = [row EXCEPT ![t] = Refresh(@)]
  /\ UNCHANGED << submission, msg, output, agent, checker, cancel >>

\* The refresh is refused.  If the task was cancelled the code means to remove
\* the message, but sqs_msg is a dictionary without a delete method; that
\* branch and every other one end the agent process with an exception.
AgentLosesTask(a) ==
  /\ agent[a].pc = "running"
  /\ ~CanRefresh(row[agent[a].task], a)
  /\ agent' = [agent EXCEPT ![a] = IdleAgent]
  /\ UNCHANGED << submission, row, msg, output, checker, cancel >>

---------------------------------------------------------------------------
(* The agent: run_task, the execution coroutine.  From the return of the   *)
(* worker to the end of process_subprocess_completion the coroutine does   *)
(* not yield, so the heartbeat coroutine does not run in "stored" and      *)
(* "finished".                                                             *)

\* The worker failed to bootstrap: the agent drops the task without a word.
AgentBootstrapError(a) ==
  /\ agent[a].pc = "running"
  /\ agent' = [agent EXCEPT ![a] = IdleAgent]
  /\ UNCHANGED << submission, row, msg, output, checker, cancel >>

AgentStoreOutput_Forgotten(a) ==
  /\ agent[a].pc = "running"
  /\ agent' = [agent EXCEPT ![a].pc = "stored"]
  /\ UNCHANGED << submission, row, msg, output, checker, cancel >>

\* The worker answered; the result goes to the data plane before the row is
\* looked at.
AgentStoreOutput(a) ==
  /\ agent[a].pc = "running"
  /\ output' = [output EXCEPT ![agent[a].task] = a]
  /\ agent' = [agent EXCEPT ![a].pc = "stored"]
  /\ UNCHANGED << submission, row, msg, checker, cancel >>

AgentFinish(a) ==
  LET t == agent[a].task IN
  /\ agent[a].pc = "stored"
  /\ CanFinish(row[t], a)
  /\ row' = [row EXCEPT ![t] = Finish(@)]
  /\ agent' = [agent EXCEPT ![a].pc = "finished"]
  /\ UNCHANGED << submission, msg, output, checker, cancel >>

\* The task was taken over or cancelled.  A throttled update is tried again,
\* which is a stuttering step.
AgentFinishRejected(a) ==
  /\ agent[a].pc = "stored"
  /\ ~CanFinish(row[agent[a].task], a)
  /\ agent' = [agent EXCEPT ![a] = IdleAgent]
  /\ UNCHANGED << submission, row, msg, output, checker, cancel >>

AgentDeleteMessage(a) ==
  LET t == agent[a].task IN
  /\ agent[a].pc = "finished"
  /\ \E m \in DeleteOutcomes(msg[t], agent[a].handle) : msg' = [msg EXCEPT ![t] = m]
  /\ agent' = [agent EXCEPT ![a] = IdleAgent]
  /\ UNCHANGED << submission, row, output, checker, cancel >>

\* The process dies and is started again under the same id.
AgentCrash(a) ==
  /\ agent[a].pc # "idle"
  /\ agent' = [agent EXCEPT ![a] = IdleAgent]
  /\ UNCHANGED << submission, row, msg, output, checker, cancel >>

---------------------------------------------------------------------------
(* The TTL checker *)

\* The checker goes to the next item of the page, or ends the page.
NextItem(c) ==
  checker' = [checker EXCEPT ![c] =
    [ pc |-> IF checker[c].todo = {} THEN "off" ELSE "scan", todo |-> checker[c].todo,
      task |-> NoTask, retries |-> 0, handle |-> 0 ]]

\* One page of query_expired_tasks: some of the expired rows, since the page
\* is limited and the index lags behind the table.
TtlQuery(c, S) ==
  /\ TtlCheckerLoads
  /\ checker[c].pc = "off"
  /\ S # {} /\ S \subseteq { t \in Tasks : IsExpired(row[t]) }
  /\ checker' = [checker EXCEPT ![c] = [ checker[c] EXCEPT !.pc = "scan", !.todo = S ]]
  /\ UNCHANGED << submission, row, msg, output, agent, cancel >>

\* Retries and handle of a listed row.  The read is eventually consistent; it is
\* taken to be no older than the expired heartbeat that got the row listed, and
\* neither value changes between that expiry and the checker's own retry.
TtlRead(c, t) ==
  /\ checker[c].pc = "scan"
  /\ t \in checker[c].todo
  /\ checker' = [checker EXCEPT ![c] =
       [ pc |-> "decide", todo |-> @.todo \ {t}, task |-> t,
         retries |-> row[t].retries, handle |-> row[t].handle ]]
  /\ UNCHANGED << submission, row, msg, output, agent, cancel >>

TtlRetry_NoLimit(c) ==
  LET t == checker[c].task IN
  /\ checker[c].pc = "decide"
  /\ CanRetry(row[t])
  /\ row' = [row EXCEPT ![t] = Retry(@, checker[c].retries + 1)]
  /\ checker' = [checker EXCEPT ![c].pc = "reset"]
  /\ UNCHANGED << submission, msg, output, agent, cancel >>

TtlRetry_SameCount(c) ==
  LET t == checker[c].task IN
  /\ checker[c].pc = "decide"
  /\ checker[c].retries # MaxRetries
  /\ CanRetry(row[t])
  /\ row' = [row EXCEPT ![t] = Retry(@, checker[c].retries)]
  /\ checker' = [checker EXCEPT ![c].pc = "reset"]
  /\ UNCHANGED << submission, msg, output, agent, cancel >>

TtlRetry(c) ==
  LET t == checker[c].task IN
  /\ checker[c].pc = "decide"
  /\ checker[c].retries # MaxRetries
  /\ CanRetry(row[t])
  /\ row' = [row EXCEPT ![t] = Retry(@, checker[c].retries + 1)]
  /\ checker' = [checker EXCEPT ![c].pc = "reset"]
  /\ UNCHANGED << submission, msg, output, agent, cancel >>

\* do_retry_task answers False: the row is no longer processing, or the table
\* is throttling.
TtlRetryRefused(c) ==
  /\ checker[c].pc = "decide"
  /\ checker[c].retries # MaxRetries
  /\ NextItem(c)
  /\ UNCHANGED << submission, row, msg, output, agent, cancel >>

TtlResetVisibility(c) ==
  LET t == checker[c].task IN
  /\ checker[c].pc = "reset"
  /\ CanChangeVisibility(msg[t])
  /\ msg' = [msg EXCEPT ![t] = Reappear(@)]
  /\ NextItem(c)
  /\ UNCHANGED << submission, row, output, agent, cancel >>

\* change_visibility raises TaskQueueException, which is not the ClientError
\* the handler continues after: the invocation ends.
TtlResetRefused(c) ==
  /\ checker[c].pc = "reset"
  /\ MayRefuseVisibility(msg[checker[c].task], checker[c].handle)
  /\ checker' = [checker EXCEPT ![c] = ReadyChecker]
  /\ UNCHANGED << submission, row, msg, output, agent, cancel >>

TtlFailDelete_AnyCount(c) ==
  LET t == checker[c].task IN
  /\ checker[c].pc = "decide"
  /\ \E m \in DeleteOutcomes(msg[t], checker[c].handle) : msg' = [msg EXCEPT ![t] = m]
  /\ checker' = [checker EXCEPT ![c].pc = "failing"]
  /\ UNCHANGED << submission, row, output, agent, cancel >>

\* fail_task, first half: the message goes before the row is marked.
TtlFailDelete(c) ==
  LET t == checker[c].task IN
  /\ checker[c].pc = "decide"
  /\ checker[c].retries = MaxRetries
  /\ \E m \in DeleteOutcomes(msg[t], checker[c].handle) : msg' = [msg EXCEPT ![t] = m]
  /\ checker' = [checker EXCEPT ![c].pc = "failing"]
  /\ UNCHANGED << submission, row, output, agent, cancel >>

\* fail_task, second half, whatever the row has become.
TtlFailRow(c) ==
  /\ checker[c].pc = "failing"
  /\ row' = [row EXCEPT ![checker[c].task] = Finalize(@, "failed")]
  /\ NextItem(c)
  /\ UNCHANGED << submission, msg, output, agent, cancel >>

\* Timeout, throttled read (None has no get) or any other exception.
TtlAbort(c) ==
  /\ checker[c].pc # "off"
  /\ checker' = [checker EXCEPT ![c] = ReadyChecker]
  /\ UNCHANGED << submission, row, msg, output, agent, cancel >>

---------------------------------------------------------------------------
(* cancel_tasks: list the pending rows and overwrite each, then the        *)
(* processing rows.  A client knows the session once it was accepted.  The *)
(* lists come from gsi_session_index, which is behind the table by any     *)
(* time: a scan lists some of the rows that are in its status or once      *)
(* were.  That covers a list of several pages too, a page read earlier     *)
(* being one that is further behind.                                       *)

OnceIn(status) ==
  { t \in Tasks : row[t].status # "absent" /\ (status = "processing" => row[t].handle # 0) }

\* The rows a scan should have listed.  What the first scan missed and the second
\* has is not missed.
Unlisted(status, L) == { t \in Tasks \ L : row[t].status = status }

CancelPending(L) ==
  /\ submission = "accepted"
  /\ cancel.pc = "off"
  /\ L \subseteq OnceIn("pending")
  /\ cancel' = [ pc |-> "pending", todo |-> L, missed |-> Unlisted("pending", L) ]
  /\ UNCHANGED << submission, row, msg, output, agent, checker >>

CancelProcessing_NotListed(L) ==
  /\ cancel.pc = "pending" /\ cancel.todo = {}
  /\ L = {}
  /\ cancel' = [ pc |-> "processing", todo |-> {}, missed |-> cancel.missed ]
  /\ UNCHANGED << submission, row, msg, output, agent, checker >>

CancelProcessing(L) ==
  /\ cancel.pc = "pending" /\ cancel.todo = {}
  /\ L \subseteq OnceIn("processing")
  /\ cancel' = [ pc |-> "processing", todo |-> L,
                 missed |-> (cancel.missed \ L) \cup Unlisted("processing", L) ]
  /\ UNCHANGED << submission, row, msg, output, agent, checker >>

CancelRow(t) ==
  /\ t \in cancel.todo
  /\ row' = [row EXCEPT ![t] = Finalize(@, "cancelled")]
  /\ cancel' = [cancel EXCEPT !.todo = cancel.todo \ {t}]
  /\ UNCHANGED << submission, msg, output, agent, checker >>

CancelDone ==
  /\ cancel.pc = "processing" /\ cancel.todo = {}
  /\ cancel' = ReadyCancel
  /\ UNCHANGED << submission, row, msg, output, agent, checker >>

\* Throttling or any other exception: answer 542, keep what was overwritten.
CancelAbort ==
  /\ cancel.pc # "off"
  /\ cancel' = ReadyCancel
  /\ UNCHANGED << submission, row, msg, output, agent, checker >>

---------------------------------------------------------------------------
(* Time: a heartbeat passes, a visibility timeout runs out, the redrive    *)
(* policy acts.                                                            *)

HeartbeatLapse(t) ==
  /\ row[t].status = "processing" /\ row[t].hb = "live"
  /\ row' = [row EXCEPT ![t].hb = "expired"]
  /\ UNCHANGED << submission, msg, output, agent, checker, cancel >>

\* An agent is at work on the task under the newest handle of its message.
HolderAtWork(t) ==
  \E a \in Agents : /\ agent[a].pc \in ExecutingPc
                    /\ agent[a].task = t
                    /\ agent[a].handle = msg[t].receives

VisibilityLapse(t) ==
  /\ Hidden(msg[t])
  /\ msg[t].loc = "held" => TasksOutliveVisibility \/ ~HolderAtWork(t)
  /\ msg' = [msg EXCEPT ![t] = Reappear(@)]
  /\ UNCHANGED << submission, row, output, agent, checker, cancel >>

RedriveMessage(t) ==
  /\ CanRedrive(msg[t])
  /\ msg' = [msg EXCEPT ![t] = Redrive(@)]
  /\ UNCHANGED << submission, row, output, agent, checker, cancel >>

---------------------------------------------------------------------------

SubmitStep == (\E t \in Tasks : WriteRow(t) \/ SendMessage(t)) \/ AcceptSubmission \/ RejectSubmission

\* The steps by which an agent gets on with the task it has received.
AgentProgress(a) ==
  \/ AgentClaim(a) \/ AgentClaimRejected(a) \/ AgentDropCancelled(a) \/ AgentSkip(a)
  \/ AgentHoldMessage(a) \/ AgentHoldRefused(a) \/ AgentLosesTask(a)
  \/ AgentBootstrapError(a) \/ AgentStoreOutput(a)
  \/ AgentFinish(a) \/ AgentFinishRejected(a) \/ AgentDeleteMessage(a)

AgentStep(a) ==
  \/ \E t \in Tasks : AgentReceive(a, t)
  \/ AgentProgress(a) \/ AgentRefresh(a) \/ AgentCrash(a)

\* The steps by which an invocation gets on with its page.
TtlProgress(c) ==
  \/ \E t \in Tasks : TtlRead(c, t)
  \/ TtlRetry(c) \/ TtlRetryRefused(c) \/ TtlResetVisibility(c) \/ TtlResetRefused(c)
  \/ TtlFailDelete(c) \/ TtlFailRow(c)

TtlStep(c) ==
  (\E S \in SUBSET Tasks : TtlQuery(c, S)) \/ TtlProgress(c) \/ TtlAbort(c)

CancelStep ==
  \/ \E L \in SUBSET Tasks : CancelPending(L) \/ CancelProcessing(L)
  \/ (\E t \in Tasks : CancelRow(t)) \/ CancelDone \/ CancelAbort

TimeStep == \E t \in Tasks : HeartbeatLapse(t) \/ VisibilityLapse(t) \/ RedriveMessage(t)

Next ==
  \/ SubmitStep
  \/ \E a \in Agents : AgentStep(a)
  \/ \E c \in Checkers : TtlStep(c)
  \/ CancelStep
  \/ TimeStep

Spec == Init /\ [][Next]_vars

---------------------------------------------------------------------------
(* Fairness.  An agent gets on with the task it has (a worker terminates,  *)
(* a throttled call is answered in the end, a dead pod is restarted); a    *)
(* visible message is in the end received by some agent; timers run out,   *)
(* the heartbeat of a task nobody works on included; and the checker is    *)
(* scheduled every minute and does not fail at the same point for ever.    *)
(* Nothing is assumed of crashes, cancellations, throttling or of the      *)
(* heartbeat of a task that is being worked on.                            *)

\* An agent that still believes to own the task, and does.
OwnerAtWork(t) ==
  \E a \in Agents : /\ agent[a].pc \in {"claimed", "running", "stored"}
                    /\ agent[a].task = t
                    /\ row[t].owner = a

Orphaned(t) == row[t].status = "processing" /\ ~OwnerAtWork(t)

Fairness ==
  /\ \A a \in Agents : WF_vars(AgentProgress(a))
  /\ \A t \in Tasks :
       /\ SF_vars(\E a \in Agents : AgentReceive(a, t))
       /\ WF_vars(Orphaned(t) /\ HeartbeatLapse(t))
       /\ WF_vars(VisibilityLapse(t))
       /\ WF_vars(RedriveMessage(t))
       /\ SF_vars(\E c \in Checkers, S \in SUBSET Tasks : t \in S /\ TtlQuery(c, S))
       /\ SF_vars(\E c \in Checkers : TtlRead(c, t))
  /\ \A c \in Checkers :
       /\ WF_vars(TtlProgress(c))
       /\ SF_vars(TtlRetry(c))
       /\ SF_vars(TtlFailDelete(c))
       /\ SF_vars(TtlFailRow(c))

FairSpec == Spec /\ Fairness

---------------------------------------------------------------------------
(* Safety *)

\* Agents that execute the task or have just finished it.
Executing(t) == { a \in Agents : agent[a].pc \in ExecutingPc /\ agent[a].task = t }

\* submit_tasks writes every row before it sends the first message, so an
\* agent never receives a message whose row claim_task_for_agent cannot find.
MessageHasRow ==
  \A t \in Tasks : msg[t].loc # "unsent" => row[t].status # "absent"

\* A task that waits for an agent can still be delivered or is in the dead
\* letter queue: no interleaving of agents, checker, cancellation and crashes
\* deletes the message of a task that is, or is put back to, pending.
NoStrandedTask ==
  \A t \in Tasks :
    row[t].status = "pending" /\ submission = "accepted"
      => InQueue(msg[t]) \/ msg[t].loc = "dlq"

\* A task is executed by no more agents at once than attempts were granted:
\* the first one and one for each retry the TTL checker counted in the row.
ExecutionsBounded ==
  \A t \in Tasks :
    Cardinality(Executing(t)) <=
      row[t].retries + (IF row[t].status \in {"absent", "pending"} THEN 0 ELSE 1)

\* Of all the agents that execute a task, one at most gets its completion
\* accepted and proceeds to delete the message.
AtMostOneCompletion ==
  \A a, b \in Agents :
    /\ agent[a].pc = "finished" /\ agent[b].pc = "finished"
    /\ agent[a].task = agent[b].task
    => a = b

\* The handle in the row of a task is the handle its owner works under, so
\* that the checker's visibility reset and delete hit the owner's message.
RowHandleIsOwners ==
  \A a \in Agents :
    LET t == agent[a].task IN
      /\ agent[a].pc \in {"claimed", "running", "stored"}
      /\ row[t].status = "processing" /\ row[t].owner = a
      => row[t].handle = agent[a].handle /\ row[t].handle <= msg[t].receives

\* A final state is earned: a task is finished only with an output in the data
\* plane, and failed only when all its retries are used up.
FinalStateEarned ==
  \A t \in Tasks :
    /\ row[t].status = "finished" => output[t] # None
    /\ row[t].status = "failed" => row[t].retries = MaxRetries

\* No task comes back from a final state to pending or processing, whatever
\* agents and checker invocations that still know the task do; and an
\* overwritten final state is never "finished" again.
FinalStateClosed ==
  [][ \A t \in Tasks :
        /\ row[t].status \in TerminalStatus => row'[t].status \in TerminalStatus
        /\ row[t].status \in {"failed", "cancelled"} => row'[t].status # "finished" ]_vars

\* A cancellation that ran to its end has ended every task of the session but
\* those the TTL checker once put back (a task that goes from processing to
\* pending between the two scans is in neither) and those whose row was in the
\* status of a scan while the index did not show it: a task that agents move on
\* between the scans and the updates is in one of the lists.
CancelMissesOnlyRetried ==
  [][ CancelDone =>
        \A t \in Tasks :
          row[t].status \in TerminalStatus \/ row[t].retries > 0 \/ t \in cancel.missed ]_vars

---------------------------------------------------------------------------
(* The scheduler implements the life cycle of a task.  A row that has a    *)
(* receipt handle was claimed at least once.                               *)

Lifecycle == INSTANCE TaskLifecycle WITH
  status  <- [t \in Tasks |-> row[t].status],
  retries <- [t \in Tasks |-> row[t].retries],
  started <- [t \in Tasks |-> row[t].handle # 0],
  result  <- [t \in Tasks |-> output[t] # None]

\* Seen through the state table and the data plane only, every behaviour of
\* queue, agents, checker and cancellation is one of TaskLifecycle.
ImplementsLifecycle == Lifecycle!Spec

---------------------------------------------------------------------------
(* Liveness *)

\* A task of an accepted session comes to a final state: what is said of
\* sessions that are accepted.  It takes a checker that can be imported, and
\* as many receives as there are attempts.
AcceptedTaskDecided ==
  \A t \in Tasks : submission = "accepted" ~> row[t].status \in TerminalStatus

\* What is left of it if the checker can be imported and its invocations do not
\* overlap: a task of an accepted session is decided or its message is in the
\* dead letter queue, where an operator finds it, though it is not executed.
\* There is no task that queue, agents and checker have all let go of.
AcceptedTaskSettles ==
  \A t \in Tasks :
    submission = "accepted" ~> row[t].status \in TerminalStatus \/ msg[t].loc = "dlq"

\* A task whose agent died, gave up or dropped it does not stay processing:
\* the TTL checker, if it can be imported, puts it back or fails it, or it is
\* cancelled.
OrphanRecovered ==
  \A t \in Tasks : Orphaned(t) ~> ~Orphaned(t)

---------------------------------------------------------------------------
(* The inductive invariant behind the safety properties *)

\* What holds of an agent that handles a task.
AgentKnows ==
  \A a \in Agents :
    LET t == agent[a].task IN
      /\ agent[a].pc # "idle" =>
           agent[a].handle \in 1 .. msg[t].receives /\ msg[t].loc # "unsent"
      /\ agent[a].pc \in ExecutingPc => row[t].handle # 0
      /\ agent[a].pc \in {"stored", "finished"} => output[t] # None
      /\ agent[a].pc = "finished" => row[t].status \in TerminalStatus

\* What holds of a row and its message.
RowKnows ==
  \A t \in Tasks :
    /\ submission = "accepted" => msg[t].loc # "unsent"
    /\ row[t].status = "absent" => row[t] = NoRow
    /\ row[t].status = "processing" => row[t].handle # 0
    /\ row[t].status = "finished" => output[t] # None

\* cancel_tasks works through rows that exist.
CancelKnows == \A t \in cancel.todo : row[t].status # "absent"

\* What a cancellation under way has still to list or to overwrite, but for the
\* tasks the TTL checker once put back and those a scan did not list.
CancelSweeps ==
  LET Excused(t) == row[t].retries > 0 \/ t \in cancel.missed IN
  /\ cancel.pc # "off" => \A t \in Tasks : row[t].status # "absent"
  /\ cancel.pc = "pending" =>
       \A t \in Tasks : row[t].status = "pending" => t \in cancel.todo \/ Excused(t)
  /\ cancel.pc = "processing" =>
       \A t \in Tasks : row[t].status \in TerminalStatus \/ t \in cancel.todo \/ Excused(t)

\* At most one TTL checker invocation runs at a time.
SingleChecker == \A c, d \in Checkers : c = d

\* The rows a lone checker has listed or read cannot go back to pending behind
\* its back, and their number of retries stays what it read.
CheckerKnows ==
  \A c \in Checkers :
    LET k == checker[c] IN
      /\ \A t \in k.todo : row[t].status \in {"processing"} \cup TerminalStatus
      /\ k.pc \in {"decide", "reset", "failing"} => k.task \in Tasks \ k.todo
      /\ k.pc \in {"decide", "failing"} =>
           /\ row[k.task].status \in {"processing"} \cup TerminalStatus
           /\ row[k.task].retries = k.retries
      /\ k.pc = "failing" => k.retries = MaxRetries

\* With a lone checker a message is deleted for good reason only: the task is
\* in a final state, or was taken for the last time and is about to be failed.
DeletedForGood ==
  \A t \in Tasks :
    msg[t].loc = "deleted" =>
      \/ row[t].status \in TerminalStatus
      \/ row[t].status = "processing" /\ row[t].retries = MaxRetries

\* With a lone checker a task fails with its retries used up.
FailedWasExhausted ==
  \A t \in Tasks : row[t].status = "failed" => row[t].retries = MaxRetries

\* Holds with any number of checker invocations.
AgentInv ==
  /\ TypeOK
  /\ MessageHasRow /\ AgentKnows /\ RowKnows /\ CancelKnows
  /\ RowHandleIsOwners /\ AtMostOneCompletion

\* Holds if checker invocations do not overlap.
CheckerInv == AgentInv /\ CheckerKnows /\ DeletedForGood /\ FailedWasExhausted

=============================================================================
