# HTC-Grid in TLA+

A verification development kept beside the HTC-Grid sources: TLA+ modules of the
task scheduling core, of the heartbeat that holds a task, of the queues and stores
behind them, of the client, and of the two ways in which machines are taken out of
service; TLC configurations that check them on small instances, and TLAPS proofs of
the main results for every instance. Paths below are relative to
the repository root (`src/` in `PROJECT.json`).

    tlc -workers 2 -config scheduler_session.cfg MCTaskScheduler
    tlapm TaskSchedulerProofs.tla

`PROJECT.json` maps every definition to the source lines it stands for, lists the
runs, the mutants that show each property can fail, the findings, the hazards and
the theorems.

## 1. Inventory

HTC-Grid runs sessions of independent tasks. A client submits a session through a
Lambda; agents in Kubernetes pods or on EC2 instances pull tasks from an SQS queue,
run them in a worker next to them and store results; a scheduled Lambda takes tasks
away from agents that stopped giving signs of life. No two of these processes call
each other: they meet in the DynamoDB state table and in the queue.

| Component | State | Operations | Correct when |
| --- | --- | --- | --- |
| State table, `source/client/python/api-v0.1/api/state_table_dynamodb.py` | per task: status, owner, heartbeat expiry, receipt handle, retries | conditional updates: claim, refresh, finish, retry; unconditional: finalize; queries by index | a decided task stays decided; one owner at a time |
| Task queue, `api/task_queue_sqs.py`, `deployment/grid/terraform/control_plane/sqs.tf` | messages, visibility, receive count, receipt handle | send, receive, delete, change visibility, redrive | a task that waits has a message |
| Submission, `lambda/submit_tasks/submit_tasks.py` | none of its own | write rows, send messages, answer | an accepted session is completely in the system |
| Agent, `source/compute_plane/python/agent/agent.py` | current task and handle | acquire, hold, heartbeat, execute, store, finish, delete | one completion per task, no result of an attempt that lost the task |
| TTL checker, `lambda/ttl_checker/ttl_checker.py` | current page | query expired, read, retry or fail, reset visibility | every orphan is recovered, no task is lost |
| Cancellation, `lambda/cancel_tasks/cancel_tasks.py` | current page | list and overwrite pending rows, then processing rows | nothing of the session goes on |
| Result retrieval, `lambda/get_results/get_results.py`, `api/connector.py` | none; the client polls | three queries by status, client adds up | the client stops exactly when all tasks are decided |
| Heartbeat timing, `utils/ttl_experation_generator.py`, `agent.py` | next refresh, next expiry | generate, decide whether due, write, retry when throttled | a prompt agent never loses its task, a silent one does in bounded time |
| Priority queue, `api/task_queue_priority_sqs.py` | one queue per priority, a table from handles to queues | scan from high to low, handle lookup | no lower message before a higher one; a handle finds its queue; nothing but more urgent tasks starves a priority |
| EC2 capacity controller, `lambda/capacity_controller/` | instances, drain tags | scale up, drain, terminate | a busy instance is not terminated before its deadline |
| ORB orchestrator, `orb_orchestrator/orb_lambda.py` | requests | request, poll, return machines | no duplicate request |
| Node drainer, `lambda/drainer/` | pods of the node, lifecycle hook | cordon, evict in passes, wait, answer | CONTINUE means empty; an invocation ends |
| Data plane, `api/in_out_s3.py`, `api/in_out_redis.py` | object, cache entry | put, get, fill | what was stored stays readable; a read returns the last value |
| Scaling metrics, logging, Terraform, charts, examples | none | | not modelled: no protocol state |

What makes the core hard:

* every actor reads, decides and writes in separate calls, and any other actor may
  move in between; the conditions on the updates are the only synchronisation;
* lists of rows come from indexes that are behind the table, lists of machines from a
  cache that is refreshed best effort;
* `retry_task` conditions on the status alone, `__finalize_tasks_state` on nothing;
* a message comes back by itself after 40 s or 3600 s whatever its agent does, a
  receipt handle goes stale when it does, and after `maxReceiveCount` receives the
  message goes to a queue that nothing reads;
* agents and Lambdas die between any two calls, and are restarted;
* a lease is kept by clocks of different machines, one of which cuts off fractions of a
  second, and by a coroutine that runs only when nothing else of the agent does;
* one logical queue is several, and one logical object may be in two stores, with
  nothing that makes the calls on them one.

`PROJECT.json` lists the hazards at the lines where they bite.

## 2. Modules

| Module | Models |
| --- | --- |
| `StateTable` | one row and each update of it: `CanX` is the ConditionExpression, `X` the new row |
| `TaskQueue` | one message: where it is and how often it was received; calls with a stale receipt handle have a set of outcomes |
| `TaskScheduler` | extends both; submission, agents, TTL checker, cancellation and time as actions; the properties |
| `TaskLifecycle` | the abstract specification: what a client sees of a task |
| `ClientSession` | extends `TaskLifecycle` with a client that submits, polls and fetches, and the index it polls |
| `CapacityController` | the fleet of EC2 instances, the drain protocol and a tick of the controller |
| `Heartbeat` | the lease on a task in discrete time: generator, polling loop, completion, and the two queries that read it |
| `PriorityQueue` | extends `TaskQueue` to one queue per priority behind one interface, with an agent and the TTL checker that use it |
| `DataPlane` | one key in S3, in Redis or in both |
| `NodeDrainer` | the drainer Lambda, the pods of a node and the lifecycle hook of its instance |
| `MCTaskScheduler`, `MCCapacityController`, `MCHeartbeat` | symmetry sets and fleets for TLC |
| `XProofs` for each X of `TaskScheduler`, `ClientSession`, `CapacityController`, `Heartbeat`, `PriorityQueue`, `DataPlane`, `NodeDrainer` | its theorems |
| `CheckerInvProofs` | theorems of `TaskScheduler` that need checker invocations not to overlap, the refinement of `TaskLifecycle` among them |

### State of TaskScheduler

* `row[t]` is the row of the state table. The heartbeat timestamp becomes
  `hb \in {"live", "expired"}`; a new row is expired, since submission writes 0. Only the
  heartbeat of a processing row is read, so that of any other is made expired, where the
  code leaves the timestamp to pass. The partition suffix of the status is left out.
* `msg[t]` is the message of the task. A receipt handle is the number of the receive
  that issued it, so "the newest handle" is `msg[t].receives`.
* `output[t]` is the agent whose result is stored under the task's id.
* `agent[a]` is the program counter of `event_loop`, with the task and the handle:
  `idle`; `received` (holds a message); `rejected` (claim refused, about to look
  whether the task was cancelled); `claimed` (row taken, 40 s visibility); `running`
  (3600 s visibility, worker and heartbeat coroutine at work); `stored` (result
  written); `finished` (row finished, message not deleted yet).
* `checker[c]` is an invocation of the TTL checker: the rest of its page, and the row
  it is at with the retries and handle it read. `Checkers` has one element when
  invocations do not overlap.
* `cancel` is the invocation of cancel_tasks: the rest of its list and, for the
  properties, `missed`: the rows that were in the status of a scan while the scan did
  not show them. Both scans read `gsi_session_index`, so each may list any rows that
  are in its status or once were (`OnceIn`), and may leave out any.
* `submission` is the answer of submit_tasks.

One call to the table, the queue or the data plane is one action. An agent that
crashes, raises out of `event_loop` or is killed goes to `idle` and leaves everything
else as it is: the pod restarts under the same id. The same holds for `TtlAbort` and
`CancelAbort`. A call whose answer is lost is the call followed by the crash or, where
boto3 repeats it, by the refused condition.

| Code | Actions |
| --- | --- |
| `submit_tasks.lambda_handler` | `WriteRow`, `SendMessage`, `AcceptSubmission`, `RejectSubmission` (543 after any prefix) |
| `try_to_acquire_a_task` | `AgentReceive`, `AgentClaim`, `AgentClaimRejected`, `AgentDropCancelled`, `AgentSkip`, `AgentHoldMessage`, `AgentHoldRefused` |
| `update_ttl_if_required` | `AgentRefresh`, `AgentLosesTask` |
| `do_task_local_lambda_execution_thread`, `process_subprocess_completion` | `AgentBootstrapError`, `AgentStoreOutput`, `AgentFinish`, `AgentFinishRejected`, `AgentDeleteMessage` |
| `ttl_checker.lambda_handler` | `TtlQuery`, `TtlRead`, `TtlRetry`, `TtlRetryRefused`, `TtlResetVisibility`, `TtlResetRefused`, `TtlFailDelete`, `TtlFailRow`, `TtlAbort` |
| `cancel_session` | `CancelPending`, `CancelProcessing`, `CancelRow`, `CancelDone`, `CancelAbort` |
| time, SQS | `HeartbeatLapse`, `VisibilityLapse`, `RedriveMessage` |

### State of ClientSession

The grid is `TaskLifecycle`, so the results hold for whatever implements it; a Lambda
or an agent never appears. `input` is the set of uploaded inputs, `index[t]` the status
that `gsi_session_index` shows, which jumps to the current one at any time. `client` is
the program counter of `send` and `get_results` with the three lists of the poll under
way. `client.torn` is a history variable: a final state changed in the index between
two queries of the poll.

| Code | Actions |
| --- | --- |
| `generate_user_task_json`, `submit` | `PutInput`, `Submit`, `SubmitAnswered` |
| `get_tasks_statuses_in_session` | `QueryFinished`, `QueryCancelled`, `QueryFailed` |
| `AWSConnector.get_results` | `PollComplete`, `PollTimesOut`, `PollAgain`, `FetchOutput`, `ReturnResults` |
| any exception that reaches the caller | `ClientStops` |
| the grid, DynamoDB | `GridStep`, `IndexFollows` |

### State of CapacityController

`inst[i]` is an instance: launched or not, its drain tag (`overdue` once the deadline
has passed), its compose project (`up`, `stopping` after SIGTERM, `down`), its work
(`unseen` if the heartbeat index does not show it) and the SSM commands that have not
run yet. `tick` is the invocation under way with what it has read: `seen`, the machines
the status listed, and `size`, what `_vcpus_of` made of them, which is the true size, or
a fallback (`Reports`) if the status has no vCPUs. With `"status"` in `Failures` the list
may lack machines that are up and show machines that are gone, and an error of ORB is an
empty list. `exact` is a history variable: every status so far was the live fleet with
its true sizes. What a tick decides
(`Reclaimed`, `Terminable`, `StillBusy`, `Shortfall`, `Victims`) is computed from these
reads as in the code, and each outside call is one action that finds the fleet as it
is by then.

| Code | Actions |
| --- | --- |
| `handler` | `TickStart`, `TickList`, `TickTags`, `TickBusy`, `TickAbort` |
| failures of these reads | part of `TickList`; `TickTagsFail`, `TickBusyUnknown` |
| `_sweep_draining` | `TickUncordonStart`, `TickUncordonUntag`, `TickResendStop`, `TickTerminate` |
| `_scale_up`, `_scale_down` | `TickCreate`, `TickCordonTag`, `TickCordonStop` |
| `orb_lambda.handler`, 500 | `TickOrbFails` |
| `event_loop`, `GracefulKiller` | `AgentClaims`, `AgentFinishes`, `WorkersExit` |
| SSM, heartbeat, time | `RunStop`, `RunStart`, `HeartbeatShows`, `HeartbeatLate`, `DeadlinePasses` |

### State of Heartbeat

`TaskScheduler` lets a heartbeat lapse at any moment; `Heartbeat` says when it can. `now`
counts ticks, `Second` of them to a second, because `int(time.time())` cuts off the
fraction. `row` is the part of the row the lease is made of. `agent[a]` is the phase of
an agent, the time the phase ends at the earliest (`wake`) and, if the agent is prompt,
at the latest (`by`), and `refreshAt`, which is `next_refresh_timestamp`. An agent whose
phase has lasted longer than that is `late` until it takes another task, and nothing is
promised of it: garbage collection, a throttled table or a slow data plane may hold it
up for any time.

Checker and controller read `gsi_ttl_index`: `trail` holds the states of the row that
were overwritten less than `Lag` ticks ago, and a query sees one of them or the present
one (`Shown`). `listed[c]` is a checker invocation between its query and its update, with
the number of the claim whose expired lease it saw; invocations overlap. `claims` numbers
the claims and `lastBeat` is the time of the last heartbeat, both history variables.

| Code | Actions |
| --- | --- |
| `try_to_acquire_a_task` | `StartClaim` (generates the TTL), `Claim`, `ClaimRejected` |
| `do_ttl_updates_thread`, `update_ttl_if_required` | `PollEarly`, `PollDue`, `RefreshThrottled`, `RefreshTtl`, `RefreshRefused` |
| worker's answer, `process_subprocess_completion` | `WorkerAnswers`, `Finish`, `FinishRejected` |
| crash, bootstrap error | `Silence` |
| `query_expired_tasks`, `retry_task`, `fail_task` | `TtlList`, `TtlRetry`, `TtlFail`, `TtlSkip` |

### State of PriorityQueue

`queue[t]` is the queue a task's message was sent to, `msg[t]` the message as in
`TaskQueue`. An agent has a program counter and a lookup table, which a restart empties.
`due` is a history variable of the scan under way: the tasks that could be received
ever since it began, without those a poll of their queue failed to return. Tasks of other
sessions, any number of them, are not part of the state: a poll may find one
(`PollOther`), and the agent is busy with it for a while.

| Code | Actions |
| --- | --- |
| `send_messages`, `submit_tasks` | `Submit` |
| `receive_message` | `StartScan`, `PollHit`, `PollEmpty`; `PollOther`, `OtherDone` for a task of another session |
| `__get_queue_object` | `QueueByHandle`, `QueueByPriority` |
| `change_visibility`, `delete_message` of an agent | `Hold`, `HoldRaises`, `Delete` |
| the same of the TTL checker, with the priority of the row | `TtlReset`, `TtlDelete`, `TtlStops` |

### State of DataPlane

`s3` and `cache` are the two copies of one key; a value is the process that wrote it. A
put is `upload`, `set` or both, a get is `get`, `download` and `fill`, by the storage
service configured. `sure` of a get says that the value had been there when the get
began, `quiet` that the last put had run alone and no get was about to fill the cache
with an older object.

| Code | Actions |
| --- | --- |
| `__put_from_bytes`, `__put_from_file` | `StartPut`, `Upload`, `SetCache`, `PutFails` |
| `__get_to_bytes`, `__get_to_utf8_string` | `StartGet`, `GetHit`, `GetMiss`, `Download`, `DownloadFails`, `Fill`, `GetStops` |
| Redis | `Evict` |

### State of NodeDrainer

`pod[p]` is where a pod is, `hook` the lifecycle action, `inv[i]` an invocation: its
program counter, the pods of the pass under way, those that are tried again and those
whose eviction met an unexpected error.

| Code | Actions |
| --- | --- |
| `_lambda_handler` | `NodeExists`, `NodeMissing`, `CordonNode`, `AnswerHook`, `ApiError` |
| `remove_all_pods`, `evict_pods`, `evict_until_completed`, `wait_until_empty` | `ListPods`, `EvictAccepted`, `EvictRefused`, `EvictFails`, `EvictNextPass`, `WaitUntilEmpty` |
| Lambda, Kubernetes, autoscaling (external) | `Invoke`, `InvocationDies`, `Schedule`, `PodEnds`, `HookExpires`, `Terminate` |

A definition whose name has a suffix, such as `CanRetry_NoCondition`, is a mutant: no
other definition uses it, and `PROJECT.json` says which property it breaks.

### Abstractions and assumptions

* In `TaskScheduler` a heartbeat may lapse at any time, that of a healthy agent included.
  This covers every timing; what the intervals guarantee is the subject of `Heartbeat`.
* `query_expired_tasks` reads a global secondary index page by page. Listing some of
  the rows that are expired now, and working on them later, covers a limited page and
  an index that lags, as long as the index shows each row's states in order.
* `retreive_retries_and_task_handler_and_priority` reads with eventual consistency.
  The read is assumed not to be older than the state that got the row listed. Neither
  value it uses can change between that state and the checker's own update.
* `claim`, `refresh`, `finish` and `retry` raise `StateTableException` for throttling
  and for a failed condition only; any other error is an exception that ends the
  process. So there is no path that falls through their `except` clauses.
* A session is submitted once (the client makes a new session id for every call,
  `connector.py:238`, and repeats none), and cancelled only after it was accepted (the client
  learns the session id with the answer). Rows of other sessions do not interact.
* A task has one message, `VisibilityLapse` included: SQS standard queues may also
  deliver a visible message twice, which has the same effect as an early lapse.
* `TasksOutliveVisibility` says whether a task may run longer than the 3600 s the
  agent asks for. The passing runs allow it.
* `TtlCheckerLoads` says whether the TTL checker can be imported. At this commit it
  cannot: FALSE is the code as it is, and `doc_checker_import` shows what follows. TRUE
  is the code with that import repaired; the other runs of the scheduler are about it,
  since with FALSE they would say little. The theorems hold for both values.
* Client: inputs go through external storage, as deployed. Result lists are sets; a
  query sees one state of the index (a query of several pages would add to the
  tearing that `doc_early_answer` shows).
* Ticks of the capacity controller do not overlap, since the function has
  `reserved_concurrent_executions = 1`. What a status may show is any set of machines
  ever launched, with sizes out of `Reports`, the same for all calls of a tick.
* Instances are numbered as they are launched, ids are not used again, and a request
  is filled in that order. An instance does one piece of work at a time in the model;
  with several pairs it is idle when all are.
* The deadline is compared when the tags are read; the code compares with the time the
  tick began, a few calls earlier. `docker compose start` has no effect on containers
  that are still exiting.
* `Failures` names the outside calls that may fail in a run; `"crash"` is a tick that
  ends between any two calls.
* `Heartbeat`: a clock read and the call that uses it are a phase apart, bounded by
  `CallTime` for a prompt agent; the throttled attempts of one refresh are part of it.
  Clocks differ by `Skew` at most. The index is `Lag` ticks behind at most, and
  shows no state before it was written; a lag without a bound would let a query see a
  prompt agent's task as expired whatever the slack. The jitter of
  `randint(r, int(r * 1.1))` is whole seconds, so it is empty for the deployed interval
  of 5 s.
* `PriorityQueue`: rows, claims and takeovers are reduced to what the calls on the
  queues depend on. A priority outside the configured range is refused by
  `send_messages` and is a rejected submission of `TaskScheduler`.
* `DataPlane`: a call to S3 or Redis is atomic and each store is consistent by itself. A
  call that raises may have done its work.
* `NodeDrainer`: a pod is either evictable or not for good. DaemonSets put their pods on
  a cordoned node, nobody else does, and nobody removes the cordon: a binding the
  scheduler decided on before it saw the cordon, and made after it, is left out.

## 3. What the runs check

| Run | Instance | Result |
| --- | --- | --- |
| `scheduler_session` | 2 tasks, 1 agent, 1 retry, 2 receives | 3.4 M states; partial submission, pages of two rows, the inductive invariant, final states, what a cancellation misses |
| `scheduler_recovery` | 1 task, 2 agents, 2 retries, 2 receives, `FairSpec` | 72 k states; takeovers and late agents, the life cycle, and liveness |
| `client_session` | 2 tasks, 1 retry, `FairSessionSpec` | 112 k states; what the client is told, and that polling ends |
| `capacity_safety` | 2 instances of 3 and 2 vCPUs, limit of 2, all failures, a status that lags or has no sizes | 7.2 M states; fleet, stops and terminations |
| `heartbeat` | 2 agents, 2 checker invocations, refresh 2 s, offset 4 s, 2 ticks to a second, delays, skew and lag of 1 tick, 2 claims, 13 ticks | 4.8 M states; lease kept, seen and bounded |
| `priority_queue` | 2 tasks, 2 priorities, 1 agent, 2 receives, other tasks, fairness | 470 k states; lookup, order, what starves |
| `data_plane` | 3 writers, one of nothing, 2 readers, 3 storage services | 430 k states; durability and the last value |
| `node_drainer` | 2 pods and one of a DaemonSet, 2 invocations, fairness | 37 k states; what CONTINUE means, and what keeps an invocation |

The scheduler's runs have one checker invocation at a time. With several, what rests on
the conditions of the updates alone is proved for any number of them (section 5), and
what does not hold is in section 4.

Safety of the scheduler:

* `MessageHasRow`: no message overtakes its row.
* `NoStrandedTask`: the message of a pending task of an accepted session is in the
  queue or dead-lettered, never deleted.
* `ExecutionsBounded`: no more agents execute a task at once than attempts were
  granted; two are possible, after a takeover.
* `AtMostOneCompletion`: of those, one at most completes it.
* `RowHandleIsOwners`: the handle the checker finds is the one the owner works under.
* `FinalStateEarned`, `FinalStateClosed`: what a final state means, and that no
  late agent, checker or cancellation reopens a task.
* `ImplementsLifecycle`: seen through table and data plane the scheduler is
  `TaskLifecycle`. In particular a task is put back at most `MaxRetries` times, only
  given up after that, and completed only with a result.
* `CancelMissesOnlyRetried`: when a cancellation is done, the only tasks of the session
  that are left open are those the TTL checker once put back and those the index did not
  show in a status they were in when a scan listed it. In particular a task that agents
  move on between scans and updates is not missed.
* `AgentInv`, `CheckerInv`: the inductive invariants of section 5.

Safety of the lease. `SlackCovers` is the condition on the configuration: the refresh
interval covers the longest way from one look at the clock to the next, and the slack
between refresh and expiry covers what may hold up a prompt agent at the end of it, the
completion included, with the skew of the clocks and the lag of the index.

* `PromptKeepsTask`: no checker invocation takes a task from an agent that is prompt on
  account of that agent's lease. It can lose the task only to an invocation that had
  listed an earlier claim of it: `retry_task` asks for `processing` alone, so an
  overlapping invocation, or one with a stale list, retries the new claim for the old one.
* `PromptSeenBusy`: as soon as the index shows the claim of such an agent,
  `query_live_tasks` shows its task as live on every clock, whatever refresh the index is
  behind by. Before that nobody sees it (`unseen` in `CapacityController`).
* `SilentIsListed`: whatever the configuration, a lease nobody extends is expired on
  every clock after `DetectionTime`, however often it was extended before.

With the deployed defaults (refresh 5 s, offset 30 s, poll 0.5 s) the slack is 25 s: a
prompt agent stores an output and finishes the row, its clock is off and the index
behind, by less than that in all. The constructor of the generator asks for a slack above zero only.

Safety of the queues and stores:

* `CallsReachTheMessage`: agent and checker make every call on the queue that holds the
  message, across takeovers and restarts.
* `NoInversion`: an agent passes over a more urgent task only if it arrived during the
  scan or was missed by the short poll of its queue.
* `DurableOnceSeen`: after a put has returned or a get was answered no get fails, except
  after an eviction without a bucket, or with an empty object in it.
* `QuietGetIsLast`: a get returns the last put if that put overlapped with no other, no
  get was about to fill the cache with an older object, and no put has begun since.
  Without either of the first two conditions TLC finds a stale answer.

Safety of the client's view:

* `StartedHasInput`: no task starts before its input is in the data plane.
* `ListedIsDecided`, `FinishedHasOutput`: every task the client is told is over is over,
  and every one it is told has finished has an output, however late index and client are.
* `ExactUnlessTorn`: the client that has counted all tasks has all tasks, unless a final
  state was overwritten during that poll.

Safety of the capacity controller:

* `TerminatedWasDraining`: only instances tagged draining at that moment are terminated.
* `FleetBounded`: as long as every status was exact, the fleet without one of its instances
  is below `MAX_VCPUS`, with draining instances, aborted ticks and failed requests
  counted. One status that lacks a machine or sizes it too small is enough to go over it.
* `StopOnlyDraining`: stop commands are sent only to instances that are marked draining at
  that moment. A command that runs late may still stop an instance that was taken back in
  the meantime; the controller does not prevent this.

The first and the last hold whatever the status shows.

Safety of the node drainer:

* `ContinueMeansEmpty`: no evictable pod is on the node when CONTINUE is answered, and
  none comes back before the instance is gone.
* `WaitsForTheDoomed`: an invocation waits only for pods that are being terminated, and
  for those whose eviction failed unexpectedly.

Liveness:

* `AcceptedTaskSettles`: with the checker's import repaired, a task of an accepted session
  is decided or dead-lettered. A dead letter is not executed: nothing reads that queue,
  and the task stays pending or processing. `AcceptedTaskDecided`, without the dead
  letter, is what the documentation says, and is violated (section 4).
* `OrphanRecovered`: with the import repaired, a row does not stay processing without an
  agent that works on it.
* `SessionAnswered`: if the tasks of the session come to rest in final states, polling ends.
* `EveryPriorityServed`: a message of any priority is received in the end, unless polls of
  more urgent queues find other tasks for ever. Without the exception TLC finds the
  starvation: the scan is strict.
* `InvocationEnds`: an invocation of the drainer does not go on for ever unless disruption
  budgets go on refusing its pods or an eviction met an unexpected error. In these cases
  the Lambda's timeout ends it.

Bounds. Two agents are the least with a takeover and a late owner; one more retry
than that lets the late owner meet a second takeover. In `scheduler_recovery` there are
fewer receives than attempts, as deployed (4 and 6), so that a task is dead-lettered before
its retries are used up; in `scheduler_session` there are as many, so that retries are
exhausted as well. Two tasks are the least for pages, partial submissions and cancellations
with more than one row; they are interchangeable, hence the symmetry in that run. Liveness
is checked without symmetry and with one task: tasks share only the agents and the
checker's page, and with two tasks the temporal check takes too long.

For the client two tasks are the least in which one is counted twice and another is
missing. For the fleet, two instances of different sizes and a limit below the larger one
are the least in which an overshoot, a reclaim and a new launch occur in one behaviour; the
queue lengths 0 and 3 ask for nothing and for the limit. `MaxInstances` bounds the
launches of a behaviour. `DrainEnds` is about one instance at a time and needs one.

For the lease, 13 ticks and two claims are a refresh, a takeover and the second agent's
lease, with an invocation that has listed the first; two invocations are the least of
which one is late. Section 5 proves the properties for all numbers. Two priorities and two
tasks are the least with an inversion; with two agents the temporal check exceeds five
minutes. Two writers are the least that overlap, the third writes an empty object; two
readers are the least of which one fills what the other reads. Two invocations of the
drainer are the least that overlap, two pods the least of which one is refused while the
other goes.

Fairness. An agent gets on with a task it has, because the worker terminates, a
throttled call is answered in the end and a dead pod is restarted (weak fairness of
`AgentProgress`). A visible message is in the end received by some agent, even if
agents are busy in between (strong fairness of `AgentReceive`). Visibility timeouts
and the redrive policy act, and the heartbeat of a task nobody works on runs out
(weak). The checker is scheduled every minute and goes through pages in order; ticks
may be throttled or killed, but not for ever at the same point, so its steps that can
be interrupted again and again have strong fairness. Nothing is assumed of crashes,
throttling, cancellations, or of heartbeats of tasks that are being worked on.

The client goes on and the index catches up (weak). Of the capacity controller: ticks
are scheduled and end, deadlines pass, status and tags do not fail for ever, and neither
does a call of a tick that sees a given instance overdue (strong, since a failure may
come in between). Nothing is assumed of SSM, of the agents or of their tasks.
`DrainEnds` is violated in spite of all this.

An agent with priorities goes on with what it does (weak); it does not die at the same
point of its scan for ever, and a message whose queue is polled again and again is not
missed, or passed over for others of that queue, each time (strong). Nothing is assumed of
how often polls find other tasks. A node drainer's invocation gets on, and a pod that was
told to terminate does within its grace period (weak). Nothing is assumed of disruption
budgets, of errors, of the Lambda timeout and of the hook.

The configurations of scheduler and client say `CHECK_DEADLOCK FALSE`: with all tasks decided and all messages
gone, or with an answer given, nothing is left to do. So do those of the priority queue
(the same), of the drainer (the instance is gone) and of the heartbeat (the clock stops at
`Horizon`, a bound of the model). The controller and the data plane never stop, and
their runs check for deadlock.

## 4. What the runs found

Each of these runs states what a document or a comment says, and TLC answers with a
behaviour of the code that violates it.

| Run | Says | The code |
| --- | --- | --- |
| `doc_checker_import` | architecture.md: accepted tasks "will eventually execute" | `ttl_checker.py:17-18` imports two names that `state_table_common.py` does not define, so no tick runs: the task of an agent that died stays processing, and its message is dead-lettered |
| `doc_overlapping_ticks` | the same, with the import repaired | an overlapping checker invocation reads the row the first one has just put back, takes it for exhausted, deletes its message and dies: pending without a message |
| `doc_early_answer` | results are retrieved "once all the tasks of the session are completed" | three queries: a task that turns from finished to cancelled between two is counted twice, and the client stops with another still open |
| `doc_drain_deadline` | ADR-003: `drain_deadline` "guarantees eventual termination even if the SSM command never lands" | tags that cannot be read make a draining instance look active; it is cordoned again, which writes a new deadline, again and again |

`scheduler_recovery` needs `TtlCheckerLoads` and one checker invocation at a time: the
first two runs show what is left without either. The bound on receives of
`doc_checker_import` is the one of `scheduler_recovery`.

Other places where the modelled code departs from what is said of it. The models have
these behaviours, and the properties above are stated so that they hold in spite of them.

* With the import repaired, accepted tasks still need not "eventually execute".
  `MAX_RETRIES` is 5 and `maxReceiveCount` 4, so a task that is retried four times is
  dead-lettered and stays pending. Hence `AcceptedTaskSettles` beside
  `AcceptedTaskDecided`.
* Results of a task that was taken over are to be ignored; they are stored before the row
  is looked at, over the output of the agent that finished (`AgentStoreOutput`).
* The controller's loop is to converge "instead of overshooting"; a 500 of the orchestrator
  is read as an empty fleet and the whole target is created again, a machine that is not
  listed yet is created twice (ADR-005 says so), and a status without vCPUs makes
  instances count for less than they are (`TickList`). Hence `exact` in `FleetBounded`.
* The state transition diagram has final states, but a cancellation or `fail_task`
  overwrites a task that finished after it was listed (`CancelRow`, `TtlFailRow`). Hence
  `FinalStateClosed`: a decided task stays decided, not as what.
* cancel_tasks is to "Cancel all tasks within a session"; a task the checker puts back
  between the two scans is in neither, and neither is one the index does not show in time
  (`CancelPending`, `CancelProcessing`).
* An agent that finds its task cancelled is to delete the message (`agent.py:565`), but
  `sqs_msg` is a dictionary and has no `delete` (`AgentLosesTask`).
* After a refused visibility reset the checker is to "continue..." (`ttl_checker.py:144`),
  but the exception is a `TaskQueueException`, not the `ClientError` that is continued
  after (`TtlResetRefused`).
* ADR-003 says that there is "no terminate/claim race". SSM is asynchronous and `kill_now`
  is read between tasks, so a draining instance may claim after the busy query and be
  terminated with the task (`AgentClaims`, `TickTerminate`).
* `_scale_down` is to leave "a partial last instance" running "rather than over-draining";
  it adds instances until they cover the surplus, and a later tick takes the last one
  back (`Victims`).
* cordon avoids "stopped-but-not-tagged"; uncordon leads to it, since it deletes the tags
  although the start command failed (`TickUncordonStart`, `TickUncordonUntag`).
* A prompt agent may lose its task to a checker invocation that listed the claim before
  its own (`TtlRetry` of `Heartbeat`), since `retry_task` asks for neither owner nor expiry.
* Engines are to pull "respecting the rank of priority". The scan is not atomic and the
  polls are short ones, hence the exceptions in `NoInversion`.
* With S3 and Redis together, overlapping puts and a late fill leave two values of one key:
  the stores are written one after the other, without a version. For inputs and payloads
  this does not happen, since they have one writer; for outputs it does after a takeover.
* With Redis alone an evicted entry is lost: the cluster's policy is `allkeys-lru` and it
  has no replica. An empty output is readable while it is cached; once it is evicted,
  `in_out_redis.py:183` takes the empty object for a missing one and raises.
* An eviction that fails with anything but 429 is not tried again, and `wait_until_empty`
  waits for the pod until it goes by itself or the Lambda's 900 s are over
  (`WaitsForTheDoomed`, `InvocationEnds`).
* With the defaults the lifecycle hook expires after `graceful_termination_delay` = 30 s,
  as long as the grace period of the pods: the instance may be terminated (`HookExpires`)
  before the pods have used theirs.
* `QueuePrioritySQS` never removes an entry of its lookup table (`Remember`).

## 5. What is proved

Every safety property of the passing runs, for every value of the constants that the
assumptions named in the modules allow. These are, for the scheduler: `None` is no agent,
`NoTask` no task, `MaxRetries` a natural number, `MaxReceiveCount` a positive one, the two
flags Boolean (either value). No bound of section 3 enters a proof, except that
`MaxInstances`, the number of launches, and `MaxClaims` are some natural numbers.

| Theorems | Hold for |
| --- | --- |
| `TypeCorrect`, `AgentInvariant`, `MessagesHaveRows`, `RowHandlesAreOwners`, `OneCompletion`, `FinalStatesClosed`, `CancelMisses` | any tasks and agents, any number of overlapping checker invocations, a session index that lags by any time |
| `CheckerInvariant`, `NoTaskStranded`, `FinalStatesEarned`, `ExecutionsAreBounded`, `SchedulerImplementsLifecycle` | the same with `SingleChecker`: invocations do not overlap |
| `SessionInvariant`, `SessionTypeCorrect`, `SessionStartedHasInput`, `SessionListedIsDecided`, `SessionFinishedHasOutput`, `SessionExactUnlessTorn` | any finite set of tasks (`SessionAssumption`), client with or without timeout |
| `HbTypeCorrect`, `PromptAgentKeepsTask`, `PromptAgentSeenBusy`, `SilentAgentListed` | any agents, any number of overlapping checker invocations, any resolution of the clock, all intervals with `RefreshInterval < ExpirationOffset` (what the constructor accepts), all delays, skews, lags and horizons |
| `PriorityQueueInvariant`, `PriorityQueueTypeCorrect`, `PriorityQueueCalls`, `PriorityQueueNoInversion` | any tasks, agents and number of priorities |
| `DataPlaneInvariant`, `DataPlaneTypeCorrect`, `DataPlaneDurable`, `DataPlaneQuiet` | any writers and readers, the three storage services |
| `CapacityInvariant`, `CapacityTypeCorrect`, `CapacityTerminatesDraining`, `CapacityStopsDraining`, `CapacityFleetBounded` | any fleet, sizes, reported sizes, limits and queue lengths, any set of failing calls |
| `NdTypeCorrect`, `ContinueOnlyWhenEmpty`, `WaitIsForTheDoomed` | any pods, any number of invocations |

`AgentInv`. None of the safety properties is inductive by itself. `RowHandleIsOwners`
and `AtMostOneCompletion` need to know what an agent may rely on while others move
(`AgentKnows`): its handle is one of those issued, a row it claimed has a handle, an
output it stored is still there, a task it finished is still decided. `RowKnows` gives
the same for rows (a row that does not exist has no owner, a processing row has a
handle, a finished one an output), `CancelKnows` that cancel_tasks only overwrites rows
that exist. The proof reads `Next` once: `RowMoves`, `MessageMoves`, `AgentMoves` and
`OutputMoves` list all that a step can do to one row, message, agent or output, and
each conjunct follows from these lists. None of it depends on the checker's reads, so
it holds however many invocations overlap.

`CheckerInv`. That a pending task keeps its message depends on what the checker read
still being true when it deletes one. With one invocation at a time only the checker
itself puts rows back and counts retries, so listed rows stay processing or decided and
their count stays what was read (`CheckerKnows`). It follows that a message is deleted
only of a task that is decided or was taken for the last time (`DeletedForGood`), and
that failed rows are exhausted (`FailedWasExhausted`). `doc_overlapping_ticks` shows
that the hypothesis is needed.

`CancelSweeps`. While a cancellation works on pending rows, every pending task is still on
its list, was put back by the checker at some time or was not shown to the scan; while it
works on processing rows, so is every task that is not decided. The two scans cover the
rest because a task goes from pending to processing by itself and back only through a
retry, which `retries` remembers.

`ExecutionsBounded` is about a number of agents: `ExecutionInv` in `CheckerInvProofs`
says that each agent that executes a task holds an attempt counted in the row, and the
step of each action changes the set of these agents by one element at most.

Refinement. The mapping takes status and retries from the row, `started` from whether
the row has a receipt handle and `result` from the data plane. `LifecycleStep` shows,
action by action, that a step is a step of `TaskLifecycle` for one task or leaves all
four unchanged; `GiveUp` is where `CheckerKnows` is needed.

`HbInv`. That the checker takes nothing from a prompt agent is not inductive: one has to
know where the end of the agent's phase lies. `PromptKnows` says that it lies before the
expiry by more than the skew, and in between two polls also how far it is from the next
refresh; in a refresh, that what will be written leaves room for the next poll.
`ClaimingKnows` is the same for an agent that has generated a TTL and has not claimed yet.
No invocation has listed the claim a prompt agent holds, in the state it is in now or
in one the index may still show: `TrailKnows` says that each earlier lease of this claim was
replaced early enough before its end for the skew and the lag, and `TrailIsRecent` that
the index is at most `Lag` behind. So an invocation that takes the task has listed an
earlier claim. `LeaseBounded` says that no lease
reaches further ahead than it could when it was written. `TruncBounds` and
`RefreshAtBounds` are the arithmetic; `TypeStep`, `LeaseStep` and `KnowsStep` go through the
actions. The condition `SlackCovers` is used in `KnowsStep` only, each of its four lines for
one phase.

`NdInv`. An invocation that waits or answers relies on a list it made earlier, while others
cordon, evict and answer. `PodsOnlyLeave` is the reason why it can: once the node is
cordoned, which an invocation does before it lists, evictable pods only get fewer, and one
that is terminating does not run again. `InvocationKnows` says that each pod still there
is in one of the invocation's three sets or is terminating. No fairness is used.

`SessionInv`. The client sees the grid through an index that is behind and through three
queries at different times. That it is told nothing wrong rests on final states being
closed in `TaskLifecycle`: what the index shows as over is over (`IndexIsDecided`), and an
output stays once it is there (`FinishedIsStored`). Exactness is a matter of counting: until
the poll is torn, the lists agree with the index and so are disjoint (`ListsAgree`);
`CountIsExact` says that three disjoint sets of tasks with as many members as there are
tasks are all of them, by the library's theorems on cardinality.

`DpInv`. With a bucket, the object is there before anything is in the cache or about to be
(`ObjectFirst`), so an eviction loses nothing, and what was seen is in every store of the
mode unless it was evicted (`SeenIsStored`). `AloneIsAlone` and `QuietIsSettled` are the
argument for the last value: while it is quiet, no put is under way, and bucket, cache and
every pending fill hold the same value.

`PqInv`. A row's priority is the queue its message went to (`RowKnowsQueue`), which is what
the checker relies on; an agent relies on its lookup table, whose entries are right
(`LookupIsRight`) and cover the handle it works under (`HandleIsKnown`), since a restart
loses both together. For the order, `DueIsBelow`: what could be received since the scan
began and was not missed is no more urgent than where the scan has got to.

`CapacityInv`. A tick acts on reads that are several calls old, the first of which may have
been wrong. `DrainingIsTagged` says what is still true of them: only the tick itself
terminates and untags, and what it untags it does not count as draining afterwards. It follows that the
sweep terminates and stops draining instances only, and the cordon tags before it stops
(`VictimIsTagged`).

The bound on the fleet is about sums. Capacity is the number of a set of pairs
(`Cpus`), so that it adds up by the theorems on the cardinality of unions (`VcpusAdd`)
and no induction is needed. `OldestOvershoot`: instances taken in
order until they cover a number would not cover it without the last. `OldestCovers`: if
reclaiming leaves a shortfall, everything that was draining has been reclaimed. So a tick
that creates had counted the whole fleet (`FleetIsListed`, for which the status must have
been exact), what it creates covers the rest up to `desired`, and without the last one the fleet
is below it (`CreateBounded`); every other step only makes the fleet smaller
(`FleetShrinks`).

Only model-checked: the liveness properties `AcceptedTaskSettles`, `OrphanRecovered`,
`SessionAnswered`, `EveryPriorityServed` and `InvocationEnds`, since fairness
and ENABLED are outside the prover's reach, and the runs of section 4.

## 6. Not modelled, and the plan

What is left to prove:

1. The safety half of the liveness properties: that the steps each leads-to goes through
   are the only ways out of the states in between (a pending task of an accepted
   session leaves that state only by a claim, a cancellation or the dead letter queue; a
   draining instance only by a reclaim or a termination).
2. What `DataPlane` promises to `TaskScheduler`, whose `output` is one value per task: a
   store that implements a single register while puts do not overlap.

Not modelled:

* A second submission under the same session id: the uniqueness check is commented out
  in `submit_tasks.py:191` and `batch_write` overwrites. The client makes a new id for
  every call, so the behaviour belongs to callers outside the repository.
* Authentication and the refresh of tokens in `connector.py`, the requests and templates
  inside orb-py: external protocols seen here through what they answer.
* Scaling metrics, performance tracking, logging: output only, no state of their own.
* Terraform and charts, apart from the limits and timeouts they set; examples, the
  workshop and the client bindings in other languages.
* The scripts of the workshop's web pages (`docs/workshop/static`): minified third-party
  code, a button widget and the Mermaid renderer, that has no part in the grid. The
  grid itself is Python, Terraform and shell.
