-------------------------------- MODULE Heartbeat --------------------------------
(***************************************************************************)
(* The lease an agent holds on a task: how source/.../agent/agent.py and   *)
(* utils/ttl_experation_generator.py keep heartbeat_expiration_timestamp   *)
(* of the row ahead of the clock, and what the TTL checker and the         *)
(* capacity controller read from it.  TaskScheduler lets a heartbeat lapse *)
(* at any moment; this module says when it can.                            *)
(*                                                                         *)
(* Time advances in ticks, Second of them to a second, since int(time.     *)
(* time()) cuts off the fraction of a second.  Every phase of an agent has *)
(* a tick "by" which it ends if the agent is prompt; one that is still in  *)
(* the phase afterwards is late, and nothing is promised of it any more.   *)
(*                                                                         *)
(* Checker and controller read gsi_ttl_index, not the table: a query may   *)
(* see any state the row was in during the last Lag ticks.  Invocations of *)
(* the checker may overlap.                                                *)
(***************************************************************************)
EXTENDS Integers

CONSTANTS
  Agents, None,
  Checkers,           \* TTL checker invocations that may run at once
  Second,             \* ticks per second
  RefreshInterval,    \* task_ttl_refresh_interval_sec, in seconds
  ExpirationOffset,   \* task_ttl_expiration_offset_sec, in seconds
  PollInterval,       \* work_proc_status_pull_interval_sec, in ticks
  PollDelay,          \* how late asyncio.sleep may return, in ticks
  CallTime,           \* claim or refresh, its throttled attempts included
  SetupTime,          \* from the claim to the first poll
  CompletionTime,     \* process_subprocess_completion up to the final update
  Skew,               \* how far apart the clocks of the machines are
  Lag,                \* how far behind the table gsi_ttl_index may be, in ticks
  MaxClaims,          \* bound: claims in a behaviour of the model
  Horizon             \* bound: the last tick of the model

ASSUME HbNoneAssumption == None \notin Agents

\* The constructor of TTLExpirationGenerator refuses anything else.
ASSUME IntervalAssumption ==
  /\ RefreshInterval \in Nat \ {0} /\ ExpirationOffset \in Nat
  /\ RefreshInterval < ExpirationOffset

ASSUME TicksAssumption ==
  /\ Second \in Nat \ {0} /\ PollInterval \in Nat /\ PollDelay \in Nat
  /\ CallTime \in Nat /\ SetupTime \in Nat /\ CompletionTime \in Nat
  /\ Skew \in Nat /\ Lag \in Nat /\ MaxClaims \in Nat /\ Horizon \in Nat

VARIABLES
  now,        \* the clock, in ticks
  row,        \* status, owner and expiry of the task's row
  agent,      \* the phase of each agent, and its TTLExpirationGenerator
  trail,      \* states of the row that were overwritten and that a query may see
  listed,     \* the claim whose expired lease a checker invocation has listed
  claims,     \* history: how often the task was claimed; names the claim under way
  lastBeat    \* history: when the expiry in the row was written

table == << row, trail, claims, lastBeat >>

hbVars == << now, table, agent, listed >>

---------------------------------------------------------------------------

Refresh == RefreshInterval * Second
Offset == ExpirationOffset * Second

\* The jitter randint(refresh, int(refresh * 1.1)) adds, in seconds.
MaxJitter == RefreshInterval \div 10
Jitter == MaxJitter * Second

\* int(time.time())
Trunc(t) == t - (t % Second)

Working == {"setup", "sleeping", "refreshing", "completing"}

IdleAgent == [ pc |-> "idle", wake |-> 0, by |-> 0, late |-> FALSE, refreshAt |-> 0 ]

AgentState ==
  [ pc : {"idle", "claiming"} \cup Working, wake : Nat, by : Nat, late : BOOLEAN, refreshAt : Nat ]

HbRow ==
  [ status : {"pending", "processing", "finished", "failed"},
    owner : Agents \cup {None}, expiry : Nat ]

\* A state of the row as a query may see it, with the claim it belongs to.
Version ==
  [ status : {"pending", "processing", "finished", "failed"}, expiry : Nat, claim : 0 .. claims,
    until : Nat ]

\* The state space of clock, row, agents and checker invocations.
HbTypeOK ==
  /\ now \in Nat
  /\ row \in HbRow
  /\ trail \subseteq Version
  /\ agent \in [Agents -> AgentState]
  /\ listed \in [Checkers -> 0 .. claims]
  /\ claims \in Nat
  /\ lastBeat \in Nat

Init ==
  /\ now = 0
  /\ row = [ status |-> "pending", owner |-> None, expiry |-> 0 ]
  /\ trail = {}
  /\ agent = [a \in Agents |-> IdleAgent]
  /\ listed = [c \in Checkers |-> 0]
  /\ claims = 0
  /\ lastBeat = 0

---------------------------------------------------------------------------
(* TTLExpirationGenerator *)

\* generate_next_ttl: when to refresh next.
RefreshAt(j) == Trunc(now) + Refresh + j * Second

Expiration_WholeOffset(refreshAt) == refreshAt + Offset

Expiration_NoSlack(refreshAt) == refreshAt

Expiration_Backwards(refreshAt) == refreshAt - Offset

\* generate_next_ttl: the expiration that goes with it.
Expiration(refreshAt) == refreshAt + (Offset - Refresh)

\* The condition of update_ttl_if_required.  Its other half, a generator that
\* was never used, cannot be: the claim has used it.
RefreshDue_LatePoll(a) == agent[a].refreshAt < now

RefreshDue(a) == agent[a].refreshAt < now + PollInterval

---------------------------------------------------------------------------
(* The row and its trail *)

\* The present state of the row as a version.
Present == [ status |-> row.status, expiry |-> row.expiry, claim |-> claims, until |-> now ]

\* An update of the row: its old state may be seen for a while.
Overwrite(r) == row' = r /\ trail' = trail \cup {Present}

\* What a query of gsi_ttl_index may see.
Shown == trail \cup {Present}

---------------------------------------------------------------------------
(* The agent *)

Owns(a) == row.status = "processing" /\ row.owner = a

\* The agent enters a phase that ends in "time" ticks if the agent is prompt.
Enter(a, phase, time, refreshAt) ==
  [ pc |-> phase, wake |-> 0, by |-> IF agent[a].late THEN 0 ELSE now + time,
    late |-> agent[a].late, refreshAt |-> refreshAt ]

\* Until the next poll: asyncio.sleep in do_ttl_updates_thread.
Sleep(a) ==
  [ Enter(a, "sleeping", PollInterval + PollDelay, agent[a].refreshAt) EXCEPT !.wake = now + PollInterval ]

\* A message of the pending task arrived; the TTL is generated before the call.
StartClaim(a) ==
  /\ agent[a].pc = "idle"
  /\ row.status = "pending"
  /\ \E j \in 0 .. MaxJitter :
       agent' = [agent EXCEPT ![a] =
         [ pc |-> "claiming", wake |-> 0, by |-> now + CallTime, late |-> FALSE, refreshAt |-> RefreshAt(j) ]]
  /\ UNCHANGED << now, table, listed >>

Claim(a) ==
  /\ agent[a].pc = "claiming"
  /\ claims < MaxClaims
  /\ row.status = "pending" /\ row.owner = None
  /\ Overwrite([ status |-> "processing", owner |-> a, expiry |-> Expiration(agent[a].refreshAt) ])
  /\ claims' = claims + 1
  /\ lastBeat' = now
  /\ agent' = [agent EXCEPT ![a] = Enter(a, "setup", SetupTime, agent[a].refreshAt)]
  /\ UNCHANGED << now, listed >>

\* The claim is refused, or throttled, which is not tried again.
ClaimRejected(a) ==
  /\ agent[a].pc = "claiming"
  /\ agent' = [agent EXCEPT ![a] = IdleAgent]
  /\ UNCHANGED << now, table, listed >>

\* One turn of do_ttl_updates_thread with nothing to do.
PollEarly(a) ==
  /\ agent[a].pc \in {"setup", "sleeping"} /\ now >= agent[a].wake
  /\ ~RefreshDue(a)
  /\ agent' = [agent EXCEPT ![a] = Sleep(a)]
  /\ UNCHANGED << now, table, listed >>

\* One turn that refreshes.  The update blocks the event loop until the row
\* is written; each throttled attempt generates a new TTL.
PollDue(a) ==
  /\ agent[a].pc \in {"setup", "sleeping"} /\ now >= agent[a].wake
  /\ RefreshDue(a)
  /\ \E j \in 0 .. MaxJitter :
       agent' = [agent EXCEPT ![a] = Enter(a, "refreshing", CallTime, RefreshAt(j))]
  /\ UNCHANGED << now, table, listed >>

RefreshThrottled(a) ==
  /\ agent[a].pc = "refreshing"
  /\ \E j \in 0 .. MaxJitter : agent' = [agent EXCEPT ![a].refreshAt = RefreshAt(j)]
  /\ UNCHANGED << now, table, listed >>

RefreshTtl(a) ==
  /\ agent[a].pc = "refreshing"
  /\ Owns(a)
  /\ Overwrite([row EXCEPT !.expiry = Expiration(agent[a].refreshAt)])
  /\ lastBeat' = now
  /\ agent' = [agent EXCEPT ![a] = Sleep(a)]
  /\ UNCHANGED << now, claims, listed >>

\* The row is no longer this agent's: an exception ends the process.
RefreshRefused(a) ==
  /\ agent[a].pc = "refreshing"
  /\ ~Owns(a)
  /\ agent' = [agent EXCEPT ![a] = IdleAgent]
  /\ UNCHANGED << now, table, listed >>

\* The worker answered: the completion does not yield to the heartbeat.
WorkerAnswers(a) ==
  /\ agent[a].pc = "sleeping"
  /\ agent' = [agent EXCEPT ![a] = Enter(a, "completing", CompletionTime, agent[a].refreshAt)]
  /\ UNCHANGED << now, table, listed >>

Finish(a) ==
  /\ agent[a].pc = "completing"
  /\ Owns(a)
  /\ Overwrite([row EXCEPT !.status = "finished"])
  /\ agent' = [agent EXCEPT ![a] = IdleAgent]
  /\ UNCHANGED << now, claims, lastBeat, listed >>

FinishRejected(a) ==
  /\ agent[a].pc = "completing"
  /\ ~Owns(a)
  /\ agent' = [agent EXCEPT ![a] = IdleAgent]
  /\ UNCHANGED << now, table, listed >>

\* The process dies, or the worker failed to bootstrap: the heartbeat stops.
Silence(a) ==
  /\ agent[a].pc \in Working
  /\ agent' = [agent EXCEPT ![a] = IdleAgent]
  /\ UNCHANGED << now, table, listed >>

---------------------------------------------------------------------------
(* The readers of the index, each with a clock of its own *)

\* query_expired_tasks selects this version at time t of its clock.
ExpiredAt(v, t) == v.status = "processing" /\ v.expiry < Trunc(t)

\* query_live_tasks, by which the capacity controller finds the busy machines.
LiveAt(v, t) == v.status = "processing" /\ v.expiry > Trunc(t)

TtlList(c) ==
  /\ listed[c] = 0
  /\ \E v \in Shown, d \in -Skew .. Skew :
       /\ now + d >= 0 /\ ExpiredAt(v, now + d)
       /\ listed' = [listed EXCEPT ![c] = v.claim]
  /\ UNCHANGED << now, table, agent >>

\* retry_task asks for the status only, neither for the owner nor for the expiry
\* the row was listed for.
TtlRetry(c) ==
  /\ listed[c] # 0
  /\ row.status = "processing"
  /\ Overwrite([row EXCEPT !.status = "pending", !.owner = None])
  /\ listed' = [listed EXCEPT ![c] = 0]
  /\ UNCHANGED << now, agent, claims, lastBeat >>

\* fail_task, when the retries are used up, whatever the row has become.
TtlFail(c) ==
  /\ listed[c] # 0
  /\ Overwrite([row EXCEPT !.status = "failed", !.owner = None])
  /\ listed' = [listed EXCEPT ![c] = 0]
  /\ UNCHANGED << now, agent, claims, lastBeat >>

\* The row is no longer processing, or the invocation ended.
TtlSkip(c) ==
  /\ listed[c] # 0
  /\ listed' = [listed EXCEPT ![c] = 0]
  /\ UNCHANGED << now, table, agent >>

---------------------------------------------------------------------------

\* One tick.  An agent that should have ended its phase by now is late, and the
\* index has caught up with what was written Lag ticks ago.
Tick ==
  /\ now < Horizon
  /\ now' = now + 1
  /\ agent' = [a \in Agents |->
       IF agent[a].pc # "idle" /\ now >= agent[a].by THEN [ agent[a] EXCEPT !.late = TRUE, !.by = 0 ]
                                              ELSE agent[a]]
  /\ trail' = { v \in trail : now < v.until + Lag }
  /\ UNCHANGED << row, claims, lastBeat, listed >>

AgentStep(a) ==
  \/ StartClaim(a) \/ Claim(a) \/ ClaimRejected(a)
  \/ PollEarly(a) \/ PollDue(a) \/ RefreshThrottled(a) \/ RefreshTtl(a) \/ RefreshRefused(a)
  \/ WorkerAnswers(a) \/ Finish(a) \/ FinishRejected(a) \/ Silence(a)

Next ==
  \/ \E a \in Agents : AgentStep(a)
  \/ \E c \in Checkers : TtlList(c) \/ TtlRetry(c) \/ TtlFail(c) \/ TtlSkip(c)
  \/ Tick

Spec == Init /\ [][Next]_hbVars

---------------------------------------------------------------------------
(* Properties.  The slack between refresh and expiration has to cover the  *)
(* longest time the heartbeat can be held up; the constructor only asks    *)
(* for a slack that is not empty.                                          *)

Slack == Offset - Refresh

\* A configuration under which a prompt agent is never late with its refresh,
\* not even for a query that sees the index as it was Lag ticks ago.
SlackCovers ==
  /\ CallTime + SetupTime + Second <= Refresh
  /\ CallTime + PollInterval + Second <= Refresh
  /\ PollDelay + CallTime + Skew + Lag < Slack
  /\ PollDelay + CompletionTime + Skew + Lag < Slack

\* An agent that has been prompt since it received the task and has it still.
Prompt(a) == agent[a].pc \in Working /\ ~agent[a].late

Holds(a) == Prompt(a) /\ Owns(a)

\* A prompt agent keeps its task: no checker invocation takes it away on account
\* of this agent's lease, however late the invocation acts and whatever the index
\* shows.  It can lose the task only to an invocation that has listed the lease
\* of an earlier claim, which retry_task, asking for "processing" only, takes for
\* this one: a second invocation that overlaps, or an index that is behind.
PromptKeepsTask ==
  [][ SlackCovers =>
        \A a \in Agents :
          Holds(a) /\ Prompt(a)' =>
            Owns(a)' \/ \E c \in Checkers : listed[c] \in 1 .. claims - 1 /\ listed'[c] = 0 ]_hbVars

\* On any clock within the skew the capacity controller sees the task of a
\* prompt agent as live, while it refreshes and while it completes, as soon as
\* the index shows the claim at all: a state of an earlier lease of this claim
\* does not let the machine look idle.
PromptSeenBusy ==
  SlackCovers =>
    \A a \in Agents, d \in -Skew .. Skew, v \in Shown :
      Holds(a) /\ v.claim = claims /\ now + d >= 0 => LiveAt(v, now + d)

\* The longest time from the last heartbeat until every clock sees it expired.
DetectionTime == Offset + Jitter + Second + Skew + Lag

\* However often a lease was extended, once an agent falls silent its task is
\* listed by the TTL checker within the detection time, whatever state the
\* index shows.
SilentIsListed ==
  row.status = "processing" /\ now > lastBeat + DetectionTime =>
    \A v \in Shown : ExpiredAt(v, now - Skew)

---------------------------------------------------------------------------
(* The inductive invariant behind them *)

\* What an agent under way to its claim, or prompt with it, can rely on: where
\* the end of its phase lies with respect to its next refresh and its lease.
ClaimingKnows(a) ==
  agent[a].pc = "claiming" /\ ~agent[a].late =>
    now <= agent[a].by /\ agent[a].by + SetupTime <= agent[a].refreshAt

PromptKnows(a) ==
  Holds(a) =>
    /\ \A c \in Checkers : listed[c] # claims
    /\ now <= agent[a].by
    /\ agent[a].by + Skew + Lag < row.expiry
    /\ agent[a].pc \in {"setup", "sleeping"} =>
         /\ agent[a].by <= agent[a].refreshAt + PollDelay
         /\ row.expiry = Expiration(agent[a].refreshAt)
    /\ agent[a].pc = "refreshing" =>
         /\ agent[a].by <= now + CallTime
         /\ agent[a].by + PollInterval <= agent[a].refreshAt

\* An earlier lease of the claim a prompt agent holds was replaced in time, and
\* the claim has had no other states than leases.
TrailKnows(a) ==
  Holds(a) =>
    \A v \in trail :
      v.claim = claims => v.status = "processing" /\ v.until + Skew + Lag < v.expiry

\* The index is at most Lag behind, and a processing row was last written when
\* its lease was.
TrailIsRecent ==
  \A v \in trail :
    /\ v.until <= now /\ now <= v.until + Lag
    /\ row.status = "processing" => v.until <= lastBeat

\* A lease never reaches further ahead of the call it was generated for.
LeaseBounded ==
  /\ row.status = "processing" => row.expiry <= lastBeat + Offset + Jitter
  /\ \A a \in Agents :
       agent[a].pc # "idle" => agent[a].refreshAt <= now + Refresh + Jitter

HbInv ==
  /\ HbTypeOK
  /\ TrailIsRecent
  /\ SlackCovers => \A a \in Agents : ClaimingKnows(a) /\ PromptKnows(a) /\ TrailKnows(a)
  /\ LeaseBounded

=============================================================================
