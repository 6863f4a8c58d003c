--------------------------- MODULE PriorityQueueProofs ---------------------------
(***************************************************************************)
(* Theorems about PriorityQueue for every set of tasks and agents and      *)
(* every number of priorities and receives: calls are made on the queue    *)
(* that holds the message, and scans respect the rank of priority.         *)
(***************************************************************************)
EXTENDS PriorityQueue, TLAPS

---------------------------------------------------------------------------
(* Table and queues, as an agent depends on them *)

\* Tasks that were submitted keep their queue, and receives only add up.
Settled ==
  \A t \in Tasks :
    /\ row[t].status # "absent" => queue'[t] = queue[t] /\ row'[t].status # "absent"
    /\ msg'[t].receives \in Nat /\ msg[t].receives <= msg'[t].receives

\* All that is said of one agent.
AgentInv(a) == LookupIsRight(a) /\ HandleIsKnown(a) /\ DueIsBelow(a)

\* The fields of an agent, and what a task in hand implies.
LEMMA AgentFields ==
  ASSUME PqInv, NEW a \in Agents
  PROVE  /\ agent[a] \in PqAgent /\ agent[a].proc \in Proc
         /\ agent[a].lookup \in SUBSET (Handles \X Priorities)
         /\ agent[a].proc.due \subseteq Tasks /\ agent[a].proc.at \in Priorities
         /\ agent[a].proc.handle \in 0 .. MaxReceiveCount
         /\ agent[a].proc.task \in Tasks \cup {NoTask}
  <1>1. agent[a] \in PqAgent
    BY DEF PqInv, PqTypeOK
  <1>2. agent[a].proc \in Proc /\ agent[a].lookup \in SUBSET (Handles \X Priorities)
    BY <1>1 DEF PqAgent
  <1> QED
    BY <1>1, <1>2 DEF Proc

\* A handle in the table was issued, so its task was submitted.
LEMMA HandleWasIssued ==
  ASSUME PqInv, NEW a \in Agents, NEW t \in Tasks, NEW h \in 1 .. MaxReceiveCount, NEW q \in Priorities,
         << << t, h >>, q >> \in agent[a].lookup
  PROVE  row[t].status # "absent"
  <1>1. h <= msg[t].receives
    BY DEF PqInv, LookupIsRight
  <1>2. msg[t].receives \in Nat /\ h >= 1
    BY MaxReceiveCountAssumption DEF PqInv, PqTypeOK, PqMessage
  <1> QED
    BY <1>1, <1>2, MaxReceiveCountAssumption DEF PqInv, RowKnowsQueue

\* The entry of a task in hand is a pair of a handle and a queue.
LEMMA HandleInHand ==
  ASSUME PqInv, NEW a \in Agents, agent[a].proc.pc \in {"received", "claimed", "running", "finished"}
  PROVE  /\ agent[a].proc.task \in Tasks
         /\ agent[a].proc.handle \in 1 .. MaxReceiveCount
         /\ row[agent[a].proc.task].status # "absent"
         /\ << << agent[a].proc.task, agent[a].proc.handle >>, queue[agent[a].proc.task] >> \in agent[a].lookup
  <1> DEFINE t == agent[a].proc.task
             h == agent[a].proc.handle
  <1>1. t \in Tasks /\ << << t, h >>, queue[t] >> \in agent[a].lookup
    BY DEF PqInv, HandleIsKnown
  <1>2. << << t, h >>, queue[t] >> \in Handles \X Priorities
    BY <1>1, AgentFields
  <1>3. h \in 1 .. MaxReceiveCount /\ queue[t] \in Priorities
    BY <1>2 DEF Handles
  <1>4. row[t].status # "absent"
    BY <1>1, <1>3, HandleWasIssued
  <1> QED
    BY <1>1, <1>3, <1>4

\* An agent keeps its part of the invariant when it loses due tasks at most.
LEMMA AgentStays ==
  ASSUME PqInv, Settled, NEW a \in Agents,
         agent'[a].lookup = agent[a].lookup,
         agent'[a].proc.pc = agent[a].proc.pc, agent'[a].proc.task = agent[a].proc.task,
         agent'[a].proc.handle = agent[a].proc.handle, agent'[a].proc.at = agent[a].proc.at,
         agent'[a].proc.due \subseteq agent[a].proc.due
  PROVE  AgentInv(a)'
  <1>1. LookupIsRight(a)'
    <2> SUFFICES ASSUME NEW t \in Tasks, NEW h \in 1 .. MaxReceiveCount, NEW q \in Priorities,
                        << << t, h >>, q >> \in agent[a].lookup
                 PROVE  q = queue'[t] /\ h <= msg'[t].receives
      BY DEF LookupIsRight
    <2>1. q = queue[t] /\ h <= msg[t].receives
      BY DEF PqInv, LookupIsRight
    <2>2. queue'[t] = queue[t]
      BY HandleWasIssued DEF Settled
    <2>3. msg'[t].receives \in Nat /\ msg[t].receives <= msg'[t].receives
      BY DEF Settled
    <2>4. msg[t].receives \in Nat /\ h \in Nat
      BY MaxReceiveCountAssumption DEF PqInv, PqTypeOK, PqMessage
    <2> QED
      BY <2>1, <2>2, <2>3, <2>4
  <1>2. HandleIsKnown(a)'
    <2> SUFFICES ASSUME agent[a].proc.pc \in {"received", "claimed", "running", "finished"}
                 PROVE  HandleIsKnown(a)'
      BY DEF HandleIsKnown
    <2>1. queue'[agent[a].proc.task] = queue[agent[a].proc.task]
      BY HandleInHand DEF Settled
    <2> QED
      BY <2>1, HandleInHand DEF HandleIsKnown
  <1>3. DueIsBelow(a)'
    <2> SUFFICES ASSUME NEW u \in agent[a].proc.due
                 PROVE  /\ row'[u].status # "absent"
                        /\ agent[a].proc.pc = "scan" => queue'[u] <= agent[a].proc.at
                        /\ agent[a].proc.pc = "received" => queue'[u] <= queue'[agent[a].proc.task]
      BY DEF DueIsBelow
    <2>1. /\ row[u].status # "absent"
          /\ agent[a].proc.pc = "scan" => queue[u] <= agent[a].proc.at
          /\ agent[a].proc.pc = "received" => queue[u] <= queue[agent[a].proc.task]
      BY DEF PqInv, DueIsBelow
    <2>2. u \in Tasks
      BY AgentFields
    <2>3. queue'[u] = queue[u] /\ row'[u].status # "absent"
      BY <2>1, <2>2 DEF Settled
    <2>4. agent[a].proc.pc = "received" => queue'[agent[a].proc.task] = queue[agent[a].proc.task]
      BY HandleInHand DEF Settled
    <2> QED
      BY <2>1, <2>3, <2>4
  <1> QED
    BY <1>1, <1>2, <1>3 DEF AgentInv

\* An agent that has nothing in hand and nothing due, with its table or none.
LEMMA AgentIdle ==
  ASSUME PqInv, Settled, NEW a \in Agents,
         agent'[a].lookup \in {agent[a].lookup, {}}, agent'[a].proc = IdleAgent
  PROVE  AgentInv(a)'
  <1>1. LookupIsRight(a)'
    <2> SUFFICES ASSUME NEW t \in Tasks, NEW h \in 1 .. MaxReceiveCount, NEW q \in Priorities,
                        << << t, h >>, q >> \in agent[a].lookup
                 PROVE  q = queue'[t] /\ h <= msg'[t].receives
      BY DEF LookupIsRight
    <2>1. q = queue[t] /\ h <= msg[t].receives
      BY DEF PqInv, LookupIsRight
    <2>2. queue'[t] = queue[t]
      BY HandleWasIssued DEF Settled
    <2>3. msg'[t].receives \in Nat /\ msg[t].receives <= msg'[t].receives
      BY DEF Settled
    <2>4. msg[t].receives \in Nat /\ h \in Nat
      BY MaxReceiveCountAssumption DEF PqInv, PqTypeOK, PqMessage
    <2> QED
      BY <2>1, <2>2, <2>3, <2>4
  <1>2. HandleIsKnown(a)' /\ DueIsBelow(a)'
    BY DEF HandleIsKnown, DueIsBelow, IdleAgent
  <1> QED
    BY <1>1, <1>2 DEF AgentInv

\* A task that is not receivable any more is struck from what is due.
LEMMA DueDrops ==
  ASSUME PqInv, Settled, NEW b \in Agents, NEW t, agent'[b] = NoLonger(t, b)
  PROVE  agent'[b] \in PqAgent /\ AgentInv(b)'
  <1> DEFINE k == [ agent[b].proc EXCEPT !.due = agent[b].proc.due \ {t} ]
             y == [ agent[b] EXCEPT !.proc = k ]
  <1>1. agent'[b] = y
    BY DEF NoLonger
  <1>2. /\ k \in Proc /\ k.pc = agent[b].proc.pc /\ k.task = agent[b].proc.task
        /\ k.handle = agent[b].proc.handle /\ k.at = agent[b].proc.at /\ k.due \subseteq agent[b].proc.due
    BY AgentFields DEF Proc
  <1> HIDE DEF k
  <1>3. y \in PqAgent /\ y.proc = k /\ y.lookup = agent[b].lookup
    BY <1>2, AgentFields DEF PqAgent
  <1> HIDE DEF y
  <1> QED
    BY <1>1, <1>2, <1>3, AgentStays

---------------------------------------------------------------------------
(* Agents *)

\* A step of one agent that leaves rows, messages and queues alone, or settled.
LEMMA AgentMove ==
  ASSUME PqInv, Settled, NEW a \in Agents, NEW g \in PqAgent,
         agent' = [agent EXCEPT ![a] = g],
         row' \in [Tasks -> PqRow], msg' \in [Tasks -> PqMessage], RowKnowsQueue',
         UNCHANGED << queue, checker >>,
         AgentInv(a)'
  PROVE  PqInv'
  <1>1. PqTypeOK'
    BY DEF PqInv, PqTypeOK
  <1>2. CheckerHasTask'
    BY DEF PqInv, CheckerHasTask
  <1>3. ASSUME NEW b \in Agents, b # a PROVE AgentInv(b)'
    <2>1. agent'[b] = agent[b]
      BY <1>3 DEF PqInv, PqTypeOK
    <2>2. agent[b].proc.due \subseteq agent[b].proc.due
      OBVIOUS
    <2> QED
      BY <2>1, <2>2, AgentStays
  <1>4. \A b \in Agents : AgentInv(b)'
    BY <1>3
  <1> QED
    BY <1>1, <1>2, <1>4 DEF PqInv, AgentInv

\* The process goes on with proc, and nothing else changes.
LEMMA BecomesKeeps ==
  ASSUME PqInv, NEW a \in Agents, NEW g \in Proc, Becomes(a, g),
         UNCHANGED << row, msg, queue, checker >>,
         /\ g.pc \in {"received", "claimed", "running", "finished"} =>
              /\ g.pc # "received"
              /\ agent[a].proc.pc \in {"received", "claimed", "running", "finished"}
              /\ g.task = agent[a].proc.task /\ g.handle = agent[a].proc.handle
         /\ \A u \in g.due : row[u].status # "absent" /\ (g.pc = "scan" => queue[u] <= g.at)
  PROVE  PqInv'
  <1> DEFINE x == [ agent[a] EXCEPT !.proc = g ]
  <1>1. x \in PqAgent /\ x.proc = g /\ x.lookup = agent[a].lookup
    BY AgentFields DEF PqAgent
  <1>2. agent' = [agent EXCEPT ![a] = x]
    BY DEF Becomes
  <1> HIDE DEF x
  <1>3. agent'[a] = x
    BY <1>2 DEF PqInv, PqTypeOK
  <1>4. Settled
    BY MaxReceiveCountAssumption DEF Settled, PqInv, PqTypeOK, PqMessage
  <1>5. LookupIsRight(a)'
    BY <1>1, <1>3 DEF LookupIsRight, PqInv
  <1>6. HandleIsKnown(a)'
    BY <1>1, <1>3, HandleInHand DEF HandleIsKnown
  <1>7. DueIsBelow(a)'
    BY <1>1, <1>3 DEF DueIsBelow
  <1>8. RowKnowsQueue' /\ row' \in [Tasks -> PqRow] /\ msg' \in [Tasks -> PqMessage]
    BY DEF PqInv, PqTypeOK, RowKnowsQueue
  <1> QED
    BY <1>1, <1>2, <1>4, <1>5, <1>6, <1>7, <1>8, AgentMove DEF AgentInv

\* An idle process is one of the state space.
LEMMA IdleType == IdleAgent \in Proc /\ [ proc |-> IdleAgent, lookup |-> {} ] \in PqAgent
  <1>1. 0 \in Priorities /\ 0 \in 0 .. MaxReceiveCount
    BY PrioritiesAssumption, MaxReceiveCountAssumption DEF Priorities
  <1>2. IdleAgent \in Proc
    BY <1>1 DEF IdleAgent, Proc
  <1> QED
    BY <1>2 DEF PqAgent

\* The scan: its start, and a poll that returns nothing.
LEMMA ScanKeeps ==
  ASSUME PqInv, NEW a \in Agents, StartScan(a) \/ PollEmpty(a) \/ PollOther(a)
  PROVE  PqInv'
  <1>0. \A t \in Tasks : queue[t] \in 0 .. PrioritiesCount - 1
    BY DEF PqInv, PqTypeOK, Priorities
  <1>1. CASE StartScan(a)
    <2> DEFINE g == [ IdleAgent EXCEPT !.pc = "scan", !.at = FirstPriority,
                                       !.due = { t \in Tasks : Receivable(t) } ]
    <2>1. Becomes(a, g) /\ UNCHANGED << row, msg, queue, checker >>
      BY <1>1 DEF StartScan
    <2>2. FirstPriority \in Priorities
      BY PrioritiesAssumption DEF FirstPriority, Priorities
    <2>3. g \in Proc
      BY <2>2, IdleType DEF Proc
    <2>4. g.pc = "scan" /\ g.at = PrioritiesCount - 1 /\ g.due = { t \in Tasks : Receivable(t) }
      BY DEF IdleAgent, FirstPriority
    <2>5. \A u \in g.due : row[u].status # "absent" /\ queue[u] <= PrioritiesCount - 1
      BY <1>0, <2>4, PrioritiesAssumption DEF Receivable, CanReceive, PqInv, RowKnowsQueue
    <2> HIDE DEF g
    <2> QED
      BY <2>1, <2>3, <2>4, <2>5, BecomesKeeps
  <1>2. CASE PollEmpty(a)
    <2>1. agent[a].proc.pc = "scan" /\ UNCHANGED << row, msg, queue, checker >>
      BY <1>2 DEF PollEmpty
    <2>2. CASE agent[a].proc.at = 0
      <3>1. Becomes(a, IdleAgent)
        BY <1>2, <2>2 DEF PollEmpty
      <3> QED
        BY <2>1, <3>1, IdleType, BecomesKeeps DEF IdleAgent
    <2>3. CASE agent[a].proc.at # 0
      <3> DEFINE due == { t \in agent[a].proc.due : queue[t] # agent[a].proc.at }
                 g == [ agent[a].proc EXCEPT !.at = agent[a].proc.at - 1, !.due = due ]
      <3>1. Becomes(a, g)
        BY <1>2, <2>3 DEF PollEmpty
      <3>2. agent[a].proc.at \in Priorities /\ agent[a].proc.at - 1 \in Priorities
        BY <2>3, AgentFields, PrioritiesAssumption DEF Priorities
      <3>3. agent[a].proc \in Proc /\ due \subseteq Tasks
        BY AgentFields
      <3>4. g \in Proc /\ g.pc = "scan" /\ g.at = agent[a].proc.at - 1 /\ g.due = due
        BY <2>1, <3>2, <3>3 DEF Proc
      <3>5. \A u \in due : row[u].status # "absent" /\ queue[u] <= agent[a].proc.at - 1
        <4> SUFFICES ASSUME NEW u \in due PROVE row[u].status # "absent" /\ queue[u] <= agent[a].proc.at - 1
          OBVIOUS
        <4>1. row[u].status # "absent" /\ queue[u] <= agent[a].proc.at /\ queue[u] # agent[a].proc.at
          BY <2>1 DEF PqInv, DueIsBelow
        <4>2. queue[u] \in Nat /\ agent[a].proc.at \in Nat
          BY <1>0, <3>2, <3>3, PrioritiesAssumption DEF Priorities
        <4> QED
          BY <4>1, <4>2
      <3> HIDE DEF g, due
      <3> QED
        BY <2>1, <3>1, <3>4, <3>5, BecomesKeeps
    <2> QED
      BY <2>2, <2>3
  <1>3. CASE PollOther(a)
    <2> DEFINE g == [ IdleAgent EXCEPT !.pc = "other" ]
    <2>1. Becomes(a, g) /\ UNCHANGED << row, msg, queue, checker >>
      BY <1>3 DEF PollOther
    <2>2. g \in Proc /\ g.pc = "other" /\ g.due = {}
      BY IdleType DEF IdleAgent, Proc
    <2> HIDE DEF g
    <2> QED
      BY <2>1, <2>2, BecomesKeeps
  <1> QED
    BY <1>1, <1>2, <1>3

\* A poll that returns a message: the new handle gets its entry, and no due task
\* is more urgent than the queue it came from.
LEMMA PollHitKeeps ==
  ASSUME PqInv, NEW a \in Agents, NEW t \in Tasks, PollHit(a, t)
  PROVE  PqInv'
  <1> DEFINE n == msg[t].receives + 1
             g == [ agent[a].proc EXCEPT !.pc = "received", !.task = t, !.handle = n ]
             table == agent[a].lookup \cup { << << t, n >>, agent[a].proc.at >> }
             x == [ proc |-> g, lookup |-> table ]
  <1>0. /\ row \in [Tasks -> PqRow] /\ msg \in [Tasks -> PqMessage] /\ queue \in [Tasks -> Priorities]
        /\ agent \in [Agents -> PqAgent]
    BY DEF PqInv, PqTypeOK
  <1>1. /\ agent[a].proc.pc = "scan"
        /\ msg[t].loc = "visible" /\ msg[t].receives < MaxReceiveCount /\ queue[t] = agent[a].proc.at
        /\ msg' = [msg EXCEPT ![t] = Receive(msg[t])]
        /\ UNCHANGED << row, queue, checker >>
    BY DEF PollHit, Receivable, CanReceive
  <1>2. agent' = [b \in Agents |-> IF b = a THEN x ELSE NoLonger(t, b)]
    BY DEF PollHit, Remember
  <1>3. msg[t].receives \in Nat /\ n \in 1 .. MaxReceiveCount /\ n \in 0 .. MaxReceiveCount
    BY <1>0, <1>1, MaxReceiveCountAssumption DEF PqMessage
  <1>4. Receive(msg[t]) \in PqMessage /\ Receive(msg[t]).receives = n /\ Receive(msg[t]).loc = "inflight"
    BY <1>3 DEF Receive, PqMessage, Location
  <1>5. /\ msg' \in [Tasks -> PqMessage]
        /\ msg'[t].receives = n /\ \A u \in Tasks \ {t} : msg'[u] = msg[u]
    BY <1>0, <1>1, <1>4
  <1>6. row[t].status # "absent"
    BY <1>1 DEF PqInv, RowKnowsQueue
  <1>7. Settled
    <2>1. \A u \in Tasks : msg[u].receives \in Nat
      BY <1>0, MaxReceiveCountAssumption DEF PqMessage
    <2> QED
      BY <1>1, <1>3, <1>5, <2>1 DEF Settled
  <1>8. RowKnowsQueue'
    BY <1>1, <1>5, <1>6 DEF PqInv, RowKnowsQueue
  <1>9. g \in Proc /\ g.pc = "received" /\ g.task = t /\ g.handle = n /\ g.due = agent[a].proc.due
    BY <1>3, AgentFields DEF Proc
  <1>10. x \in PqAgent /\ x.proc = g /\ x.lookup = table
    <2>1. << << t, n >>, agent[a].proc.at >> \in Handles \X Priorities
      BY <1>3, AgentFields DEF Handles
    <2>2. table \in SUBSET (Handles \X Priorities)
      BY <2>1, AgentFields
    <2> QED
      BY <1>9, <2>2 DEF PqAgent
  <1>11. agent'[a] = x
    BY <1>2
  <1>12. AgentInv(a)'
    <2>1. LookupIsRight(a)'
      <3> SUFFICES ASSUME NEW u \in Tasks, NEW h \in 1 .. MaxReceiveCount, NEW q \in Priorities,
                          << << u, h >>, q >> \in table
                   PROVE  q = queue[u] /\ h <= msg'[u].receives
        BY <1>1, <1>10, <1>11 DEF LookupIsRight
      <3>1. CASE << << u, h >>, q >> \in agent[a].lookup
        <4>1. q = queue[u] /\ h <= msg[u].receives
          BY <3>1 DEF PqInv, LookupIsRight
        <4>2. msg[u].receives \in Nat /\ msg'[u].receives \in Nat /\ msg[u].receives <= msg'[u].receives
          BY <1>0, <1>7, MaxReceiveCountAssumption DEF PqMessage, Settled
        <4>3. h \in Nat
          BY MaxReceiveCountAssumption
        <4> QED
          BY <4>1, <4>2, <4>3
      <3>2. CASE << << u, h >>, q >> = << << t, n >>, agent[a].proc.at >>
        <4>1. u = t /\ h = n /\ q = agent[a].proc.at
          BY <3>2
        <4> QED
          BY <1>1, <1>3, <1>5, <4>1
      <3> QED
        BY <3>1, <3>2
    <2>2. HandleIsKnown(a)'
      <3>1. agent'[a].proc.task = t /\ agent'[a].proc.handle = n /\ agent'[a].lookup = table
        BY <1>9, <1>10, <1>11
      <3>2. << << t, n >>, queue[t] >> \in table
        BY <1>1
      <3> HIDE DEF table, n
      <3> QED
        BY <1>1, <3>1, <3>2 DEF HandleIsKnown
    <2>3. DueIsBelow(a)'
      <3>1. \A u \in agent[a].proc.due : row[u].status # "absent" /\ queue[u] <= queue[t]
        BY <1>1 DEF DueIsBelow, PqInv
      <3>2. agent'[a].proc.pc = "received" /\ agent'[a].proc.task = t /\ agent'[a].proc.due = agent[a].proc.due
        BY <1>9, <1>10, <1>11
      <3> QED
        BY <1>1, <3>1, <3>2 DEF DueIsBelow
    <2> QED
      BY <2>1, <2>2, <2>3 DEF AgentInv
  <1> HIDE DEF x
  <1>13. ASSUME NEW b \in Agents, b # a
         PROVE  agent'[b] \in PqAgent /\ AgentInv(b)'
    <2>1. agent'[b] = NoLonger(t, b)
      BY <1>2, <1>13
    <2> QED
      BY <1>7, <2>1, DueDrops
  <1>14. PqTypeOK'
    <2>1. agent' \in [Agents -> PqAgent]
      BY <1>2, <1>10, <1>11, <1>13
    <2> QED
      BY <1>0, <1>1, <1>5, <2>1 DEF PqTypeOK, PqInv
  <1>15. CheckerHasTask'
    BY <1>1 DEF PqInv, CheckerHasTask
  <1> QED
    BY <1>8, <1>12, <1>13, <1>14, <1>15 DEF PqInv, AgentInv

\* What an update of one row has to leave alone: its priority and that it exists.
LEMMA RowMove ==
  ASSUME PqInv, NEW t \in Tasks, NEW r \in PqRow, row[t].status # "absent",
         r.status # "absent", r.priority = row[t].priority,
         row' = [row EXCEPT ![t] = r], UNCHANGED << msg, queue >>
  PROVE  Settled /\ RowKnowsQueue' /\ row' \in [Tasks -> PqRow] /\ msg' \in [Tasks -> PqMessage]
  <1>1. row \in [Tasks -> PqRow] /\ msg \in [Tasks -> PqMessage]
    BY DEF PqInv, PqTypeOK
  <1>2. \A u \in Tasks : msg[u].receives \in Nat
    BY <1>1, MaxReceiveCountAssumption DEF PqMessage
  <1>3. row'[t] = r /\ \A u \in Tasks \ {t} : row'[u] = row[u]
    BY <1>1
  <1>4. Settled
    BY <1>2, <1>3 DEF Settled
  <1>5. RowKnowsQueue'
    BY <1>3 DEF PqInv, RowKnowsQueue
  <1> QED
    BY <1>1, <1>4, <1>5

\* What a call of SQS or the lapse of a timeout does to the message of a task that
\* was submitted: nothing to its receives.
LEMMA MessageMove ==
  ASSUME PqInv, NEW t \in Tasks, NEW m \in PqMessage, row[t].status # "absent",
         m.receives = msg[t].receives,
         msg' = [msg EXCEPT ![t] = m], UNCHANGED << row, queue >>
  PROVE  Settled /\ RowKnowsQueue' /\ row' \in [Tasks -> PqRow] /\ msg' \in [Tasks -> PqMessage]
  <1>1. row \in [Tasks -> PqRow] /\ msg \in [Tasks -> PqMessage]
    BY DEF PqInv, PqTypeOK
  <1>2. \A u \in Tasks : msg[u].receives \in Nat
    BY <1>1, MaxReceiveCountAssumption DEF PqMessage
  <1>3. msg'[t] = m /\ \A u \in Tasks \ {t} : msg'[u] = msg[u]
    BY <1>1
  <1>4. Settled
    BY <1>2, <1>3 DEF Settled
  <1>5. RowKnowsQueue'
    BY <1>3 DEF PqInv, RowKnowsQueue
  <1> QED
    BY <1>1, <1>4, <1>5

\* The results of the calls on a message.
LEMMA MessageCalls ==
  ASSUME NEW m \in PqMessage
  PROVE  /\ \A l \in Location : LET n == [ m EXCEPT !.loc = l ] IN n \in PqMessage /\ n.receives = m.receives
         /\ \A h : \A n \in DeleteOutcomes(m, h) : n \in PqMessage /\ n.receives = m.receives
  <1>1. ASSUME NEW l \in Location
        PROVE  [ m EXCEPT !.loc = l ] \in PqMessage /\ [ m EXCEPT !.loc = l ].receives = m.receives
    BY DEF PqMessage
  <1>2. ASSUME NEW h, NEW n \in DeleteOutcomes(m, h)
        PROVE  n \in PqMessage /\ n.receives = m.receives
    <2>1. n = m \/ n = [ m EXCEPT !.loc = "deleted" ]
      BY <1>2 DEF DeleteOutcomes
    <2>2. CASE n = m
      BY <2>2
    <2>3. CASE n = [ m EXCEPT !.loc = "deleted" ]
      BY <2>3 DEF PqMessage, Location
    <2> QED
      BY <2>1, <2>2, <2>3
  <1> QED
    BY <1>1, <1>2

\* An agent goes on with the task it has in hand.
LEMMA HandGoesOn ==
  ASSUME PqInv, Settled, NEW a \in Agents, NEW g \in Proc, Becomes(a, g),
         agent[a].proc.pc \in {"received", "claimed", "running", "finished"},
         g.pc \in {"claimed", "running", "finished"},
         g.task = agent[a].proc.task, g.handle = agent[a].proc.handle,
         g.due \subseteq agent[a].proc.due,
         UNCHANGED << queue, checker >>,
         RowKnowsQueue', row' \in [Tasks -> PqRow], msg' \in [Tasks -> PqMessage]
  PROVE  PqInv'
  <1> DEFINE x == [ agent[a] EXCEPT !.proc = g ]
  <1>1. x \in PqAgent /\ x.proc = g /\ x.lookup = agent[a].lookup
    BY AgentFields DEF PqAgent
  <1>2. agent' = [agent EXCEPT ![a] = x]
    BY DEF Becomes
  <1> HIDE DEF x
  <1>3. agent'[a] = x
    BY <1>2 DEF PqInv, PqTypeOK
  <1>4. LookupIsRight(a)'
    <2> SUFFICES ASSUME NEW t \in Tasks, NEW h \in 1 .. MaxReceiveCount, NEW q \in Priorities,
                        << << t, h >>, q >> \in agent[a].lookup
                 PROVE  q = queue[t] /\ h <= msg'[t].receives
      BY <1>1, <1>3 DEF LookupIsRight
    <2>1. q = queue[t] /\ h <= msg[t].receives
      BY DEF PqInv, LookupIsRight
    <2>2. msg'[t].receives \in Nat /\ msg[t].receives <= msg'[t].receives
      BY DEF Settled
    <2>3. msg[t].receives \in Nat /\ h \in Nat
      BY MaxReceiveCountAssumption DEF PqInv, PqTypeOK, PqMessage
    <2> QED
      BY <2>1, <2>2, <2>3
  <1>5. HandleIsKnown(a)'
    BY <1>1, <1>3, HandleInHand DEF HandleIsKnown
  <1>6. DueIsBelow(a)'
    BY <1>1, <1>3, AgentFields DEF DueIsBelow, PqInv, Settled
  <1> QED
    BY <1>1, <1>2, <1>4, <1>5, <1>6, AgentMove DEF AgentInv

\* The end of a task for a process, or of the process.
LEMMA EndKeeps ==
  ASSUME PqInv, Settled, NEW a \in Agents, ToIdle(a) \/ ProcessEnds(a),
         UNCHANGED << queue, checker >>,
         RowKnowsQueue', row' \in [Tasks -> PqRow], msg' \in [Tasks -> PqMessage]
  PROVE  PqInv'
  <1>0. agent \in [Agents -> PqAgent]
    BY DEF PqInv, PqTypeOK
  <1>1. CASE ToIdle(a)
    <2> DEFINE x == [ agent[a] EXCEPT !.proc = IdleAgent ]
    <2>1. x \in PqAgent /\ x.proc = IdleAgent /\ x.lookup = agent[a].lookup
      BY AgentFields, IdleType DEF PqAgent
    <2>2. agent' = [agent EXCEPT ![a] = x]
      BY <1>1 DEF ToIdle, Becomes
    <2> HIDE DEF x
    <2>3. agent'[a] = x
      BY <1>0, <2>2
    <2> QED
      BY <2>1, <2>2, <2>3, AgentIdle, AgentMove
  <1>2. CASE ProcessEnds(a)
    <2> DEFINE x == [ proc |-> IdleAgent, lookup |-> {} ]
    <2>1. x \in PqAgent /\ x.proc = IdleAgent /\ x.lookup = {}
      BY IdleType
    <2>2. agent' = [agent EXCEPT ![a] = x]
      BY <1>2 DEF ProcessEnds
    <2> HIDE DEF x
    <2>3. agent'[a] = x
      BY <1>0, <2>2
    <2> QED
      BY <2>1, <2>2, <2>3, AgentIdle, AgentMove
  <1> QED
    BY <1>1, <1>2

\* Nothing changes in table and queues.
LEMMA StillSettled ==
  ASSUME PqInv, UNCHANGED << row, msg, queue >>
  PROVE  Settled /\ RowKnowsQueue' /\ row' \in [Tasks -> PqRow] /\ msg' \in [Tasks -> PqMessage]
  BY MaxReceiveCountAssumption DEF Settled, PqInv, PqTypeOK, PqMessage, RowKnowsQueue

\* The calls of an agent on the task it has in hand.
LEMMA HandKeeps ==
  ASSUME PqInv, NEW a \in Agents,
         \/ Claim(a) \/ ClaimRejected(a) \/ Hold(a) \/ HoldRaises(a)
         \/ Finish(a) \/ FinishRejected(a) \/ OtherDone(a) \/ Crash(a)
  PROVE  PqInv'
  <1> DEFINE t == agent[a].proc.task
             p == agent[a].proc
  <1>0. row \in [Tasks -> PqRow] /\ msg \in [Tasks -> PqMessage] /\ p \in Proc
    BY AgentFields DEF PqInv, PqTypeOK
  <1>1. CASE Claim(a)
    <2> DEFINE r == [ row[t] EXCEPT !.status = "processing", !.handle = p.handle ]
               g == [ p EXCEPT !.pc = "claimed", !.at = 0, !.due = {} ]
    <2>1. /\ p.pc = "received" /\ row' = [row EXCEPT ![t] = r] /\ Becomes(a, g)
          /\ UNCHANGED << msg, queue, checker >>
      BY <1>1 DEF Claim, AtPc
    <2>2. t \in Tasks /\ row[t].status # "absent" /\ p.handle \in 0 .. MaxReceiveCount
      BY <2>1, HandleInHand, AgentFields
    <2>3. r \in PqRow /\ r.status # "absent" /\ r.priority = row[t].priority
      BY <1>0, <2>2 DEF PqRow
    <2>4. g \in Proc /\ g.pc = "claimed" /\ g.task = t /\ g.handle = p.handle /\ g.due = {}
      <3>1. 0 \in Priorities
        BY PrioritiesAssumption DEF Priorities
      <3> QED
        BY <1>0, <3>1 DEF Proc
    <2> HIDE DEF r, g
    <2>5. Settled /\ RowKnowsQueue' /\ row' \in [Tasks -> PqRow] /\ msg' \in [Tasks -> PqMessage]
      BY <2>1, <2>2, <2>3, RowMove
    <2> QED
      BY <2>1, <2>4, <2>5, HandGoesOn
  <1>2. CASE Hold(a)
    <2> DEFINE m == [ msg[t] EXCEPT !.loc = "held" ]
               g == [ p EXCEPT !.pc = "running" ]
    <2>1. /\ p.pc = "claimed" /\ msg' = [msg EXCEPT ![t] = m] /\ Becomes(a, g)
          /\ UNCHANGED << row, queue, checker >>
      BY <1>2 DEF Hold, AtPc
    <2>2. t \in Tasks /\ row[t].status # "absent"
      BY <2>1, HandleInHand
    <2>3. m \in PqMessage /\ m.receives = msg[t].receives
      BY <1>0, <2>2 DEF PqMessage, Location
    <2>4. g \in Proc /\ g.pc = "running" /\ g.task = t /\ g.handle = p.handle /\ g.due = p.due
      BY <1>0 DEF Proc
    <2> HIDE DEF m, g
    <2>5. Settled /\ RowKnowsQueue' /\ row' \in [Tasks -> PqRow] /\ msg' \in [Tasks -> PqMessage]
      BY <2>1, <2>2, <2>3, MessageMove
    <2> QED
      BY <2>1, <2>4, <2>5, HandGoesOn
  <1>3. CASE Finish(a)
    <2> DEFINE r == [ row[t] EXCEPT !.status = "finished" ]
               g == [ p EXCEPT !.pc = "finished" ]
    <2>1. /\ p.pc = "running" /\ row' = [row EXCEPT ![t] = r] /\ Becomes(a, g)
          /\ UNCHANGED << msg, queue, checker >>
      BY <1>3 DEF Finish, AtPc
    <2>2. t \in Tasks /\ row[t].status # "absent"
      BY <2>1, HandleInHand
    <2>3. r \in PqRow /\ r.status # "absent" /\ r.priority = row[t].priority
      BY <1>0, <2>2 DEF PqRow
    <2>4. g \in Proc /\ g.pc = "finished" /\ g.task = t /\ g.handle = p.handle /\ g.due = p.due
      BY <1>0 DEF Proc
    <2> HIDE DEF r, g
    <2>5. Settled /\ RowKnowsQueue' /\ row' \in [Tasks -> PqRow] /\ msg' \in [Tasks -> PqMessage]
      BY <2>1, <2>2, <2>3, RowMove
    <2> QED
      BY <2>1, <2>4, <2>5, HandGoesOn
  <1>4. CASE ClaimRejected(a) \/ HoldRaises(a) \/ FinishRejected(a) \/ OtherDone(a) \/ Crash(a)
    <2>1. (ToIdle(a) \/ ProcessEnds(a)) /\ UNCHANGED << row, msg, queue, checker >>
      BY <1>4 DEF ClaimRejected, HoldRaises, FinishRejected, OtherDone, Crash
    <2> QED
      BY <2>1, StillSettled, EndKeeps
  <1> QED
    BY <1>1, <1>2, <1>3, <1>4

---------------------------------------------------------------------------
(* Steps that reach every agent: deletions strike the task from what is due *)

\* The agents, when table and queues are settled and each of them is idle, loses a
\* due task or stays as it is.
LEMMA AgentsMove ==
  ASSUME PqInv, Settled, queue' \in [Tasks -> Priorities],
         RowKnowsQueue', row' \in [Tasks -> PqRow], msg' \in [Tasks -> PqMessage],
         checker' \in [ pc : {"off", "reset", "fail"}, task : Tasks \cup {NoTask} ], CheckerHasTask',
         agent' \in [Agents -> PqAgent],
         \A b \in Agents : AgentInv(b)'
  PROVE  PqInv'
  BY DEF PqInv, PqTypeOK, AgentInv

\* delete_message of the agent, on its way to the next task.
LEMMA DeleteKeeps ==
  ASSUME PqInv, NEW a \in Agents, Delete(a)
  PROVE  PqInv'
  <1> DEFINE t == agent[a].proc.task
             x == [ agent[a] EXCEPT !.proc = IdleAgent ]
  <1>0. row \in [Tasks -> PqRow] /\ msg \in [Tasks -> PqMessage]
    BY DEF PqInv, PqTypeOK
  <1>1. /\ agent[a].proc.pc = "finished"
        /\ agent' = [b \in Agents |-> IF b = a THEN x ELSE NoLonger(t, b)]
        /\ UNCHANGED << row, queue, checker >>
    BY DEF Delete, AtPc
  <1>2. PICK m \in DeleteOutcomes(msg[t], agent[a].proc.handle) : msg' = [msg EXCEPT ![t] = m]
    BY DEF Delete
  <1>3. t \in Tasks /\ row[t].status # "absent"
    BY <1>1, HandleInHand
  <1>4. m \in PqMessage /\ m.receives = msg[t].receives
    BY <1>0, <1>2, <1>3, MessageCalls
  <1>5. Settled /\ RowKnowsQueue' /\ row' \in [Tasks -> PqRow] /\ msg' \in [Tasks -> PqMessage]
    BY <1>1, <1>2, <1>3, <1>4, MessageMove
  <1>6. x \in PqAgent /\ x.proc = IdleAgent /\ x.lookup = agent[a].lookup
    BY AgentFields, IdleType DEF PqAgent
  <1> HIDE DEF x
  <1>7. agent'[a] \in PqAgent /\ AgentInv(a)'
    <2>1. agent'[a] = x
      BY <1>1
    <2> QED
      BY <1>5, <1>6, <2>1, AgentIdle
  <1>8. ASSUME NEW b \in Agents, b # a PROVE agent'[b] \in PqAgent /\ AgentInv(b)'
    <2>1. agent'[b] = NoLonger(t, b)
      BY <1>1, <1>8
    <2> QED
      BY <1>5, <2>1, DueDrops
  <1>9. agent' \in [Agents -> PqAgent]
    BY <1>1, <1>7, <1>8
  <1>10. /\ checker' \in [ pc : {"off", "reset", "fail"}, task : Tasks \cup {NoTask} ] /\ CheckerHasTask'
         /\ queue' \in [Tasks -> Priorities]
    BY <1>1 DEF PqInv, PqTypeOK, CheckerHasTask
  <1> QED
    BY <1>1, <1>5, <1>7, <1>8, <1>9, <1>10, AgentsMove

\* Steps that leave the agents alone.
LEMMA AgentsRest ==
  ASSUME PqInv, Settled, UNCHANGED agent, queue' \in [Tasks -> Priorities],
         RowKnowsQueue', row' \in [Tasks -> PqRow], msg' \in [Tasks -> PqMessage],
         checker' \in [ pc : {"off", "reset", "fail"}, task : Tasks \cup {NoTask} ], CheckerHasTask'
  PROVE  PqInv'
  <1>1. ASSUME NEW b \in Agents PROVE AgentInv(b)'
    <2>1. agent'[b] = agent[b] /\ agent[b].proc.due \subseteq agent[b].proc.due
      OBVIOUS
    <2> QED
      BY <2>1, AgentStays
  <1>2. agent' \in [Agents -> PqAgent]
    BY DEF PqInv, PqTypeOK
  <1> QED
    BY <1>1, <1>2, AgentsMove

\* submit_tasks writes row and message of a task that nobody knows yet.
LEMMA SubmitKeeps ==
  ASSUME PqInv, NEW t \in Tasks, NEW p \in Priorities, Submit(t, p)
  PROVE  PqInv'
  <1> DEFINE r == [ row[t] EXCEPT !.status = "pending", !.priority = p ]
  <1>0. row \in [Tasks -> PqRow] /\ msg \in [Tasks -> PqMessage] /\ queue \in [Tasks -> Priorities]
    BY DEF PqInv, PqTypeOK
  <1>1. /\ row[t].status = "absent" /\ row' = [row EXCEPT ![t] = r]
        /\ msg' = [msg EXCEPT ![t] = Send(msg[t])] /\ queue' = [queue EXCEPT ![t] = p]
        /\ UNCHANGED << agent, checker >>
    BY DEF Submit
  <1>2. r \in PqRow /\ r.status = "pending" /\ r.priority = p
    BY <1>0 DEF PqRow
  <1>3. Send(msg[t]) \in PqMessage /\ Send(msg[t]).receives = msg[t].receives
    BY <1>0 DEF Send, PqMessage, Location
  <1> HIDE DEF r
  <1>4. /\ row'[t] = r /\ msg'[t] = Send(msg[t]) /\ queue'[t] = p
        /\ \A u \in Tasks \ {t} : row'[u] = row[u] /\ msg'[u] = msg[u] /\ queue'[u] = queue[u]
    BY <1>0, <1>1
  <1>5. /\ row' \in [Tasks -> PqRow] /\ msg' \in [Tasks -> PqMessage] /\ queue' \in [Tasks -> Priorities]
    BY <1>0, <1>1, <1>2, <1>3
  <1>6. \A u \in Tasks : msg[u].receives \in Nat
    BY <1>0, MaxReceiveCountAssumption DEF PqMessage
  <1>7. Settled
    BY <1>1, <1>3, <1>4, <1>6 DEF Settled
  <1>8. RowKnowsQueue'
    BY <1>2, <1>4 DEF PqInv, RowKnowsQueue
  <1>9. checker' \in [ pc : {"off", "reset", "fail"}, task : Tasks \cup {NoTask} ] /\ CheckerHasTask'
    BY <1>1 DEF PqInv, PqTypeOK, CheckerHasTask
  <1> QED
    BY <1>1, <1>5, <1>7, <1>8, <1>9, AgentsRest

\* A message that is in the queue belongs to a task that was submitted.
LEMMA QueuedWasSubmitted ==
  ASSUME PqInv, NEW t \in Tasks, msg[t].loc # "unsent"
  PROVE  row[t].status # "absent"
  BY DEF PqInv, RowKnowsQueue

\* SQS: a message comes back, or is moved to the dead letter queue.
LEMMA QueueKeeps ==
  ASSUME PqInv, NEW t \in Tasks, VisibilityLapse(t) \/ RedriveMessage(t)
  PROVE  PqInv'
  <1>0. msg[t] \in PqMessage
    BY DEF PqInv, PqTypeOK
  <1>1. PICK m \in {Reappear(msg[t]), Redrive(msg[t])} : msg' = [msg EXCEPT ![t] = m]
    BY DEF VisibilityLapse, RedriveMessage
  <1>2. msg[t].loc # "unsent" /\ UNCHANGED << row, queue, agent, checker >>
    BY DEF VisibilityLapse, RedriveMessage, Hidden, CanRedrive
  <1>3. /\ Reappear(msg[t]) \in PqMessage /\ Reappear(msg[t]).receives = msg[t].receives
        /\ Redrive(msg[t]) \in PqMessage /\ Redrive(msg[t]).receives = msg[t].receives
    BY <1>0 DEF Reappear, Redrive, PqMessage, Location
  <1>4. Settled /\ RowKnowsQueue' /\ row' \in [Tasks -> PqRow] /\ msg' \in [Tasks -> PqMessage]
    BY <1>1, <1>2, <1>3, QueuedWasSubmitted, MessageMove
  <1>5. /\ queue' \in [Tasks -> Priorities] /\ CheckerHasTask'
        /\ checker' \in [ pc : {"off", "reset", "fail"}, task : Tasks \cup {NoTask} ]
    BY <1>2 DEF PqInv, PqTypeOK, CheckerHasTask
  <1> QED
    BY <1>2, <1>4, <1>5, AgentsRest

\* The TTL checker.
LEMMA TtlKeeps ==
  ASSUME PqInv, (\E t \in Tasks : TtlRetry(t) \/ TtlFail(t)) \/ TtlReset \/ TtlDelete \/ TtlStops
  PROVE  PqInv'
  <1> DEFINE Checker == [ pc : {"off", "reset", "fail"}, task : Tasks \cup {NoTask} ]
  <1>0. /\ row \in [Tasks -> PqRow] /\ msg \in [Tasks -> PqMessage] /\ queue \in [Tasks -> Priorities]
        /\ agent \in [Agents -> PqAgent]
    BY DEF PqInv, PqTypeOK
  <1>1. IdleChecker \in Checker /\ IdleChecker.pc = "off"
    BY DEF IdleChecker
  <1>2. ASSUME NEW t \in Tasks, TtlRetry(t) PROVE PqInv'
    <2> DEFINE r == [ row[t] EXCEPT !.status = "pending" ]
    <2>1. /\ row[t].status = "processing" /\ row' = [row EXCEPT ![t] = r]
          /\ checker' = [ pc |-> "reset", task |-> t ] /\ UNCHANGED << msg, queue, agent >>
      BY <1>2 DEF TtlRetry
    <2>2. r \in PqRow /\ r.status = "pending" /\ r.priority = row[t].priority
      BY <1>0 DEF PqRow
    <2> HIDE DEF r
    <2>3. Settled /\ RowKnowsQueue' /\ row' \in [Tasks -> PqRow] /\ msg' \in [Tasks -> PqMessage]
      BY <2>1, <2>2, RowMove
    <2>4. checker' \in Checker /\ CheckerHasTask' /\ queue' \in [Tasks -> Priorities]
      BY <1>0, <2>1 DEF CheckerHasTask
    <2> QED
      BY <2>1, <2>3, <2>4, AgentsRest
  <1>3. ASSUME NEW t \in Tasks, TtlFail(t) PROVE PqInv'
    <2>1. checker' = [ pc |-> "fail", task |-> t ] /\ UNCHANGED << row, msg, queue, agent >>
      BY <1>3 DEF TtlFail
    <2>2. checker' \in Checker /\ CheckerHasTask' /\ queue' \in [Tasks -> Priorities]
      BY <1>0, <2>1 DEF CheckerHasTask
    <2> QED
      BY <2>1, <2>2, StillSettled, AgentsRest
  <1>4. CASE TtlStops
    <2>1. checker' = IdleChecker /\ UNCHANGED << row, msg, queue, agent >>
      BY <1>4 DEF TtlStops
    <2>2. checker' \in Checker /\ CheckerHasTask' /\ queue' \in [Tasks -> Priorities]
      BY <1>0, <1>1, <2>1 DEF CheckerHasTask
    <2> QED
      BY <2>1, <2>2, StillSettled, AgentsRest
  <1> DEFINE u == checker.task
  <1>5. CASE TtlReset
    <2>1. /\ checker.pc = "reset" /\ msg' = [msg EXCEPT ![u] = Reappear(msg[u])]
          /\ msg[u].loc # "unsent"
          /\ checker' = IdleChecker /\ UNCHANGED << row, queue, agent >>
      BY <1>5 DEF TtlReset, CanChangeVisibility, Hidden
    <2>2. u \in Tasks
      BY <2>1 DEF PqInv, CheckerHasTask
    <2>3. Reappear(msg[u]) \in PqMessage /\ Reappear(msg[u]).receives = msg[u].receives
      BY <1>0, <2>2 DEF Reappear, PqMessage, Location
    <2>4. Settled /\ RowKnowsQueue' /\ row' \in [Tasks -> PqRow] /\ msg' \in [Tasks -> PqMessage]
      BY <2>1, <2>2, <2>3, QueuedWasSubmitted, MessageMove
    <2>5. checker' \in Checker /\ CheckerHasTask' /\ queue' \in [Tasks -> Priorities]
      BY <1>0, <1>1, <2>1 DEF CheckerHasTask
    <2> QED
      BY <2>1, <2>4, <2>5, AgentsRest
  <1>6. CASE TtlDelete
    <2> DEFINE r == [ row[u] EXCEPT !.status = "failed" ]
    <2>1. /\ checker.pc = "fail" /\ row' = [row EXCEPT ![u] = r]
          /\ agent' = [a \in Agents |-> NoLonger(u, a)]
          /\ checker' = IdleChecker /\ UNCHANGED queue
      BY <1>6 DEF TtlDelete
    <2>2. PICK m \in DeleteOutcomes(msg[u], row[u].handle) : msg' = [msg EXCEPT ![u] = m]
      BY <1>6 DEF TtlDelete
    <2>3. u \in Tasks
      BY <2>1 DEF PqInv, CheckerHasTask
    <2>4. m \in PqMessage /\ m.receives = msg[u].receives
      BY <1>0, <2>2, <2>3, MessageCalls
    <2>5. r \in PqRow /\ r.status = "failed" /\ r.priority = row[u].priority
      BY <1>0, <2>3 DEF PqRow
    <2> HIDE DEF r
    <2>6. /\ row'[u] = r /\ \A t \in Tasks \ {u} : row'[t] = row[t] /\ msg'[t] = msg[t]
          /\ msg'[u] = m /\ row' \in [Tasks -> PqRow] /\ msg' \in [Tasks -> PqMessage]
      BY <1>0, <2>1, <2>2, <2>3, <2>4, <2>5
    <2>7. \A t \in Tasks : msg[t].receives \in Nat
      BY <1>0, MaxReceiveCountAssumption DEF PqMessage
    <2>8. Settled
      BY <2>1, <2>4, <2>5, <2>6, <2>7 DEF Settled
    <2>9. RowKnowsQueue'
      BY <2>1, <2>5, <2>6 DEF PqInv, RowKnowsQueue
    <2>10. checker' \in Checker /\ CheckerHasTask' /\ queue' \in [Tasks -> Priorities]
      BY <1>0, <1>1, <2>1 DEF CheckerHasTask
    <2>11. ASSUME NEW b \in Agents PROVE agent'[b] \in PqAgent /\ AgentInv(b)'
      <3>1. agent'[b] = NoLonger(u, b)
        BY <2>1
      <3> QED
        BY <2>8, <3>1, DueDrops
    <2>12. agent' \in [Agents -> PqAgent]
      BY <2>1, <2>11
    <2> QED
      BY <2>6, <2>8, <2>9, <2>10, <2>11, <2>12, AgentsMove
  <1> QED
    BY <1>2, <1>3, <1>4, <1>5, <1>6

---------------------------------------------------------------------------
(* Theorems *)

\* Nothing is submitted, nobody has received anything.
LEMMA InitPq == Init => PqInv
  <1> SUFFICES ASSUME Init PROVE PqInv
    OBVIOUS
  <1>1. 0 \in Priorities /\ 0 \in 0 .. MaxReceiveCount
    BY PrioritiesAssumption, MaxReceiveCountAssumption DEF Priorities
  <1>2. PqTypeOK
    <2>1. row \in [Tasks -> PqRow]
      BY <1>1 DEF Init, PqRow
    <2>2. msg \in [Tasks -> PqMessage]
      BY <1>1 DEF Init, NoMessage, PqMessage, Location
    <2>3. agent \in [Agents -> PqAgent]
      BY IdleType DEF Init
    <2> QED
      BY <1>1, <2>1, <2>2, <2>3 DEF Init, PqTypeOK, IdleChecker
  <1>3. RowKnowsQueue /\ CheckerHasTask
    BY DEF Init, RowKnowsQueue, CheckerHasTask, NoMessage, IdleChecker
  <1>4. \A a \in Agents : LookupIsRight(a) /\ HandleIsKnown(a) /\ DueIsBelow(a)
    BY DEF Init, IdleAgent, LookupIsRight, HandleIsKnown, DueIsBelow
  <1> QED
    BY <1>2, <1>3, <1>4 DEF PqInv

\* The invariant of table, queues, agents and checker.
THEOREM PriorityQueueInvariant == Spec => []PqInv
  <1>1. PqInv /\ [Next]_pqVars => PqInv'
    <2> SUFFICES ASSUME PqInv, [Next]_pqVars PROVE PqInv'
      OBVIOUS
    <2>1. CASE UNCHANGED pqVars
      <3>1. UNCHANGED << row, msg, queue, agent, checker >>
        BY <2>1 DEF pqVars
      <3>2. /\ checker' \in [ pc : {"off", "reset", "fail"}, task : Tasks \cup {NoTask} ] /\ CheckerHasTask'
            /\ queue' \in [Tasks -> Priorities]
        BY <3>1 DEF PqInv, PqTypeOK, CheckerHasTask
      <3> QED
        BY <3>1, <3>2, StillSettled, AgentsRest
    <2>2. ASSUME NEW a \in Agents, AgentStep(a) \/ Crash(a) PROVE PqInv'
      BY <2>2, ScanKeeps, PollHitKeeps, HandKeeps, DeleteKeeps DEF AgentStep
    <2> QED
      BY <2>1, <2>2, SubmitKeeps, TtlKeeps, QueueKeeps DEF Next
  <1> QED
    BY <1>1, InitPq, PTL DEF Spec

\* Table, queues and processes keep to their state space, the receive limit and
\* the range of the scan included.
THEOREM PriorityQueueTypeCorrect == Spec => []PqTypeOK
  <1>1. PqInv => PqTypeOK
    BY DEF PqInv
  <1> QED
    BY <1>1, PriorityQueueInvariant, PTL

\* __get_queue_object finds the queue that holds the message, by the handle for an
\* agent and by the row's priority for the TTL checker.
THEOREM PriorityQueueCalls == Spec => []CallsReachTheMessage
  <1>1. PqInv => CallsReachTheMessage
    <2> SUFFICES ASSUME PqInv PROVE CallsReachTheMessage
      OBVIOUS
    <2>0. queue \in [Tasks -> Priorities]
      BY DEF PqInv, PqTypeOK
    <2>1. ASSUME NEW a \in Agents, agent[a].proc.pc \in {"received", "claimed", "running", "finished"}
          PROVE  AgentQueue(a) = {queue[agent[a].proc.task]}
      <3>1. /\ agent[a].proc.task \in Tasks /\ agent[a].proc.handle \in 1 .. MaxReceiveCount
            /\ << << agent[a].proc.task, agent[a].proc.handle >>, queue[agent[a].proc.task] >> \in agent[a].lookup
        BY <2>1, HandleInHand
      <3>2. \A q \in Priorities :
              << << agent[a].proc.task, agent[a].proc.handle >>, q >> \in agent[a].lookup
                => q = queue[agent[a].proc.task]
        BY <3>1 DEF PqInv, LookupIsRight
      <3> QED
        BY <2>0, <3>1, <3>2 DEF AgentQueue, QueueByHandle
    <2>2. checker.pc # "off" => CheckerQueue = {queue[checker.task]}
      BY <2>0 DEF PqInv, CheckerHasTask, RowKnowsQueue, CheckerQueue, QueueByPriority
    <2> QED
      BY <2>1, <2>2 DEF CallsReachTheMessage
  <1> QED
    BY <1>1, PriorityQueueInvariant, PTL

\* receive_message: an agent passes over a more urgent task only if that task
\* arrived during the scan or was missed by a short poll.
THEOREM PriorityQueueNoInversion == Spec => []NoInversion
  <1>1. PqInv => NoInversion
    BY DEF PqInv, DueIsBelow, NoInversion
  <1> QED
    BY <1>1, PriorityQueueInvariant, PTL

=============================================================================
