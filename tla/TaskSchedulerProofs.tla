--------------------------- MODULE TaskSchedulerProofs ---------------------------
(***************************************************************************)
(* Theorems about TaskScheduler for every set of tasks, agents and checker *)
(* invocations and every retry and receive limit.                          *)
(***************************************************************************)
EXTENDS TaskScheduler, TLAPS

---------------------------------------------------------------------------
(* Types of what the table and the queue operators return *)

\* Every update of StateTable yields a row.
LEMMA RowTypes ==
  /\ NewRow \in Row /\ NoRow \in Row
  /\ \A r \in Row :
       /\ \A a \in Agents, h \in Nat : Claim(r, a, h) \in Row
       /\ Refresh(r) \in Row
       /\ Finish(r) \in Row
       /\ \A n \in 0 .. MaxRetries : Retry(r, n) \in Row
       /\ \A s \in TerminalStatus : Finalize(r, s) \in Row
       /\ [r EXCEPT !.hb = "expired"] \in Row
  <1> USE DEF Row, Status, TerminalStatus
  <1>1. NewRow \in Row /\ NoRow \in Row
    BY MaxRetriesAssumption DEF NewRow, NoRow
  <1>2. ASSUME NEW r \in Row, NEW a \in Agents, NEW h \in Nat
        PROVE  Claim(r, a, h) \in Row
    BY DEF Claim
  <1>3. ASSUME NEW r \in Row
        PROVE  Refresh(r) \in Row /\ Finish(r) \in Row /\ [r EXCEPT !.hb = "expired"] \in Row
    BY DEF Refresh, Finish
  <1>4. ASSUME NEW r \in Row, NEW n \in 0 .. MaxRetries
        PROVE  Retry(r, n) \in Row
    BY DEF Retry
  <1>5. ASSUME NEW r \in Row, NEW s \in TerminalStatus
        PROVE  Finalize(r, s) \in Row
    BY DEF Finalize
  <1> QED
    BY ONLY <1>1, <1>2, <1>3, <1>4, <1>5

\* Every call of TaskQueue yields a message.
LEMMA MessageTypes ==
  /\ NoMessage \in Message
  /\ \A m \in Message :
       /\ Send(m) \in Message /\ Receive(m) \in Message
       /\ Redrive(m) \in Message /\ Reappear(m) \in Message
       /\ [m EXCEPT !.loc = "held"] \in Message
       /\ \A h : DeleteOutcomes(m, h) \subseteq Message
  <1>1. NoMessage \in Message
    BY DEF NoMessage, Message, Location
  <1>2. ASSUME NEW m \in Message, NEW l \in Location
        PROVE  [m EXCEPT !.loc = l] \in Message
    BY DEF Message
  <1>3. ASSUME NEW m \in Message
        PROVE  /\ Send(m) \in Message /\ Redrive(m) \in Message /\ Reappear(m) \in Message
               /\ [m EXCEPT !.loc = "held"] \in Message
    BY <1>2 DEF Send, Redrive, Reappear, Location
  <1>4. ASSUME NEW m \in Message
        PROVE  Receive(m) \in Message
    BY DEF Receive, Message, Location
  <1>5. ASSUME NEW m \in Message, NEW h
        PROVE  DeleteOutcomes(m, h) \subseteq Message
    <2>1. DeleteOutcomes(m, h) \subseteq {m, [m EXCEPT !.loc = "deleted"]}
      BY DEF DeleteOutcomes
    <2>2. [m EXCEPT !.loc = "deleted"] \in Message
      BY <1>2 DEF Location
    <2> QED
      BY <2>1, <2>2
  <1> QED
    BY ONLY <1>1, <1>3, <1>4, <1>5

\* Whatever delete_message does to the message of a task, it stays a message.
LEMMA DeleteType ==
  ASSUME msg \in [Tasks -> Message], NEW t, NEW h,
         \E m \in DeleteOutcomes(msg[t], h) : msg' = [msg EXCEPT ![t] = m]
  PROVE  msg' \in [Tasks -> Message]
  <1>1. PICK m \in DeleteOutcomes(msg[t], h) : msg' = [msg EXCEPT ![t] = m]
    OBVIOUS
  <1>2. CASE t \in Tasks
    <2>1. m \in Message
      BY <1>2, MessageTypes
    <2> QED
      BY <1>1, <2>1
  <1>3. CASE t \notin Tasks
    BY <1>1, <1>3
  <1> QED
    BY <1>2, <1>3

\* An agent that goes on with its task stays in its state space.
LEMMA AgentTypes ==
  /\ IdleAgent \in AgentState
  /\ \A g \in AgentState : g.pc # "idle" =>
       /\ g.task \in Tasks /\ g.handle \in Nat
       /\ \A p \in ExecutingPc \cup {"rejected"} : [g EXCEPT !.pc = p] \in AgentState
  <1> DEFINE Busy == [ pc : {"received", "rejected"} \cup ExecutingPc, task : Tasks, handle : Nat ]
  <1>1. AgentState = {IdleAgent} \cup Busy
    BY DEF AgentState
  <1>2. IdleAgent.pc = "idle"
    BY DEF IdleAgent
  <1>3. ASSUME NEW g \in Busy
        PROVE  /\ g.task \in Tasks /\ g.handle \in Nat
               /\ \A p \in ExecutingPc \cup {"rejected"} : [g EXCEPT !.pc = p] \in Busy
    BY DEF ExecutingPc
  <1> HIDE DEF Busy
  <1> QED
    BY <1>1, <1>2, <1>3

\* The initial state is in the state space.
LEMMA InitType == Init => TypeOK
  BY RowTypes, MessageTypes, AgentTypes, MaxRetriesAssumption
     DEF Init, TypeOK, ReadyChecker, CheckerState, ReadyCancel, CancelState

\* The page a checker goes on with is of the right type.
LEMMA NextItemType ==
  ASSUME TypeOK, NEW c \in Checkers, NextItem(c)
  PROVE  checker' \in [Checkers -> CheckerState]
  <1> DEFINE k == [ pc |-> IF checker[c].todo = {} THEN "off" ELSE "scan",
                    todo |-> checker[c].todo, task |-> NoTask, retries |-> 0, handle |-> 0 ]
  <1>1. checker[c].todo \in SUBSET Tasks
    BY DEF TypeOK, CheckerState
  <1>2. k \in CheckerState
    <2>1. 0 \in 0 .. MaxRetries
      BY MaxRetriesAssumption
    <2> QED
      BY <1>1, <2>1 DEF CheckerState
  <1>3. checker' = [checker EXCEPT ![c] = k]
    BY DEF NextItem
  <1> QED
    BY <1>2, <1>3 DEF TypeOK

\* No step leaves the state space; for TtlRetry this is the retry limit.
LEMMA NextType == TypeOK /\ [Next]_vars => TypeOK'
  <1> SUFFICES ASSUME TypeOK, [Next]_vars PROVE TypeOK'
    OBVIOUS
  <1> USE DEF TypeOK
  <1>1. ASSUME NEW t \in Tasks, WriteRow(t) PROVE TypeOK'
    BY <1>1, RowTypes DEF WriteRow
  <1>2. ASSUME NEW t \in Tasks, SendMessage(t) PROVE TypeOK'
    BY <1>2, MessageTypes DEF SendMessage
  <1>3. CASE AcceptSubmission \/ RejectSubmission
    BY <1>3 DEF AcceptSubmission, RejectSubmission
  <1>4. ASSUME NEW a \in Agents, AgentStep(a) PROVE TypeOK'
    <2>1. ASSUME NEW t \in Tasks, AgentReceive(a, t) PROVE TypeOK'
      <3>1. msg' \in [Tasks -> Message]
        BY <2>1, MessageTypes DEF AgentReceive
      <3>2. msg[t].receives + 1 \in Nat
        BY DEF Message
      <3>3. [ pc |-> "received", task |-> t, handle |-> msg[t].receives + 1 ] \in AgentState
        BY <3>2 DEF AgentState
      <3> QED
        BY <2>1, <3>1, <3>3 DEF AgentReceive
    <2>2. CASE AgentClaim(a)
      <3> DEFINE t == agent[a].task
      <3>1. t \in Tasks /\ agent[a].handle \in Nat
        BY <2>2, AgentTypes DEF AgentClaim
      <3>2. Claim(row[t], a, agent[a].handle) \in Row
        BY <3>1, RowTypes
      <3>3. [agent[a] EXCEPT !.pc = "claimed"] \in AgentState
        BY <2>2, AgentTypes DEF AgentClaim, ExecutingPc
      <3> QED
        BY <2>2, <3>1, <3>2, <3>3 DEF AgentClaim
    <2>3. CASE AgentClaimRejected(a)
      BY <2>3, AgentTypes DEF AgentClaimRejected
    <2>4. CASE AgentDropCancelled(a)
      <3>1. msg' \in [Tasks -> Message]
        BY <2>4, DeleteType DEF AgentDropCancelled
      <3> QED
        BY <2>4, <3>1, AgentTypes DEF AgentDropCancelled
    <2>5. CASE AgentSkip(a) \/ AgentHoldRefused(a) \/ AgentLosesTask(a)
                 \/ AgentBootstrapError(a) \/ AgentFinishRejected(a) \/ AgentCrash(a)
      BY <2>5, AgentTypes
         DEF AgentSkip, AgentHoldRefused, AgentLosesTask, AgentBootstrapError,
             AgentFinishRejected, AgentCrash
    <2>6. CASE AgentHoldMessage(a)
      <3>1. agent[a].task \in Tasks /\ [agent[a] EXCEPT !.pc = "running"] \in AgentState
        BY <2>6, AgentTypes DEF AgentHoldMessage, ExecutingPc
      <3> QED
        BY <2>6, <3>1, MessageTypes DEF AgentHoldMessage
    <2>7. CASE AgentRefresh(a)
      BY <2>7, AgentTypes, RowTypes DEF AgentRefresh
    <2>8. CASE AgentStoreOutput(a)
      <3>1. agent[a].task \in Tasks /\ [agent[a] EXCEPT !.pc = "stored"] \in AgentState
        BY <2>8, AgentTypes DEF AgentStoreOutput, ExecutingPc
      <3> QED
        BY <2>8, <3>1 DEF AgentStoreOutput
    <2>9. CASE AgentFinish(a)
      <3>1. agent[a].task \in Tasks /\ [agent[a] EXCEPT !.pc = "finished"] \in AgentState
        BY <2>9, AgentTypes DEF AgentFinish, ExecutingPc
      <3> QED
        BY <2>9, <3>1, RowTypes DEF AgentFinish
    <2>10. CASE AgentDeleteMessage(a)
      <3>1. msg' \in [Tasks -> Message]
        BY <2>10, DeleteType DEF AgentDeleteMessage
      <3> QED
        BY <2>10, <3>1, AgentTypes DEF AgentDeleteMessage
    <2> QED
      BY <1>4, <2>1, <2>2, <2>3, <2>4, <2>5, <2>6, <2>7, <2>8, <2>9, <2>10
         DEF AgentStep, AgentProgress
  <1>5. ASSUME NEW c \in Checkers, TtlStep(c) PROVE TypeOK'
    <2>1. ASSUME NEW S \in SUBSET Tasks, TtlQuery(c, S) PROVE TypeOK'
      <3> DEFINE k == [ checker[c] EXCEPT !.pc = "scan", !.todo = S ]
      <3>1. k \in CheckerState
        BY DEF CheckerState
      <3>2. checker' = [checker EXCEPT ![c] = k]
        BY <2>1 DEF TtlQuery
      <3>3. UNCHANGED << submission, row, msg, output, agent, cancel >>
        BY <2>1 DEF TtlQuery
      <3> HIDE DEF k
      <3> QED
        BY <3>1, <3>2, <3>3
    <2>2. ASSUME NEW t \in Tasks, TtlRead(c, t) PROVE TypeOK'
      <3> DEFINE k == [ pc |-> "decide", todo |-> checker[c].todo \ {t}, task |-> t,
                        retries |-> row[t].retries, handle |-> row[t].handle ]
      <3>1. checker[c].todo \in SUBSET Tasks /\ row[t].retries \in 0 .. MaxRetries /\ row[t].handle \in Nat
        BY DEF CheckerState, Row
      <3>2. k \in CheckerState
        BY <3>1 DEF CheckerState
      <3>3. checker' = [checker EXCEPT ![c] = k]
        BY <2>2 DEF TtlRead
      <3>4. UNCHANGED << submission, row, msg, output, agent, cancel >>
        BY <2>2 DEF TtlRead
      <3> HIDE DEF k
      <3> QED
        BY <3>2, <3>3, <3>4
    <2>3. CASE TtlRetry(c)
      <3> DEFINE t == checker[c].task
      <3>1. checker[c].retries + 1 \in 0 .. MaxRetries
        <4>1. checker[c].retries \in 0 .. MaxRetries
          BY DEF CheckerState
        <4>2. checker[c].retries # MaxRetries
          BY <2>3 DEF TtlRetry
        <4> QED
          BY <4>1, <4>2, MaxRetriesAssumption
      <3>2. ASSUME t \in Tasks PROVE Retry(row[t], checker[c].retries + 1) \in Row
        BY <3>1, <3>2, RowTypes
      <3>3. row' \in [Tasks -> Row]
        BY <2>3, <3>2 DEF TtlRetry
      <3> QED
        BY <2>3, <3>3 DEF TtlRetry, CheckerState
    <2>4. CASE TtlRetryRefused(c)
      BY <2>4, NextItemType DEF TtlRetryRefused
    <2>5. CASE TtlResetVisibility(c)
      BY <2>5, NextItemType, MessageTypes DEF TtlResetVisibility
    <2>6. CASE TtlResetRefused(c) \/ TtlAbort(c)
      BY <2>6, MaxRetriesAssumption
         DEF TtlResetRefused, TtlAbort, ReadyChecker, CheckerState
    <2>7. CASE TtlFailDelete(c)
      <3>1. msg' \in [Tasks -> Message]
        BY <2>7, DeleteType DEF TtlFailDelete
      <3> QED
        BY <2>7, <3>1 DEF TtlFailDelete, CheckerState
    <2>8. CASE TtlFailRow(c)
      <3>1. row' \in [Tasks -> Row]
        BY <2>8, RowTypes DEF TtlFailRow, TerminalStatus
      <3> QED
        BY <2>8, <3>1, NextItemType DEF TtlFailRow
    <2> QED
      BY <1>5, <2>1, <2>2, <2>3, <2>4, <2>5, <2>6, <2>7, <2>8 DEF TtlStep, TtlProgress
  <1>6. CASE CancelStep
    <2>1. ASSUME NEW t \in Tasks, CancelRow(t) PROVE TypeOK'
      BY <2>1, RowTypes DEF CancelRow, CancelState, TerminalStatus
    <2>2. ASSUME NEW L \in SUBSET Tasks, CancelPending(L) \/ CancelProcessing(L) PROVE TypeOK'
      <3>1. cancel' \in CancelState
        BY <2>2 DEF CancelPending, CancelProcessing, Unlisted, CancelState
      <3> QED
        BY <2>2, <3>1 DEF CancelPending, CancelProcessing
    <2>3. CASE CancelDone \/ CancelAbort
      BY <2>3 DEF CancelDone, CancelAbort, ReadyCancel, CancelState
    <2> QED
      BY <1>6, <2>1, <2>2, <2>3 DEF CancelStep
  <1>7. ASSUME NEW t \in Tasks, HeartbeatLapse(t) PROVE TypeOK'
    BY <1>7, RowTypes DEF HeartbeatLapse
  <1>8. ASSUME NEW t \in Tasks, VisibilityLapse(t) \/ RedriveMessage(t) PROVE TypeOK'
    BY <1>8, MessageTypes DEF VisibilityLapse, RedriveMessage
  <1>9. CASE UNCHANGED vars
    BY <1>9 DEF vars
  <1> QED
    BY <1>1, <1>2, <1>3, <1>4, <1>5, <1>6, <1>7, <1>8, <1>9 DEF Next, SubmitStep, TimeStep

\* Every component keeps to its state space: rows, messages and the local
\* state of agents, checker and cancellation, the retry limit included.
THEOREM TypeCorrect == Spec => []TypeOK
  <1> QED
    BY InitType, NextType, PTL DEF Spec

---------------------------------------------------------------------------
(***************************************************************************)
(* The part of the inductive invariant that holds however many TTL checker *)
(* invocations overlap.  The argument looks at one row, one message or one *)
(* agent at a time: the Moves lemmas list every way a step of Next can     *)
(* change it, and each conjunct of AgentInv follows from those lists.      *)
(***************************************************************************)

(* What a step can do to one row, message or agent *)

RowMove(t) ==
  LET before == row[t]
      after  == row'[t]
  IN
  \/ after = before
  \/ before.status = "absent" /\ after = NewRow
  \/ /\ before.status = "processing" /\ after.status = "processing" /\ after.owner = before.owner
     /\ after.retries = before.retries /\ after.handle = before.handle
  \/ \E a \in Agents :
       /\ AgentClaim(a) /\ agent[a].task = t
       /\ before.status = "pending" /\ after.status = "processing" /\ after.owner = a
       /\ after.retries = before.retries /\ after.handle = agent[a].handle
  \/ \E a \in Agents :
       /\ AgentFinish(a) /\ agent[a].task = t
       /\ before.status = "processing" /\ after.status = "finished" /\ after.owner = before.owner
       /\ after.retries = before.retries /\ after.handle = before.handle
  \/ \E c \in Checkers :
       /\ TtlRetry(c) /\ checker[c].task = t
       /\ before.status = "processing" /\ after.status = "pending" /\ after.owner = None
       /\ after.retries = checker[c].retries + 1 /\ after.handle = before.handle
  \/ /\ \/ after.status = "cancelled" /\ CancelRow(t)
        \/ after.status = "failed" /\ \E c \in Checkers : checker[c].task = t /\ TtlFailRow(c)
     /\ after.owner = None /\ after.retries = before.retries /\ after.handle = before.handle

MessageMove(t) ==
  \/ msg'[t] = msg[t]
  \/ SendMessage(t)
  \/ \E a \in Agents : AgentReceive(a, t)
  \/ InQueue(msg[t]) /\ \E l \in {"held", "visible", "dlq"} : msg'[t] = [msg[t] EXCEPT !.loc = l]
  \/ /\ InQueue(msg[t]) /\ msg'[t] = [msg[t] EXCEPT !.loc = "deleted"]
     /\ \/ \E a \in Agents : agent[a].task = t /\ (AgentDropCancelled(a) \/ AgentDeleteMessage(a))
        \/ \E c \in Checkers : checker[c].task = t /\ TtlFailDelete(c)

AgentMove(a) ==
  \/ agent'[a] = agent[a]
  \/ agent'[a] = IdleAgent
  \/ \E t \in Tasks : AgentReceive(a, t)
  \/ AgentClaim(a) \/ AgentClaimRejected(a) \/ AgentHoldMessage(a)
  \/ AgentStoreOutput(a) \/ AgentFinish(a)

OutputMove(t) ==
  \/ output'[t] = output[t]
  \/ \E a \in Agents : agent[a].task = t /\ AgentStoreOutput(a)

---------------------------------------------------------------------------

\* Every step leaves a row alone or performs one of the updates of RowMove on it.
LEMMA RowMoves ==
  ASSUME TypeOK, [Next]_vars, NEW t \in Tasks
  PROVE  RowMove(t)
  <1>1. row \in [Tasks -> Row] /\ row[t] \in Row
    BY DEF TypeOK
  <1>2. ASSUME NEW u \in Tasks, WriteRow(u) PROVE RowMove(t)
    BY <1>1, <1>2 DEF WriteRow, RowMove
  <1>3. ASSUME NEW a \in Agents, AgentClaim(a) PROVE RowMove(t)
    <2>1. CASE agent[a].task # t
      BY <1>1, <1>3, <2>1 DEF AgentClaim, RowMove
    <2>2. CASE agent[a].task = t
      <3>1. row[t].status = "pending" /\ row'[t] = Claim(row[t], a, agent[a].handle)
        BY <1>1, <1>3, <2>2 DEF AgentClaim, CanClaim
      <3>2. /\ row'[t].status = "processing" /\ row'[t].owner = a
            /\ row'[t].retries = row[t].retries /\ row'[t].handle = agent[a].handle
        BY <1>1, <3>1 DEF Claim, Row
      <3> QED
        BY <1>3, <2>2, <3>1, <3>2 DEF RowMove
    <2> QED
      BY <2>1, <2>2
  <1>4. ASSUME NEW a \in Agents, AgentFinish(a) PROVE RowMove(t)
    <2>1. CASE agent[a].task # t
      BY <1>1, <1>4, <2>1 DEF AgentFinish, RowMove
    <2>2. CASE agent[a].task = t
      <3>1. row[t].status = "processing" /\ row'[t] = Finish(row[t])
        BY <1>1, <1>4, <2>2 DEF AgentFinish, CanFinish
      <3>2. /\ row'[t].status = "finished" /\ row'[t].owner = row[t].owner
            /\ row'[t].retries = row[t].retries /\ row'[t].handle = row[t].handle
        BY <1>1, <3>1 DEF Finish, Row
      <3> QED
        BY <1>4, <2>2, <3>1, <3>2 DEF RowMove
    <2> QED
      BY <2>1, <2>2
  <1>5. ASSUME NEW u, NEW h, row[u].status = "processing", row' = [row EXCEPT ![u] = [row[u] EXCEPT !.hb = h]]
        PROVE  RowMove(t)
    <2>1. CASE u # t
      BY <1>1, <1>5, <2>1 DEF RowMove
    <2>2. CASE u = t
      <3>1. row'[t] = [row[t] EXCEPT !.hb = h]
        BY <1>1, <1>5, <2>2
      <3>2. /\ row'[t].status = row[t].status /\ row'[t].owner = row[t].owner
            /\ row'[t].retries = row[t].retries /\ row'[t].handle = row[t].handle
        BY <1>1, <3>1 DEF Row
      <3> QED
        BY <1>5, <2>2, <3>2 DEF RowMove
    <2> QED
      BY <2>1, <2>2
  <1>6. ASSUME NEW a \in Agents, AgentRefresh(a) PROVE RowMove(t)
    BY <1>5, <1>6 DEF AgentRefresh, CanRefresh, Refresh
  <1>7. ASSUME NEW u \in Tasks, HeartbeatLapse(u) PROVE RowMove(t)
    BY <1>5, <1>7 DEF HeartbeatLapse
  <1>8. ASSUME NEW c \in Checkers, TtlRetry(c) PROVE RowMove(t)
    <2>1. CASE checker[c].task # t
      BY <1>1, <1>8, <2>1 DEF TtlRetry, RowMove
    <2>2. CASE checker[c].task = t
      <3>1. row[t].status = "processing" /\ row'[t] = Retry(row[t], checker[c].retries + 1)
        BY <1>1, <1>8, <2>2 DEF TtlRetry, CanRetry
      <3>2. /\ row'[t].status = "pending" /\ row'[t].owner = None
            /\ row'[t].retries = checker[c].retries + 1 /\ row'[t].handle = row[t].handle
        BY <1>1, <3>1 DEF Retry, Row
      <3> QED
        BY <1>8, <2>2, <3>1, <3>2 DEF RowMove
    <2> QED
      BY <2>1, <2>2
  <1>9. ASSUME NEW s, row'[t] = Finalize(row[t], s)
        PROVE  /\ row'[t].status = s /\ row'[t].owner = None
               /\ row'[t].retries = row[t].retries /\ row'[t].handle = row[t].handle
    BY <1>1, <1>9 DEF Finalize, Row
  <1>10. ASSUME NEW c \in Checkers, TtlFailRow(c) PROVE RowMove(t)
    <2>1. row'[t] = IF checker[c].task = t THEN Finalize(row[t], "failed") ELSE row[t]
      BY <1>1, <1>10 DEF TtlFailRow
    <2> QED
      BY <1>9, <1>10, <2>1 DEF RowMove
  <1>11. ASSUME NEW u \in Tasks, CancelRow(u) PROVE RowMove(t)
    <2>1. row'[t] = IF u = t THEN Finalize(row[t], "cancelled") ELSE row[t]
      BY <1>1, <1>11 DEF CancelRow
    <2> QED
      BY <1>9, <1>11, <2>1 DEF RowMove
  <1>12. ASSUME row' = row PROVE RowMove(t)
    BY <1>12 DEF RowMove
  <1>13. ASSUME NEW a \in Agents, AgentStep(a) PROVE RowMove(t)
    BY <1>3, <1>4, <1>6, <1>12, <1>13
       DEF AgentStep, AgentProgress, AgentReceive, AgentClaimRejected, AgentDropCancelled,
           AgentSkip, AgentHoldMessage, AgentHoldRefused, AgentLosesTask, AgentBootstrapError,
           AgentStoreOutput, AgentFinishRejected, AgentDeleteMessage, AgentCrash
  <1>14. ASSUME NEW c \in Checkers, TtlStep(c) PROVE RowMove(t)
    BY <1>8, <1>10, <1>12, <1>14
       DEF TtlStep, TtlProgress, TtlQuery, TtlRead, TtlRetryRefused, TtlResetVisibility,
           TtlResetRefused, TtlFailDelete, TtlAbort
  <1>15. CASE SubmitStep \/ CancelStep \/ TimeStep \/ UNCHANGED vars
    BY <1>2, <1>7, <1>11, <1>12, <1>15
       DEF SubmitStep, SendMessage, AcceptSubmission, RejectSubmission, CancelStep,
           CancelPending, CancelProcessing, CancelDone, CancelAbort, TimeStep,
           VisibilityLapse, RedriveMessage, vars
  <1> QED
    BY <1>13, <1>14, <1>15 DEF Next

\* A delete removes the message or leaves it as it was.
LEMMA DeleteMove ==
  ASSUME NEW t \in Tasks, NEW u, NEW h, msg \in [Tasks -> Message],
         \E m \in DeleteOutcomes(msg[u], h) : msg' = [msg EXCEPT ![u] = m]
  PROVE  \/ msg'[t] = msg[t]
         \/ u = t /\ InQueue(msg[t]) /\ msg'[t] = [msg[t] EXCEPT !.loc = "deleted"]
  <1>1. PICK m \in DeleteOutcomes(msg[u], h) : msg' = [msg EXCEPT ![u] = m]
    OBVIOUS
  <1>2. CASE u # t
    BY <1>1, <1>2
  <1>3. CASE u = t
    <2>1. ASSUME NEW n, NEW o \in DeleteOutcomes(n, h)
          PROVE  o = n \/ (InQueue(n) /\ o = [n EXCEPT !.loc = "deleted"])
      BY DEF DeleteOutcomes
    <2>2. m = msg[t] \/ (InQueue(msg[t]) /\ m = [msg[t] EXCEPT !.loc = "deleted"])
      BY <1>3, <2>1
    <2> QED
      BY <1>1, <1>3, <2>2
  <1> QED
    BY <1>2, <1>3

\* Every step leaves a message alone or performs one of the calls of MessageMove on it.
LEMMA MessageMoves ==
  ASSUME TypeOK, [Next]_vars, NEW t \in Tasks
  PROVE  MessageMove(t)
  <1> USE DEF TypeOK
  <1>1. ASSUME NEW u \in Tasks, SendMessage(u) PROVE MessageMove(t)
    <2>1. u # t => msg'[t] = msg[t]
      BY <1>1 DEF SendMessage
    <2> QED
      BY <1>1, <2>1 DEF MessageMove
  <1>2. ASSUME NEW a \in Agents, NEW u \in Tasks, AgentReceive(a, u) PROVE MessageMove(t)
    <2>1. u # t => msg'[t] = msg[t]
      BY <1>2 DEF AgentReceive
    <2> QED
      BY <1>2, <2>1 DEF MessageMove
  <1>3. ASSUME NEW a \in Agents, AgentDropCancelled(a) \/ AgentDeleteMessage(a)
        PROVE  MessageMove(t)
    <2>1. \E m \in DeleteOutcomes(msg[agent[a].task], agent[a].handle) :
             msg' = [msg EXCEPT ![agent[a].task] = m]
      BY <1>3 DEF AgentDropCancelled, AgentDeleteMessage
    <2>2. \/ msg'[t] = msg[t]
          \/ agent[a].task = t /\ InQueue(msg[t]) /\ msg'[t] = [msg[t] EXCEPT !.loc = "deleted"]
      BY <2>1, DeleteMove
    <2> QED
      BY <1>3, <2>2 DEF MessageMove
  <1>4. ASSUME NEW a \in Agents, AgentHoldMessage(a) PROVE MessageMove(t)
    BY <1>4 DEF AgentHoldMessage, CanChangeVisibility, InQueue, MessageMove
  <1>5. ASSUME NEW c \in Checkers, TtlResetVisibility(c) PROVE MessageMove(t)
    BY <1>5 DEF TtlResetVisibility, CanChangeVisibility, InQueue, Reappear, MessageMove
  <1>6. ASSUME NEW c \in Checkers, TtlFailDelete(c) PROVE MessageMove(t)
    <2>1. \E m \in DeleteOutcomes(msg[checker[c].task], checker[c].handle) :
             msg' = [msg EXCEPT ![checker[c].task] = m]
      BY <1>6 DEF TtlFailDelete
    <2>2. \/ msg'[t] = msg[t]
          \/ checker[c].task = t /\ InQueue(msg[t]) /\ msg'[t] = [msg[t] EXCEPT !.loc = "deleted"]
      BY <2>1, DeleteMove
    <2> QED
      BY <1>6, <2>2 DEF MessageMove
  <1>7. ASSUME NEW u \in Tasks, VisibilityLapse(u) \/ RedriveMessage(u) PROVE MessageMove(t)
    BY <1>7 DEF VisibilityLapse, RedriveMessage, CanRedrive, Reappear, Redrive, InQueue, MessageMove
  <1>8. ASSUME msg' = msg PROVE MessageMove(t)
    BY <1>8 DEF MessageMove
  <1>9. ASSUME NEW a \in Agents, AgentStep(a) PROVE MessageMove(t)
    BY <1>2, <1>3, <1>4, <1>8, <1>9
       DEF AgentStep, AgentProgress, AgentClaim, AgentClaimRejected, AgentSkip, AgentHoldRefused,
           AgentRefresh, AgentLosesTask, AgentBootstrapError, AgentStoreOutput, AgentFinish,
           AgentFinishRejected, AgentCrash
  <1>10. ASSUME NEW c \in Checkers, TtlStep(c) PROVE MessageMove(t)
    BY <1>5, <1>6, <1>8, <1>10
       DEF TtlStep, TtlProgress, TtlQuery, TtlRead, TtlRetry, TtlRetryRefused, TtlResetRefused,
           TtlFailRow, TtlAbort
  <1>11. CASE SubmitStep \/ CancelStep \/ TimeStep \/ UNCHANGED vars
    BY <1>1, <1>7, <1>8, <1>11
       DEF SubmitStep, WriteRow, AcceptSubmission, RejectSubmission, CancelStep, CancelRow,
           CancelPending, CancelProcessing, CancelDone, CancelAbort, TimeStep, HeartbeatLapse, vars
  <1> QED
    BY <1>9, <1>10, <1>11 DEF Next

\* Every step leaves an agent alone or is one of the moves of AgentMove.
LEMMA AgentMoves ==
  ASSUME TypeOK, [Next]_vars, NEW a \in Agents
  PROVE  AgentMove(a)
  <1> USE DEF TypeOK
  <1>1. ASSUME NEW b \in Agents, AgentStep(b), b # a PROVE agent'[a] = agent[a]
    BY <1>1
       DEF AgentStep, AgentProgress, AgentReceive, AgentClaim, AgentClaimRejected,
           AgentDropCancelled, AgentSkip, AgentHoldMessage, AgentHoldRefused, AgentRefresh,
           AgentLosesTask, AgentBootstrapError, AgentStoreOutput, AgentFinish,
           AgentFinishRejected, AgentDeleteMessage, AgentCrash
  <1>2. ASSUME AgentStep(a) PROVE AgentMove(a)
    <2>1. CASE \/ AgentDropCancelled(a) \/ AgentSkip(a) \/ AgentHoldRefused(a) \/ AgentLosesTask(a)
               \/ AgentBootstrapError(a) \/ AgentFinishRejected(a) \/ AgentDeleteMessage(a)
               \/ AgentCrash(a) \/ AgentRefresh(a)
      <3>1. agent'[a] = agent[a] \/ agent'[a] = IdleAgent
        BY <2>1
           DEF AgentDropCancelled, AgentSkip, AgentHoldRefused, AgentLosesTask,
               AgentBootstrapError, AgentFinishRejected, AgentDeleteMessage, AgentCrash, AgentRefresh
      <3> QED
        BY <3>1 DEF AgentMove
    <2> QED
      BY <1>2, <2>1 DEF AgentStep, AgentProgress, AgentMove
  <1>3. ASSUME NEW c \in Checkers, TtlStep(c) PROVE agent' = agent
    BY <1>3
       DEF TtlStep, TtlProgress, TtlQuery, TtlRead, TtlRetry, TtlRetryRefused, TtlResetVisibility,
           TtlResetRefused, TtlFailDelete, TtlFailRow, TtlAbort
  <1>4. CASE SubmitStep \/ CancelStep \/ TimeStep \/ UNCHANGED vars
    <2>1. agent' = agent
      BY <1>4
         DEF SubmitStep, WriteRow, SendMessage, AcceptSubmission, RejectSubmission, CancelStep,
             CancelRow, CancelPending, CancelProcessing, CancelDone, CancelAbort, TimeStep,
             HeartbeatLapse, VisibilityLapse, RedriveMessage, vars
    <2> QED
      BY <2>1 DEF AgentMove
  <1> QED
    BY <1>1, <1>2, <1>3, <1>4 DEF Next, AgentMove

\* An output changes only when an agent that runs the task stores its own.
LEMMA OutputMoves ==
  ASSUME TypeOK, [Next]_vars, NEW t \in Tasks
  PROVE  OutputMove(t)
  <1> USE DEF TypeOK
  <1>1. ASSUME NEW a \in Agents, AgentStoreOutput(a) PROVE OutputMove(t)
    <2>1. agent[a].task # t => output'[t] = output[t]
      BY <1>1 DEF AgentStoreOutput
    <2> QED
      BY <1>1, <2>1 DEF OutputMove
  <1>2. ASSUME output' = output PROVE OutputMove(t)
    BY <1>2 DEF OutputMove
  <1>3. ASSUME NEW a \in Agents, AgentStep(a) PROVE OutputMove(t)
    BY <1>1, <1>2, <1>3
       DEF AgentStep, AgentProgress, AgentReceive, AgentClaim, AgentClaimRejected,
           AgentDropCancelled, AgentSkip, AgentHoldMessage, AgentHoldRefused, AgentRefresh,
           AgentLosesTask, AgentBootstrapError, AgentFinish, AgentFinishRejected,
           AgentDeleteMessage, AgentCrash
  <1>4. ASSUME NEW c \in Checkers, TtlStep(c) PROVE OutputMove(t)
    BY <1>2, <1>4
       DEF TtlStep, TtlProgress, TtlQuery, TtlRead, TtlRetry, TtlRetryRefused, TtlResetVisibility,
           TtlResetRefused, TtlFailDelete, TtlFailRow, TtlAbort
  <1>5. CASE SubmitStep \/ CancelStep \/ TimeStep \/ UNCHANGED vars
    BY <1>2, <1>5
       DEF SubmitStep, WriteRow, SendMessage, AcceptSubmission, RejectSubmission, CancelStep,
           CancelRow, CancelPending, CancelProcessing, CancelDone, CancelAbort, TimeStep,
           HeartbeatLapse, VisibilityLapse, RedriveMessage, vars
  <1> QED
    BY <1>3, <1>4, <1>5 DEF Next

---------------------------------------------------------------------------
(* What never goes back *)

\* The task an agent works on and the handle it got for it.
LEMMA AgentTask ==
  ASSUME AgentInv, NEW a \in Agents, agent[a].pc # "idle"
  PROVE  /\ agent[a].task \in Tasks
         /\ agent[a].handle \in Nat \ {0}
         /\ agent[a].handle <= msg[agent[a].task].receives
         /\ msg[agent[a].task].loc # "unsent"
         /\ row[agent[a].task].status # "absent"
  <1>1. agent[a].task \in Tasks /\ agent[a].handle \in Nat
    BY AgentTypes DEF AgentInv, TypeOK
  <1>2. msg[agent[a].task].receives \in Nat
    BY <1>1 DEF AgentInv, TypeOK, Message
  <1> QED
    BY <1>1, <1>2 DEF AgentInv, AgentKnows, MessageHasRow

\* A row does not disappear, is not reopened, and keeps that it was claimed.
LEMMA RowEvolves ==
  ASSUME AgentInv, [Next]_vars, NEW t \in Tasks
  PROVE  /\ row[t].status # "absent" => row'[t].status # "absent"
         /\ row[t].status \in TerminalStatus => row'[t].status \in TerminalStatus
         /\ row[t].status \in {"failed", "cancelled"} => row'[t].status # "finished"
         /\ row[t].handle # 0 => row'[t].handle # 0
  <1>1. RowMove(t)
    BY RowMoves DEF AgentInv
  <1>2. row[t].status = "absent" => row[t].handle = 0
    BY DEF AgentInv, RowKnows, NoRow
  <1>3. NewRow.status = "pending"
    BY DEF NewRow, NoRow
  <1>4. ASSUME NEW a \in Agents, AgentClaim(a) PROVE agent[a].handle # 0
    BY <1>4, AgentTask DEF AgentClaim
  <1> QED
    BY <1>1, <1>2, <1>3, <1>4 DEF RowMove, TerminalStatus

\* A message that was sent stays sent and its receives are counted.
LEMMA MessageEvolves ==
  ASSUME AgentInv, [Next]_vars, NEW t \in Tasks
  PROVE  /\ msg[t].loc # "unsent" => msg'[t].loc # "unsent"
         /\ msg[t].receives <= msg'[t].receives
  <1>1. TypeOK /\ msg[t] \in Message
    BY DEF AgentInv, TypeOK
  <1>2. MessageMove(t)
    BY <1>1, MessageMoves
  <1>3. CASE msg'[t] = msg[t]
    BY <1>1, <1>3 DEF Message
  <1>4. CASE SendMessage(t)
    BY <1>1, <1>4 DEF SendMessage, Send, Message, TypeOK
  <1>5. ASSUME NEW a \in Agents, AgentReceive(a, t)
        PROVE  msg'[t].loc = "inflight" /\ msg'[t].receives = msg[t].receives + 1
    BY <1>1, <1>5 DEF AgentReceive, Receive, TypeOK
  <1>6. ASSUME NEW l \in {"held", "visible", "dlq", "deleted"}, msg'[t] = [msg[t] EXCEPT !.loc = l]
        PROVE  msg'[t].loc # "unsent" /\ msg'[t].receives = msg[t].receives
    BY <1>1, <1>6 DEF Message
  <1>7. msg[t].receives \in Nat
    BY <1>1 DEF Message
  <1> QED
    BY <1>2, <1>3, <1>4, <1>5, <1>6, <1>7 DEF MessageMove

\* The data plane does not lose an output.
LEMMA OutputEvolves ==
  ASSUME AgentInv, [Next]_vars, NEW t \in Tasks, output[t] # None
  PROVE  output'[t] # None
  <1>1. TypeOK
    BY DEF AgentInv
  <1>2. OutputMove(t)
    BY <1>1, OutputMoves
  <1>3. ASSUME NEW a \in Agents, agent[a].task = t, AgentStoreOutput(a) PROVE output'[t] = a
    BY <1>1, <1>3 DEF AgentStoreOutput, TypeOK
  <1> QED
    BY <1>2, <1>3, AgentsAssumption DEF OutputMove

---------------------------------------------------------------------------
(* The conjuncts of AgentInv, one lemma each *)

\* Rows are never removed, and a message is sent only once all rows are there.
LEMMA MessageHasRowStep == AgentInv /\ [Next]_vars => MessageHasRow'
  <1> SUFFICES ASSUME AgentInv, [Next]_vars, NEW t \in Tasks, msg'[t].loc # "unsent"
               PROVE  row'[t].status # "absent"
    BY DEF MessageHasRow
  <1>1. TypeOK /\ MessageHasRow
    BY DEF AgentInv
  <1>2. MessageMove(t)
    BY <1>1, MessageMoves
  <1>3. msg[t].loc # "unsent" => row'[t].status # "absent"
    BY <1>1, RowEvolves DEF MessageHasRow
  <1>4. ASSUME NEW a \in Agents, AgentReceive(a, t) PROVE msg[t].loc # "unsent"
    BY <1>4 DEF AgentReceive, CanReceive
  <1>5. InQueue(msg[t]) => msg[t].loc # "unsent"
    BY DEF InQueue, Hidden
  <1>6. SendMessage(t) => row'[t].status # "absent"
    BY DEF SendMessage
  <1> QED
    BY <1>2, <1>3, <1>4, <1>5, <1>6 DEF MessageMove

\* An agent that stays where it is keeps what it knows.
LEMMA AgentStays ==
  ASSUME AgentInv, [Next]_vars, NEW a \in Agents, agent[a].pc # "idle",
         agent'[a].task = agent[a].task, agent'[a].handle = agent[a].handle
  PROVE  LET t == agent'[a].task IN
           /\ agent'[a].handle \in 1 .. msg'[t].receives /\ msg'[t].loc # "unsent"
           /\ agent[a].pc \in ExecutingPc => row'[t].handle # 0
           /\ agent[a].pc \in {"stored", "finished"} => output'[t] # None
           /\ agent[a].pc = "finished" => row'[t].status \in TerminalStatus
  <1> DEFINE t == agent[a].task
  <1>1. /\ t \in Tasks /\ agent[a].handle \in Nat \ {0}
        /\ agent[a].handle <= msg[t].receives /\ msg[t].loc # "unsent"
    BY AgentTask
  <1>2. TypeOK'
    BY NextType DEF AgentInv
  <1>3. msg[t].receives \in Nat /\ msg'[t].receives \in Nat
    BY <1>1, <1>2 DEF AgentInv, TypeOK, Message
  <1>4. agent'[a].handle \in 1 .. msg'[t].receives /\ msg'[t].loc # "unsent"
    BY <1>1, <1>3, MessageEvolves
  <1>5. agent[a].pc \in ExecutingPc => row'[t].handle # 0
    BY <1>1, RowEvolves DEF AgentInv, AgentKnows
  <1>6. agent[a].pc \in {"stored", "finished"} => output'[t] # None
    BY <1>1, OutputEvolves DEF AgentInv, AgentKnows
  <1>7. agent[a].pc = "finished" => row'[t].status \in TerminalStatus
    BY <1>1, RowEvolves DEF AgentInv, AgentKnows
  <1> QED
    BY <1>4, <1>5, <1>6, <1>7

\* How the program counter of an agent moves, and what else the step does.
LEMMA AgentPcMoves ==
  ASSUME AgentInv, [Next]_vars, NEW a \in Agents
  PROVE  \/ agent'[a] = IdleAgent
         \/ \E t \in Tasks : AgentReceive(a, t) /\ agent'[a].pc = "received"
         \/ /\ agent'[a].task = agent[a].task /\ agent'[a].handle = agent[a].handle
            /\ agent[a].pc # "idle"
            /\ \/ agent'[a] = agent[a]
               \/ agent[a].pc = "received" /\ agent'[a].pc = "claimed" /\ AgentClaim(a)
               \/ agent[a].pc = "received" /\ agent'[a].pc = "rejected"
               \/ agent[a].pc = "claimed" /\ agent'[a].pc = "running" /\ row' = row
               \/ agent[a].pc = "running" /\ agent'[a].pc = "stored" /\ AgentStoreOutput(a)
               \/ agent[a].pc = "stored" /\ agent'[a].pc = "finished" /\ AgentFinish(a)
  <1> USE DEF TypeOK
  <1>1. TypeOK /\ AgentMove(a) /\ agent[a] \in AgentState
    BY AgentMoves DEF AgentInv
  <1>2. agent[a].pc = "idle" => agent[a] = IdleAgent
    BY <1>1 DEF AgentState, ExecutingPc
  <1>3. ASSUME NEW t \in Tasks, AgentReceive(a, t) PROVE agent'[a].pc = "received"
    BY <1>1, <1>3 DEF AgentReceive
  <1>4. ASSUME NEW p, agent[a].pc # "idle", agent' = [agent EXCEPT ![a].pc = p]
        PROVE  agent'[a].pc = p /\ agent'[a].task = agent[a].task /\ agent'[a].handle = agent[a].handle
    <2>1. agent'[a] = [agent[a] EXCEPT !.pc = p]
      BY <1>1, <1>4
    <2>2. agent[a] \in [ pc : {"received", "rejected"} \cup ExecutingPc, task : Tasks, handle : Nat ]
      BY <1>1, <1>4 DEF AgentState, IdleAgent
    <2> QED
      BY <2>1, <2>2
  <1>5. AgentClaim(a) => agent[a].pc = "received" /\ agent' = [agent EXCEPT ![a].pc = "claimed"]
    BY DEF AgentClaim
  <1>6. AgentClaimRejected(a) => agent[a].pc = "received" /\ agent' = [agent EXCEPT ![a].pc = "rejected"]
    BY DEF AgentClaimRejected
  <1>7. AgentHoldMessage(a) =>
          agent[a].pc = "claimed" /\ agent' = [agent EXCEPT ![a].pc = "running"] /\ row' = row
    BY DEF AgentHoldMessage
  <1>8. AgentStoreOutput(a) => agent[a].pc = "running" /\ agent' = [agent EXCEPT ![a].pc = "stored"]
    BY DEF AgentStoreOutput
  <1>9. AgentFinish(a) => agent[a].pc = "stored" /\ agent' = [agent EXCEPT ![a].pc = "finished"]
    BY DEF AgentFinish
  <1> QED
    BY <1>1, <1>2, <1>3, <1>4, <1>5, <1>6, <1>7, <1>8, <1>9 DEF AgentMove

\* No other actor takes away what an agent relies on: handles only grow, rows
\* once claimed keep a handle, outputs are never removed, final states are closed.
LEMMA AgentKnowsStep == AgentInv /\ [Next]_vars => AgentKnows'
  <1> SUFFICES ASSUME AgentInv, [Next]_vars, NEW a \in Agents
               PROVE  LET t == agent'[a].task IN
                        /\ agent'[a].pc # "idle" =>
                             agent'[a].handle \in 1 .. msg'[t].receives /\ msg'[t].loc # "unsent"
                        /\ agent'[a].pc \in ExecutingPc => row'[t].handle # 0
                        /\ agent'[a].pc \in {"stored", "finished"} => output'[t] # None
                        /\ agent'[a].pc = "finished" => row'[t].status \in TerminalStatus
    BY DEF AgentKnows
  <1> USE DEF ExecutingPc
  <1>1. TypeOK /\ agent[a] \in AgentState
    BY DEF AgentInv, TypeOK
  <1>2. CASE agent'[a] = IdleAgent
    BY <1>2 DEF IdleAgent
  <1>3. ASSUME NEW t \in Tasks, AgentReceive(a, t)
        PROVE  /\ agent'[a].pc = "received" /\ agent'[a].task = t
               /\ agent'[a].handle \in 1 .. msg'[t].receives /\ msg'[t].loc # "unsent"
    <2>1. agent'[a] = [ pc |-> "received", task |-> t, handle |-> msg[t].receives + 1 ]
      BY <1>1, <1>3 DEF AgentReceive, TypeOK
    <2>2. msg'[t] = Receive(msg[t]) /\ msg[t].receives \in Nat
      BY <1>1, <1>3 DEF AgentReceive, TypeOK, Message
    <2> QED
      BY <2>1, <2>2 DEF Receive
  <1>4. ASSUME agent[a].pc # "idle", agent'[a].task = agent[a].task,
               agent'[a].handle = agent[a].handle
        PROVE  LET t == agent'[a].task IN
                 /\ agent'[a].handle \in 1 .. msg'[t].receives /\ msg'[t].loc # "unsent"
                 /\ agent[a].pc \in ExecutingPc => row'[t].handle # 0
                 /\ agent[a].pc \in {"stored", "finished"} => output'[t] # None
                 /\ agent[a].pc = "finished" => row'[t].status \in TerminalStatus
    BY <1>4, AgentStays
  <1>5. ASSUME AgentClaim(a) PROVE row'[agent[a].task].handle # 0
    <2>1. agent[a].task \in Tasks /\ agent[a].handle # 0
      BY <1>5, AgentTask DEF AgentClaim
    <2>2. row'[agent[a].task] = Claim(row[agent[a].task], a, agent[a].handle)
      BY <1>1, <1>5, <2>1 DEF AgentClaim, TypeOK
    <2> QED
      BY <1>1, <2>1, <2>2 DEF Claim, TypeOK, Row
  <1>6. ASSUME AgentStoreOutput(a) PROVE output'[agent[a].task] # None
    <2>1. agent[a].task \in Tasks
      BY <1>6, AgentTask DEF AgentStoreOutput
    <2> QED
      BY <1>1, <1>6, <2>1, AgentsAssumption DEF AgentStoreOutput, TypeOK
  <1>7. ASSUME AgentFinish(a) PROVE row'[agent[a].task].status \in TerminalStatus
    <2>1. agent[a].task \in Tasks
      BY <1>7, AgentTask DEF AgentFinish
    <2>2. row'[agent[a].task] = Finish(row[agent[a].task])
      BY <1>1, <1>7, <2>1 DEF AgentFinish, TypeOK
    <2> QED
      BY <1>1, <2>1, <2>2 DEF Finish, TypeOK, Row, TerminalStatus
  <1> QED
    BY <1>2, <1>3, <1>4, <1>5, <1>6, <1>7, AgentPcMoves

\* Messages are never unsent, and a row is finished by an agent that stored first.
LEMMA RowKnowsStep == AgentInv /\ [Next]_vars => RowKnows'
  <1> SUFFICES ASSUME AgentInv, [Next]_vars, NEW t \in Tasks
               PROVE  /\ submission' = "accepted" => msg'[t].loc # "unsent"
                      /\ row'[t].status = "absent" => row'[t] = NoRow
                      /\ row'[t].status = "processing" => row'[t].handle # 0
                      /\ row'[t].status = "finished" => output'[t] # None
    BY DEF RowKnows
  <1>1. TypeOK /\ RowKnows /\ row[t] \in Row
    BY DEF AgentInv, TypeOK
  <1>2. submission' = "accepted" => msg'[t].loc # "unsent"
    <2>1. submission' = "accepted" => submission = "accepted" \/ AcceptSubmission
      BY DEF Next, SubmitStep, WriteRow, SendMessage, RejectSubmission,
         AgentStep, AgentProgress, AgentReceive, AgentClaim, AgentClaimRejected,
         AgentDropCancelled, AgentSkip, AgentHoldMessage, AgentHoldRefused, AgentRefresh,
         AgentLosesTask, AgentBootstrapError, AgentStoreOutput, AgentFinish,
         AgentFinishRejected, AgentDeleteMessage, AgentCrash,
         TtlStep, TtlProgress, TtlQuery, TtlRead, TtlRetry, TtlRetryRefused, TtlResetVisibility,
         TtlResetRefused, TtlFailDelete, TtlFailRow, TtlAbort, CancelStep,
         CancelRow, CancelPending, CancelProcessing, CancelDone, CancelAbort, TimeStep,
         HeartbeatLapse, VisibilityLapse, RedriveMessage, vars
    <2>2. AcceptSubmission => msg[t].loc # "unsent"
      BY DEF AcceptSubmission
    <2> QED
      BY <1>1, <2>1, <2>2, MessageEvolves DEF RowKnows
  <1>3. RowMove(t)
    BY <1>1, RowMoves
  <1>4. ASSUME NEW a \in Agents, AgentClaim(a) PROVE agent[a].handle # 0
    BY <1>4, AgentTask DEF AgentClaim
  <1>5. ASSUME NEW a \in Agents, agent[a].task = t, AgentFinish(a) PROVE output[t] # None
    BY <1>5 DEF AgentFinish, AgentInv, AgentKnows
  <1>6. output[t] # None => output'[t] # None
    BY OutputEvolves
  <1>7. NewRow.status = "pending"
    BY DEF NewRow, NoRow
  <1> QED
    BY <1>1, <1>2, <1>3, <1>4, <1>5, <1>6, <1>7 DEF RowMove, RowKnows

\* The owner of a processing row is at most one agent past "received", and the
\* handle it claimed the row with stays in the row.
LEMMA RowHandleStep == AgentInv /\ [Next]_vars => RowHandleIsOwners'
  <1> SUFFICES ASSUME AgentInv, [Next]_vars, NEW a \in Agents, NEW t,
                      t = agent'[a].task,
                      agent'[a].pc \in {"claimed", "running", "stored"},
                      row'[t].status = "processing", row'[t].owner = a
               PROVE  row'[t].handle = agent'[a].handle /\ row'[t].handle <= msg'[t].receives
    BY DEF RowHandleIsOwners
  <1>1. /\ agent'[a].task = agent[a].task /\ agent'[a].handle = agent[a].handle
        /\ agent[a].pc # "idle"
        /\ AgentClaim(a) \/ agent[a].pc \in {"claimed", "running", "stored"}
    BY AgentPcMoves DEF IdleAgent
  <1>2. t \in Tasks /\ agent'[a].handle \in 1 .. msg'[t].receives
    BY <1>1, AgentTask, AgentStays
  <1>3. msg'[t].receives \in Nat
    BY <1>2, NextType DEF AgentInv, TypeOK, Message
  <1>4. row'[t].handle = agent[a].handle
    <2>1. CASE AgentClaim(a)
      <3>1. row'[t] = Claim(row[t], a, agent[a].handle) /\ row[t] \in Row
        BY <1>1, <1>2, <2>1 DEF AgentClaim, AgentInv, TypeOK
      <3> QED
        BY <3>1 DEF Claim, Row
    <2>2. CASE ~AgentClaim(a) /\ agent[a].pc \in {"claimed", "running", "stored"}
      <3>1. RowMove(t)
        BY <1>2, RowMoves DEF AgentInv
      <3>2. row[t].status = "processing" /\ row[t].owner = a => row[t].handle = agent[a].handle
        BY <1>1, <2>2 DEF AgentInv, RowHandleIsOwners
      <3>3. NewRow.status # "processing"
        BY DEF NewRow, NoRow
      <3> QED
        BY <2>2, <3>1, <3>2, <3>3 DEF RowMove
    <2> QED
      BY <1>1, <2>1, <2>2
  <1> QED
    BY <1>1, <1>2, <1>3, <1>4

\* update_task_status_to_finished accepts a task that is processing, and no
\* agent that finished it before has left it so.
LEMMA CompletionStep == AgentInv /\ [Next]_vars => AtMostOneCompletion'
  <1> SUFFICES ASSUME AgentInv, [Next]_vars, NEW a \in Agents, NEW b \in Agents, a # b,
                      agent'[a].pc = "finished", agent'[b].pc = "finished",
                      agent'[a].task = agent'[b].task
               PROVE  FALSE
    BY DEF AtMostOneCompletion
  <1>1. ASSUME NEW e \in Agents, agent'[e].pc = "finished"
        PROVE  /\ agent'[e].task = agent[e].task
               /\ agent[e].pc = "finished" \/ AgentFinish(e)
    BY <1>1, AgentPcMoves DEF IdleAgent
  <1>2. ASSUME NEW e \in Agents, NEW f \in Agents, e # f, AgentFinish(e),
               agent[f].task = agent[e].task
        PROVE  agent[f].pc # "finished" /\ ~AgentFinish(f)
    <2>1. row[agent[e].task].status = "processing" /\ row[agent[e].task].owner = e
      BY <1>2 DEF AgentFinish, CanFinish
    <2>2. agent[f].pc # "finished"
      BY <1>2, <2>1 DEF AgentInv, AgentKnows, TerminalStatus
    <2>3. ~AgentFinish(f)
      BY <1>2, <2>1 DEF AgentFinish, CanFinish
    <2> QED
      BY <2>2, <2>3
  <1>3. ~(agent[a].pc = "finished" /\ agent[b].pc = "finished" /\ agent[a].task = agent[b].task)
    BY DEF AgentInv, AtMostOneCompletion
  <1> QED
    BY <1>1, <1>2, <1>3

\* Only the cancellation itself moves on.
LEMMA CancelMoves == [Next]_vars => CancelStep \/ cancel' = cancel
  <1>1. ASSUME NEW a \in Agents, AgentStep(a) PROVE cancel' = cancel
    BY <1>1
       DEF AgentStep, AgentProgress, AgentReceive, AgentClaim, AgentClaimRejected,
           AgentDropCancelled, AgentSkip, AgentHoldMessage, AgentHoldRefused, AgentRefresh,
           AgentLosesTask, AgentBootstrapError, AgentStoreOutput, AgentFinish,
           AgentFinishRejected, AgentDeleteMessage, AgentCrash
  <1>2. ASSUME NEW c \in Checkers, TtlStep(c) PROVE cancel' = cancel
    BY <1>2
       DEF TtlStep, TtlProgress, TtlQuery, TtlRead, TtlRetry, TtlRetryRefused,
           TtlResetVisibility, TtlResetRefused, TtlFailDelete, TtlFailRow, TtlAbort
  <1>3. SubmitStep \/ TimeStep \/ UNCHANGED vars => cancel' = cancel
    BY DEF SubmitStep, WriteRow, SendMessage, AcceptSubmission, RejectSubmission, TimeStep,
           HeartbeatLapse, VisibilityLapse, RedriveMessage, vars
  <1> QED
    BY <1>1, <1>2, <1>3 DEF Next

\* cancel_tasks lists rows that exist, and rows are never removed.
LEMMA CancelKnowsStep == AgentInv /\ [Next]_vars => CancelKnows'
  <1> SUFFICES ASSUME AgentInv, [Next]_vars, NEW t \in cancel'.todo
               PROVE  row'[t].status # "absent"
    BY DEF CancelKnows
  <1>1. cancel \in CancelState /\ CancelKnows
    BY DEF AgentInv, TypeOK
  <1>2. \/ cancel'.todo \subseteq cancel.todo
        \/ \E L \in SUBSET Tasks : CancelPending(L) \/ CancelProcessing(L)
    <2>1. ASSUME NEW u \in Tasks, CancelRow(u) PROVE cancel'.todo \subseteq cancel.todo
      BY <1>1, <2>1 DEF CancelRow, CancelState
    <2>2. CancelDone \/ CancelAbort => cancel'.todo = {}
      BY DEF CancelDone, CancelAbort, ReadyCancel
    <2> QED
      BY <2>1, <2>2, CancelMoves DEF CancelStep
  <1>3. CASE cancel'.todo \subseteq cancel.todo
    <2>1. t \in Tasks /\ row[t].status # "absent"
      BY <1>1, <1>3 DEF CancelState, CancelKnows
    <2> QED
      BY <2>1, RowEvolves
  <1>4. ASSUME NEW L \in SUBSET Tasks, CancelPending(L) \/ CancelProcessing(L)
        PROVE  row'[t].status # "absent"
    BY <1>4 DEF CancelPending, CancelProcessing, OnceIn
  <1> QED
    BY <1>2, <1>3, <1>4

---------------------------------------------------------------------------

\* Nothing is submitted, received or listed at first.
LEMMA AgentInvInit == Init => AgentInv
  <1> SUFFICES ASSUME Init PROVE AgentInv
    OBVIOUS
  <1>1. TypeOK
    BY InitType
  <1>2. \A t \in Tasks : row[t] = NoRow /\ msg[t] = NoMessage
    BY DEF Init
  <1>3. \A a \in Agents : agent[a].pc = "idle"
    BY DEF Init, IdleAgent
  <1>4. NoRow.status = "absent" /\ NoMessage.loc = "unsent" /\ submission = "open"
    BY DEF NoRow, NoMessage, Init
  <1>5. MessageHasRow /\ RowKnows
    BY <1>2, <1>4 DEF MessageHasRow, RowKnows
  <1>8. CancelKnows
    BY DEF Init, ReadyCancel, CancelKnows
  <1>6. AgentKnows /\ RowHandleIsOwners /\ AtMostOneCompletion
    BY <1>3 DEF AgentKnows, RowHandleIsOwners, AtMostOneCompletion, ExecutingPc
  <1> QED
    BY <1>1, <1>5, <1>6, <1>8 DEF AgentInv

\* The invariant is inductive, with any number of checker invocations.
LEMMA AgentInvStep == AgentInv /\ [Next]_vars => AgentInv'
  BY NextType, MessageHasRowStep, AgentKnowsStep, RowKnowsStep, CancelKnowsStep, RowHandleStep,
     CompletionStep
     DEF AgentInv

\* However many TTL checker invocations overlap: an agent that handles a task
\* handles an existing one under a handle the queue issued; the row's handle is
\* the owner's; a finished row has an output; and at most one agent completes.
THEOREM AgentInvariant == Spec => []AgentInv
  BY AgentInvInit, AgentInvStep, PTL DEF Spec

\* submit_tasks never lets an agent see a message without its row.
THEOREM MessagesHaveRows == Spec => []MessageHasRow
  <1>1. AgentInv => MessageHasRow
    BY DEF AgentInv
  <1> QED
    BY <1>1, AgentInvariant, PTL

\* The checker's visibility reset and delete hit the owner's receive.
THEOREM RowHandlesAreOwners == Spec => []RowHandleIsOwners
  <1>1. AgentInv => RowHandleIsOwners
    BY DEF AgentInv
  <1> QED
    BY <1>1, AgentInvariant, PTL

\* update_task_status_to_finished accepts one of the agents that execute a task.
THEOREM OneCompletion == Spec => []AtMostOneCompletion
  <1>1. AgentInv => AtMostOneCompletion
    BY DEF AgentInv
  <1> QED
    BY <1>1, AgentInvariant, PTL

\* Final states are closed, whatever agents, overlapping checker invocations
\* and cancellations that know the task from earlier still do to its row.
THEOREM FinalStatesClosed == Spec => FinalStateClosed
  <1>1. AgentInv /\ [Next]_vars =>
          [ \A t \in Tasks :
              /\ row[t].status \in TerminalStatus => row'[t].status \in TerminalStatus
              /\ row[t].status \in {"failed", "cancelled"} => row'[t].status # "finished" ]_vars
    BY RowEvolves
  <1> QED
    BY <1>1, AgentInvariant, PTL DEF Spec, FinalStateClosed

---------------------------------------------------------------------------
(* Cancellation *)

\* A row that exists and was put back once stays so.
LEMMA RetriesStay ==
  ASSUME AgentInv, [Next]_vars, NEW t \in Tasks, row[t].status # "absent"
  PROVE  /\ row[t].retries > 0 => row'[t].retries > 0
         /\ row'[t].status = "pending" => row[t].status = "pending" \/ row'[t].retries > 0
  <1>1. RowMove(t)
    BY RowMoves DEF AgentInv
  <1>2. \A c \in Checkers : checker[c].retries + 1 > 0
    BY MaxRetriesAssumption DEF AgentInv, TypeOK, CheckerState
  <1> QED
    BY <1>1, <1>2 DEF RowMove

\* The two lists of cancel_tasks miss no task but one that was put back or that the
\* index did not show, with any number of agents and checkers at work in between.
LEMMA CancelSweepsStep == AgentInv /\ CancelSweeps /\ [Next]_vars => CancelSweeps'
  <1> SUFFICES ASSUME AgentInv, CancelSweeps, [Next]_vars PROVE CancelSweeps'
    OBVIOUS
  <1>0. cancel \in CancelState /\ \A t \in Tasks : row[t] \in Row
    BY DEF AgentInv, TypeOK
  <1>1. CASE cancel' = cancel
    BY <1>1, RowEvolves, RetriesStay DEF CancelSweeps
  <1>2. ASSUME NEW L \in SUBSET Tasks, CancelPending(L) PROVE CancelSweeps'
    <2>1. \A t \in Tasks : row[t].status # "absent"
      BY <1>2 DEF CancelPending, AgentInv, RowKnows, MessageHasRow
    <2>2. /\ cancel'.pc = "pending" /\ cancel'.todo = L /\ row' = row
          /\ cancel'.missed = { t \in Tasks \ L : row[t].status = "pending" }
      BY <1>2 DEF CancelPending, Unlisted
    <2> QED
      BY <2>1, <2>2 DEF CancelSweeps
  <1>3. ASSUME NEW L \in SUBSET Tasks, CancelProcessing(L) PROVE CancelSweeps'
    <2>1. /\ cancel'.pc = "processing" /\ cancel'.todo = L /\ row' = row
          /\ cancel'.missed = (cancel.missed \ L) \cup { t \in Tasks \ L : row[t].status = "processing" }
      BY <1>3 DEF CancelProcessing, Unlisted
    <2>2. cancel.pc = "pending" /\ cancel.todo = {}
      BY <1>3 DEF CancelProcessing
    <2> QED
      BY <1>0, <2>1, <2>2 DEF CancelSweeps, Row, Status, TerminalStatus
  <1>4. ASSUME NEW u \in Tasks, CancelRow(u) PROVE CancelSweeps'
    <2>1. row'[u].status = "cancelled"
      BY <1>0, <1>4 DEF CancelRow, Finalize, AgentInv, TypeOK, Row
    <2>2. cancel'.pc = cancel.pc /\ cancel'.todo = cancel.todo \ {u} /\ cancel'.missed = cancel.missed
      BY <1>0, <1>4 DEF CancelRow, CancelState
    <2> QED
      BY <2>1, <2>2, RowEvolves, RetriesStay DEF CancelSweeps, TerminalStatus
  <1>5. CASE CancelDone \/ CancelAbort
    BY <1>5 DEF CancelDone, CancelAbort, ReadyCancel, CancelSweeps
  <1> QED
    BY <1>1, <1>2, <1>3, <1>4, <1>5, CancelMoves DEF CancelStep

\* cancel_tasks: when it has answered, every task of the session is over but those
\* the TTL checker once put back and those that a scan should have listed and the
\* index did not show.
THEOREM CancelMisses == Spec => CancelMissesOnlyRetried
  <1>1. Init => CancelSweeps
    BY DEF Init, CancelSweeps, ReadyCancel
  <1>2. CancelSweeps =>
          [ CancelDone =>
              \A t \in Tasks :
                row[t].status \in TerminalStatus \/ row[t].retries > 0 \/ t \in cancel.missed ]_vars
    BY DEF CancelSweeps, CancelDone
  <1> QED
    BY <1>1, <1>2, CancelSweepsStep, AgentInvariant, PTL DEF Spec, CancelMissesOnlyRetried

=============================================================================
