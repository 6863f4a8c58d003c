---------------------------- MODULE CheckerInvProofs ----------------------------
(***************************************************************************)
(* What the scheduler guarantees when invocations of the TTL checker do    *)
(* not overlap (SingleChecker).  A row the checker has listed or read can  *)
(* then be put back to pending by nobody else, so what the checker read of *)
(* it is still true when it acts on it; DeletedForGood follows, and with   *)
(* it that no waiting task loses its message.                              *)
(***************************************************************************)
EXTENDS TaskSchedulerProofs, FiniteSetTheorems

---------------------------------------------------------------------------

\* A row the checker has listed is processing, or was decided in the meantime.
Taken(r) == r.status \in {"processing"} \cup TerminalStatus

CheckerMove(c) ==
  LET k == checker[c]
      l == checker'[c]
  IN
  \/ l = k
  \/ l.pc \in {"off", "scan"} /\ l.todo \in {{}, k.todo}
  \/ l.pc = "scan" /\ \A t \in l.todo : Taken(row[t]) /\ row' = row
  \/ /\ l.pc = "decide" /\ l.task \in k.todo /\ l.todo = k.todo \ {l.task}
     /\ l.retries = row[l.task].retries /\ row' = row
  \/ /\ l.pc = "reset" /\ k.pc = "decide" /\ l.task = k.task /\ l.todo = k.todo
     /\ TtlRetry(c)
  \/ /\ l.pc = "failing" /\ k.pc = "decide" /\ l.task = k.task /\ l.todo = k.todo
     /\ l.retries = k.retries /\ k.retries = MaxRetries /\ row' = row

\* Every step leaves a checker alone or is one of the moves of CheckerMove.
LEMMA CheckerMoves ==
  ASSUME TypeOK, [Next]_vars, NEW c \in Checkers
  PROVE  CheckerMove(c)
  <1>1. checker \in [Checkers -> CheckerState] /\ checker[c] \in CheckerState
    BY DEF TypeOK
  <1>2. ASSUME NEW d \in Checkers, TtlStep(d), d # c PROVE checker'[c] = checker[c]
    BY <1>1, <1>2
       DEF TtlStep, TtlProgress, TtlQuery, TtlRead, TtlRetry, TtlRetryRefused, TtlResetVisibility,
           TtlResetRefused, TtlFailDelete, TtlFailRow, TtlAbort, NextItem
  <1>3. ASSUME NextItem(c) PROVE CheckerMove(c)
    <2>1. checker'[c].pc \in {"off", "scan"} /\ checker'[c].todo = checker[c].todo
      BY <1>1, <1>3 DEF NextItem
    <2> QED
      BY <2>1 DEF CheckerMove
  <1>4. ASSUME checker' = [checker EXCEPT ![c] = ReadyChecker] PROVE CheckerMove(c)
    BY <1>1, <1>4 DEF ReadyChecker, CheckerMove
  <1>5. ASSUME NEW S \in SUBSET Tasks, TtlQuery(c, S) PROVE CheckerMove(c)
    <2>1. checker'[c] = [checker[c] EXCEPT !.pc = "scan", !.todo = S] /\ row' = row
      BY <1>1, <1>5 DEF TtlQuery
    <2>2. checker'[c].pc = "scan" /\ checker'[c].todo = S
      BY <1>1, <2>1 DEF CheckerState
    <2>3. \A t \in S : Taken(row[t])
      BY <1>5 DEF TtlQuery, IsExpired, Taken
    <2> QED
      BY <2>1, <2>2, <2>3 DEF CheckerMove
  <1>6. ASSUME NEW t \in Tasks, TtlRead(c, t) PROVE CheckerMove(c)
    <2>1. /\ checker'[c].pc = "decide" /\ checker'[c].task = t
          /\ checker'[c].todo = checker[c].todo \ {t}
          /\ checker'[c].retries = row[t].retries /\ row' = row /\ t \in checker[c].todo
      BY <1>1, <1>6 DEF TtlRead
    <2> QED
      BY <2>1 DEF CheckerMove
  <1>7. ASSUME NEW p, checker' = [checker EXCEPT ![c].pc = p]
        PROVE  /\ checker'[c].pc = p /\ checker'[c].task = checker[c].task
               /\ checker'[c].todo = checker[c].todo /\ checker'[c].retries = checker[c].retries
    <2>1. checker'[c] = [checker[c] EXCEPT !.pc = p]
      BY <1>1, <1>7
    <2> QED
      BY <1>1, <2>1 DEF CheckerState
  <1>8. ASSUME TtlRetry(c) PROVE CheckerMove(c)
    BY <1>7, <1>8 DEF TtlRetry, CheckerMove
  <1>9. ASSUME TtlFailDelete(c) PROVE CheckerMove(c)
    BY <1>7, <1>9 DEF TtlFailDelete, CheckerMove
  <1>10. ASSUME TtlStep(c) PROVE CheckerMove(c)
    <2>1. TtlRetryRefused(c) \/ TtlResetVisibility(c) \/ TtlFailRow(c) => NextItem(c)
      BY DEF TtlRetryRefused, TtlResetVisibility, TtlFailRow
    <2>2. TtlResetRefused(c) \/ TtlAbort(c) => checker' = [checker EXCEPT ![c] = ReadyChecker]
      BY DEF TtlResetRefused, TtlAbort
    <2> QED
      BY <1>3, <1>4, <1>5, <1>6, <1>8, <1>9, <1>10, <2>1, <2>2 DEF TtlStep, TtlProgress
  <1>11. ASSUME NEW a \in Agents, AgentStep(a) PROVE checker' = checker
    BY <1>11
       DEF AgentStep, AgentProgress, AgentReceive, AgentClaim, AgentClaimRejected,
           AgentDropCancelled, AgentSkip, AgentHoldMessage, AgentHoldRefused, AgentRefresh,
           AgentLosesTask, AgentBootstrapError, AgentStoreOutput, AgentFinish,
           AgentFinishRejected, AgentDeleteMessage, AgentCrash
  <1>12. CASE SubmitStep \/ CancelStep \/ TimeStep \/ UNCHANGED vars
    <2>1. checker' = checker
      BY <1>12
         DEF SubmitStep, WriteRow, SendMessage, AcceptSubmission, RejectSubmission, CancelStep,
             CancelRow, CancelPending, CancelProcessing, CancelDone, CancelAbort, TimeStep,
             HeartbeatLapse, VisibilityLapse, RedriveMessage, vars
    <2> QED
      BY <2>1 DEF CheckerMove
  <1> QED
    BY <1>2, <1>10, <1>11, <1>12 DEF Next, CheckerMove

---------------------------------------------------------------------------

\* What a lone checker knows of a row it has taken is not changed by others.
LEMMA TakenStays ==
  ASSUME SingleChecker, CheckerInv, [Next]_vars, NEW c \in Checkers, NEW t \in Tasks,
         Taken(row[t]), ~(checker[c].task = t /\ TtlRetry(c))
  PROVE  Taken(row'[t]) /\ row'[t].retries = row[t].retries
  <1>1. RowMove(t)
    BY RowMoves DEF CheckerInv, AgentInv
  <1>2. \A d \in Checkers : ~(checker[d].task = t /\ TtlRetry(d))
    BY DEF SingleChecker
  <1> QED
    BY <1>1, <1>2 DEF RowMove, Taken, TerminalStatus

\* Only the checker itself puts a row back or counts a retry, so what it read
\* of a row still holds when it acts on it.
LEMMA CheckerKnowsStep == SingleChecker /\ CheckerInv /\ [Next]_vars => CheckerKnows'
  <1> SUFFICES ASSUME SingleChecker, CheckerInv, [Next]_vars, NEW c \in Checkers
               PROVE  LET k == checker'[c] IN
                        /\ \A t \in k.todo : Taken(row'[t])
                        /\ k.pc \in {"decide", "reset", "failing"} => k.task \in Tasks \ k.todo
                        /\ k.pc \in {"decide", "failing"} =>
                             Taken(row'[k.task]) /\ row'[k.task].retries = k.retries
                        /\ k.pc = "failing" => k.retries = MaxRetries
    BY DEF CheckerKnows, Taken
  <1> DEFINE k == checker[c]  l == checker'[c]
  <1>1. TypeOK /\ k \in CheckerState /\ k.todo \subseteq Tasks
    BY DEF CheckerInv, AgentInv, TypeOK, CheckerState
  <1>2. CheckerMove(c)
    BY <1>1, CheckerMoves
  <1>3. /\ \A t \in k.todo : Taken(row[t])
        /\ k.pc \in {"decide", "reset", "failing"} => k.task \in Tasks \ k.todo
        /\ k.pc \in {"decide", "failing"} => Taken(row[k.task]) /\ row[k.task].retries = k.retries
        /\ k.pc = "failing" => k.retries = MaxRetries
    BY DEF CheckerInv, CheckerKnows, Taken
  <1>4. TtlRetry(c) => k.pc = "decide" /\ l.pc = "reset"
    <2>1. TtlRetry(c) => k.pc = "decide" /\ checker' = [checker EXCEPT ![c].pc = "reset"]
      BY DEF TtlRetry
    <2> QED
      BY <1>1, <2>1 DEF TypeOK, CheckerState
  <1>5. \A t \in k.todo : Taken(row'[t])
    BY <1>1, <1>3, <1>4, TakenStays
  <1>6. ASSUME k.pc \in {"decide", "failing"}, ~TtlRetry(c)
        PROVE  Taken(row'[k.task]) /\ row'[k.task].retries = k.retries
    BY <1>3, <1>6, TakenStays
  <1>7. CASE l = k
    BY <1>3, <1>4, <1>5, <1>6, <1>7
  <1>8. CASE l.pc \in {"off", "scan"} /\ l.todo \in {{}, k.todo}
    BY <1>5, <1>8
  <1>9. CASE l.pc = "scan" /\ \A t \in l.todo : Taken(row[t]) /\ row' = row
    BY <1>9 DEF Taken
  <1>10. CASE /\ l.pc = "decide" /\ l.task \in k.todo /\ l.todo = k.todo \ {l.task}
              /\ l.retries = row[l.task].retries /\ row' = row
    BY <1>1, <1>5, <1>10
  <1>11. CASE l.pc = "reset" /\ k.pc = "decide" /\ l.task = k.task /\ l.todo = k.todo
    BY <1>3, <1>5, <1>11
  <1>12. CASE /\ l.pc = "failing" /\ k.pc = "decide" /\ l.task = k.task /\ l.todo = k.todo
              /\ l.retries = k.retries /\ k.retries = MaxRetries /\ row' = row
    BY <1>3, <1>5, <1>12 DEF Taken
  <1> QED
    BY <1>2, <1>7, <1>8, <1>9, <1>10, <1>11, <1>12 DEF CheckerMove

\* A message is deleted by the agent that finished the task, by one that found
\* it cancelled, or by fail_task on a row that has no retry left.
LEMMA DeletedForGoodStep == SingleChecker /\ CheckerInv /\ [Next]_vars => DeletedForGood'
  <1> SUFFICES ASSUME SingleChecker, CheckerInv, [Next]_vars, NEW t \in Tasks, msg'[t].loc = "deleted"
               PROVE  \/ row'[t].status \in TerminalStatus
                      \/ row'[t].status = "processing" /\ row'[t].retries = MaxRetries
    BY DEF DeletedForGood
  <1> DEFINE Done(r) == r.status \in TerminalStatus \/ (r.status = "processing" /\ r.retries = MaxRetries)
  <1>1. TypeOK /\ AgentInv /\ msg[t] \in Message
    BY DEF CheckerInv, AgentInv, TypeOK
  <1>2. ASSUME Done(row[t]) PROVE Done(row'[t])
    <2>1. RowMove(t)
      BY <1>1, RowMoves
    <2>2. ASSUME NEW c \in Checkers, checker[c].task = t PROVE ~TtlRetry(c) \/ row[t].retries # MaxRetries
      BY <2>2 DEF TtlRetry, CheckerInv, CheckerKnows
    <2> QED
      BY <1>2, <2>1, <2>2 DEF RowMove, TerminalStatus
  <1>3. MessageMove(t)
    BY <1>1, MessageMoves
  <1>4. CASE msg'[t] = msg[t]
    BY <1>2, <1>4 DEF CheckerInv, DeletedForGood
  <1>5. SendMessage(t) => msg'[t].loc = "visible"
    BY <1>1 DEF SendMessage, Send, TypeOK, Message
  <1>6. ASSUME NEW a \in Agents, AgentReceive(a, t) PROVE msg'[t].loc = "inflight"
    BY <1>1, <1>6 DEF AgentReceive, Receive, TypeOK
  <1>7. ASSUME NEW l, msg'[t] = [msg[t] EXCEPT !.loc = l] PROVE msg'[t].loc = l
    BY <1>1, <1>7 DEF Message
  <1>8. ASSUME NEW a \in Agents, agent[a].task = t, AgentDropCancelled(a) \/ AgentDeleteMessage(a)
        PROVE  Done(row[t])
    BY <1>1, <1>8 DEF AgentDropCancelled, AgentDeleteMessage, AgentInv, AgentKnows, TerminalStatus
  <1>9. ASSUME NEW c \in Checkers, checker[c].task = t, TtlFailDelete(c) PROVE Done(row[t])
    BY <1>9 DEF TtlFailDelete, CheckerInv, CheckerKnows
  <1> QED
    BY <1>2, <1>3, <1>4, <1>5, <1>6, <1>7, <1>8, <1>9 DEF MessageMove

\* update_task_status_to_failed overwrites only rows that have no retry left.
LEMMA FailedWasExhaustedStep == SingleChecker /\ CheckerInv /\ [Next]_vars => FailedWasExhausted'
  <1> SUFFICES ASSUME SingleChecker, CheckerInv, [Next]_vars, NEW t \in Tasks, row'[t].status = "failed"
               PROVE  row'[t].retries = MaxRetries
    BY DEF FailedWasExhausted
  <1>1. RowMove(t)
    BY RowMoves DEF CheckerInv, AgentInv
  <1>2. ASSUME NEW c \in Checkers, checker[c].task = t, TtlFailRow(c)
        PROVE  row[t].retries = MaxRetries
    BY <1>2 DEF TtlFailRow, CheckerInv, CheckerKnows
  <1>3. row[t].status = "failed" => row[t].retries = MaxRetries
    BY DEF CheckerInv, FailedWasExhausted
  <1>4. NewRow.status = "pending"
    BY DEF NewRow, NoRow
  <1> QED
    BY <1>1, <1>2, <1>3, <1>4 DEF RowMove

---------------------------------------------------------------------------

\* No checker has listed anything and no message is deleted at first.
LEMMA CheckerInvInit == Init => CheckerInv
  <1> SUFFICES ASSUME Init PROVE CheckerInv
    OBVIOUS
  <1>1. \A t \in Tasks : row[t].status = "absent" /\ msg[t].loc = "unsent"
    BY DEF Init, NoRow, NoMessage
  <1>2. \A c \in Checkers : checker[c].pc = "off" /\ checker[c].todo = {}
    BY DEF Init, ReadyChecker
  <1>3. CheckerKnows
    BY <1>2 DEF CheckerKnows
  <1> QED
    BY <1>1, <1>3, AgentInvInit DEF CheckerInv, DeletedForGood, FailedWasExhausted

\* The invariant is inductive if checker invocations do not overlap.
LEMMA CheckerInvStep == SingleChecker /\ CheckerInv /\ [Next]_vars => CheckerInv'
  BY AgentInvStep, CheckerKnowsStep, DeletedForGoodStep, FailedWasExhaustedStep DEF CheckerInv

\* If checker invocations do not overlap, what the checker read of a row holds
\* when it acts on it, and a message is deleted only of a task that is decided
\* or was taken for the last time.
THEOREM CheckerInvariant ==
  ASSUME SingleChecker
  PROVE  Spec => []CheckerInv
  <1>1. CheckerInv /\ [Next]_vars => CheckerInv'
    BY CheckerInvStep
  <1> QED
    BY <1>1, CheckerInvInit, PTL DEF Spec

\* A waiting task of an accepted session never loses its message.
THEOREM NoTaskStranded ==
  ASSUME SingleChecker
  PROVE  Spec => []NoStrandedTask
  <1>1. CheckerInv => NoStrandedTask
    <2> SUFFICES ASSUME CheckerInv, NEW t \in Tasks, row[t].status = "pending", submission = "accepted"
                 PROVE  InQueue(msg[t]) \/ msg[t].loc = "dlq"
      BY DEF NoStrandedTask
    <2>1. msg[t].loc \in Location \ {"unsent"}
      BY DEF CheckerInv, AgentInv, TypeOK, Message, RowKnows
    <2>2. msg[t].loc # "deleted"
      BY DEF CheckerInv, DeletedForGood, TerminalStatus
    <2> QED
      BY <2>1, <2>2 DEF Location, InQueue, Hidden
  <1> QED
    BY <1>1, CheckerInvariant, PTL

\* A finished task has an output, a failed one has used up its retries.
THEOREM FinalStatesEarned ==
  ASSUME SingleChecker
  PROVE  Spec => []FinalStateEarned
  <1>1. CheckerInv => FinalStateEarned
    BY DEF CheckerInv, AgentInv, RowKnows, FailedWasExhausted, FinalStateEarned
  <1> QED
    BY <1>1, CheckerInvariant, PTL

---------------------------------------------------------------------------
(* How many agents execute a task at once *)

\* The attempts granted to a task so far.
Granted(r) == r.retries + (IF r.status \in {"absent", "pending"} THEN 0 ELSE 1)

ExecutionInv ==
  \A t \in Tasks : IsFiniteSet(Executing(t)) /\ Cardinality(Executing(t)) <= Granted(row[t])

\* A step adds the agent that claims the task, and nobody else, to those that
\* execute it.
LEMMA ExecutingMoves ==
  ASSUME AgentInv, [Next]_vars, NEW t \in Tasks
  PROVE  \/ Executing(t)' \subseteq Executing(t)
         \/ \E a \in Agents : /\ AgentClaim(a) /\ agent[a].task = t
                              /\ Executing(t)' \subseteq Executing(t) \cup {a}
  <1>1. ASSUME NEW a \in Agents, agent'[a].pc \in ExecutingPc, agent'[a].task = t, ~AgentClaim(a)
        PROVE  agent[a].pc \in ExecutingPc /\ agent[a].task = t
    BY <1>1, AgentPcMoves DEF IdleAgent, ExecutingPc
  <1>2. ASSUME NEW a \in Agents, agent'[a].pc \in ExecutingPc, agent'[a].task = t, AgentClaim(a)
        PROVE  agent[a].task = t
    BY <1>2, AgentPcMoves DEF IdleAgent, AgentClaim, ExecutingPc
  <1>3. ASSUME NEW a \in Agents, AgentClaim(a), NEW b \in Agents, AgentClaim(b)
        PROVE  a = b
    <2>1. agent'[b].pc = "claimed" /\ agent[b].pc = "received"
      <3>1. agent[b].pc = "received" /\ agent' = [agent EXCEPT ![b].pc = "claimed"]
        BY <1>3 DEF AgentClaim
      <3> QED
        BY <3>1, AgentPcMoves, AgentTypes DEF AgentInv, TypeOK
    <2>2. a # b => agent'[b] = agent[b]
      BY <1>3 DEF AgentClaim, AgentInv, TypeOK
    <2> QED
      BY <2>1, <2>2
  <1> QED
    BY <1>1, <1>2, <1>3 DEF Executing

\* An agent starts to execute only by a claim, and a claim needs a row that
\* was never claimed or that the checker has put back since.
LEMMA ExecutionInvStep ==
  ASSUME SingleChecker, CheckerInv, ExecutionInv, [Next]_vars
  PROVE  ExecutionInv'
  <1> SUFFICES ASSUME NEW t \in Tasks
               PROVE  /\ IsFiniteSet(Executing(t)') /\ Cardinality(Executing(t)') <= Granted(row'[t])
    BY DEF ExecutionInv, Granted
  <1> DEFINE E == Executing(t)  F == Executing(t)'  n == row[t].retries
  <1>1. AgentInv /\ TypeOK /\ TypeOK' /\ IsFiniteSet(E) /\ Cardinality(E) <= Granted(row[t])
    BY NextType DEF CheckerInv, AgentInv, ExecutionInv
  <1>2. n \in Nat /\ row'[t].retries \in Nat /\ Cardinality(E) \in Nat
    BY <1>1, FS_CardinalityType, MaxRetriesAssumption DEF TypeOK, Row
  <1>3. RowMove(t)
    BY <1>1, RowMoves
  <1>4. Granted(row[t]) <= Granted(row'[t])
    <2>1. ASSUME NEW c \in Checkers, TtlRetry(c), checker[c].task = t
          PROVE  checker[c].retries = n
      BY <2>1 DEF TtlRetry, CheckerInv, CheckerKnows
    <2>2. NewRow.status = "pending" /\ NewRow.retries = 0
      BY DEF NewRow, NoRow
    <2>3. row[t].status = "absent" => n = 0
      BY <1>1 DEF AgentInv, RowKnows, NoRow
    <2> QED
      BY <1>2, <1>3, <2>1, <2>2, <2>3 DEF RowMove, Granted
  <1>5. Granted(row[t]) \in Nat /\ Granted(row'[t]) \in Nat
    BY <1>2 DEF Granted
  <1>6. ASSUME F \subseteq E PROVE IsFiniteSet(F) /\ Cardinality(F) <= Granted(row'[t])
    <2>1. IsFiniteSet(F) /\ Cardinality(F) <= Cardinality(E) /\ Cardinality(F) \in Nat
      BY <1>1, <1>6, FS_Subset, FS_CardinalityType
    <2> HIDE DEF E, F
    <2> QED
      BY <1>1, <1>2, <1>4, <1>5, <2>1
  <1>7. ASSUME NEW a \in Agents, AgentClaim(a), agent[a].task = t, F \subseteq E \cup {a}
        PROVE  IsFiniteSet(F) /\ Cardinality(F) <= Granted(row'[t])
    <2>1. /\ IsFiniteSet(E \cup {a}) /\ Cardinality(E \cup {a}) <= Cardinality(E) + 1
          /\ Cardinality(E \cup {a}) \in Nat
      <3>1. /\ IsFiniteSet(E \cup {a})
            /\ Cardinality(E \cup {a}) = IF a \in E THEN Cardinality(E) ELSE Cardinality(E) + 1
        BY <1>1, FS_AddElement
      <3> HIDE DEF E
      <3> QED
        BY <1>2, <3>1
    <2>2. IsFiniteSet(F) /\ Cardinality(F) <= Cardinality(E \cup {a}) /\ Cardinality(F) \in Nat
      BY <1>7, <2>1, FS_Subset, FS_CardinalityType
    <2>3. Granted(row'[t]) = Granted(row[t]) + 1
      <3>1. row[t].status = "pending" /\ row'[t] = Claim(row[t], a, agent[a].handle) /\ row[t] \in Row
        BY <1>1, <1>7 DEF AgentClaim, CanClaim, TypeOK
      <3>2. row'[t].status = "processing" /\ row'[t].retries = n
        BY <3>1 DEF Claim, Row
      <3> QED
        BY <1>2, <3>1, <3>2 DEF Granted
    <2> HIDE DEF E, F
    <2> QED
      BY <1>1, <1>2, <1>5, <2>1, <2>2, <2>3
  <1> QED
    BY <1>1, <1>6, <1>7, ExecutingMoves

\* No more agents execute a task at once than attempts were granted to it: the
\* first, and one for each retry that retry_task has counted in the row.
THEOREM ExecutionsAreBounded ==
  ASSUME SingleChecker
  PROVE  Spec => []ExecutionsBounded
  <1>1. Init => ExecutionInv
    <2> SUFFICES ASSUME Init, NEW t \in Tasks
                 PROVE  IsFiniteSet(Executing(t)) /\ Cardinality(Executing(t)) <= Granted(row[t])
      BY DEF ExecutionInv
    <2>1. Executing(t) = {}
      BY DEF Init, Executing, ExecutingPc, IdleAgent
    <2>2. Granted(row[t]) = 0
      BY DEF Init, Granted, NoRow
    <2> QED
      BY <2>1, <2>2, FS_EmptySet
  <1>2. CheckerInv /\ ExecutionInv /\ [Next]_vars => ExecutionInv'
    BY ExecutionInvStep
  <1>3. ExecutionInv => ExecutionsBounded
    BY DEF ExecutionInv, ExecutionsBounded, Granted
  <1> QED
    BY <1>1, <1>2, <1>3, CheckerInvariant, PTL DEF Spec

---------------------------------------------------------------------------
(***************************************************************************)
(* The scheduler implements TaskLifecycle if invocations of the TTL        *)
(* checker do not overlap.  The refinement mapping reads status, retries   *)
(* and whether there is a receipt handle off the row, and whether there is *)
(* an output off the data plane; steps on queue, agents and checker are    *)
(* stuttering steps of the life cycle.                                     *)
(***************************************************************************)

\* The variables of the life cycle, as the refinement mapping defines them.
Statuses == [t \in Tasks |-> row[t].status]
Retries  == [t \in Tasks |-> row[t].retries]
Started  == [t \in Tasks |-> row[t].handle # 0]
Results  == [t \in Tasks |-> output[t] # None]

---------------------------------------------------------------------------

\* One row changes: the mapped variables change at that task only.
LEMMA MappedRow ==
  ASSUME TypeOK, NEW t \in Tasks, NEW r, row' = [row EXCEPT ![t] = r]
  PROVE  /\ Statuses' = [Statuses EXCEPT ![t] = r.status]
         /\ r.status = row[t].status => Statuses' = Statuses
         /\ r.retries = row[t].retries => Retries' = Retries
         /\ r.retries = row[t].retries + 1 => Retries' = [Retries EXCEPT ![t] = @ + 1]
         /\ r.handle = row[t].handle => Started' = Started
         /\ r.handle # 0 => Started' = [Started EXCEPT ![t] = TRUE]
  <1>1. Statuses' = [Statuses EXCEPT ![t] = r.status]
    BY DEF TypeOK, Statuses
  <1>2. r.status = row[t].status => Statuses' = Statuses
    BY DEF TypeOK, Statuses
  <1>3. r.retries = row[t].retries => Retries' = Retries
    BY DEF TypeOK, Retries
  <1>4. r.retries = row[t].retries + 1 => Retries' = [Retries EXCEPT ![t] = @ + 1]
    BY DEF TypeOK, Retries
  <1>5. r.handle = row[t].handle => Started' = Started
    BY DEF TypeOK, Started
  <1>6. r.handle # 0 => Started' = [Started EXCEPT ![t] = TRUE]
    BY DEF TypeOK, Started
  <1> QED
    BY <1>1, <1>2, <1>3, <1>4, <1>5, <1>6

\* A step that changes neither of the mapped variables.
LEMMA MappedStutter ==
  ASSUME Statuses' = Statuses, Retries' = Retries, Started' = Started, Results' = Results
  PROVE  UNCHANGED Lifecycle!vars
  BY DEF Lifecycle!vars, Statuses, Retries, Started, Results

\* The empty table is the initial state of the life cycle.
LEMMA LifecycleInit == Init => Lifecycle!Init
  <1> SUFFICES ASSUME Init PROVE Lifecycle!Init
    OBVIOUS
  <1>1. \A t \in Tasks : row[t] = NoRow /\ output[t] = None
    BY DEF Init
  <1>2. NoRow.status = "absent" /\ NoRow.retries = 0 /\ NoRow.handle = 0
    BY DEF NoRow
  <1> QED
    BY <1>1, <1>2 DEF Lifecycle!Init

\* Every step of an actor is a step of the life cycle of one task, or none.
LEMMA LifecycleStep == SingleChecker /\ CheckerInv /\ [Next]_vars => [Lifecycle!Next]_(Lifecycle!vars)
  <1> SUFFICES ASSUME SingleChecker, CheckerInv, [Next]_vars
               PROVE  Lifecycle!Next \/ UNCHANGED Lifecycle!vars
    OBVIOUS
  <1>1. TypeOK /\ AgentInv
    BY DEF CheckerInv, AgentInv
  <1>2. ASSUME output' = output PROVE Results' = Results
    BY <1>2 DEF Results
  <1>3. ASSUME row' = row, output' = output PROVE UNCHANGED Lifecycle!vars
    BY <1>3, MappedStutter DEF Statuses, Retries, Started, Results
  <1>4. ASSUME NEW t \in Tasks, WriteRow(t) PROVE Lifecycle!Register(t)
    <2>1. row' = [row EXCEPT ![t] = NewRow] /\ output' = output /\ row[t] = NoRow
      BY <1>1, <1>4 DEF WriteRow, AgentInv, RowKnows
    <2>2. /\ NewRow.status = "pending" /\ NewRow.retries = row[t].retries
          /\ NewRow.handle = row[t].handle /\ row[t].status = "absent"
      BY <2>1 DEF NewRow, NoRow
    <2>3. Statuses' = [Statuses EXCEPT ![t] = "pending"] /\ Retries' = Retries /\ Started' = Started
      <3>1. Statuses' = [Statuses EXCEPT ![t] = NewRow.status] /\ Retries' = Retries /\ Started' = Started
        BY <1>1, <2>1, <2>2, MappedRow
      <3> QED
        BY <2>2, <3>1
    <2> QED
      BY <1>2, <2>1, <2>2, <2>3 DEF Lifecycle!Register, Statuses, Retries, Started, Results
  <1>5. ASSUME NEW a \in Agents, NEW t \in Tasks, t = agent[a].task, AgentClaim(a)
        PROVE  Lifecycle!Start(t)
    <2> DEFINE r == Claim(row[t], a, agent[a].handle)
    <2>1. agent[a].handle # 0
      BY <1>1, <1>5, AgentTask DEF AgentClaim
    <2>2. row' = [row EXCEPT ![t] = r] /\ output' = output /\ row[t].status = "pending" /\ row[t] \in Row
      BY <1>1, <1>5, <2>1 DEF AgentClaim, CanClaim, TypeOK
    <2>3. r.status = "processing" /\ r.retries = row[t].retries /\ r.handle # 0
      BY <2>1, <2>2 DEF Claim, Row
    <2> HIDE DEF r
    <2>4. /\ Statuses' = [Statuses EXCEPT ![t] = "processing"]
          /\ Retries' = Retries /\ Started' = [Started EXCEPT ![t] = TRUE]
      <3>1. /\ Statuses' = [Statuses EXCEPT ![t] = r.status]
            /\ Retries' = Retries /\ Started' = [Started EXCEPT ![t] = TRUE]
        BY <1>1, <2>2, <2>3, MappedRow
      <3> QED
        BY <2>3, <3>1
    <2> QED
      BY <1>2, <2>1, <2>2, <2>4 DEF Lifecycle!Start, Statuses, Retries, Started, Results
  <1>6. ASSUME NEW a \in Agents, NEW t \in Tasks, t = agent[a].task, AgentStoreOutput(a)
        PROVE  Lifecycle!StoreResult(t)
    <2>1. row[t].handle # 0
      BY <1>1, <1>6, AgentTask DEF AgentStoreOutput, AgentInv, AgentKnows, ExecutingPc
    <2>2. output' = [output EXCEPT ![t] = a] /\ row' = row
      BY <1>6 DEF AgentStoreOutput
    <2>3. Results' = [Results EXCEPT ![t] = TRUE]
      BY <1>1, <2>1, <2>2, AgentsAssumption DEF Results, TypeOK
    <2> QED
      BY <2>1, <2>2, <2>3 DEF Lifecycle!StoreResult, Results
  <1>7. ASSUME NEW a \in Agents, NEW t \in Tasks, t = agent[a].task, AgentFinish(a)
        PROVE  Lifecycle!Complete(t)
    <2> DEFINE r == Finish(row[t])
    <2>1. output[t] # None
      BY <1>1, <1>7, AgentTask DEF AgentFinish, AgentInv, AgentKnows
    <2>2. row' = [row EXCEPT ![t] = r] /\ output' = output /\ row[t].status = "processing" /\ row[t] \in Row
      BY <1>1, <1>7, <2>1 DEF AgentFinish, CanFinish, TypeOK
    <2>3. r.status = "finished" /\ r.retries = row[t].retries /\ r.handle = row[t].handle
      BY <2>2 DEF Finish, Row
    <2> HIDE DEF r
    <2>4. Statuses' = [Statuses EXCEPT ![t] = "finished"] /\ Retries' = Retries /\ Started' = Started
      <3>1. Statuses' = [Statuses EXCEPT ![t] = r.status] /\ Retries' = Retries /\ Started' = Started
        BY <1>1, <2>2, <2>3, MappedRow
      <3> QED
        BY <2>3, <3>1
    <2> QED
      BY <1>2, <2>1, <2>2, <2>4 DEF Lifecycle!Complete, Statuses, Retries, Started, Results
  <1>8. ASSUME NEW c \in Checkers, NEW t \in Tasks, t = checker[c].task, TtlRetry(c)
        PROVE  Lifecycle!PutBack(t)
    <2> DEFINE r == Retry(row[t], checker[c].retries + 1)
    <2>1. row[t].retries = checker[c].retries /\ checker[c].retries # MaxRetries
      BY <1>8 DEF TtlRetry, CheckerInv, CheckerKnows
    <2>2. row' = [row EXCEPT ![t] = r] /\ output' = output /\ row[t].status = "processing" /\ row[t] \in Row
      BY <1>1, <1>8, <2>1 DEF TtlRetry, CanRetry, TypeOK
    <2>3. r.status = "pending" /\ r.retries = row[t].retries + 1 /\ r.handle = row[t].handle
      BY <2>1, <2>2 DEF Retry, Row
    <2>4. row[t].retries < MaxRetries
      BY <2>1, <2>2, MaxRetriesAssumption DEF Row
    <2> HIDE DEF r
    <2>5. /\ Statuses' = [Statuses EXCEPT ![t] = "pending"]
          /\ Retries' = [Retries EXCEPT ![t] = @ + 1] /\ Started' = Started
      <3>1. /\ Statuses' = [Statuses EXCEPT ![t] = r.status]
            /\ Retries' = [Retries EXCEPT ![t] = @ + 1] /\ Started' = Started
        BY <1>1, <2>2, <2>3, MappedRow
      <3> QED
        BY <2>3, <3>1
    <2> QED
      BY <1>2, <2>1, <2>2, <2>4, <2>5 DEF Lifecycle!PutBack, Statuses, Retries, Started, Results
  <1>9. ASSUME NEW t \in Tasks, NEW s, row' = [row EXCEPT ![t] = Finalize(row[t], s)], output' = output
        PROVE  /\ Statuses' = [Statuses EXCEPT ![t] = s] /\ Retries' = Retries
               /\ Started' = Started /\ Results' = Results
    <2> DEFINE r == Finalize(row[t], s)
    <2>1. r.status = s /\ r.retries = row[t].retries /\ r.handle = row[t].handle
      BY <1>1 DEF Finalize, TypeOK, Row
    <2>2. row' = [row EXCEPT ![t] = r]
      BY <1>9
    <2> HIDE DEF r
    <2> QED
      BY <1>1, <1>2, <1>9, <2>1, <2>2, MappedRow
  <1>10. ASSUME NEW c \in Checkers, NEW t \in Tasks, t = checker[c].task, TtlFailRow(c)
        PROVE  Lifecycle!GiveUp(t)
    <2>1. /\ row[t].retries = MaxRetries
          /\ row[t].status \in {"processing"} \cup TerminalStatus
      BY <1>10 DEF TtlFailRow, CheckerInv, CheckerKnows
    <2>2. row' = [row EXCEPT ![t] = Finalize(row[t], "failed")] /\ output' = output
      BY <1>10 DEF TtlFailRow
    <2> QED
      BY <1>9, <2>1, <2>2
         DEF Lifecycle!GiveUp, Lifecycle!Final, TerminalStatus, Statuses, Retries, Started, Results
  <1>11. ASSUME NEW t \in Tasks, CancelRow(t) PROVE Lifecycle!Cancel(t)
    <2>1. row[t].status # "absent"
      BY <1>1, <1>11 DEF CancelRow, AgentInv, CancelKnows
    <2>2. row' = [row EXCEPT ![t] = Finalize(row[t], "cancelled")] /\ output' = output
      BY <1>11 DEF CancelRow
    <2> QED
      BY <1>9, <2>1, <2>2 DEF Lifecycle!Cancel, Statuses, Retries, Started, Results
  <1>12. ASSUME NEW t \in Tasks, NEW h, row' = [row EXCEPT ![t] = [row[t] EXCEPT !.hb = h]], output' = output
         PROVE  UNCHANGED Lifecycle!vars
    <2> DEFINE r == [row[t] EXCEPT !.hb = h]
    <2>1. r.status = row[t].status /\ r.retries = row[t].retries /\ r.handle = row[t].handle
      BY <1>1 DEF TypeOK, Row
    <2>2. row' = [row EXCEPT ![t] = r]
      BY <1>12
    <2> HIDE DEF r
    <2> QED
      BY <1>1, <1>2, <1>12, <2>1, <2>2, MappedRow, MappedStutter
  <1>13. ASSUME NEW a \in Agents, AgentRefresh(a) PROVE UNCHANGED Lifecycle!vars
    <2>1. agent[a].task \in Tasks
      BY <1>1, <1>13, AgentTask DEF AgentRefresh
    <2> QED
      BY <1>12, <1>13, <2>1 DEF AgentRefresh, Refresh
  <1>14. ASSUME NEW t \in Tasks, HeartbeatLapse(t) PROVE UNCHANGED Lifecycle!vars
    BY <1>12, <1>14 DEF HeartbeatLapse
  <1>15. ASSUME NEW a \in Agents, AgentStep(a) PROVE Lifecycle!Next \/ UNCHANGED Lifecycle!vars
    <2>1. CASE AgentClaim(a) \/ AgentStoreOutput(a) \/ AgentFinish(a)
      <3>1. agent[a].task \in Tasks
        BY <1>1, <2>1, AgentTask DEF AgentClaim, AgentStoreOutput, AgentFinish
      <3> QED
        BY <1>5, <1>6, <1>7, <2>1, <3>1 DEF Lifecycle!Next
    <2>2. CASE \/ \E t \in Tasks : AgentReceive(a, t)
               \/ AgentClaimRejected(a) \/ AgentDropCancelled(a) \/ AgentSkip(a)
               \/ AgentHoldMessage(a) \/ AgentHoldRefused(a) \/ AgentLosesTask(a)
               \/ AgentBootstrapError(a) \/ AgentFinishRejected(a) \/ AgentDeleteMessage(a)
               \/ AgentCrash(a)
      <3>1. row' = row /\ output' = output
        BY <2>2
           DEF AgentReceive, AgentClaimRejected, AgentDropCancelled, AgentSkip, AgentHoldMessage,
               AgentHoldRefused, AgentLosesTask, AgentBootstrapError, AgentFinishRejected,
               AgentDeleteMessage, AgentCrash
      <3> QED
        BY <1>3, <3>1
    <2> QED
      BY <1>13, <1>15, <2>1, <2>2 DEF AgentStep, AgentProgress
  <1>16. ASSUME NEW c \in Checkers, TtlStep(c) PROVE Lifecycle!Next \/ UNCHANGED Lifecycle!vars
    <2>1. CASE TtlRetry(c) \/ TtlFailRow(c)
      <3>1. checker[c].task \in Tasks
        BY <2>1 DEF TtlRetry, TtlFailRow, CheckerInv, CheckerKnows
      <3> QED
        BY <1>8, <1>10, <2>1, <3>1 DEF Lifecycle!Next
    <2>2. CASE ~(TtlRetry(c) \/ TtlFailRow(c))
      <3>1. row' = row /\ output' = output
        BY <1>16, <2>2
           DEF TtlStep, TtlProgress, TtlQuery, TtlRead, TtlRetryRefused, TtlResetVisibility,
               TtlResetRefused, TtlFailDelete, TtlAbort
      <3> QED
        BY <1>3, <3>1
    <2> QED
      BY <2>1, <2>2
  <1>17. CASE SubmitStep
    <2>1. \/ \E t \in Tasks : WriteRow(t)
          \/ row' = row /\ output' = output
      BY <1>17 DEF SubmitStep, SendMessage, AcceptSubmission, RejectSubmission
    <2> QED
      BY <1>3, <1>4, <2>1 DEF Lifecycle!Next
  <1>18. CASE CancelStep
    <2>1. \/ \E t \in Tasks : CancelRow(t)
          \/ row' = row /\ output' = output
      BY <1>18 DEF CancelStep, CancelPending, CancelProcessing, CancelDone, CancelAbort
    <2> QED
      BY <1>3, <1>11, <2>1 DEF Lifecycle!Next
  <1>19. CASE TimeStep
    <2>1. \/ \E t \in Tasks : HeartbeatLapse(t)
          \/ row' = row /\ output' = output
      BY <1>19 DEF TimeStep, VisibilityLapse, RedriveMessage
    <2> QED
      BY <1>3, <1>14, <2>1
  <1>20. CASE UNCHANGED vars
    BY <1>3, <1>20 DEF vars
  <1> QED
    BY <1>15, <1>16, <1>17, <1>18, <1>19, <1>20 DEF Next

\* The scheduler implements the life cycle of a task, for every number of
\* tasks and agents and every limit, if checker invocations do not overlap.
THEOREM SchedulerImplementsLifecycle ==
  ASSUME SingleChecker
  PROVE  Spec => ImplementsLifecycle
  <1>1. CheckerInv /\ [Next]_vars => [Lifecycle!Next]_(Lifecycle!vars)
    BY LifecycleStep
  <1> QED
    BY <1>1, LifecycleInit, CheckerInvariant, PTL DEF Spec, ImplementsLifecycle, Lifecycle!Spec

=============================================================================
