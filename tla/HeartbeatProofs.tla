----------------------------- MODULE HeartbeatProofs -----------------------------
(***************************************************************************)
(* HbInv is an invariant of Heartbeat for every configuration of intervals *)
(* and delays, and the properties of the lease follow from it.             *)
(***************************************************************************)
EXTENDS Heartbeat, TLAPS

\* The intervals in ticks are natural numbers and the slack is not empty.
LEMMA TicksNat ==
  /\ Second \in Nat /\ Second > 0
  /\ Refresh \in Nat /\ Offset \in Nat /\ Refresh < Offset
  /\ MaxJitter \in Nat /\ Jitter \in Nat
<1>1. Second \in Nat /\ Second > 0  BY TicksAssumption
<1>2. Refresh \in Nat /\ Offset \in Nat
  BY <1>1, IntervalAssumption DEF Refresh, Offset
<1>3. Refresh < Offset
  <2>1. PICK d \in Nat : ExpirationOffset = RefreshInterval + d /\ d > 0
    <3>1. ExpirationOffset - RefreshInterval \in Nat /\ ExpirationOffset - RefreshInterval > 0
      BY IntervalAssumption
    <3> QED  BY <3>1, IntervalAssumption
  <2>2. Offset = Refresh + d * Second
    BY <2>1, <1>1, IntervalAssumption DEF Refresh, Offset
  <2>3. d * Second \in Nat /\ d * Second > 0  BY <2>1, <1>1
  <2> QED  BY <2>2, <2>3, <1>2
<1>4. MaxJitter \in Nat  BY IntervalAssumption DEF MaxJitter
<1>5. Jitter \in Nat  BY <1>1, <1>4 DEF Jitter
<1> QED  BY <1>1, <1>2, <1>3, <1>4, <1>5

\* int(time.time()) is at most a second behind.
LEMMA TruncBounds ==
  ASSUME NEW t \in Nat
  PROVE  Trunc(t) \in Nat /\ Trunc(t) <= t /\ t < Trunc(t) + Second
<1>1. t % Second \in 0 .. Second - 1  BY TicksNat
<1>2. t % Second <= t
  <2>1. t = Second * (t \div Second) + (t % Second)  BY TicksNat
  <2>2. t \div Second \in Nat  BY TicksNat
  <2>3. Second * (t \div Second) \in Nat  BY <2>2, TicksNat
  <2> QED  BY <2>1, <2>3, <1>1
<1> QED  BY <1>1, <1>2, TicksNat DEF Trunc

\* The next refresh lies a refresh interval ahead, a second less at worst and
\* the jitter more at best.
LEMMA RefreshAtBounds ==
  ASSUME now \in Nat, NEW j \in 0 .. MaxJitter
  PROVE  /\ RefreshAt(j) \in Nat
         /\ now + Refresh < RefreshAt(j) + Second
         /\ RefreshAt(j) <= now + Refresh + Jitter
<1>1. j * Second \in Nat /\ j * Second <= Jitter  BY TicksNat DEF Jitter
<1> QED  BY <1>1, TruncBounds, TicksNat DEF RefreshAt

\* The expiration lies the slack after the refresh.
LEMMA SlackNat == Slack \in Nat
BY TicksNat DEF Slack

LEMMA ExpirationNat ==
  ASSUME NEW r \in Nat
  PROVE  Expiration(r) \in Nat /\ Expiration(r) = r + Slack
BY TicksNat DEF Expiration, Slack

---------------------------------------------------------------------------

\* The present state of the row is a version of it, and versions stay versions
\* when the task is claimed once more.
LEMMA TrailType ==
  ASSUME HbTypeOK, claims' \in Nat, claims <= claims', trail' \subseteq trail \cup {Present}
  PROVE  trail' \subseteq Version'
<1>1. Present \in Version
  BY DEF HbTypeOK, HbRow, Present, Version
<1>2. Version \subseteq Version'
  <2>1. 0 .. claims \subseteq 0 .. claims'  BY DEF HbTypeOK
  <2> QED  BY <2>1 DEF Version
<1> QED  BY <1>1, <1>2 DEF HbTypeOK

\* The same for the claims the checker invocations have listed.
LEMMA ListedType ==
  ASSUME HbTypeOK, claims' \in Nat, claims <= claims', listed' \in [Checkers -> 0 .. claims]
  PROVE  listed' \in [Checkers -> 0 .. claims']
<1>1. 0 .. claims \subseteq 0 .. claims'  BY DEF HbTypeOK
<1> QED  BY <1>1

\* Every action leaves the state space intact: only the TTL that the claim and
\* the refresh write is computed from others.
LEMMA TypeStep == HbTypeOK /\ [Next]_hbVars => HbTypeOK'
<1> SUFFICES ASSUME HbTypeOK, [Next]_hbVars PROVE HbTypeOK'
  OBVIOUS
<1> USE TicksNat, TicksAssumption
<1>0. claims \in Nat /\ claims <= claims  BY DEF HbTypeOK
<1>1. ASSUME NEW a \in Agents, AgentStep(a) PROVE HbTypeOK'
  <2>1. CASE StartClaim(a)
    BY <2>1, RefreshAtBounds DEF StartClaim, HbTypeOK, Version, AgentState, Working, table
  <2>2. CASE Claim(a)
    <3>1. agent[a].refreshAt \in Nat  BY DEF HbTypeOK, AgentState
    <3>2. row' \in HbRow  BY <2>2, <3>1, ExpirationNat DEF Claim, Overwrite, HbRow
    <3>3. claims' \in Nat /\ claims <= claims'  BY <2>2, <1>0 DEF Claim
    <3>4. trail' \subseteq Version'  BY <2>2, <3>3, TrailType DEF Claim, Overwrite
    <3>5. listed' \in [Checkers -> 0 .. claims']  BY <2>2, <3>3, ListedType DEF Claim, HbTypeOK
    <3>6. agent' \in [Agents -> AgentState]
      BY <2>2 DEF Claim, HbTypeOK, AgentState, Working, Enter
    <3> QED  BY <2>2, <3>2, <3>3, <3>4, <3>5, <3>6 DEF Claim, HbTypeOK
  <2>3. CASE ClaimRejected(a)
    BY <2>3 DEF ClaimRejected, HbTypeOK, Version, AgentState, IdleAgent, table
  <2>4. CASE PollEarly(a)
    BY <2>4 DEF PollEarly, HbTypeOK, Version, AgentState, Working, Sleep, Enter, table
  <2>5. CASE PollDue(a)
    BY <2>5, RefreshAtBounds DEF PollDue, HbTypeOK, Version, AgentState, Working, Enter, table
  <2>6. CASE RefreshThrottled(a)
    BY <2>6, RefreshAtBounds DEF RefreshThrottled, HbTypeOK, Version, AgentState, Working, table
  <2>7. CASE RefreshTtl(a)
    <3>1. agent[a].refreshAt \in Nat  BY DEF HbTypeOK, AgentState
    <3>2. row' \in HbRow  BY <2>7, <3>1, ExpirationNat DEF RefreshTtl, Overwrite, HbTypeOK, HbRow
    <3>3. trail' \subseteq Version'  BY <2>7, <1>0, TrailType DEF RefreshTtl, Overwrite
    <3> QED  BY <2>7, <3>2, <3>3 DEF RefreshTtl, HbTypeOK, AgentState, Working, Sleep, Enter
  <2>8. CASE RefreshRefused(a)
    BY <2>8 DEF RefreshRefused, HbTypeOK, Version, AgentState, IdleAgent, table
  <2>9. CASE WorkerAnswers(a)
    BY <2>9 DEF WorkerAnswers, HbTypeOK, Version, AgentState, Working, Enter, table
  <2>10. CASE Finish(a)
    <3>1. trail' \subseteq Version'  BY <2>10, <1>0, TrailType DEF Finish, Overwrite
    <3> QED  BY <2>10, <3>1 DEF Finish, Overwrite, HbTypeOK, HbRow, AgentState, IdleAgent
  <2>11. CASE FinishRejected(a)
    BY <2>11 DEF FinishRejected, HbTypeOK, Version, AgentState, IdleAgent, table
  <2>12. CASE Silence(a)
    BY <2>12 DEF Silence, HbTypeOK, Version, AgentState, IdleAgent, table
  <2> QED
    BY <1>1, <2>1, <2>2, <2>3, <2>4, <2>5, <2>6, <2>7, <2>8, <2>9, <2>10, <2>11, <2>12 DEF AgentStep
<1>2. ASSUME NEW c \in Checkers, TtlList(c) PROVE HbTypeOK'
  <2>1. \A v \in Shown : v.claim \in 0 .. claims
    BY <1>0 DEF HbTypeOK, Shown, Present, Version
  <2> QED  BY <1>2, <2>1 DEF TtlList, HbTypeOK, Version, table
<1>3. ASSUME NEW c \in Checkers, TtlRetry(c) \/ TtlFail(c) PROVE HbTypeOK'
  <2>1. trail' \subseteq Version'  BY <1>3, <1>0, TrailType DEF TtlRetry, TtlFail, Overwrite
  <2>2. row' \in HbRow  BY <1>3 DEF TtlRetry, TtlFail, Overwrite, HbTypeOK, HbRow
  <2>3. listed' \in [Checkers -> 0 .. claims]  BY <1>3, <1>0 DEF TtlRetry, TtlFail, HbTypeOK
  <2> QED  BY <1>3, <2>1, <2>2, <2>3 DEF TtlRetry, TtlFail, HbTypeOK
<1>4. ASSUME NEW c \in Checkers, TtlSkip(c) PROVE HbTypeOK'
  BY <1>4 DEF TtlSkip, HbTypeOK, Version, table
<1>6. CASE Tick
  <2>1. ASSUME NEW a \in Agents PROVE agent'[a] \in AgentState
    <3>1. agent[a] \in AgentState  BY DEF HbTypeOK
    <3>2. agent'[a] = agent[a] \/ agent'[a] = [ agent[a] EXCEPT !.late = TRUE, !.by = 0 ]
      BY <1>6 DEF Tick
    <3>3. [ agent[a] EXCEPT !.late = TRUE, !.by = 0 ] \in AgentState  BY <3>1 DEF AgentState
    <3> QED  BY <3>1, <3>2, <3>3
  <2>2. agent' = [a \in Agents |-> agent'[a]]  BY <1>6 DEF Tick
  <2>3. agent' \in [Agents -> AgentState]  BY <2>1, <2>2
  <2>4. trail' \subseteq Version'  BY <1>6, <1>0, TrailType DEF Tick
  <2>5. now' \in Nat
    <3>1. now \in Nat  BY DEF HbTypeOK
    <3>2. now' = now + 1  BY <1>6 DEF Tick
    <3> QED  BY <3>1, <3>2
  <2>6. UNCHANGED << row, claims, lastBeat, listed >>  BY <1>6 DEF Tick
  <2> QED  BY <2>3, <2>4, <2>5, <2>6 DEF HbTypeOK
<1>7. CASE UNCHANGED hbVars  BY <1>7 DEF hbVars, table, HbTypeOK, Version
<1> QED  BY <1>1, <1>2, <1>3, <1>4, <1>6, <1>7 DEF Next

\* A tick makes an agent late or leaves it alone.
LEMMA TickMoves ==
  ASSUME HbTypeOK, Tick, NEW a \in Agents
  PROVE  /\ agent'[a].pc = agent[a].pc /\ agent'[a].refreshAt = agent[a].refreshAt
         /\ agent[a].pc # "idle" /\ ~agent'[a].late =>
              ~agent[a].late /\ now < agent[a].by /\ agent'[a].by = agent[a].by
<1>0. agent[a] \in AgentState /\ now \in Nat  BY DEF HbTypeOK
<1>1. CASE agent[a].pc # "idle" /\ now >= agent[a].by
  <2>1. agent'[a] = [ agent[a] EXCEPT !.late = TRUE, !.by = 0 ]  BY <1>1 DEF Tick
  <2> QED  BY <1>0, <2>1 DEF AgentState
<1>2. CASE ~(agent[a].pc # "idle" /\ now >= agent[a].by)
  <2>1. agent'[a] = agent[a]  BY <1>2 DEF Tick
  <2> QED  BY <1>0, <1>2, <2>1 DEF AgentState
<1> QED  BY <1>1, <1>2

\* A lease is computed from the clock before the call that writes it.
LEMMA LeaseStep == HbTypeOK /\ LeaseBounded /\ [Next]_hbVars => LeaseBounded'
<1> SUFFICES ASSUME HbTypeOK, LeaseBounded, [Next]_hbVars PROVE LeaseBounded'
  OBVIOUS
<1> USE TicksNat, TicksAssumption
<1>0. /\ \A a \in Agents : agent[a] \in AgentState
      /\ now \in Nat /\ row \in HbRow /\ DOMAIN agent = Agents
  BY DEF HbTypeOK
<1>1. ASSUME NEW a \in Agents, AgentStep(a) PROVE LeaseBounded'
  <2>1. CASE StartClaim(a)
    BY <2>1, <1>0, RefreshAtBounds DEF StartClaim, AgentState, LeaseBounded, table
  <2>2. CASE Claim(a)
    BY <2>2, <1>0, ExpirationNat DEF Claim, Overwrite, AgentState, LeaseBounded, Enter, Slack
  <2>3. CASE PollEarly(a)
    BY <2>3, <1>0 DEF PollEarly, AgentState, LeaseBounded, Sleep, Enter, table
  <2>4. CASE PollDue(a)
    BY <2>4, <1>0, RefreshAtBounds DEF PollDue, AgentState, LeaseBounded, Enter, table
  <2>5. CASE RefreshThrottled(a)
    BY <2>5, <1>0, RefreshAtBounds DEF RefreshThrottled, AgentState, LeaseBounded, table
  <2>6. CASE RefreshTtl(a)
    BY <2>6, <1>0, ExpirationNat
    DEF RefreshTtl, Overwrite, HbRow, AgentState, LeaseBounded, Sleep, Enter, Slack
  <2>7. CASE WorkerAnswers(a)
    BY <2>7, <1>0 DEF WorkerAnswers, AgentState, LeaseBounded, Enter, table
  <2>8. CASE Finish(a)
    BY <2>8, <1>0 DEF Finish, Overwrite, HbRow, AgentState, LeaseBounded, IdleAgent
  <2>9. CASE ClaimRejected(a) \/ RefreshRefused(a) \/ FinishRejected(a) \/ Silence(a)
    BY <2>9, <1>0
    DEF ClaimRejected, RefreshRefused, FinishRejected, Silence, AgentState, LeaseBounded, IdleAgent, table
  <2> QED
    BY <1>1, <2>1, <2>2, <2>3, <2>4, <2>5, <2>6, <2>7, <2>8, <2>9 DEF AgentStep
<1>2. ASSUME NEW c \in Checkers, TtlList(c) \/ TtlRetry(c) \/ TtlFail(c) \/ TtlSkip(c)
      PROVE  LeaseBounded'
  BY <1>2, <1>0 DEF TtlList, TtlRetry, TtlFail, TtlSkip, Overwrite, HbRow, AgentState, LeaseBounded, table
<1>3. CASE Tick
  <2>1. ASSUME NEW a \in Agents
        PROVE  agent'[a].pc = agent[a].pc /\ agent'[a].refreshAt = agent[a].refreshAt
    BY <1>3, TickMoves
  <2>2. now' = now + 1 /\ row' = row /\ lastBeat' = lastBeat  BY <1>3 DEF Tick
  <2> QED  BY <2>1, <2>2, <1>0 DEF AgentState, LeaseBounded
<1>4. CASE UNCHANGED hbVars  BY <1>4 DEF hbVars, table, LeaseBounded
<1> QED  BY <1>1, <1>2, <1>3, <1>4 DEF Next

---------------------------------------------------------------------------
(* The trail of the row *)

\* The row is left alone, or it is overwritten, its old state is put on the
\* trail, and the lease is new or the row is no longer processing; or the clock
\* advances and old states leave the trail.
RowStep ==
  \/ UNCHANGED << row, trail, lastBeat, now >>
  \/ /\ trail' = trail \cup {Present} /\ now' = now
     /\ lastBeat' = now \/ (row'.status # "processing" /\ lastBeat' = lastBeat)
  \/ /\ trail' = { v \in trail : now < v.until + Lag } /\ now' = now + 1
     /\ UNCHANGED << row, lastBeat >>

LEMMA RowSteps == HbTypeOK /\ [Next]_hbVars => RowStep
<1> SUFFICES ASSUME HbTypeOK, [Next]_hbVars PROVE RowStep
  OBVIOUS
<1>1. ASSUME NEW a \in Agents, Claim(a) \/ RefreshTtl(a) PROVE RowStep
  BY <1>1 DEF Claim, RefreshTtl, Overwrite, RowStep
<1>2. ASSUME NEW a \in Agents, Finish(a) PROVE RowStep
  BY <1>2 DEF Finish, Overwrite, RowStep, HbTypeOK, HbRow
<1>3. ASSUME NEW c \in Checkers, TtlRetry(c) \/ TtlFail(c) PROVE RowStep
  BY <1>3 DEF TtlRetry, TtlFail, Overwrite, RowStep, HbTypeOK, HbRow
<1>4. ASSUME NEW a \in Agents,
             \/ StartClaim(a) \/ ClaimRejected(a) \/ PollEarly(a) \/ PollDue(a)
             \/ RefreshThrottled(a) \/ RefreshRefused(a) \/ WorkerAnswers(a)
             \/ FinishRejected(a) \/ Silence(a)
      PROVE  RowStep
  BY <1>4
  DEF StartClaim, ClaimRejected, PollEarly, PollDue, RefreshThrottled, RefreshRefused,
      WorkerAnswers, FinishRejected, Silence, table, RowStep
<1>5. ASSUME NEW c \in Checkers, TtlList(c) \/ TtlSkip(c) PROVE RowStep
  BY <1>5 DEF TtlList, TtlSkip, table, RowStep
<1>6. Tick \/ UNCHANGED hbVars => RowStep
  BY DEF Tick, hbVars, table, RowStep
<1> QED  BY <1>1, <1>2, <1>3, <1>4, <1>5, <1>6 DEF Next, AgentStep

\* The index follows the table within Lag.
LEMMA TrailStep == HbTypeOK /\ TrailIsRecent /\ [Next]_hbVars => TrailIsRecent'
<1> SUFFICES ASSUME HbTypeOK, TrailIsRecent, [Next]_hbVars, NEW v \in trail'
             PROVE  /\ v.until <= now' /\ now' <= v.until + Lag
                    /\ row'.status = "processing" => v.until <= lastBeat'
  BY DEF TrailIsRecent
<1>0. now \in Nat /\ lastBeat \in Nat /\ Lag \in Nat /\ \A w \in trail : w.until \in Nat
  BY TicksAssumption DEF HbTypeOK, Version
<1>1. CASE UNCHANGED << row, trail, lastBeat, now >>
  BY <1>1 DEF TrailIsRecent
<1>2. CASE /\ trail' = trail \cup {Present} /\ now' = now
           /\ lastBeat' = now \/ (row'.status # "processing" /\ lastBeat' = lastBeat)
  <2>1. v.until \in Nat /\ v.until <= now /\ now <= v.until + Lag
    BY <1>0, <1>2 DEF TrailIsRecent, Present
  <2> QED  BY <1>0, <1>2, <2>1
<1>3. CASE /\ trail' = { w \in trail : now < w.until + Lag } /\ now' = now + 1
           /\ UNCHANGED << row, lastBeat >>
  <2>1. v \in trail /\ now < v.until + Lag  BY <1>3
  <2>2. v.until <= now /\ (row.status = "processing" => v.until <= lastBeat)
    BY <2>1 DEF TrailIsRecent
  <2> QED  BY <1>0, <1>3, <2>1, <2>2
<1> QED  BY <1>1, <1>2, <1>3, RowSteps DEF RowStep

---------------------------------------------------------------------------
(* The leases of prompt agents *)

\* A version that a query at this moment finds expired expires before the
\* clocks' skew is over.
LEMMA ExpiredIsPast ==
  ASSUME HbTypeOK, NEW v \in Shown, NEW d \in -Skew .. Skew, now + d >= 0, ExpiredAt(v, now + d)
  PROVE  v.expiry \in Nat /\ v.expiry < now + Skew
<1>1. now \in Nat /\ Skew \in Nat  BY TicksAssumption DEF HbTypeOK
<1>2. now + d \in Nat /\ now + d <= now + Skew  BY <1>1
<1>3. Trunc(now + d) \in Nat /\ Trunc(now + d) <= now + d  BY <1>2, TruncBounds
<1>4. v.expiry \in Nat  BY DEF Shown, Present, HbTypeOK, HbRow, Version
<1>5. v.expiry < Trunc(now + d)  BY DEF ExpiredAt
<1> QED  BY <1>1, <1>2, <1>3, <1>4, <1>5

\* What a query may see of the claim that a prompt agent holds is a lease, and
\* none that is over on any clock.
LEMMA ShownIsLive ==
  ASSUME HbTypeOK, TrailIsRecent, NEW a \in Agents, PromptKnows(a), TrailKnows(a), Holds(a),
         NEW v \in Shown, v.claim = claims
  PROVE  v.status = "processing" /\ v.expiry \in Nat /\ now + Skew < v.expiry
<1> USE TicksAssumption
<1>1. now \in Nat /\ row.expiry \in Nat /\ agent[a].by \in Nat
  BY DEF HbTypeOK, HbRow, AgentState
<1>2. CASE v \in trail
  <2>1. v.expiry \in Nat /\ v.until \in Nat  BY <1>2 DEF HbTypeOK, Version
  <2>2. v.status = "processing" /\ v.until + Skew + Lag < v.expiry  BY <1>2 DEF TrailKnows
  <2>3. now <= v.until + Lag  BY <1>2 DEF TrailIsRecent
  <2> QED  BY <1>1, <2>1, <2>2, <2>3
<1>3. CASE v = Present
  <2>1. v.status = row.status /\ v.expiry = row.expiry  BY <1>3 DEF Present
  <2>2. now <= agent[a].by /\ agent[a].by + Skew + Lag < row.expiry  BY DEF PromptKnows
  <2> QED  BY <1>1, <2>1, <2>2 DEF Holds, Owns
<1> QED  BY <1>2, <1>3 DEF Shown

\* So a checker invocation never lists the claim of a prompt agent.
LEMMA ListsAnother ==
  ASSUME HbTypeOK, TrailIsRecent, NEW a \in Agents, PromptKnows(a), TrailKnows(a), Holds(a),
         NEW c \in Checkers, TtlList(c)
  PROVE  \A e \in Checkers : listed'[e] # claims
<1>1. PICK v \in Shown, d \in -Skew .. Skew :
        now + d >= 0 /\ ExpiredAt(v, now + d) /\ listed' = [listed EXCEPT ![c] = v.claim]
  BY DEF TtlList
<1>2. v.expiry \in Nat /\ v.expiry < now + Skew  BY <1>1, ExpiredIsPast
<1>3. v.claim # claims
  <2>1. v.claim = claims => now + Skew < v.expiry  BY ShownIsLive
  <2>2. now \in Nat /\ Skew \in Nat  BY TicksAssumption DEF HbTypeOK
  <2> QED  BY <1>2, <2>1, <2>2
<1>4. \A e \in Checkers : listed[e] # claims  BY DEF PromptKnows
<1> QED  BY <1>1, <1>3, <1>4 DEF HbTypeOK

\* An agent that has just claimed is under a claim nobody has listed or seen.
LEMMA ClaimIsNew ==
  ASSUME HbTypeOK, NEW a \in Agents, Claim(a)
  PROVE  /\ \A c \in Checkers : listed'[c] # claims'
         /\ \A v \in trail' : v.claim # claims'
<1>1. claims \in Nat /\ claims' = claims + 1 /\ listed' = listed /\ trail' = trail \cup {Present}
  BY DEF Claim, Overwrite, HbTypeOK
<1>2. \A c \in Checkers : listed[c] \in 0 .. claims  BY DEF HbTypeOK
<1>3. \A v \in trail \cup {Present} : v.claim \in 0 .. claims
  BY <1>1 DEF HbTypeOK, Version, Present
<1> QED  BY <1>1, <1>2, <1>3

\* The steps of other agents and of the checker, seen by an agent.
LEMMA KnowsOthers ==
  ASSUME HbInv, SlackCovers, NEW b \in Agents, agent'[b] = agent[b], now' = now,
         \/ ~Owns(b)'
         \/ UNCHANGED table /\ (Holds(b) => \A c \in Checkers : listed'[c] # claims)
  PROVE  ClaimingKnows(b)' /\ PromptKnows(b)' /\ TrailKnows(b)'
BY DEF HbInv, ClaimingKnows, PromptKnows, TrailKnows, Holds, Prompt, Owns, Expiration, table

\* A step by which an agent moves on and leaves the row alone.
LEMMA TrailKept ==
  ASSUME HbInv, SlackCovers, NEW b \in Agents, UNCHANGED << table, listed >>, Holds(b)' => Holds(b)
  PROVE  /\ TrailKnows(b)'
         /\ Holds(b)' => \A c \in Checkers : listed'[c] # claims'
BY DEF HbInv, PromptKnows, TrailKnows, table

\* What the agents know of their leases is kept by every action: an agent
\* moves on by the end of its phase or is late, the others are not prompt or
\* are left alone, and the checker takes a row from them or leaves it alone.
LEMMA KnowsStep ==
  ASSUME HbInv, SlackCovers, [Next]_hbVars, NEW b \in Agents
  PROVE  ClaimingKnows(b)' /\ PromptKnows(b)' /\ TrailKnows(b)'
<1> USE TicksNat, TicksAssumption, SlackNat
<1>0. /\ HbTypeOK /\ now \in Nat /\ row \in HbRow /\ TrailIsRecent
      /\ ClaimingKnows(b) /\ PromptKnows(b) /\ TrailKnows(b)
      /\ agent[b] \in AgentState
      /\ DOMAIN agent = Agents
  BY DEF HbInv, HbTypeOK
<1>1. ASSUME NEW a \in Agents, AgentStep(a), a # b
      PROVE  ClaimingKnows(b)' /\ PromptKnows(b)' /\ TrailKnows(b)'
  <2>1. agent'[b] = agent[b] /\ now' = now /\ listed' = listed
    BY <1>0, <1>1
    DEF AgentStep, StartClaim, Claim, ClaimRejected, PollEarly, PollDue, RefreshThrottled,
        RefreshTtl, RefreshRefused, WorkerAnswers, Finish, FinishRejected, Silence
  <2>2. ~Owns(b)' \/ UNCHANGED table
    <3>1. CASE Claim(a)
      BY <1>1, <3>1 DEF Claim, Overwrite, Owns
    <3>2. CASE RefreshTtl(a) \/ Finish(a)
      BY <1>0, <1>1, <3>2 DEF RefreshTtl, Finish, Overwrite, Owns, HbRow
    <3> QED
      BY <1>1, <3>1, <3>2
      DEF AgentStep, StartClaim, ClaimRejected, PollEarly, PollDue, RefreshThrottled,
          RefreshRefused, WorkerAnswers, FinishRejected, Silence
  <2>3. Holds(b) => \A c \in Checkers : listed'[c] # claims
    BY <1>0, <2>1 DEF PromptKnows
  <2> QED  BY <2>1, <2>2, <2>3, KnowsOthers
<1>2. ASSUME AgentStep(b) PROVE ClaimingKnows(b)' /\ PromptKnows(b)' /\ TrailKnows(b)'
  <2>1. CASE StartClaim(b)
    <3>1. agent'[b].pc = "claiming"  BY <1>0, <2>1 DEF StartClaim
    <3>2. ~Holds(b)'  BY <3>1 DEF Holds, Prompt, Working
    <3>3. ClaimingKnows(b)'
      BY <2>1, <1>0, RefreshAtBounds DEF StartClaim, SlackCovers, ClaimingKnows
    <3> QED  BY <3>2, <3>3 DEF PromptKnows, TrailKnows
  <2>2. CASE Claim(b)
    <3>1. agent'[b] = Enter(b, "setup", SetupTime, agent[b].refreshAt)  BY <2>2, <1>0 DEF Claim
    <3>2. row'.expiry = agent[b].refreshAt + Slack /\ now' = now
      BY <2>2, <1>0, ExpirationNat DEF Claim, Overwrite, AgentState
    <3>3. ClaimingKnows(b)' /\ TrailKnows(b)'
      BY <2>2, <1>0, <3>1, ClaimIsNew DEF ClaimingKnows, TrailKnows, Enter
    <3>4. agent[b].pc = "claiming" /\ agent[b].refreshAt \in Nat /\ agent[b].by \in Nat
      BY <2>2, <1>0 DEF Claim, AgentState
    <3>5. ASSUME Holds(b)' PROVE now <= agent[b].by /\ agent[b].by + SetupTime <= agent[b].refreshAt
      BY <1>0, <3>1, <3>4, <3>5 DEF ClaimingKnows, Holds, Prompt, Enter
    <3>6. ASSUME Holds(b)' PROVE agent'[b].by = now + SetupTime
      BY <3>1, <3>6 DEF Holds, Prompt, Enter
    <3>7. agent'[b].pc = "setup" /\ agent'[b].refreshAt = agent[b].refreshAt
      BY <3>1 DEF Enter
    <3>8. Expiration(agent[b].refreshAt) = agent[b].refreshAt + Slack
      BY <3>4, ExpirationNat
    <3>9. Expiration(agent[b].refreshAt)' = agent'[b].refreshAt + Slack
      BY <3>7, <3>8 DEF Expiration
    <3>10. Skew + Lag < Slack
      BY DEF SlackCovers
    <3>11. PromptKnows(b)'
      <4> SUFFICES ASSUME Holds(b)' PROVE PromptKnows(b)'
        BY DEF PromptKnows
      <4>1. now' <= agent'[b].by /\ agent'[b].by + Skew + Lag < row'.expiry
        BY <1>0, <3>2, <3>4, <3>5, <3>6, <3>10
      <4>2. agent'[b].by <= agent'[b].refreshAt + PollDelay
        BY <1>0, <3>4, <3>5, <3>6, <3>7
      <4> QED  BY <2>2, <1>0, <3>2, <3>7, <3>9, <4>1, <4>2, ClaimIsNew DEF PromptKnows
    <3> QED  BY <3>3, <3>11
  <2>3. CASE PollEarly(b)
    <3>1. UNCHANGED << table, listed >> /\ (Holds(b)' => Holds(b))
      BY <2>3, <1>0 DEF PollEarly, table, Holds, Prompt, Owns, Working, Sleep, Enter
    <3>2. ClaimingKnows(b)'  BY <2>3, <1>0 DEF PollEarly, ClaimingKnows, Sleep, Enter
    <3>3. PromptKnows(b)'
      BY <2>3, <1>0, <3>1, TrailKept, ExpirationNat
      DEF PollEarly, RefreshDue, SlackCovers, PromptKnows, Holds, Prompt, Owns, Sleep, Enter, AgentState, table
    <3> QED  BY <3>1, <3>2, <3>3, TrailKept
  <2>4. CASE PollDue(b)
    <3>1. UNCHANGED << table, listed >> /\ (Holds(b)' => Holds(b))
      BY <2>4, <1>0 DEF PollDue, table, Holds, Prompt, Owns, Working, Enter
    <3>2. ClaimingKnows(b)'  BY <2>4, <1>0 DEF PollDue, ClaimingKnows, Enter
    <3>3. PromptKnows(b)'
      BY <2>4, <1>0, <3>1, TrailKept, ExpirationNat, RefreshAtBounds
      DEF PollDue, SlackCovers, PromptKnows, Holds, Prompt, Owns, Enter, AgentState, table
    <3> QED  BY <3>1, <3>2, <3>3, TrailKept
  <2>5. CASE RefreshThrottled(b)
    <3>1. UNCHANGED << table, listed >> /\ (Holds(b)' => Holds(b))
      BY <2>5, <1>0 DEF RefreshThrottled, table, Holds, Prompt, Owns, AgentState
    <3>2. ClaimingKnows(b)'  BY <2>5, <1>0 DEF RefreshThrottled, ClaimingKnows, AgentState
    <3>3. PromptKnows(b)'
      BY <2>5, <1>0, <3>1, TrailKept, RefreshAtBounds
      DEF RefreshThrottled, SlackCovers, PromptKnows, Holds, Prompt, Owns, AgentState, table
    <3> QED  BY <3>1, <3>2, <3>3, TrailKept
  <2>6. CASE RefreshTtl(b)
    <3>1. agent'[b] = Sleep(b) /\ now' = now /\ listed' = listed /\ claims' = claims
      BY <2>6, <1>0 DEF RefreshTtl
    <3>2. row'.expiry = agent[b].refreshAt + Slack /\ row'.status = row.status
      BY <2>6, <1>0, ExpirationNat DEF RefreshTtl, Overwrite, AgentState, HbRow
    <3>3. Holds(b)' => Holds(b)
      BY <2>6, <1>0, <3>1 DEF RefreshTtl, Holds, Prompt, Working, Sleep, Enter
    <3>4. ClaimingKnows(b)'  BY <3>1 DEF ClaimingKnows, Sleep, Enter
    <3>5. PromptKnows(b)'
      BY <2>6, <1>0, <3>1, <3>2, <3>3, ExpirationNat
      DEF RefreshTtl, SlackCovers, PromptKnows, Holds, Prompt, Sleep, Enter, AgentState
    <3>6. Holds(b) => Present.status = "processing" /\ Present.until + Skew + Lag < Present.expiry
      BY <1>0 DEF Present, Holds, Owns, PromptKnows, AgentState, HbRow
    <3>7. TrailKnows(b)'
      BY <2>6, <1>0, <3>1, <3>3, <3>6 DEF RefreshTtl, Overwrite, TrailKnows
    <3> QED  BY <3>4, <3>5, <3>7
  <2>7. CASE WorkerAnswers(b)
    <3>1. UNCHANGED << table, listed >> /\ (Holds(b)' => Holds(b))
      BY <2>7, <1>0 DEF WorkerAnswers, table, Holds, Prompt, Owns, Working, Enter
    <3>2. ClaimingKnows(b)'  BY <2>7, <1>0 DEF WorkerAnswers, ClaimingKnows, Enter
    <3>3. PromptKnows(b)'
      BY <2>7, <1>0, <3>1, TrailKept, ExpirationNat
      DEF WorkerAnswers, SlackCovers, PromptKnows, Holds, Prompt, Owns, Enter, AgentState, table
    <3> QED  BY <3>1, <3>2, <3>3, TrailKept
  <2>8. CASE ClaimRejected(b) \/ RefreshRefused(b) \/ Finish(b) \/ FinishRejected(b) \/ Silence(b)
    <3>1. agent'[b].pc = "idle"
      BY <2>8, <1>0 DEF ClaimRejected, RefreshRefused, Finish, FinishRejected, Silence, IdleAgent
    <3> QED  BY <3>1 DEF ClaimingKnows, PromptKnows, TrailKnows, Holds, Prompt, Working
  <2> QED  BY <1>2, <2>1, <2>2, <2>3, <2>4, <2>5, <2>6, <2>7, <2>8 DEF AgentStep
<1>3. ASSUME NEW c \in Checkers, TtlList(c)
      PROVE  ClaimingKnows(b)' /\ PromptKnows(b)' /\ TrailKnows(b)'
  <2>1. Holds(b) => \A e \in Checkers : listed'[e] # claims  BY <1>0, <1>3, ListsAnother
  <2> QED  BY <1>3, <2>1, KnowsOthers DEF TtlList
<1>4. ASSUME NEW c \in Checkers, TtlRetry(c) \/ TtlFail(c)
      PROVE  ClaimingKnows(b)' /\ PromptKnows(b)' /\ TrailKnows(b)'
  <2>1. ~Owns(b)'
    BY <1>0, <1>4 DEF TtlRetry, TtlFail, Overwrite, Owns, HbRow
  <2> QED  BY <1>4, <2>1, KnowsOthers DEF TtlRetry, TtlFail
<1>5. ASSUME NEW c \in Checkers, TtlSkip(c)
      PROVE  ClaimingKnows(b)' /\ PromptKnows(b)' /\ TrailKnows(b)'
  <2>1. Holds(b) => claims # 0
    BY <1>0, <1>5 DEF TtlSkip, PromptKnows, HbTypeOK
  <2>2. Holds(b) => \A e \in Checkers : listed'[e] # claims
    BY <1>0, <1>5, <2>1 DEF TtlSkip, PromptKnows, HbTypeOK
  <2> QED  BY <1>5, <2>2, KnowsOthers DEF TtlSkip
<1>6. CASE Tick
  <2>1. /\ agent'[b].pc = agent[b].pc
        /\ agent'[b].refreshAt = agent[b].refreshAt
        /\ agent[b].pc # "idle" /\ ~agent'[b].late =>
             ~agent[b].late /\ now < agent[b].by /\ agent'[b].by = agent[b].by
    BY <1>0, <1>6, TickMoves
  <2>2. now' = now + 1 /\ row' = row /\ claims' = claims /\ listed' = listed /\ trail' \subseteq trail
    BY <1>6 DEF Tick
  <2>3. Holds(b)' => Holds(b)
    BY <2>1, <2>2 DEF Holds, Prompt, Owns, Working
  <2>4. ClaimingKnows(b)'
    BY <1>0, <2>1, <2>2 DEF ClaimingKnows, AgentState
  <2>5. PromptKnows(b)'
    BY <1>0, <2>1, <2>2, <2>3 DEF PromptKnows, Holds, Prompt, Working, Expiration, AgentState
  <2> QED  BY <1>0, <2>2, <2>3, <2>4, <2>5 DEF TrailKnows
<1>7. CASE UNCHANGED hbVars
  BY <1>0, <1>7 DEF hbVars, table, ClaimingKnows, PromptKnows, TrailKnows, Holds, Prompt, Owns, Expiration
<1> QED  BY <1>1, <1>2, <1>3, <1>4, <1>5, <1>6, <1>7 DEF Next

---------------------------------------------------------------------------

\* The clock and the leases keep to their state space (TTLExpirationGenerator
\* never computes an expiration before the start of time), for any number of
\* agents and any configuration the constructor accepts.
THEOREM HbTypeCorrect == Spec => []HbTypeOK
<1>1. Init => HbTypeOK
  <2> SUFFICES ASSUME Init PROVE HbTypeOK
    OBVIOUS
  <2> QED  BY DEF Init, HbTypeOK, HbRow, Version, AgentState, IdleAgent, Working
<1> QED  BY <1>1, TypeStep, PTL DEF Spec

\* The inductive invariant holds in every reachable state.
THEOREM HbInvariant == Spec => []HbInv
<1>1. Init => HbInv
  <2> SUFFICES ASSUME Init PROVE HbInv
    OBVIOUS
  <2>1. HbTypeOK  BY DEF Init, HbTypeOK, HbRow, Version, AgentState, IdleAgent
  <2>2. LeaseBounded  BY DEF Init, LeaseBounded, IdleAgent
  <2>3. \A a \in Agents : ClaimingKnows(a) /\ PromptKnows(a) /\ TrailKnows(a)
    BY DEF Init, IdleAgent, ClaimingKnows, PromptKnows, TrailKnows, Holds, Prompt, Working
  <2>4. TrailIsRecent  BY DEF Init, TrailIsRecent
  <2> QED  BY <2>1, <2>2, <2>3, <2>4 DEF HbInv
<1>2. HbInv /\ [Next]_hbVars => HbInv'
  <2> SUFFICES ASSUME HbInv, [Next]_hbVars PROVE HbInv'
    OBVIOUS
  <2>1. HbTypeOK'  BY TypeStep DEF HbInv
  <2>2. LeaseBounded'  BY LeaseStep DEF HbInv
  <2>3. (SlackCovers => \A a \in Agents : ClaimingKnows(a) /\ PromptKnows(a) /\ TrailKnows(a))'
    <3>1. SlackCovers' <=> SlackCovers  BY DEF SlackCovers, Slack, Refresh, Offset
    <3>2. ASSUME SlackCovers, NEW a \in Agents
          PROVE  (ClaimingKnows(a) /\ PromptKnows(a) /\ TrailKnows(a))'
      BY <3>2, KnowsStep
    <3> QED  BY <3>1, <3>2
  <2>4. TrailIsRecent'  BY TrailStep DEF HbInv
  <2> QED  BY <2>1, <2>2, <2>3, <2>4 DEF HbInv
<1> QED  BY <1>1, <1>2, PTL DEF Spec

\* Whatever the intervals, delays and lag of the index are, if the slack covers
\* them no number of overlapping checker invocations takes a task from a prompt
\* agent, but on the listing of an earlier claim (agent.py,
\* update_ttl_if_required; retry_task, which looks at the status only).
THEOREM PromptAgentKeepsTask == Spec => PromptKeepsTask
<1>1. HbInv /\ [Next]_hbVars =>
        [ SlackCovers =>
            \A a \in Agents :
              Holds(a) /\ Prompt(a)' =>
                Owns(a)' \/ \E c \in Checkers : listed[c] \in 1 .. claims - 1 /\ listed'[c] = 0 ]_hbVars
  <2> SUFFICES ASSUME HbInv, [Next]_hbVars, SlackCovers, NEW a \in Agents, Holds(a), Prompt(a)'
               PROVE  Owns(a)' \/ \E c \in Checkers : listed[c] \in 1 .. claims - 1 /\ listed'[c] = 0
    OBVIOUS
  <2>0. row \in HbRow /\ DOMAIN agent = Agents /\ claims \in Nat
    BY DEF HbInv, HbTypeOK
  <2>1. ASSUME NEW c \in Checkers, TtlRetry(c) \/ TtlFail(c)
        PROVE  listed[c] \in 1 .. claims - 1 /\ listed'[c] = 0
    <3>1. listed[c] \in 0 .. claims /\ listed[c] # 0 /\ listed'[c] = 0
      BY <2>1 DEF TtlRetry, TtlFail, HbInv, HbTypeOK
    <3>2. listed[c] # claims  BY DEF HbInv, PromptKnows
    <3> QED  BY <2>0, <3>1, <3>2
  <2>2. ASSUME NEW b \in Agents, AgentStep(b) PROVE Owns(a)'
    <3>1. CASE b = a
      <4>1. ~Finish(a)
        BY <2>0 DEF Finish, IdleAgent, Prompt, Working
      <4>2. ~Claim(a)
        BY DEF Claim, Holds, Prompt, Working
      <4>3. RefreshTtl(a) => Owns(a)'
        BY <2>0 DEF RefreshTtl, Overwrite, Owns, HbRow
      <4> QED
        BY <2>2, <3>1, <4>1, <4>2, <4>3
        DEF AgentStep, StartClaim, ClaimRejected, PollEarly, PollDue, RefreshThrottled,
            RefreshRefused, WorkerAnswers, FinishRejected, Silence, Holds, Owns, table
    <3>2. CASE b # a
      BY <2>2, <3>2
      DEF AgentStep, StartClaim, Claim, ClaimRejected, PollEarly, PollDue, RefreshThrottled,
          RefreshTtl, RefreshRefused, WorkerAnswers, Finish, FinishRejected, Silence, Holds, Owns, table
    <3> QED  BY <3>1, <3>2
  <2>3. ASSUME \/ \E c \in Checkers : TtlList(c) \/ TtlSkip(c)
               \/ Tick \/ UNCHANGED hbVars
        PROVE  Owns(a)'
    BY <2>3 DEF TtlList, TtlSkip, Tick, hbVars, table, Holds, Owns
  <2> QED  BY <2>1, <2>2, <2>3 DEF Next
<1> QED  BY <1>1, HbInvariant, PTL DEF Spec, PromptKeepsTask

\* Under the same condition query_live_tasks lists the task of a prompt agent, on
\* every clock within the skew, whichever state of its claim the index shows.
THEOREM PromptAgentSeenBusy == Spec => []PromptSeenBusy
<1>1. HbInv => PromptSeenBusy
  <2> SUFFICES ASSUME HbInv, SlackCovers, NEW a \in Agents, NEW d \in -Skew .. Skew,
                      NEW v \in Shown, Holds(a), v.claim = claims, now + d >= 0
               PROVE  LiveAt(v, now + d)
    BY DEF PromptSeenBusy
  <2>1. now \in Nat  BY DEF HbInv, HbTypeOK
  <2>2. v.status = "processing" /\ v.expiry \in Nat /\ now + Skew < v.expiry
    BY ShownIsLive DEF HbInv
  <2>3. now + d \in Nat /\ now + d <= now + Skew  BY <2>1, TicksAssumption
  <2>4. Trunc(now + d) \in Nat /\ Trunc(now + d) <= now + d  BY <2>3, TruncBounds
  <2> QED  BY <2>1, <2>2, <2>3, <2>4, TicksAssumption DEF LiveAt
<1> QED  BY <1>1, HbInvariant, PTL

\* Whatever the configuration, and prompt or not: a lease nobody extends is
\* seen as expired by query_expired_tasks within the detection time.
THEOREM SilentAgentListed == Spec => []SilentIsListed
<1>1. HbInv => SilentIsListed
  <2> SUFFICES ASSUME HbInv, row.status = "processing", now > lastBeat + DetectionTime,
                      NEW v \in Shown
               PROVE  ExpiredAt(v, now - Skew)
    BY DEF SilentIsListed
  <2>1. now \in Nat /\ lastBeat \in Nat /\ row.expiry \in Nat
    BY DEF HbInv, HbTypeOK, HbRow
  <2>2. v = Present
    <3>1. ASSUME v \in trail PROVE FALSE
      <4>1. v.until \in Nat  BY <3>1 DEF HbInv, HbTypeOK, Version
      <4>2. now <= v.until + Lag /\ v.until <= lastBeat
        BY <3>1 DEF HbInv, TrailIsRecent
      <4> QED  BY <2>1, <4>1, <4>2, TicksNat, TicksAssumption DEF DetectionTime
    <3> QED  BY <3>1 DEF Shown
  <2>3. row.expiry <= lastBeat + Offset + Jitter  BY DEF HbInv, LeaseBounded
  <2>4. now - Skew \in Nat /\ lastBeat + Offset + Jitter + Second < now - Skew
    BY <2>1, TicksNat, TicksAssumption DEF DetectionTime
  <2>5. Trunc(now - Skew) \in Nat /\ now - Skew < Trunc(now - Skew) + Second
    BY <2>4, TruncBounds
  <2>6. row.expiry < Trunc(now - Skew)
    BY <2>1, <2>3, <2>4, <2>5, TicksNat, TicksAssumption
  <2> QED  BY <2>2, <2>6 DEF ExpiredAt, Present
<1> QED  BY <1>1, HbInvariant, PTL

=============================================================================
