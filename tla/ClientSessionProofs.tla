--------------------------- MODULE ClientSessionProofs ---------------------------
(***************************************************************************)
(* Theorems about ClientSession for every finite set of tasks: what a      *)
(* client is told of its session, however late the index is and however    *)
(* the grid goes on while the three queries of get_results are made.       *)
(***************************************************************************)
EXTENDS ClientSession, FiniteSetTheorems, TLAPS

---------------------------------------------------------------------------
(* The count of get_results *)

\* Three disjoint sets of tasks that add up to all of them leave none out: the
\* reason why comparing a number is enough while the lists agree.
LEMMA CountIsExact ==
  ASSUME NEW F \in SUBSET Tasks, NEW C \in SUBSET Tasks, NEW D \in SUBSET Tasks,
         F \cap C = {}, F \cap D = {}, C \cap D = {},
         Cardinality(F) + Cardinality(C) + Cardinality(D) = Cardinality(Tasks)
  PROVE  F \cup C \cup D = Tasks
  <1>1. IsFiniteSet(F) /\ IsFiniteSet(C) /\ IsFiniteSet(D)
    BY FS_Subset, SessionAssumption
  <1>2. /\ Cardinality(F) \in Nat /\ Cardinality(C) \in Nat /\ Cardinality(D) \in Nat
        /\ Cardinality({}) = 0
    BY <1>1, FS_CardinalityType, FS_EmptySet
  <1>3. /\ IsFiniteSet(F \cup C)
        /\ Cardinality(F \cup C) = Cardinality(F) + Cardinality(C)
    <2>1. Cardinality(F \cup C) = Cardinality(F) + Cardinality(C) - Cardinality(F \cap C)
      BY <1>1, FS_Union
    <2>2. IsFiniteSet(F \cup C)
      BY <1>1, FS_Union
    <2>3. Cardinality(F \cap C) = 0
      BY <1>2
    <2> QED
      BY <1>2, <2>1, <2>2, <2>3
  <1>4. Cardinality((F \cup C) \cup D) = Cardinality(Tasks)
    <2>1. Cardinality((F \cup C) \cup D)
            = Cardinality(F \cup C) + Cardinality(D) - Cardinality((F \cup C) \cap D)
      BY <1>1, <1>3, FS_Union
    <2>2. Cardinality((F \cup C) \cap D) = 0
      <3>1. (F \cup C) \cap D = {}
        OBVIOUS
      <3> QED
        BY <1>2, <3>1
    <2> QED
      BY <1>2, <1>3, <2>1, <2>2
  <1>5. (F \cup C) \cup D \in SUBSET Tasks
    OBVIOUS
  <1> QED
    BY <1>4, <1>5, FS_Subset, SessionAssumption

---------------------------------------------------------------------------
(* The grid's steps *)

\* What a step of the life cycle does to one task, as far as a client can tell:
\* final states are closed, results stay, and only a submitted session runs.
LEMMA GridMove ==
  ASSUME SessionTypeOK, FinishedIsStored, NEW t \in Tasks, GridStep(t)
  PROVE  /\ SessionTypeOK'
         /\ UNCHANGED << input, index, client >>
         /\ \A u \in Tasks : status[u] \in Final => status'[u] \in Final
         /\ \A u \in Tasks : result[u] => result'[u]
         /\ \A u \in Tasks : status'[u] = "finished" => result'[u]
         /\ \A u \in Tasks : started'[u] => started[u] \/ client.sent
  <1> USE DEF SessionTypeOK, Final, FinishedIsStored
  <1>0. client.sent /\ UNCHANGED << input, index, client >>
    BY DEF GridStep
  <1>1. CASE Register(t)
    BY <1>0, <1>1 DEF Register
  <1>2. CASE Start(t)
    BY <1>0, <1>2 DEF Start
  <1>3. CASE StoreResult(t)
    BY <1>0, <1>3 DEF StoreResult
  <1>4. CASE Complete(t)
    BY <1>0, <1>4 DEF Complete
  <1>5. CASE PutBack(t)
    BY <1>0, <1>5, SessionAssumption DEF PutBack
  <1>6. CASE GiveUp(t)
    BY <1>0, <1>6 DEF GiveUp
  <1>7. CASE Cancel(t)
    BY <1>0, <1>7 DEF Cancel
  <1> QED
    BY <1>1, <1>2, <1>3, <1>4, <1>5, <1>6, <1>7 DEF GridStep

---------------------------------------------------------------------------
(* The inductive invariant *)

\* It holds before the first upload.
LEMMA InitSession == SessionInit => SessionInv
  <1> SUFFICES ASSUME SessionInit PROVE SessionInv
    OBVIOUS
  <1> USE DEF SessionInit, Init, NewClient
  <1>1. SessionTypeOK
    BY SessionAssumption DEF SessionTypeOK, Client
  <1>2. /\ SentIsUploaded /\ StartedHasInput /\ IndexIsDecided /\ ListedIsDecided
        /\ FinishedIsStored /\ FinishedHasOutput
    BY DEF SentIsUploaded, StartedHasInput, IndexIsDecided, ListedIsDecided, Listed,
           FinishedIsStored, FinishedHasOutput, Final
  <1>3. ListsAgree /\ CompleteIsLast /\ ExactUnlessTorn
    BY DEF ListsAgree, CompleteIsLast, ExactUnlessTorn
  <1> QED
    BY <1>1, <1>2, <1>3 DEF SessionInv

\* The steps of the grid leave the client's view true.
LEMMA GridKeeps ==
  ASSUME SessionInv, NEW t \in Tasks, GridStep(t)
  PROVE  SessionInv'
  <1> USE DEF SessionInv
  <1>1. /\ SessionTypeOK'
        /\ UNCHANGED << input, index, client >>
        /\ \A u \in Tasks : status[u] \in Final => status'[u] \in Final
        /\ \A u \in Tasks : result[u] => result'[u]
        /\ \A u \in Tasks : status'[u] = "finished" => result'[u]
        /\ \A u \in Tasks : started'[u] => started[u] \/ client.sent
    BY GridMove
  <1>2. client.finished \subseteq Tasks /\ Listed \subseteq Tasks
    BY DEF SessionTypeOK, Client, Listed
  <1>3. SentIsUploaded' /\ StartedHasInput'
    BY <1>1 DEF SentIsUploaded, StartedHasInput
  <1>4. IndexIsDecided' /\ ListedIsDecided'
    BY <1>1, <1>2 DEF IndexIsDecided, ListedIsDecided, Listed
  <1>5. FinishedIsStored' /\ FinishedHasOutput'
    BY <1>1, <1>2 DEF FinishedIsStored, FinishedHasOutput
  <1>6. ListsAgree' /\ CompleteIsLast' /\ ExactUnlessTorn'
    BY <1>1 DEF ListsAgree, CompleteIsLast, ExactUnlessTorn, Listed
  <1> QED
    BY <1>1, <1>3, <1>4, <1>5, <1>6

\* An index entry that follows the table either was not a final state, so that
\* no list depends on it, or tears the poll under way.
LEMMA IndexKeeps ==
  ASSUME SessionInv, NEW t \in Tasks, IndexFollows(t)
  PROVE  SessionInv'
  <1> USE DEF SessionInv
  <1>0. client \in Client /\ index \in [Tasks -> {"absent", "pending", "processing"} \cup Final]
    BY DEF SessionTypeOK
  <1> DEFINE torn == client.torn \/ (client.pc \in {"cancelled", "failed"} /\ index[t] \in Final)
  <1>1. /\ index' = [index EXCEPT ![t] = status[t]]
        /\ client' = [client EXCEPT !.torn = torn]
        /\ UNCHANGED << status, retries, started, result, input >>
    BY DEF IndexFollows, vars
  <1>2. torn \in BOOLEAN
    BY <1>0 DEF Client
  <1>3. /\ client'.pc = client.pc /\ client'.sent = client.sent /\ client'.complete = client.complete
        /\ client'.finished = client.finished /\ client'.cancelled = client.cancelled
        /\ client'.failed = client.failed /\ client'.torn = torn
    BY <1>0, <1>1 DEF Client
  <1>4. client' \in Client
    BY <1>0, <1>1, <1>2 DEF Client
  <1>5. SessionTypeOK'
    BY <1>1, <1>4 DEF SessionTypeOK
  <1>6. SentIsUploaded' /\ StartedHasInput'
    BY <1>1, <1>3 DEF SentIsUploaded, StartedHasInput
  <1>7. IndexIsDecided' /\ ListedIsDecided'
    BY <1>0, <1>1, <1>3 DEF IndexIsDecided, ListedIsDecided, Listed
  <1>8. FinishedIsStored' /\ FinishedHasOutput'
    BY <1>0, <1>1, <1>3 DEF FinishedIsStored, FinishedHasOutput
  <1>9. ListsAgree'
    <2> SUFFICES ASSUME ~client'.torn PROVE ListsAgree'
      BY DEF ListsAgree
    <2>1. ~client.torn /\ (client.pc \in {"cancelled", "failed"} => index[t] \notin Final)
      BY <1>3
    <2>2. ASSUME client.pc \in {"cancelled", "failed"}, NEW u \in Tasks, index[u] \in Final
          PROVE  index'[u] = index[u]
      BY <1>0, <1>1, <2>1, <2>2
    <2>3. client.finished \subseteq Tasks /\ client.cancelled \subseteq Tasks
      BY <1>0 DEF Client
    <2> QED
      BY <1>3, <2>1, <2>2, <2>3 DEF ListsAgree, Final
  <1>10. CompleteIsLast' /\ ExactUnlessTorn'
    BY <1>3 DEF CompleteIsLast, ExactUnlessTorn, Listed
  <1> QED
    BY <1>5, <1>6, <1>7, <1>8, <1>9, <1>10

\* The client's own steps.  Only PollComplete has to do with the count.
LEMMA ClientKeeps ==
  ASSUME SessionInv, ClientProgress \/ ClientStops
  PROVE  SessionInv'
  <1> USE DEF SessionInv
  <1>0. client \in Client /\ index \in [Tasks -> {"absent", "pending", "processing"} \cup Final]
        /\ input \subseteq Tasks
    BY DEF SessionTypeOK
  <1>1. ASSUME NEW t \in Tasks, PutInput(t) PROVE SessionInv'
    <2>1. UNCHANGED << status, retries, started, result, index, client >>
      BY <1>1 DEF PutInput, vars
    <2>2. input \subseteq input' /\ input' \subseteq Tasks
      BY <1>0, <1>1 DEF PutInput
    <2>3. SessionTypeOK' /\ SentIsUploaded' /\ StartedHasInput'
      BY <2>1, <2>2 DEF SessionTypeOK, SentIsUploaded, StartedHasInput
    <2>4. IndexIsDecided' /\ ListedIsDecided' /\ FinishedIsStored' /\ FinishedHasOutput'
      BY <2>1 DEF IndexIsDecided, ListedIsDecided, FinishedIsStored, FinishedHasOutput, Listed
    <2>5. ListsAgree' /\ CompleteIsLast' /\ ExactUnlessTorn'
      BY <2>1 DEF ListsAgree, CompleteIsLast, ExactUnlessTorn, Listed
    <2> QED
      BY <2>3, <2>4, <2>5
  \* the conjuncts about grid and inputs, for every other step
  <1>2. ASSUME UNCHANGED << status, retries, started, result, index, input >>,
               client' \in Client, client'.sent => client.sent \/ input = Tasks
        PROVE  SessionTypeOK' /\ SentIsUploaded' /\ StartedHasInput' /\ IndexIsDecided' /\ FinishedIsStored'
    <2>1. SessionTypeOK'
      BY <1>2 DEF SessionTypeOK
    <2>2. SentIsUploaded' /\ StartedHasInput'
      BY <1>2 DEF SentIsUploaded, StartedHasInput
    <2>3. IndexIsDecided' /\ FinishedIsStored'
      BY <1>2 DEF IndexIsDecided, FinishedIsStored
    <2> QED
      BY <2>1, <2>2, <2>3
  \* the conjuncts about the lists, for a step that makes no query
  <1>3. ASSUME UNCHANGED << status, retries, started, result, index, input >>,
               client' \in Client, client'.sent => client.sent \/ input = Tasks,
               client'.torn = client.torn,
               \/ /\ client'.finished = client.finished /\ client'.cancelled = client.cancelled
                  /\ client'.failed = client.failed
               \/ client'.finished = {} /\ client'.cancelled = {} /\ client'.failed = {},
               client'.pc \notin {"cancelled", "failed", "count"},
               CompleteIsLast', ExactUnlessTorn'
        PROVE  SessionInv'
    <2>1. SessionTypeOK' /\ SentIsUploaded' /\ StartedHasInput' /\ IndexIsDecided' /\ FinishedIsStored'
      BY <1>2, <1>3
    <2>2. ListedIsDecided' /\ FinishedHasOutput'
      BY <1>3 DEF ListedIsDecided, FinishedHasOutput, Listed
    <2>3. ListsAgree'
      BY <1>3 DEF ListsAgree
    <2> QED
      BY <1>3, <2>1, <2>2, <2>3
  <1>4. CASE Submit \/ SubmitAnswered \/ PollTimesOut \/ ReturnResults \/ ClientStops
    <2>1. UNCHANGED << status, retries, started, result, index, input >>
      BY <1>4 DEF Submit, SubmitAnswered, PollTimesOut, ReturnResults, ClientStops, vars
    <2>2. PICK p \in {"submit", "finished", "fetch", "done", "stopped"} :
            \/ client' = [client EXCEPT !.pc = p]
            \/ client' = [client EXCEPT !.pc = p, !.sent = TRUE] /\ input = Tasks
      BY <1>4 DEF Submit, SubmitAnswered, PollTimesOut, ReturnResults, ClientStops
    <2>3. client' \in Client
      BY <1>0, <2>2 DEF Client
    <2>4. /\ client'.pc = p /\ client'.torn = client.torn /\ client'.complete = client.complete
          /\ client'.finished = client.finished /\ client'.cancelled = client.cancelled
          /\ client'.failed = client.failed
          /\ client'.sent => client.sent \/ input = Tasks
      BY <1>0, <2>2 DEF Client
    <2>5. client.complete => p \in {"fetch", "done", "stopped"}
      <3>1. client.complete => client.pc \in {"fetch", "done", "stopped"}
        BY DEF CompleteIsLast
      <3>2. client'.pc \in {"submit", "finished"} => client.pc \in {"upload", "submit"}
        BY <1>0, <1>4 DEF Submit, SubmitAnswered, PollTimesOut, ReturnResults, ClientStops, Client
      <3> QED
        BY <2>4, <3>1, <3>2
    <2>6. CompleteIsLast' /\ ExactUnlessTorn'
      BY <2>4, <2>5 DEF CompleteIsLast, ExactUnlessTorn, Listed
    <2> QED
      BY <1>3, <2>1, <2>3, <2>4, <2>6
  <1>5. ASSUME NEW t \in Tasks, FetchOutput(t) PROVE SessionInv'
    <2>1. /\ UNCHANGED << status, retries, started, result, index, input >>
          /\ client.pc = "fetch"
          /\ client' = [client EXCEPT !.outputs = client.outputs \cup {t}]
      BY <1>5 DEF FetchOutput, vars
    <2>2. client' \in Client
      BY <1>0, <2>1 DEF Client
    <2>3. /\ client'.pc = "fetch" /\ client'.torn = client.torn /\ client'.complete = client.complete
          /\ client'.finished = client.finished /\ client'.cancelled = client.cancelled
          /\ client'.failed = client.failed /\ client'.sent = client.sent
      BY <1>0, <2>1 DEF Client
    <2>4. CompleteIsLast' /\ ExactUnlessTorn'
      BY <2>3 DEF CompleteIsLast, ExactUnlessTorn, Listed
    <2> QED
      BY <1>3, <2>1, <2>2, <2>3, <2>4
  <1>6. CASE PollAgain
    <2>1. /\ UNCHANGED << status, retries, started, result, index, input >>
          /\ client.pc = "count"
          /\ client' = [client EXCEPT !.pc = "finished", !.finished = {}, !.cancelled = {}, !.failed = {}]
      BY <1>6 DEF PollAgain, vars
    <2>2. client' \in Client
      BY <1>0, <2>1 DEF Client
    <2>3. /\ client'.pc = "finished" /\ client'.torn = client.torn /\ client'.complete = client.complete
          /\ client'.finished = {} /\ client'.cancelled = {}
          /\ client'.failed = {} /\ client'.sent = client.sent
      BY <1>0, <2>1 DEF Client
    <2>4. CompleteIsLast' /\ ExactUnlessTorn'
      BY <2>1, <2>3 DEF CompleteIsLast, ExactUnlessTorn
    <2> QED
      BY <1>3, <2>1, <2>2, <2>3, <2>4
  <1>7. CASE QueryFinished \/ QueryCancelled \/ QueryFailed
    <2>1. /\ UNCHANGED << status, retries, started, result, index, input >>
          /\ client.pc \in {"finished", "cancelled", "failed"}
      BY <1>7 DEF QueryFinished, QueryCancelled, QueryFailed, vars
    <2>2. \A x \in Final : Shown(x) \in SUBSET Tasks /\ \A u \in Shown(x) : index[u] = x
      BY DEF Shown
    <2>3. /\ client.finished \subseteq Tasks /\ client.cancelled \subseteq Tasks
          /\ client.failed \subseteq Tasks /\ ~client.complete
      BY <1>0, <2>1 DEF Client, CompleteIsLast
    <2>4. ASSUME client' \in Client, client'.sent = client.sent, client'.complete = client.complete,
                 client'.finished \subseteq client.finished \cup Shown("finished"),
                 client'.cancelled \subseteq client.cancelled \cup Shown("cancelled"),
                 client'.failed \subseteq client.failed \cup Shown("failed"),
                 ListsAgree'
          PROVE  SessionInv'
      <3>1. SessionTypeOK' /\ SentIsUploaded' /\ StartedHasInput' /\ IndexIsDecided' /\ FinishedIsStored'
        BY <1>2, <2>1, <2>4
      <3>2. ListedIsDecided'
        BY <2>1, <2>2, <2>4 DEF ListedIsDecided, Listed, IndexIsDecided, Final
      <3>3. FinishedHasOutput'
        BY <2>1, <2>2, <2>4 DEF FinishedHasOutput, FinishedIsStored, Final
      <3>4. CompleteIsLast' /\ ExactUnlessTorn'
        BY <2>3, <2>4 DEF CompleteIsLast, ExactUnlessTorn
      <3> QED
        BY <2>4, <3>1, <3>2, <3>3, <3>4
    <2>5. CASE QueryFinished
      <3>1. client' = [client EXCEPT !.pc = "cancelled", !.finished = Shown("finished"), !.torn = FALSE]
        BY <2>5 DEF QueryFinished
      <3>2. client' \in Client
        BY <1>0, <2>2, <3>1 DEF Client, Final
      <3>3. /\ client'.pc = "cancelled" /\ client'.finished = Shown("finished")
            /\ client'.cancelled = client.cancelled /\ client'.failed = client.failed
            /\ client'.sent = client.sent /\ client'.complete = client.complete
        BY <1>0, <3>1 DEF Client
      <3>4. ListsAgree'
        BY <2>1, <2>2, <3>3 DEF ListsAgree, Final
      <3> QED
        BY <2>4, <3>2, <3>3, <3>4
    <2>6. CASE QueryCancelled
      <3>1. /\ client.pc = "cancelled"
            /\ client' = [client EXCEPT !.pc = "failed", !.cancelled = Shown("cancelled")]
        BY <2>6 DEF QueryCancelled
      <3>2. client' \in Client
        BY <1>0, <2>2, <3>1 DEF Client, Final
      <3>3. /\ client'.pc = "failed" /\ client'.finished = client.finished
            /\ client'.cancelled = Shown("cancelled") /\ client'.failed = client.failed
            /\ client'.sent = client.sent /\ client'.complete = client.complete
            /\ client'.torn = client.torn
        BY <1>0, <3>1 DEF Client
      <3>4. ListsAgree'
        BY <2>1, <2>2, <3>1, <3>3 DEF ListsAgree, Final
      <3> QED
        BY <2>4, <3>2, <3>3, <3>4
    <2>7. CASE QueryFailed
      <3>1. /\ client.pc = "failed"
            /\ client' = [client EXCEPT !.pc = "count", !.failed = Shown("failed")]
        BY <2>7 DEF QueryFailed
      <3>2. client' \in Client
        BY <1>0, <2>2, <3>1 DEF Client, Final
      <3>3. /\ client'.pc = "count" /\ client'.finished = client.finished
            /\ client'.cancelled = client.cancelled /\ client'.failed = Shown("failed")
            /\ client'.sent = client.sent /\ client'.complete = client.complete
            /\ client'.torn = client.torn
        BY <1>0, <3>1 DEF Client
      <3>4. ListsAgree'
        BY <2>1, <2>2, <3>1, <3>3 DEF ListsAgree, Final
      <3> QED
        BY <2>4, <3>2, <3>3, <3>4
    <2> QED
      BY <1>7, <2>5, <2>6, <2>7
  <1>8. CASE PollComplete
    <2>1. /\ UNCHANGED << status, retries, started, result, index, input >>
          /\ client.pc = "count" /\ TasksInResponse = Cardinality(Tasks)
          /\ client' = [client EXCEPT !.pc = "fetch", !.complete = TRUE]
      BY <1>8 DEF PollComplete, vars
    <2>2. client' \in Client
      BY <1>0, <2>1 DEF Client
    <2>3. /\ client'.pc = "fetch" /\ client'.torn = client.torn /\ client'.sent = client.sent
          /\ client'.finished = client.finished /\ client'.cancelled = client.cancelled
          /\ client'.failed = client.failed
      BY <1>0, <2>1 DEF Client
    <2>4. ~client.torn => Listed = Tasks
      <3> SUFFICES ASSUME ~client.torn PROVE Listed = Tasks
        OBVIOUS
      <3>1. /\ client.finished \cap client.cancelled = {}
            /\ client.finished \cap client.failed = {}
            /\ client.cancelled \cap client.failed = {}
        BY <2>1 DEF ListsAgree
      <3>2. /\ client.finished \in SUBSET Tasks /\ client.cancelled \in SUBSET Tasks
            /\ client.failed \in SUBSET Tasks
        BY <1>0 DEF Client
      <3>3. Cardinality(client.finished) + Cardinality(client.cancelled) + Cardinality(client.failed)
              = Cardinality(Tasks)
        BY <2>1 DEF TasksInResponse
      <3> QED
        BY <3>1, <3>2, <3>3, CountIsExact DEF Listed
    <2>5. CompleteIsLast' /\ ExactUnlessTorn'
      BY <2>3, <2>4 DEF CompleteIsLast, ExactUnlessTorn, Listed
    <2> QED
      BY <1>3, <2>1, <2>2, <2>3, <2>5
  <1> QED
    BY <1>1, <1>4, <1>5, <1>6, <1>7, <1>8 DEF ClientProgress

---------------------------------------------------------------------------
(* Theorems *)

\* Everything that is claimed of a session, in one inductive invariant.
THEOREM SessionInvariant == SessionSpec => []SessionInv
  <1>1. SessionInv /\ [SessionNext]_sessionVars => SessionInv'
    <2> SUFFICES ASSUME SessionInv, [SessionNext]_sessionVars PROVE SessionInv'
      OBVIOUS
    <2>1. CASE UNCHANGED sessionVars
      BY <2>1 DEF sessionVars, SessionInv, SessionTypeOK, SentIsUploaded, StartedHasInput, IndexIsDecided,
                  ListedIsDecided, FinishedIsStored, FinishedHasOutput, ListsAgree, CompleteIsLast,
                  ExactUnlessTorn, Listed
    <2> QED
      BY <2>1, GridKeeps, IndexKeeps, ClientKeeps DEF SessionNext
  <1> QED
    BY <1>1, InitSession, PTL DEF SessionSpec

\* Grid, index and client keep to their state space, the retry limit included.
THEOREM SessionTypeCorrect == SessionSpec => []SessionTypeOK
  <1>1. SessionInv => SessionTypeOK
    BY DEF SessionInv
  <1> QED
    BY <1>1, SessionInvariant, PTL

\* send: an agent never starts a task whose input is not there.
THEOREM SessionStartedHasInput == SessionSpec => []StartedHasInput
  <1>1. SessionInv => StartedHasInput
    BY DEF SessionInv
  <1> QED
    BY <1>1, SessionInvariant, PTL

\* get_results: a task the client was told is over is over.
THEOREM SessionListedIsDecided == SessionSpec => []ListedIsDecided
  <1>1. SessionInv => ListedIsDecided
    BY DEF SessionInv
  <1> QED
    BY <1>1, SessionInvariant, PTL

\* get_results: the outputs a client goes on to read have been stored.
THEOREM SessionFinishedHasOutput == SessionSpec => []FinishedHasOutput
  <1>1. SessionInv => FinishedHasOutput
    BY DEF SessionInv
  <1> QED
    BY <1>1, SessionInvariant, PTL

\* get_results: a client that stops polling because it has counted all tasks has
\* all of them, unless a final state changed in the index during that poll.
THEOREM SessionExactUnlessTorn == SessionSpec => []ExactUnlessTorn
  <1>1. SessionInv => ExactUnlessTorn
    BY DEF SessionInv
  <1> QED
    BY <1>1, SessionInvariant, PTL

=============================================================================
