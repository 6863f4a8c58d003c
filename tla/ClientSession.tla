------------------------------ MODULE ClientSession ------------------------------
(***************************************************************************)
(* A client of the grid: AWSConnector.send uploads the inputs and submits  *)
(* the session, AWSConnector.get_results polls the get_results Lambda      *)
(* until it has counted all tasks and then reads the outputs.  The grid is *)
(* TaskLifecycle, which TaskScheduler implements.                          *)
(*                                                                         *)
(* get_results makes three queries of gsi_session_index, one for each      *)
(* final state.  The index follows the table with a delay, and tasks may   *)
(* move between two queries.                                               *)
(***************************************************************************)
EXTENDS TaskLifecycle, FiniteSets

CONSTANT ClientTimesOut   \* whether get_results is called with a timeout_sec

ASSUME ClientTimesOutAssumption == ClientTimesOut \in BOOLEAN
ASSUME SessionAssumption == IsFiniteSet(Tasks) /\ MaxRetries \in Nat

VARIABLES
  input,    \* tasks whose input is in the data plane
  index,    \* the status of each task that gsi_session_index shows
  client    \* the client, with the answer of the poll under way

sessionVars == << status, retries, started, result, input, index, client >>

\* pc        upload, submit (request sent), the three queries, count, fetch,
\*           done, stopped (an exception reached the caller)
\* sent      whether the submission has reached the grid
\* complete  the poll ended because all tasks were counted
\* torn      history: a final state changed in the index during the poll
Client ==
  [ pc : {"upload", "submit", "finished", "cancelled", "failed", "count", "fetch",
          "done", "stopped"},
    sent : BOOLEAN, complete : BOOLEAN, torn : BOOLEAN,
    finished : SUBSET Tasks, cancelled : SUBSET Tasks, failed : SUBSET Tasks,
    outputs : SUBSET Tasks ]

NewClient ==
  [ pc |-> "upload", sent |-> FALSE, complete |-> FALSE, torn |-> FALSE,
    finished |-> {}, cancelled |-> {}, failed |-> {}, outputs |-> {} ]

\* The state space of grid and client.
SessionTypeOK ==
  /\ status \in [Tasks -> {"absent", "pending", "processing"} \cup Final]
  /\ index \in [Tasks -> {"absent", "pending", "processing"} \cup Final]
  /\ retries \in [Tasks -> 0 .. MaxRetries]
  /\ started \in [Tasks -> BOOLEAN] /\ result \in [Tasks -> BOOLEAN]
  /\ input \subseteq Tasks
  /\ client \in Client

SessionInit ==
  /\ Init
  /\ input = {}
  /\ index = [t \in Tasks |-> "absent"]
  /\ client = NewClient

---------------------------------------------------------------------------
(* The grid and its index *)

GridStep(t) ==
  /\ client.sent
  /\ \/ Register(t) \/ Start(t) \/ StoreResult(t) \/ Complete(t)
     \/ PutBack(t) \/ GiveUp(t) \/ Cancel(t)
  /\ UNCHANGED << input, index, client >>

IndexFollows(t) ==
  /\ index[t] # status[t]
  /\ index' = [index EXCEPT ![t] = status[t]]
  /\ client' = [client EXCEPT !.torn =
       @ \/ (client.pc \in {"cancelled", "failed"} /\ index[t] \in Final)]
  /\ UNCHANGED << vars, input >>

---------------------------------------------------------------------------
(* send *)

PutInput(t) ==
  /\ client.pc = "upload" /\ t \notin input
  /\ input' = input \cup {t}
  /\ UNCHANGED << vars, index, client >>

Submit_BeforeUpload ==
  /\ client.pc = "upload"
  /\ client' = [client EXCEPT !.pc = "submit", !.sent = TRUE]
  /\ UNCHANGED << vars, input, index >>

Submit ==
  /\ client.pc = "upload" /\ input = Tasks
  /\ client' = [client EXCEPT !.pc = "submit", !.sent = TRUE]
  /\ UNCHANGED << vars, input, index >>

SubmitAnswered ==
  /\ client.pc = "submit"
  /\ \A t \in Tasks : status[t] # "absent"
  /\ client' = [client EXCEPT !.pc = "finished"]
  /\ UNCHANGED << vars, input, index >>

---------------------------------------------------------------------------
(* get_results *)

Shown(s) == { t \in Tasks : index[t] = s }

QueryFinished ==
  /\ client.pc = "finished"
  /\ client' = [client EXCEPT !.pc = "cancelled", !.finished = Shown("finished"), !.torn = FALSE]
  /\ UNCHANGED << vars, input, index >>

QueryCancelled ==
  /\ client.pc = "cancelled"
  /\ client' = [client EXCEPT !.pc = "failed", !.cancelled = Shown("cancelled")]
  /\ UNCHANGED << vars, input, index >>

QueryFailed_Skipped ==
  /\ client.pc = "failed"
  /\ client' = [client EXCEPT !.pc = "count"]
  /\ UNCHANGED << vars, input, index >>

QueryFailed ==
  /\ client.pc = "failed"
  /\ client' = [client EXCEPT !.pc = "count", !.failed = Shown("failed")]
  /\ UNCHANGED << vars, input, index >>

TasksInResponse ==
  Cardinality(client.finished) + Cardinality(client.cancelled) + Cardinality(client.failed)

PollComplete_AnyProgress ==
  /\ client.pc = "count" /\ TasksInResponse > 0
  /\ client' = [client EXCEPT !.pc = "fetch", !.complete = TRUE]
  /\ UNCHANGED << vars, input, index >>

PollComplete ==
  /\ client.pc = "count" /\ TasksInResponse = Cardinality(Tasks)
  /\ client' = [client EXCEPT !.pc = "fetch", !.complete = TRUE]
  /\ UNCHANGED << vars, input, index >>

PollTimesOut ==
  /\ ClientTimesOut
  /\ client.pc = "count" /\ TasksInResponse # Cardinality(Tasks)
  /\ client' = [client EXCEPT !.pc = "fetch"]
  /\ UNCHANGED << vars, input, index >>

PollAgain ==
  /\ client.pc = "count" /\ TasksInResponse # Cardinality(Tasks)
  /\ client' = [client EXCEPT !.pc = "finished",
                  !.finished = {}, !.cancelled = {}, !.failed = {}]
  /\ UNCHANGED << vars, input, index >>

FetchOutput(t) ==
  /\ client.pc = "fetch"
  /\ t \in client.finished \ client.outputs
  /\ result[t]
  /\ client' = [client EXCEPT !.outputs = @ \cup {t}]
  /\ UNCHANGED << vars, input, index >>

ReturnResults ==
  /\ client.pc = "fetch" /\ client.outputs = client.finished
  /\ client' = [client EXCEPT !.pc = "done"]
  /\ UNCHANGED << vars, input, index >>

\* An upload, the gateway (a 542 or 543 is an ApiException) or a read failed.
ClientStops ==
  /\ client.pc \notin {"done", "stopped"}
  /\ client' = [client EXCEPT !.pc = "stopped"]
  /\ UNCHANGED << vars, input, index >>

ClientProgress ==
  \/ \E t \in Tasks : PutInput(t) \/ FetchOutput(t)
  \/ Submit \/ SubmitAnswered \/ QueryFinished \/ QueryCancelled \/ QueryFailed
  \/ PollComplete \/ PollTimesOut \/ PollAgain \/ ReturnResults

SessionNext ==
  \/ \E t \in Tasks : GridStep(t) \/ IndexFollows(t)
  \/ ClientProgress
  \/ ClientStops

SessionSpec == SessionInit /\ [][SessionNext]_sessionVars

\* The client goes on, and the index catches up.
FairSessionSpec ==
  /\ SessionSpec
  /\ WF_sessionVars(ClientProgress)
  /\ \A t \in Tasks : WF_sessionVars(IndexFollows(t))

---------------------------------------------------------------------------
(* Properties *)

Listed == client.finished \cup client.cancelled \cup client.failed

\* send uploads all inputs before it submits, so that no agent starts a task
\* whose input it cannot read.
StartedHasInput == \A t \in Tasks : started[t] => t \in input

\* However late index and client are, every task the client has been told is
\* over is over.
ListedIsDecided == \A t \in Listed : status[t] \in Final

\* A task that was listed as finished has an output to fetch, even if its state
\* has been overwritten since.
FinishedHasOutput == \A t \in client.finished : result[t]

\* get_results adds up three queries that are not a snapshot.  Unless a final
\* state was overwritten during the poll, the count is right: the client that
\* stops polling has every task in its answer.
ExactUnlessTorn ==
  client.complete /\ ~client.torn => Listed = Tasks

\* If the tasks of the session come to rest in final states, polling ends.
SessionAnswered ==
  (<>[](\A t \in Tasks : status[t] \in Final) /\ <>[][UNCHANGED status]_sessionVars)
    => (client.pc = "finished" ~> client.pc \in {"done", "stopped"})

\* The life cycle chapter of the workshop: results are retrieved once all tasks
\* of the session are completed.
CompleteAnswer == client.complete => Listed = Tasks

---------------------------------------------------------------------------
(* The inductive invariant *)

\* What has been submitted has its inputs.
SentIsUploaded == client.sent => input = Tasks

\* Final states are closed: what the index shows as over is over, however late
\* the index is.
IndexIsDecided == \A t \in Tasks : index[t] \in Final => status[t] \in Final

\* A task finishes with its output stored, and outputs stay.
FinishedIsStored ==
  \A t \in Tasks : status[t] = "finished" \/ index[t] = "finished" => result[t]

\* As long as no final state has changed in the index since the first query, the
\* lists agree with the index and hence with each other.
ListsAgree ==
  ~client.torn =>
    /\ client.pc \in {"cancelled", "failed"} =>
         \A t \in client.finished : index[t] = "finished"
    /\ client.pc = "failed" => \A t \in client.cancelled : index[t] = "cancelled"
    /\ client.pc = "count" =>
         /\ client.finished \cap client.cancelled = {}
         /\ client.finished \cap client.failed = {}
         /\ client.cancelled \cap client.failed = {}

\* Once a poll has ended with all tasks counted, none follows.
CompleteIsLast == client.complete => client.pc \in {"fetch", "done", "stopped"}

SessionInv ==
  /\ SessionTypeOK
  /\ SentIsUploaded /\ StartedHasInput
  /\ IndexIsDecided /\ ListedIsDecided
  /\ FinishedIsStored /\ FinishedHasOutput
  /\ ListsAgree /\ CompleteIsLast /\ ExactUnlessTorn
=============================================================================
