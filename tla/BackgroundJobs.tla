--------------------------- MODULE BackgroundJobs ---------------------------
(***************************************************************************)
(* Work a request hands to a worker: core/jobs.py, run_job of              *)
(* core/tasks.py, and the row of background_jobs both write.               *)
(*                                                                         *)
(* The request creates the row inside its transaction and publishes once   *)
(* that commits.  The broker may have kept a message whose publish raised, *)
(* and hands one over again when the acknowledgement is lost, so one job   *)
(* may run twice, at the same time too.  Neither start_job nor finish_job  *)
(* looks at the state the row is in; the table's constraint, that exactly  *)
(* the finished states carry a finishing stamp, is what they meet.         *)
(***************************************************************************)
EXTENDS Naturals

CONSTANTS
    Jobs,
    JobWorkers,
    NoJob,          \* a worker's job, when it has none
    MaxCopies       \* bound: how often the broker hands one message over again

ASSUME NoJobAssumption  == NoJob \notin Jobs
ASSUME CopiesAssumption == MaxCopies \in Nat

VARIABLES
    row,        \* background_jobs, as committed: job |-> its state
    request,    \* the web request: job |-> how far the hand-over has got
    messages,   \* the broker: job |-> messages waiting
    copies,     \* job |-> messages the broker may still hand over again
    workers,    \* worker |-> the job it has and what it is doing
    dropped     \* history: the jobs some process let go of unfinished

jobVars == <<row, request, messages, copies, workers, dropped>>

InProgressStates == {"queued", "running"}

Terminal == {"succeeded", "failed"}

Free == [job |-> NoJob, phase |-> "free"]

JobInit ==
    /\ row = [j \in Jobs |-> "absent"]
    /\ request = [j \in Jobs |-> "new"]
    /\ messages = [j \in Jobs |-> 0]
    /\ copies = [j \in Jobs |-> MaxCopies]
    /\ workers = [w \in JobWorkers |-> Free]
    /\ dropped = {}

-----------------------------------------------------------------------------
(* The request *)

\* Mutant of RequestJob: the task is published inside the transaction.
RequestAndPublish(j) ==
    /\ request[j] = "new"
    /\ request' = [request EXCEPT ![j] = "open"]
    /\ messages' = [messages EXCEPT ![j] = @ + 1]
    /\ UNCHANGED <<row, copies, workers, dropped>>

\* request_job: the row is created in a transaction nobody else sees into.
RequestJob(j) ==
    /\ request[j] = "new"
    /\ request' = [request EXCEPT ![j] = "open"]
    /\ UNCHANGED <<row, messages, copies, workers, dropped>>

\* The view fails later on and its transaction takes the row with it.
Rollback(j) ==
    /\ request[j] = "open"
    /\ request' = [request EXCEPT ![j] = "done"]
    /\ UNCHANGED <<row, messages, copies, workers, dropped>>

Commit(j) ==
    /\ request[j] = "open"
    /\ request' = [request EXCEPT ![j] = "committed"]
    /\ row' = [row EXCEPT ![j] = "queued"]
    /\ UNCHANGED <<messages, copies, workers, dropped>>

\* _publish, on commit: the broker takes the message ...
PublishJob(j) ==
    /\ request[j] = "committed"
    /\ request' = [request EXCEPT ![j] = "done"]
    /\ messages' = [messages EXCEPT ![j] = @ + 1]
    /\ UNCHANGED <<row, copies, workers, dropped>>

\* ... or send_task raises what _publish does not name, whether or not the
\* broker took it, and nothing records that ...
PublishBreaks(j) ==
    /\ request[j] = "committed"
    /\ request' = [request EXCEPT ![j] = "done"]
    /\ \E taken \in {0, 1} : messages' = [messages EXCEPT ![j] = @ + taken]
    /\ dropped' = dropped \cup {j}
    /\ UNCHANGED <<row, copies, workers>>

\* ... or it raises kombu's OperationalError, the broker having taken it or not ...
PublishRaises(j) ==
    /\ request[j] = "committed"
    /\ request' = [request EXCEPT ![j] = "refused"]
    /\ \E taken \in {0, 1} : messages' = [messages EXCEPT ![j] = @ + taken]
    /\ UNCHANGED <<row, copies, workers, dropped>>

\* Mutant of FailUnpublished: the refusal is only logged.
LogUnpublished(j) ==
    /\ request[j] = "refused"
    /\ request' = [request EXCEPT ![j] = "done"]
    /\ UNCHANGED <<row, messages, copies, workers, dropped>>

\* ... and the request fails the job, whatever has become of it.
FailUnpublished(j) ==
    /\ request[j] = "refused"
    /\ request' = [request EXCEPT ![j] = "done"]
    /\ row' = [row EXCEPT ![j] = "failed"]
    /\ UNCHANGED <<messages, copies, workers, dropped>>

\* The web process dies before it has handed the job over.
WebDies(j) ==
    /\ request[j] \in {"committed", "refused"}
    /\ request' = [request EXCEPT ![j] = "done"]
    /\ dropped' = dropped \cup {j}
    /\ UNCHANGED <<row, messages, copies, workers>>

-----------------------------------------------------------------------------
(* The worker *)

\* A worker takes a message and acknowledges it before it runs; when the
\* acknowledgement is lost the message stays.
Receive(w, j) ==
    /\ workers[w] = Free
    /\ messages[j] > 0
    /\ workers' = [workers EXCEPT ![w] = [job |-> j, phase |-> "received"]]
    /\ \/ messages' = [messages EXCEPT ![j] = @ - 1] /\ UNCHANGED copies
       \/ copies[j] > 0 /\ copies' = [copies EXCEPT ![j] = @ - 1] /\ UNCHANGED messages
    /\ UNCHANGED <<row, request, dropped>>

Received(w, j) == workers[w] = [job |-> j, phase |-> "received"]

\* Mutant of Startable: the table lost its constraint.
AnyRowStartable(state) == TRUE

\* job_finish_stamp_matches_its_state refuses to make a finished row running.
Startable(state) == state \in InProgressStates

\* start_job ...
StartJob(w, j) ==
    /\ Received(w, j)
    /\ Startable(row[j])
    /\ row' = [row EXCEPT ![j] = "running"]
    /\ workers' = [workers EXCEPT ![w].phase = "running"]
    /\ UNCHANGED <<request, messages, copies, dropped>>

\* ... is refused by the constraint and raises, or there is no row to start.
StartRefused(w, j) ==
    /\ Received(w, j)
    /\ ~Startable(row[j])
    /\ workers' = [workers EXCEPT ![w] = Free]
    /\ UNCHANGED <<row, request, messages, copies, dropped>>

\* The runner returns, or fails in one of the three ways run_job catches;
\* finish_job writes the ending over whatever the row holds.
FinishJob(w, j) ==
    /\ workers[w] = [job |-> j, phase |-> "running"]
    /\ \E ending \in Terminal : row' = [row EXCEPT ![j] = ending]
    /\ workers' = [workers EXCEPT ![w] = Free]
    /\ UNCHANGED <<request, messages, copies, dropped>>

\* The runner raises anything else: the soft time limit, a database error.
RunnerRaises(w) ==
    /\ workers[w].phase = "running"
    /\ workers' = [workers EXCEPT ![w] = Free]
    /\ dropped' = dropped \cup {workers[w].job}
    /\ UNCHANGED <<row, request, messages, copies>>

\* The worker is killed: the hard time limit, a deployment, memory.
WorkerDies(w) ==
    /\ workers[w] # Free
    /\ workers' = [workers EXCEPT ![w] = Free]
    /\ dropped' = dropped \cup {workers[w].job}
    /\ UNCHANGED <<row, request, messages, copies>>

HandOver(j) ==
    \/ RequestJob(j) \/ Rollback(j) \/ Commit(j)
    \/ PublishJob(j) \/ PublishBreaks(j) \/ PublishRaises(j) \/ FailUnpublished(j) \/ WebDies(j)

Work(w, j) == StartJob(w, j) \/ StartRefused(w, j) \/ FinishJob(w, j)

JobNext ==
    \/ \E j \in Jobs : HandOver(j)
    \/ \E w \in JobWorkers, j \in Jobs : Receive(w, j) \/ Work(w, j)
    \/ \E w \in JobWorkers : RunnerRaises(w) \/ WorkerDies(w)

\* A request that has begun goes on, a worker that has a job works on it, and
\* the export queue is drained in order.
JobFairness ==
    /\ \A j \in Jobs : /\ WF_jobVars(Rollback(j) \/ Commit(j))
                       /\ WF_jobVars(PublishJob(j) \/ PublishBreaks(j) \/ PublishRaises(j))
                       /\ WF_jobVars(FailUnpublished(j))
                       /\ SF_jobVars(\E w \in JobWorkers : Receive(w, j))
    /\ \A w \in JobWorkers, j \in Jobs : WF_jobVars(Work(w, j))

JobSpec == JobInit /\ [][JobNext]_jobVars

JobFairSpec == JobSpec /\ JobFairness

-----------------------------------------------------------------------------
(* Properties *)

JobTypeOK ==
    /\ row \in [Jobs -> {"absent"} \cup InProgressStates \cup Terminal]
    /\ request \in [Jobs -> {"new", "open", "committed", "refused", "done"}]
    /\ messages \in [Jobs -> Nat]
    /\ copies \in [Jobs -> Nat]
    /\ workers \in [JobWorkers -> {Free} \cup [job : Jobs, phase : {"received", "running"}]]
    /\ dropped \subseteq Jobs

\* Nobody is sent to a job that is not there: whatever is waiting in the
\* broker, or already taken by a worker, has its row committed, and a request
\* that was rolled back has left no message behind.
NoWorkerMissesItsJob ==
    \A j \in Jobs : (messages[j] > 0 \/ \E w \in JobWorkers : workers[w].job = j) => row[j] # "absent"

\* A message handed over again after the job ended, or a hand-over that was
\* reported refused but was not, never puts a finished job back in progress:
\* the page that stopped polling was right to.
FinishedNeverRestarts ==
    [][\A j \in Jobs : row[j] \in Terminal => row'[j] \in Terminal]_jobVars

\* Every job whose request is committed reaches an ending the reader can see,
\* however often the broker refuses or repeats itself and whatever becomes of
\* other jobs, unless a process that had it died, or handing it over or running
\* it failed in a way _publish or run_job does not name.
EveryJobEnds == \A j \in Jobs : row[j] = "queued" ~> (row[j] \in Terminal \/ j \in dropped)
=============================================================================
