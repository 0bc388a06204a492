--------------------------------- MODULE Jobs ---------------------------------
(* Batch and fast transcription jobs of pipeline/api.py: the bounded JobStore, *)
(* the worker pool that runs _run_job, the result files under outputs/, and    *)
(* the requests that touch both: submit, download, delete, cleanup.  The       *)
(* lifespan drains the pool at shutdown; a restart keeps only the files.       *)
(*                                                                             *)
(* submit runs on the event loop; workers, downloads, deletes and cleanups are *)
(* threads.  A step ends where another thread can see the difference: at a     *)
(* JobStore call, between the attribute writes of update(), and between the    *)
(* calls that touch the file system.                                           *)
EXTENDS Naturals, Sequences, FiniteSets

CONSTANTS Jobs,
          NoJob,
          Workers,    \* worker_count of the pool
          MaxJobs,    \* _max_jobs of the store
          Downloads,  \* GET download requests in flight at a time
          Deletes,    \* DELETE and cleanup requests in flight at a time
          MaxRestarts \* bound: times the process dies

ASSUME NoJobAssumption == NoJob \notin Jobs
ASSUME LimitAssumption ==
  Workers \in Nat \ {0} /\ MaxJobs \in Nat \ {0} /\ MaxRestarts \in Nat

VARIABLES
  order,    \* _order, and with it the keys of _jobs
  status,   \* the status and the result of a job's JobRecord, in the store or
  result,   \* only still referred to
  lock,     \* the job whose update() holds the store's lock
  made,     \* jobs in the order they were submitted, since the start
  half,     \* the job _enqueue has stored and not yet given to the pool
  queue,    \* the pool's work queue
  fut,      \* the job's future
  worker,   \* how far _run_job is
  file,     \* what outputs/<job>.json holds
  writers,  \* who writes to that file (and not to one unlinked since)
  down,     \* how far a download is
  asked,    \* the job it is for
  answer,   \* what it answered
  todo,     \* the jobs a delete or cleanup has still to remove
  stage,    \* how far it is with the first of them
  deleted,  \* jobs whose removal a request has finished
  phase,    \* up, draining, cutting, closed
  restarts

store == <<order, status, result, lock>>
pool == <<half, queue, fut, worker>>
files == <<file, writers>>
downVars == <<down, asked, answer>>
delVars == <<todo, stage, deleted>>
process == <<phase, restarts>>
vars == <<store, made, pool, files, downVars, delVars, process>>

Elements(seq) == {seq[i] : i \in 1..Len(seq)}
Without(seq, j) ==  \* ids are in a list once
  LET at == CHOOSE i \in 1..Len(seq) : seq[i] = j IN
  IF j \in Elements(seq)
  THEN [i \in 1..Len(seq) - 1 |-> seq[IF i < at THEN i ELSE i + 1]] ELSE seq
Kept == Elements(order)
Running == {j \in Jobs : fut[j] = "running"}

Init ==
  /\ order = <<>> /\ lock = NoJob /\ made = <<>> /\ half = NoJob /\ queue = <<>>
  /\ status = [j \in Jobs |-> "none"]
  /\ result = [j \in Jobs |-> FALSE]
  /\ fut = [j \in Jobs |-> "none"]
  /\ worker = [j \in Jobs |-> "none"]
  /\ file = [j \in Jobs |-> "none"]
  /\ writers = [j \in Jobs |-> {}]
  /\ down = [x \in Downloads |-> "idle"]
  /\ asked = [x \in Downloads |-> NoJob]
  /\ answer = [x \in Downloads |-> "nothing"]
  /\ todo = [d \in Deletes |-> <<>>]
  /\ stage = [d \in Deletes |-> "idle"]
  /\ deleted = {} /\ phase = "up" /\ restarts = 0
-----------------------------------------------------------------------------
(* Faulty variants of the steps below, to show that the properties can fail.  *)

\* submit() that evicts as soon as the store is full.
NewestFewer(seq) == IF Len(seq) >= MaxJobs THEN Tail(seq) ELSE seq

\* A job whose exception nobody catches.
RaisesOut(j) ==
  /\ worker[j] = "work"
  /\ worker' = [worker EXCEPT ![j] = "end"]
  /\ UNCHANGED <<store, made, half, queue, fut, files, downVars, delVars, process>>

\* download that does not ask the store whether the job still exists.
AskBlind(x, j) ==
  /\ phase = "up" /\ lock = NoJob
  /\ down[x] = "idle"
  /\ down' = [down EXCEPT ![x] = "look"]
  /\ asked' = [asked EXCEPT ![x] = j]
  /\ UNCHANGED <<answer, files, store, made, pool, delVars, process>>

\* executor.shutdown() that leaves the queue to the workers.
ShutdownLeaves ==
  /\ phase = "cutting"
  /\ phase' = "closed"
  /\ UNCHANGED <<queue, fut, store, made, half, worker, files, downVars, delVars, restarts>>
-----------------------------------------------------------------------------
(* Submission: JobStore.submit, then the pool.                                *)

Newest(seq) == IF Len(seq) > MaxJobs THEN Tail(seq) ELSE seq

Submit(j) ==
  /\ phase = "up" /\ lock = NoJob /\ half = NoJob
  /\ status[j] = "none"
  /\ status' = [status EXCEPT ![j] = "queued"]
  /\ order' = Newest(Append(order, j))
  /\ made' = Append(made, j)
  /\ half' = j
  /\ UNCHANGED <<result, lock, queue, fut, worker, files, downVars, delVars, process>>

Enqueue ==
  /\ half # NoJob
  /\ fut' = [fut EXCEPT ![half] = "pending"]
  /\ queue' = Append(queue, half)
  /\ half' = NoJob
  /\ UNCHANGED <<store, made, worker, files, downVars, delVars, process>>
-----------------------------------------------------------------------------
(* _run_job, in a worker of the pool.                                         *)

OffWorker == UNCHANGED <<made, half, queue, downVars, delVars, process>>
At(j, from, to) == worker[j] = from /\ worker' = [worker EXCEPT ![j] = to]

\* A free worker takes the job at the head of the queue.
Start ==
  /\ queue # <<>> /\ Cardinality(Running) < Workers
  /\ LET j == Head(queue) IN
     /\ fut' = [fut EXCEPT ![j] = "running"]
     /\ At(j, "none", "begin")
  /\ queue' = Tail(queue)
  /\ UNCHANGED <<store, made, half, files, downVars, delVars, process>>

\* update() of a job that is not in the store does nothing.
SetStatus(j, value) ==
  /\ lock = NoJob
  /\ status' = IF j \in Kept THEN [status EXCEPT ![j] = value] ELSE status

MarkRunning(j) ==
  /\ At(j, "begin", "work")
  /\ SetStatus(j, "running")
  /\ UNCHANGED <<order, result, lock, fut, files>> /\ OffWorker

\* transcribe_file returns or raises.
Returns(j) == At(j, "work", "store") /\ UNCHANGED <<store, fut, files>> /\ OffWorker
Raises(j) == At(j, "work", "except") /\ UNCHANGED <<store, fut, files>> /\ OffWorker

\* update(status="done", ..., result=...) sets one attribute after another,
\* under the store's lock; whoever already has the record reads it without.
SetDone(j) ==
  /\ At(j, "store", "result")
  /\ SetStatus(j, "done")
  /\ lock' = j
  /\ UNCHANGED <<order, result, fut, files>> /\ OffWorker

SetResult(j) ==
  /\ At(j, "result", "write")
  /\ result' = IF j \in Kept THEN [result EXCEPT ![j] = TRUE] ELSE result
  /\ lock' = NoJob
  /\ UNCHANGED <<order, status, fut, files>> /\ OffWorker

\* write_text: open truncates or creates the file, close completes it unless
\* it was unlinked in between.
OpenFile(j, who) ==
  /\ file' = [file EXCEPT ![j] = "partial"]
  /\ writers' = [writers EXCEPT ![j] = @ \cup {who}]
CloseFile(j, who) ==
  /\ file' = IF who \in writers[j] THEN [file EXCEPT ![j] = "whole"] ELSE file
  /\ writers' = [writers EXCEPT ![j] = @ \ {who}]
Unlink(j) ==
  /\ file' = [file EXCEPT ![j] = "none"]
  /\ writers' = [writers EXCEPT ![j] = {}]

WriteOpens(j) ==
  /\ At(j, "write", "writing")
  /\ OpenFile(j, j)
  /\ UNCHANGED <<store, fut>> /\ OffWorker

WriteCloses(j) ==
  /\ At(j, "writing", "end")
  /\ CloseFile(j, j)
  /\ UNCHANGED <<store, fut>> /\ OffWorker

\* An OSError, before or after the file is there, is logged; another error (a
\* character that cannot be encoded) goes to the job's own handler.
WriteFails(j) ==
  /\ \/ At(j, "write", "end") \/ At(j, "writing", "end") \/ At(j, "writing", "except")
  /\ writers' = [writers EXCEPT ![j] = @ \ {j}]
  /\ UNCHANGED <<store, fut, file>> /\ OffWorker

MarkFailed(j) ==
  /\ At(j, "except", "end")
  /\ SetStatus(j, "failed")
  /\ UNCHANGED <<order, result, lock, fut, files>> /\ OffWorker

End(j) ==
  /\ worker[j] = "end" /\ fut[j] = "running"
  /\ fut' = [fut EXCEPT ![j] = "done"]
  /\ UNCHANGED <<store, worker, files>> /\ OffWorker

RunJob(j) ==
  \/ MarkRunning(j) \/ Returns(j) \/ Raises(j) \/ SetDone(j) \/ SetResult(j)
  \/ WriteOpens(j) \/ WriteCloses(j) \/ WriteFails(j) \/ MarkFailed(j) \/ End(j)
-----------------------------------------------------------------------------
(* GET /api/jobs/{id}/download.                                               *)

OffDownload == UNCHANGED <<store, made, pool, delVars, process>>
Answers(x, text) ==
  /\ answer' = [answer EXCEPT ![x] = text]
  /\ down' = [down EXCEPT ![x] = "idle"]
  /\ asked' = [asked EXCEPT ![x] = NoJob]
Moves(x, from, to) == down[x] = from /\ down' = [down EXCEPT ![x] = to]

\* jobs.get(); a request for a job that is not there answers 404.
Ask(x, j) ==
  /\ phase = "up" /\ lock = NoJob
  /\ Moves(x, "idle", "look")
  /\ asked' = [asked EXCEPT ![x] = j]
  /\ j \in Kept
  /\ UNCHANGED <<answer, files>> /\ OffDownload

Ready(j) == status[j] = "done" /\ result[j]

NotReady(x) ==
  /\ down[x] = "look"
  /\ ~Ready(asked[x])
  /\ Answers(x, "409")
  /\ UNCHANGED files /\ OffDownload

LookAtFile(x) ==
  /\ down[x] = "look"
  /\ Ready(asked[x])
  /\ Moves(x, "look", IF file[asked[x]] = "none" THEN "backfill" ELSE "send")
  /\ UNCHANGED <<asked, answer, files>> /\ OffDownload

BackfillOpens(x) ==
  /\ Moves(x, "backfill", "filling")
  /\ OpenFile(asked[x], x)
  /\ UNCHANGED <<asked, answer>> /\ OffDownload

BackfillCloses(x) ==
  /\ Moves(x, "filling", "send")
  /\ CloseFile(asked[x], x)
  /\ UNCHANGED <<asked, answer>> /\ OffDownload

\* FileResponse sends what the file holds by then, or finds none.
Send(x) ==
  /\ down[x] = "send"
  /\ Answers(x, file[asked[x]])
  /\ UNCHANGED files /\ OffDownload

Download(x) ==
  \/ \E j \in Jobs : Ask(x, j)
  \/ NotReady(x) \/ LookAtFile(x) \/ BackfillOpens(x) \/ BackfillCloses(x) \/ Send(x)
-----------------------------------------------------------------------------
(* DELETE /api/jobs/{id}, and POST /api/maintenance/cleanup.                  *)

OffDelete == UNCHANGED <<status, result, lock, made, pool, downVars, process>>

\* delete_job gets the record; cleanup with scope jobs lists them, newest first.
Begin(d, jobs) ==
  /\ phase = "up" /\ lock = NoJob
  /\ stage[d] = "idle" /\ jobs # <<>>
  /\ todo' = [todo EXCEPT ![d] = jobs]
  /\ stage' = [stage EXCEPT ![d] = "drop"]
  /\ UNCHANGED <<order, deleted, files>> /\ OffDelete
DeleteJob(d) == \E j \in Kept : Begin(d, <<j>>)
CleanJobs(d) == Begin(d, [i \in 1..Len(order) |-> order[Len(order) + 1 - i]])

Drop(d) ==
  /\ stage[d] = "drop" /\ lock = NoJob
  /\ order' = Without(order, Head(todo[d]))
  /\ stage' = [stage EXCEPT ![d] = "unlink"]
  /\ UNCHANGED <<todo, deleted, files>> /\ OffDelete

Remove(d) ==
  /\ stage[d] = "unlink"
  /\ Unlink(Head(todo[d]))
  /\ deleted' = deleted \cup {Head(todo[d])}
  /\ todo' = [todo EXCEPT ![d] = Tail(@)]
  /\ stage' = [stage EXCEPT ![d] = IF Len(todo[d]) > 1 THEN "drop" ELSE "idle"]
  /\ UNCHANGED order /\ OffDelete

\* Cleanup with scope outputs, one file of those old enough.
CleanOutput(j) ==
  /\ phase = "up" /\ file[j] # "none"
  /\ Unlink(j)
  /\ UNCHANGED <<order, delVars>> /\ OffDelete
-----------------------------------------------------------------------------
(* The lifespan's end, and the process's.                                     *)

OffLifespan == UNCHANGED <<store, made, half, worker, files, downVars, delVars, restarts>>
Quiet == /\ half = NoJob
         /\ \A x \in Downloads : down[x] = "idle"
         /\ \A d \in Deletes : stage[d] = "idle"

\* The server stops taking requests and finishes those it has.
Drain ==
  /\ phase = "up" /\ Quiet
  /\ phase' = "draining"
  /\ UNCHANGED <<queue, fut>> /\ OffLifespan

\* All futures are done, or SV_SHUTDOWN_TIMEOUT has passed.
Cut ==
  /\ phase = "draining"
  /\ phase' = "cutting"
  /\ UNCHANGED <<queue, fut>> /\ OffLifespan

\* fut.cancel() takes a future that no worker has started out of the queue.
Cancel(j) ==
  /\ phase = "cutting" /\ fut[j] = "pending"
  /\ fut' = [fut EXCEPT ![j] = "cancelled"]
  /\ queue' = Without(queue, j)
  /\ UNCHANGED phase /\ OffLifespan

\* executor.shutdown(cancel_futures=True) cancels what is left in the queue.
Shutdown ==
  /\ phase = "cutting"
  /\ fut' = [j \in Jobs |-> IF fut[j] = "pending" THEN "cancelled" ELSE fut[j]]
  /\ queue' = <<>>
  /\ phase' = "closed"
  /\ OffLifespan

\* The process dies, after the lifespan or at any time, and starts again with
\* the files it left.  Job ids are never reused.
Restart ==
  /\ restarts < MaxRestarts
  /\ restarts' = restarts + 1
  /\ phase' = "up"
  /\ order' = <<>> /\ lock' = NoJob /\ made' = <<>> /\ half' = NoJob /\ queue' = <<>>
  /\ status' = [j \in Jobs |-> IF status[j] = "none" THEN "none" ELSE "lost"]
  /\ result' = [j \in Jobs |-> FALSE]
  /\ fut' = [j \in Jobs |-> "none"]
  /\ worker' = [j \in Jobs |-> "none"]
  /\ writers' = [j \in Jobs |-> {}]
  /\ down' = [x \in Downloads |-> "idle"]
  /\ asked' = [x \in Downloads |-> NoJob]
  /\ todo' = [d \in Deletes |-> <<>>]
  /\ stage' = [d \in Deletes |-> "idle"]
  /\ UNCHANGED <<file, answer, deleted>>

Lifespan == Drain \/ Cut \/ (\E j \in Jobs : Cancel(j)) \/ Shutdown

Next ==
  \/ \E j \in Jobs : Submit(j) \/ RunJob(j) \/ CleanOutput(j)
  \/ Enqueue \/ Start
  \/ \E x \in Downloads : Download(x)
  \/ \E d \in Deletes : DeleteJob(d) \/ CleanJobs(d) \/ Drop(d) \/ Remove(d)
  \/ Lifespan \/ Restart

\* The pool runs what it is given and _run_job goes on (transcribe_file is
\* assumed to return or raise); the handler of a submit finishes.
Fairness ==
  /\ WF_vars(Enqueue) /\ WF_vars(Start)
  /\ \A j \in Jobs : WF_vars(RunJob(j))

Safety == Init /\ [][Next]_vars
Spec == Safety /\ Fairness
-----------------------------------------------------------------------------
TypeOK ==
  /\ Kept \subseteq Elements(made) /\ Len(order) <= MaxJobs
  /\ \A i, k \in 1..Len(order) : order[i] = order[k] => i = k
  /\ status \in [Jobs -> {"none", "queued", "running", "done", "failed", "lost"}]
  /\ result \in [Jobs -> BOOLEAN]
  /\ {lock, half} \subseteq Jobs \cup {NoJob}
  /\ fut \in [Jobs -> {"none", "pending", "running", "done", "cancelled"}]
  /\ Elements(queue) = {j \in Jobs : fut[j] = "pending"}
  /\ Cardinality(Running) <= Workers
  /\ worker \in [Jobs -> {"none", "begin", "work", "store", "result", "write",
                          "writing", "except", "end"}]
  /\ file \in [Jobs -> {"none", "partial", "whole"}]
  /\ writers \in [Jobs -> SUBSET (Jobs \cup Downloads)]
  /\ down \in [Downloads -> {"idle", "look", "backfill", "filling", "send"}]
  /\ asked \in [Downloads -> Jobs \cup {NoJob}]
  /\ answer \in [Downloads -> {"nothing", "409", "none", "partial", "whole"}]
  /\ stage \in [Deletes -> {"idle", "drop", "unlink"}]
  /\ deleted \subseteq Jobs
  /\ phase \in {"up", "draining", "cutting", "closed"} /\ restarts <= MaxRestarts

\* The jobs that a request has taken out of the store.
Dropped == deleted \cup {Head(todo[d]) : d \in {e \in Deletes : stage[e] = "unlink"}}

\* The store forgets a job only on request or when MaxJobs younger ones were
\* submitted: deletions between the submissions make room, they never make it
\* evict early.
EvictsOldest ==
  /\ TypeOK
  /\ \A i \in 1..Len(made) :
       made[i] \in Kept \cup Dropped \/ Len(made) - i >= MaxJobs

\* Nobody is left who could write the job's file.
Over(j) ==
  /\ half # j /\ fut[j] \notin {"pending", "running"}
  /\ \A x \in Downloads : asked[x] # j
Gone(j) == j \in deleted /\ Over(j) /\ file[j] = "none"

\* A deleted job whose file is gone stays so once its worker and the downloads
\* that were in flight have ended: no later request brings the file back.
StaysGone == [][\A j \in Jobs : Gone(j) => Gone(j)']_vars

\* A job the store keeps comes to done or failed, whatever transcribe_file does
\* and whichever requests overlap, unless the shutdown cancels it unstarted.
JobSettles ==
  \A j \in Jobs :
    j \in Kept ~> j \notin Kept \/ status[j] \in {"done", "failed"} \/ fut[j] = "cancelled"

\* After the shutdown no worker finds a job to begin, though workers were taking
\* jobs from the queue while their futures were being cancelled.
NoneBeginsClosed ==
  [][phase = "closed" /\ phase' = "closed" => \A j \in Jobs : worker[j] = "none" => worker'[j] = "none"]_vars

\* download_job: "Stream the persisted result JSON. Available once job is
\* `done`." (pipeline/api.py:695).  _run_job says done before it writes the
\* file, and a download finds the file as soon as it is opened: the code does not
\* have this invariant, and no run asks for it.
ServedWhole == \A x \in Downloads : answer[x] # "partial"
=============================================================================
