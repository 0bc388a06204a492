------------------------------ MODULE AzureBatch ------------------------------
(* One transcription over Azure's REST interface: retrying_request of         *)
(* stt/_retry.py under transcribe_batch of stt/azure_batch.py (submit, poll   *)
(* until done or late, list the files, download each, merge) or under         *)
(* transcribe_fast of stt/azure_fast.py (one upload, one answer).             *)
(*                                                                            *)
(* The service may have done what a request asks when its answer is lost, and *)
(* it may do it later, when the client has long retried it or returned.       *)
(* Time passes in ticks while a request is under way and in the sleeps; left  *)
(* is the time to the deadline of wait().                                     *)
EXTENDS Ranked, SequencesExt

CONSTANTS
  Retries,      \* retries of retrying_request
  Base, Cap,    \* backoff_base, backoff_cap
  RetryAfters,  \* what a Retry-After header may ask for
  PollInterval, PollMax, Timeout,  \* the poll settings of wait()
  ReqMax,       \* bound: ticks a request may last
  Modes,        \* a subset of {"batch", "fast"}
  Outputs,      \* what the service can make of an audio: sequences of files
  Blank         \* the text of a phrase without an nBest

ASSUME RetryAssumption ==
  /\ Retries \in Nat /\ Base \in Nat \ {0} /\ Cap \in Nat \ {0}
  /\ RetryAfters \subseteq Nat
ASSUME PollAssumption ==
  /\ PollInterval \in Nat \ {0} /\ PollMax \in Nat /\ PollInterval <= PollMax
  /\ Timeout \in Nat /\ ReqMax \in Nat
ASSUME ModesAssumption == Modes \subseteq {"batch", "fast"}

\* A phrase, by its offset, and a file of the service, by what it lists.
Phrase == [start : Nat, text : STRING]
OutputFile == [kind : STRING, phrases : Seq(Phrase)]
ASSUME OutputsAssumption == Outputs \subseteq Seq(OutputFile) \ {<<>>}

VARIABLES
  doing,    \* whose request it is, or how the call has ended
  step,     \* how far retrying_request, or the sleep of wait(), is
  attempt,  \* retries so far
  timer,    \* ticks of the request, or ticks still to sleep
  left,     \* deadline - time.time(), in wait()
  interval, \* current_interval
  status,   \* the status the request under way was answered with
  made,     \* the transcriptions the service has made, in order
  owed,     \* submissions given up that the service may still carry out
  uri,      \* which of them the submission has made that was served last
  ready,    \* the time left when that one succeeded
  todo,     \* the files still to download
  fetched,  \* the files downloaded
  result,   \* the utterances returned
  error     \* why the call has raised

service == <<made, owed, uri>>
vars == <<doing, step, attempt, timer, left, interval, status, service,
          ready, todo, fetched, result, error>>
clock == <<left, interval, ready>>
files == <<todo, fetched, result>>

\* The most that one request can last, with all its retries; and a time later
\* than every bound below, where the clock stops.
Budget == (Retries + 1) * ReqMax + Retries * Cap
Never == -(PollMax + Budget) - 1

Least(a, b) == IF a < b THEN a ELSE b
Under(cap, S) == {Least(x, cap) : x \in S}
Raise(why) == doing' = "raised" /\ step' = "over" /\ error' = why

Init ==
  /\ \/ doing = "submit" /\ "batch" \in Modes
     \/ doing = "fast" /\ "fast" \in Modes
  /\ step = "call" /\ attempt = 0 /\ timer = 0
  /\ left = Timeout /\ interval = PollInterval
  /\ status = "Running" /\ made = <<>> /\ owed = 0 /\ uri = 0 /\ ready = Never
  /\ todo = <<>> /\ fetched = <<>> /\ result = <<>> /\ error = "none"
-----------------------------------------------------------------------------
(* Time and the service.                                                      *)

UnderWay == step \in {"sent", "served"}
Asleep == step \in {"backoff", "interval"}

Tick ==
  /\ \/ UnderWay /\ timer < ReqMax /\ timer' = timer + 1
     \/ Asleep /\ timer > 0 /\ timer' = timer - 1
  /\ left' = IF doing = "poll" /\ left > Never THEN left - 1 ELSE left
  /\ UNCHANGED <<doing, step, attempt, interval, status, service, ready, files, error>>

Submits == doing \in {"submit", "fast"}
Makes == \E f \in Outputs : made' = Append(made, [status |-> "Running", files |-> f])

\* The service does what the request asks; the answer is not there yet.
Serve ==
  /\ step = "sent" /\ step' = "served"
  /\ IF Submits THEN Makes /\ uri' = Len(made) + 1 ELSE UNCHANGED <<made, uri>>
  /\ status' = IF doing = "poll" THEN made[uri].status ELSE status
  /\ UNCHANGED <<doing, attempt, timer, clock, owed, files, error>>

\* It does what a submission asks that the client has given up: whenever it
\* comes to it, if ever.
ServeLate ==
  /\ owed > 0 /\ owed' = owed - 1
  /\ Makes
  /\ UNCHANGED <<doing, step, attempt, timer, clock, status, uri, files, error>>

\* A transcription ends in the service.  What does once the call has ended is
\* of no interest.
Finish ==
  /\ step # "over"
  /\ \E i \in 1..Len(made), s \in {"Succeeded", "Failed"} :
       /\ made[i].status = "Running"
       /\ made' = [made EXCEPT ![i].status = s]
       /\ ready' = IF i = uri /\ s = "Succeeded" THEN left ELSE ready
  /\ UNCHANGED <<doing, step, attempt, timer, left, interval, status, owed, uri, files, error>>
-----------------------------------------------------------------------------
(* retrying_request: what becomes of an attempt.                              *)

Send ==
  /\ step = "call" /\ step' = "sent" /\ timer' = 0
  /\ UNCHANGED <<doing, attempt, clock, status, service, files, error>>

\* _compute_delay(), and the sleep before the next attempt.
Delays == {d \in 0..Cap : \E jitter \in 0..Base : d = Least(Base * 2 ^ attempt + jitter, Cap)}
RetryOnceMore(delays) ==  \* as Retry, with <= for <
  attempt <= Retries /\ step' = "backoff" /\ timer' \in delays /\ UNCHANGED <<doing, error>>
Retry(delays) ==
  /\ attempt < Retries
  /\ step' = "backoff" /\ timer' \in delays
  /\ UNCHANGED <<doing, error>>

\* The client is done with a request that the service may not have come to: what
\* that gateway or connection still holds is not called back.
GivesUp ==
  /\ UnderWay
  /\ owed' = IF step = "sent" /\ Submits THEN owed + 1 ELSE owed
  /\ UNCHANGED <<attempt, clock, status, made, uri, files>>

\* requests raises ConnectionError or Timeout, before or after the service has
\* done its part.
Lost ==
  /\ GivesUp
  /\ \/ Retry(Delays)
     \/ attempt = Retries /\ Raise("retries") /\ timer' = timer

\* A status of DEFAULT_RETRIABLE: Retry-After, up to the cap, or a delay.  The
\* last attempt's response is returned, and raise_for_status raises.
DelaysAsked == Under(Cap, RetryAfters) \cup Delays
Throttled ==
  /\ GivesUp
  /\ \/ Retry(DelaysAsked)
     \/ attempt = Retries /\ Raise("http") /\ timer' = timer

\* Any other error status, or an answer that cannot be read.
Refused == GivesUp /\ Raise("http") /\ timer' = timer

\* The sleep is over: the next attempt, or the next poll.
Wake ==
  /\ Asleep /\ timer = 0
  /\ step' = "call"
  /\ attempt' = IF step = "backoff" THEN attempt + 1 ELSE 0
  /\ UNCHANGED <<doing, timer, clock, status, service, files, error>>
-----------------------------------------------------------------------------
(* The answers that are OK.                                                   *)

Answered(what) == doing = what /\ step = "served"
Turn(to) == doing' = to /\ step' = "call" /\ attempt' = 0

\* submit() returns the address of what the answered request has made; wait()
\* sets its deadline.
Submitted ==
  /\ Answered("submit") /\ Turn("poll")
  /\ ready' = IF made[uri].status = "Succeeded" THEN left ELSE Never
  /\ UNCHANGED <<timer, left, interval, status, service, files, error>>

\* wait(): the status first, the deadline after it, then the sleep.
Succeeded ==
  /\ Answered("poll") /\ status = "Succeeded"
  /\ Turn("files")
  /\ left' = Timeout /\ ready' = Never
  /\ UNCHANGED <<timer, interval, status, service, files, error>>

Failed ==
  /\ Answered("poll") /\ status = "Failed"
  /\ Raise("batch failed")
  /\ UNCHANGED <<attempt, timer, clock, status, service, files>>

LateFirst ==  \* as Late, before the status is looked at
  /\ Answered("poll") /\ left < 0 /\ Raise("timeout")
  /\ UNCHANGED <<attempt, timer, clock, status, service, files>>
Late ==
  /\ Answered("poll") /\ status = "Running" /\ left < 0
  /\ Raise("timeout")
  /\ UNCHANGED <<attempt, timer, clock, status, service, files>>

Longer == Least((3 * interval) \div 2, PollMax)
PendingForEver ==  \* as Pending, without the deadline
  /\ Answered("poll") /\ status = "Running"
  /\ step' = "interval" /\ timer' = interval /\ interval' = Longer
  /\ UNCHANGED <<doing, attempt, left, status, service, ready, files, error>>
Pending ==
  /\ Answered("poll") /\ status = "Running" /\ left >= 0
  /\ step' = "interval" /\ timer' = interval
  /\ interval' = Longer
  /\ UNCHANGED <<doing, attempt, left, status, service, ready, files, error>>

\* _merge_files(): the phrases that say something, by their start; those that
\* start together stay in the order of the files.
Spoken(f) == Picked(f.phrases, {i \in DOMAIN f.phrases : f.phrases[i].text # Blank})
MergedAsListed(fs) ==  \* as Merged, not sorted
  FlattenSeq([i \in 1..Len(fs) |-> Spoken(fs[i])])
Merged(fs) ==
  LET all == FlattenSeq([i \in 1..Len(fs) |-> Spoken(fs[i])]) IN
  SortedBy([k \in DOMAIN all |-> all[k].start], all)

\* fetch_results(): the Transcription files, one download after the other.
TranscriptionFiles(fs) == Picked(fs, {i \in DOMAIN fs : fs[i].kind = "Transcription"})
Download(rest, got) ==
  /\ todo' = rest /\ fetched' = got
  /\ IF rest # <<>> THEN Turn("download") /\ UNCHANGED <<result, error>>
     ELSE IF got = <<>> THEN Raise("no files") /\ UNCHANGED <<result, attempt>>
     ELSE doing' = "returned" /\ step' = "over" /\ result' = Merged(got)
          /\ UNCHANGED <<attempt, error>>
  /\ UNCHANGED <<timer, clock, status, service>>

Listed ==
  /\ Answered("files")
  /\ Download(TranscriptionFiles(made[uri].files), <<>>)

Downloaded ==
  /\ Answered("download")
  /\ Download(Tail(todo), Append(fetched, Head(todo)))

\* transcribe_fast(): the phrases of the one answer as they come.
Transcribed ==
  /\ Answered("fast")
  /\ doing' = "returned" /\ step' = "over"
  /\ result' = made[uri].files[1].phrases
  /\ UNCHANGED <<attempt, timer, clock, status, service, todo, fetched, error>>

Attempt == Send \/ Lost \/ Throttled \/ Refused \/ Wake
Answer == Submitted \/ Succeeded \/ Failed \/ Late \/ Pending \/ Listed
          \/ Downloaded \/ Transcribed
Next == Tick \/ Serve \/ ServeLate \/ Finish \/ Attempt \/ Answer

\* The call goes on, each request is answered or given up, and time passes.
\* The service need never finish a transcription, nor carry out what was given up.
Fairness == WF_vars(Tick \/ Serve \/ Attempt \/ Answer)
Spec == Init /\ [][Next]_vars /\ Fairness
-----------------------------------------------------------------------------
Steps == {"call", "sent", "served", "backoff", "interval", "over"}

TypeOK ==
  /\ doing \in {"submit", "poll", "files", "download", "fast", "returned", "raised"}
  /\ step \in Steps
  /\ attempt \in 0..Retries
  /\ timer \in Nat
  /\ left \in Never..Timeout /\ ready \in Never..Timeout
  /\ interval \in PollInterval..PollMax
  /\ status \in {"Running", "Succeeded", "Failed"}
  /\ \A i \in 1..Len(made) :
       made[i].status \in {"Running", "Succeeded", "Failed"} /\ made[i].files \in Outputs
  /\ owed \in Nat /\ uri \in 0..Len(made)
  /\ \A seq \in {result} \cup {todo[i].phrases : i \in DOMAIN todo} :
       \A i \in DOMAIN seq : seq[i] \in Phrase
  /\ doing = "raised" <=> error # "none"

\* wait() keeps to its deadline.  It gives up no later than one sleep of
\* poll_interval_max and one request with all its retries behind it (the
\* deadline is looked at between two polls only), and never on a
\* transcription that was ready in time for a poll to hear of it.
DeadlineKept ==
  /\ doing = "poll" \/ error = "timeout" => left >= -(PollMax + Budget)
  /\ error = "timeout" => left < 0 /\ ready < ReqMax

\* The phrases of a sequence of files that say something, by file and place, and
\* which of them comes first.
PhraseAt(fs, p) == fs[p[1]].phrases[p[2]]
Said(fs) ==
  {p \in UNION {{i} \X DOMAIN fs[i].phrases : i \in DOMAIN fs} : PhraseAt(fs, p).text # Blank}
IsBefore(fs, p, q) ==
  \/ PhraseAt(fs, p).start < PhraseAt(fs, q).start
  \/ /\ PhraseAt(fs, p).start = PhraseAt(fs, q).start
     /\ p[1] < q[1] \/ (p[1] = q[1] /\ p[2] < q[2])
IsTranscript(r, fs) ==
  /\ Len(r) = Cardinality(Said(fs))
  /\ \A p \in Said(fs) :
       r[Cardinality({q \in Said(fs) : IsBefore(fs, q, p)}) + 1] = PhraseAt(fs, p)

\* What a call returns is all of one transcription, whatever was lost, throttled
\* and asked again on the way, and whatever submissions were carried out late:
\* every phrase of every Transcription file once, in the order of time.  A failed
\* download costs the call, never a part of the result.
ResultWhole ==
  /\ TypeOK
  /\ doing = "returned" =>
       LET fs == TranscriptionFiles(made[uri].files) IN
       IF fetched = <<>> THEN result = made[uri].files[1].phrases
       ELSE made[uri].status = "Succeeded" /\ fs # <<>> /\ IsTranscript(result, fs)

\* A submission that is given up leaves a transcription behind that nobody
\* fetches, made already or made later, when the call may long have ended.  The
\* retries bound how many there can be, and once a submission is answered, or the
\* call has raised, no further one is asked for.
Asked == Len(made) + owed
OrphansBounded == [][Asked' > Asked => Submits /\ Asked <= Retries]_vars

\* Every call returns or raises, however long the service takes.
CallEnds == <>(doing \in {"returned", "raised"})
=============================================================================
