# A TLA+ model of Speech-Voiceprint

Speech-Voiceprint transcribes speech with speaker labels: live, from a
microphone or a WAV file, over a FastAPI server that pushes records to
browsers, and in batch jobs. Voices are matched with a registry of speakers in
a database. The code is concurrent in four different ways (one event loop,
threads around it, a pool of workers, several processes on one database); this
directory models those parts and the sequential ones that compute with spans of
time, checks them with TLC and proves the most important of their properties
with TLAPS.

Paths and line numbers are those of the repository (`src/` here).

## 1. Inventory

| component | state | operations | talks to |
|---|---|---|---|
| audio queue, `_QueueAudioSource` (`pipeline/streaming_coordinator.py`) | queue, closed flag, lock | `push`, `close`, `chunks` | feeder, ingest handler, stream-stop, drain threads, the pipeline thread |
| live streams: `StreamingCoordinator`, `CoordinatorRegistry`, `stream_file`, `ws_ingest`, `stream_stop` (`pipeline/api.py`) | slot per session; started, finished, error of a coordinator; events scheduled on the loop | start, push, end, stop, register, release, `_run`, `_publish` | audio queue, `stream()`, session hub |
| session hub and `/ws/events` (`pipeline/session_hub.py`, `api.py`, `web/static/js/pages/live.js`) | history and subscribers per session, a viewer's rows | broadcast, subscribe, replay, rename, unsubscribe, drop | coordinators, browsers |
| job API (`pipeline/api.py`) | bounded job store, pool, futures, result files | submit, `_run_job`, download, delete, cleanup, shutdown | orchestrator, file system |
| speaker registry (`registry/*`) with its users: resolver, rename and forget commands, batch enrolment, registry page | tables speakers and voiceprints; centroids of a matcher; labels and verdicts of a resolver | create, add with trim, rename, delete, match, resolve | stream thread, event loop, worker threads, other processes |
| streaming pipeline `stream()` (`pipeline/streaming.py`, `stt/azure_realtime.py`) | rolling PCM buffer, windows, pending records, SDK event queue | producer, voiceprint thread, SDK callbacks, `events` | audio queue, resolver, Azure |
| stand-alone WebSocket sink (`pipeline/ws_server.py`, the command handler and `main` of `pipeline/streaming.py`) | history under a lock, subscribers, a loop in a thread of its own | start, `broadcast`, fan-out, handler with replay and commands, rewrite, stop | the command-line stream's threads, browsers |
| batch orchestrator and SDK entry (`pipeline/orchestrator.py`, `pipeline/__init__.py`) | none that outlives a run; temporary WAVs, the registry | transcribe, diarize, align, apply the registry, enrol with the second backend | Azure, providers, registry |
| aligner (`merger/aligner.py`), voice activity filter (`stt/vad_filter.py`), providers (`voiceprint/*`) | none | spans of speech, windows, merged segments, the owner of a word, the vote of an utterance | orchestrator, numerical models |
| Azure over REST: retries, batch and fast (`stt/_retry.py`, `stt/azure_batch.py`, `stt/azure_fast.py`) | attempts, deadline, poll interval, files downloaded; in the service, transcriptions | request, back off, submit, poll, list, download, merge | Azure |
| online clustering, configuration, logging, schema, the rest of the browser client, deployment | none that is shared | | |

What makes them correct, and what is hard about it:

* audio queue: nothing accepted before the close is lost, the consumer always
  ends, one sentinel. `push` tests the flag without the lock.
* live streams: one stream per session; what a pipeline says reaches the history
  whole and in order, its end once and behind the rest; a closed stream ends;
  the slot comes back. Checks and registrations are separated by awaits, joins
  time out after 60 or 120 s, `release` pops by name, and renames on a
  microphone's socket publish whether its stream runs or not.
* hub: a viewer that joins, while records are published, renamed and trimmed,
  misses nothing, gets nothing twice and ends up with the right labels.
* jobs: only the oldest job is evicted, every job settles, deleted files stay
  away, a shutdown begins nothing. Workers, requests and the lifespan run
  in different threads, and the files outlive the process.
* registry: a speaker keeps its newest voiceprints under concurrent trims, a
  voice is enrolled once per run, a label that a viewer sees leads to the right
  speaker. Several processes write, every matcher has a snapshot.

* sink: as the hub, with publishers in other threads and a stop in the middle.
* Azure: what a call returns is one whole transcription, in time; an answer may
  be lost after the service has done what was asked.
* offline run: a voice belongs to the same speaker in windows, segments, words,
  utterances and voiceprints, through merging, votes and the registry's renames;
  temporary files go whatever fails.

The list of hazards with their lines is `hazards` in `PROJECT.json`.

## 2. Modules and plan

| | module | what it is |
|---|---|---|
| 1 | `AudioChannel` | abstract closable channel: what the queue promises |
| | `AudioSource` | the queue, refines `AudioChannel` |
| | `AudioSourceProofs` | types, one sentinel, bounded stragglers, every step is the channel's |
| 2 | `StreamSessions` | coordinators, their registry, the three routes, the loop |
| | `StreamSessionsProofs` | types, slot ownership, microphone never beaten; what a pipeline says is in the history whole and in order, and its end frees the session |
| 3 | `SessionHub` | hub, `/ws/events`, the viewer's rows |
| | `SessionHubProofs` | a viewer that has joined gets every record once, and shows what the history says |
| 4 | `Jobs` | store, pool, files, requests, lifespan |
| | `JobsProofs` | eviction, deleted files, shutdown |
| 5 | `SpeakerRegistry` | stores, matcher, resolver, commands, batch, page |
| | `SpeakerRegistryProofs` | trims keep what a speaker needs, a voice is enrolled once, labels are of their voice |
| 6 | `StreamPipeline` | `stream()`: producer, voiceprint thread, SDK callbacks, drain timeout, votes, tentative and revised records |
| | `StreamPipelineProofs` | no audio is left unrecognized, what was said is published once and in order, a viewer's last news is the record |
| 7 | `WebSocketSink` | fan-out from other threads, replay, commands, stop |
| | `WebSocketSinkProofs` | nothing missed, nothing left behind by a stop |
| 8 | `AzureBatch` | requests with retries, the batch job and the fast call |
| 9 | `Ranked` | sorting and filtering as Python's lists do it |
| | `Spans` | the arithmetic of spans: filter, windows, merging, owners, votes |
| | `BatchPipeline` | an offline run that composes them with registry and second backend |
| | `BatchProofs` | of 8 and 9: deadline, orphans, a whole result; spans, segments, words, votes and voiceprints of an offline run |

`BatchPipeline` extends `Spans`, which extends `Ranked` as `AzureBatch` does;
`AudioSource` implements `AudioChannel`. What
one module takes as a step is another's subject: `StreamSessions` has
`stream()` as a thread that publishes and returns or raises, `StreamPipeline`
looks into it; `StreamPipeline` has any label for a window, `SpeakerRegistry`
says which; `BatchPipeline` has recognition answer or raise, `AzureBatch` says
how.

Planned: online clustering against a reference definition; an abstract session
transcript, implemented by `StreamSessions` for the events and by `SessionHub`
for the viewers.

An `...MC` module extends its module, names small sets of model values and the
symmetry, and nothing else. Operators called a *faulty variant* or commented
"as X, ..." are used by no specification: each is the body of a definition with
one plausible bug, kept to show which property catches it (`mutants` in
`PROJECT.json`).

### AudioSource

A step per lock acquisition, test, assignment and put. `pc` says where a thread
is in `push` or `close`; `received` is what `chunks()` has yielded. `PushCheck`
and `PushPut` are separate because line 51 tests `_closed` outside the lock.
Stragglers, chunks put behind the sentinel, are therefore possible; the module
says how many. `ImplementsChannel` hides them: an abstract `transit` is what is
before the sentinel, and an accepted chunk is one that is put before it.

### StreamSessions

Handlers run on the event loop: `loop` names the handler that is between two
awaits, and other handlers cannot step then; threads always can. `req` is the
place of a handler, `thread` that of `_run`, `owner` that of the feeder (file)
or of handler and drain thread (microphone). `calls` is what
`run_coroutine_threadsafe` has scheduled, in order, and `history` what the hub
keeps of each session. `stream()` is a thread that publishes up to `MaxEvents`
events and returns or raises. `_publish`'s wait of two seconds shows as the
pipeline going on before `Deliver`. The flag `strayed` remembers that a release
emptied the slot of a coordinator that had not finished.

A rename on the socket of a microphone is `Rename`, a `Revise` for each record
that has the label (any of the session's, since the label is any), and `Renamed`.
The handler has the loop all the while, so that the broadcasts it waits for come
later than its reply; other threads go on, and the stream may end or have ended.
A record of the history is known by the pipeline that said it, `of`, and its
`number`; `by` is the coordinator that published it.

### StreamPipeline

What `StreamSessions` takes for one thread: `prod`, `voice` and `main` are the
places of the producer thread, the voiceprint thread and `stream()` itself, and
`service` is the state of the SDK's session, whose callbacks run in a thread of
its own. Time is counted in chunks of one hop. A window is `Span` chunks, an
utterance the speech of one, so that it is overlapped by as many windows as in
the code with two seconds per window and 0.75 per hop, and alike by each; the
vote, its tie break, the threshold of 0.5 and the margin of 0.1 are exact. A
window has any label, or none when its embedding fails. `_stopped` is `service`
being `canceled` or `stopped`; `cut` is a history variable. Both joins in the
`finally` have a timeout, so `Joined` waits for nothing.

### SessionHub

Everything runs on one loop, so a step is what lies between two awaits: a
replay is one step per record, a broadcast gathers its sends in one step and
they are sent one at a time. A history holds references, so a rename changes
the records that replays have still to send; a message is a copy. `shown` is
the row of the live page (`ingest` in `live.js`). The records a rename has still
to publish are a set of which it takes the first: a history is in the order of
its records, so that is the order of the list in the code.

### Jobs

`update()` under the lock is a step per attribute, because readers do not take
the lock; a write to the result file is an open (which truncates) and a close.
`Restart` is a crash or the end of the process: files stay, records go.
`transcribe_file` returns or raises at any time.

### SpeakerRegistry

An embedding is the voice it belongs to. A step ends at a commit or query and at
an assignment to `_centroids`, `_resolved` or `_verdicts`, which the rename
command, on the event loop, shares with the pipeline thread. `step`, `on`,
`who`, `label` and `read` are the local variables of an actor: the stream, the
command, each batch job. The registry page is a pair of atomic edits. `result`
is what a match found, whose speaker the stream may itself have enrolled for
another cluster; the verdict is made from it, and a new speaker is in no
verdict. Every statement may fail, which ends its actor. Reads see what is
committed, which is so for SQLite.

### WebSocketSink

`broadcast` is two steps: the append to the history, under the lock, and the
call of `run_coroutine_threadsafe`, after it; `hand` is what a thread holds in
between. `calls` is what the loop was asked to do, in order, with `Stop` for the
`call_soon_threadsafe` of `stop()`. `Fanout` gathers the sends of one record,
which are made one by one. `handler` is the place of a connection's coroutine;
a command runs in a thread of its own (`asked`, `telling`) and its renames come
out as broadcasts. `CloseConnection` and `CloseLoop` are the end of
`serve()` and of the loop. What the interpreter does after `stop()` has waited
three seconds is left out.

### AzureBatch

`doing` is the request of the call (submit, poll, files, download, or fast) and
`step` where `retrying_request` is: called, sent, served but not answered yet,
in its backoff, or in the sleep of `wait()`. A request is lost before or after
the service has done it. Time is `timer` and `left`, the time to the deadline.
The delays are those of the code, its powers of two, jitter, cap and
`Retry-After` included. `made` is what the service has: several transcriptions,
when submissions were repeated. `owed` counts the submissions that the client
has given up and the service has not come to: it may at any later time, after
the retry's answer or the end of the call, or never (`ServeLate`). `uri` is the
transcription of the submission that was answered.

### Spans and BatchPipeline

`Spans` has the functions on whole ticks, `BatchPipeline` the run: every stage
that can fail does, `stage` says where it is. The speech of the audio is any set
of ticks, the clustering any partition of the windows it makes, a verdict any
speaker, a new one or none. Other processes delete speakers while the second
backend enrols; `bucket` is what is still to be enrolled, `IsNext` the order in
which the code does it. Temporary files are counted: `temp` of the diarization
under way, `spoilt` left behind since their writing failed, `stuck` since
`_cleanup_temp` was refused the removal, which it keeps to itself. The same
module lets `extract_speech_windows` run on any pattern of loud frames; nothing
in the repository calls it. Its names begin with `Run` where `AzureBatch` has
the short ones (`RunSpec`, `RunNext`), so that one module of proofs can extend
both.

`Ranked` defines `list.sort` and a filtering comprehension by the rank of an
element, the number of those before it. TLC evaluates that like any other
definition, and the provers can reason about it, which they cannot about
`SelectSeq` and `SortSeq`. Loops are `FoldLeft` over a named step (`See`, `Meet`,
`Adjacent`).

## 3. Runs

| run | bounds | shows |
|---|---|---|
| `audio_source` | two pushers that also close, one closer, two pushes each | `TypeOK`, `SingleSentinel`, `StragglersBounded`, `ClosedEnds`, refinement of the channel (`ImplementsChannel`) |
| `stream_safety` | two requests of any kind, two sessions, one stop, one event, one rename | `Exclusive` unless a release strayed, `MicClaimSucceeds`, `EndClosesTranscript`, `EndFreesSession` |
| `stream_live` | two requests, one session, one stop, no event but `stream_end`, a rename that finds no record | `ClosedStreamEnds`, `CrashReported`, `FileFreesSlot` |
| `stream_pipeline` | five chunks, two of them speech, three windows, three labels | `AllSaid` (published once and in order), `AllHeard`, `ToldOfEach`, `SourceEndEnds`, `CancelEnds` |
| `hub_viewer` | one viewer, a stream that renames, two utterances, two labels, three records, history of two cut to one | `OnceWithoutGap`, `ViewAgrees`, `Reaches` |
| `jobs` | two jobs, store of one, one worker, one download, one delete, one restart | `EvictsOldest`, `StaysGone`, `JobSettles`, `NoneBeginsClosed` |
| `registry` | a stream, a command, a batch job, two clusters, two speakers, one edit, limit of one voiceprint | `PrintsKept`, `OneEnrolmentPerVoice`, `LabelsOwnVoice` |
| `ws_sink` | one viewer who may rename, two labels, four records, history of two cut to one | `NothingMissed`, `StopFlushes`, `Ends` |
| `azure_batch` | two retries, requests of up to one tick, polls two to three ticks apart, a deadline of four, two outputs of the service | `DeadlineKept`, `ResultWhole`, `OrphansBounded`, `CallEnds` |
| `batch_pipeline` | eight ticks, windows of three with a hop of two, two clusters, two speakers, two transcripts, four results of pyannote; seventeen samples for the filter | `TempRemoved`, `TidySpans`, `SegmentsFaithful`, `WordsOwned`, `VoteHolds`, `SecondaryOwners` |

Each module has one type invariant; where a run has room for few properties it
is a conjunct of the first invariant named (`EndClosesTranscript`,
`AllSaid`, `OnceWithoutGap`, `EvictsOldest`, `PrintsKept`, `NothingMissed`,
`ResultWhole`, `TempRemoved`). Two more runs end in a violation, below.

Why the bounds are enough. A straggler needs one pusher and one closer; two
pushers and a closer that pushes nothing give every order of two closes and two
open pushes. Two requests suffice for two streams to meet on one slot; that a
third adds nothing is proved (below). Three windows with three labels
are the least that make a vote unsure (one third each); a second utterance,
with one window, gives an order to keep. The history of two
is trimmed while a replay is under way; viewers share nothing but it, and the
safety for any number of them is proved, for the hub and for the sink. Two jobs
in a store of one evict, with the delete before, between and after them; any
size of the store is proved. Two actors trim the same speaker at once
and with a limit of one the trim has always something to choose; two clusters
with the same voice make a second enrolment possible. Two retries are one more
than a submission needs to leave an orphan and go on; the deadline passes within
the second poll interval, before, in and after a request; any delays are proved.
Eight ticks hold three windows, a gap that is bridged and one that is not, and a
rest shorter than a window; seventeen samples are eight frames and an incomplete
one. Names, sessions and voices come in twos where two can be confused.
Symmetry, of requests, of speakers and of clusters, is used in safety runs only.

`CHECK_DEADLOCK FALSE`: all these systems may come to rest (no client is
obliged to do anything, and the bounds end the counters).

### Fairness

* `AudioSource`: threads inside `push` and `close` go on and the consumer gets
  what is there. Nobody has to close: `ClosedEnds` is conditional.
* `StreamSessions`: the loop runs what is ready, `_run` goes on once
  `stream()` has ended, and `stream()` ends once its audio has (its drain has a
  timeout). A rename comes to its end. Joins return or time out. A WAV comes to
  its end. No client has to leave or to rename.
* `StreamPipeline`: threads go on and timeouts pass. The source need neither
  yield nor end, windows may take for ever, and the service owes nothing but the
  end of the session once `stop_transcribing_async` was called: neither
  results nor, after a cancellation, a `session_stopped`.
* `SessionHub`: the loop comes to each scheduled send and each replay.
* `Jobs`: the pool takes what is queued and `_run_job` goes on, where
  `transcribe_file` is assumed to return or to raise; its HTTP calls have
  timeouts, its models do not, so this is an assumption on the environment.
* `WebSocketSink`: the loop does what it was asked to, threads that broadcast or
  run a command go on. Nobody has to publish, join, rename, leave or stop.
* `AzureBatch`: time passes, requests are served, answered or lost, and the call
  goes on. The service need never finish a transcription, nor carry out a submission
  that was given up: the deadline ends the call.
* `SpeakerRegistry` and `BatchPipeline` state safety only.

### Disagreements with comments, docs and tests

Runs that end in a violation, each with its counterexample:

* `stream_two_at_once`: `release` pops the session's slot whoever holds it; a
  late owner of an old stream frees the slot of the running one and a third
  request starts a second stream.
* `registry_rename`: a label whose cluster was enrolled, by the stream itself or
  by a first rename, cannot be renamed again (one that was matched with a
  speaker, of this stream too, can). `_verdicts` has no id for it, the name is
  no id, and `ValueError` ends the microphone's handler, after the label has
  been rebound.

Five more are written down as properties that the code does not have. No run
asks for them; name one in the configuration of its module to see TLC's
counterexample:

* `EndIsLastWord` (`StreamSafety.cfg`): the comment at
  `tests/test_streaming_coordinator.py:136` calls `stream_end` the final event,
  and the one at `streaming_coordinator.py:246` has the dashboard hide its live
  badge on it. A microphone whose recognition was cancelled may still rename:
  the records follow the end. So they do when a rename that began before has its
  broadcasts run after it.
* `RenameOnlyRepeats` (`HubViewer.cfg`, as a property): a rename publishes
  superseded records again, as the newest, and an utterance shows an old label.
* `ServedWhole` (`Jobs.cfg`): a job is `done` before its result file is written;
  a download serves the part that is there.
* `ReplayedFirst` (`WebSocketSink.cfg`, as a property): a fan-out reaches a
  client between the records of its replay, contrary to `ws_server.py:10`, also
  one of a record that the replay has yet to bring. A late joiner can
  therefore get a record twice, which `test_ws_server.py:93` does not expect.
* `MixedIsMixed` (`BatchPipeline.cfg`): `mixed` is for utterances whose dominant
  speaker is below the threshold (`aligner.py:99`), and stays when the registry
  finds that its labels are one speaker.

Others were met while modelling:

* The send of `ingest_ready` is outside the `try` (`api.py:946`): a client that is
  gone by then leaves a stream that nothing ends (`Greet` to `failed`).
* What raises between `transcriber.start()` and the `try` of `stream()`, the
  opening of the registry for one, leaves the SDK session and the voiceprint
  thread running (`SetupFails`).
* `end_input` returns True after a cancellation too, and promises that "the SDK
  has emitted every utterance" when it has timed out
  (`azure_realtime.py:100`).
* After a cancellation `stream()` returns without an error while its producer
  goes on reading the source.
* A record that is `final` by the windows done so far is not looked at again,
  though later windows may outvote it; only unsure ones are.
* `_finished` is set before `stream_end` is published (`streaming_coordinator.py:245`),
  so the old end can arrive while a successor runs.
* `stream_file` answers 500, not 409, when another stream takes the slot during
  the upload (`api.py:518`).
* Live records reach a joining viewer between the records of its replay
  (`api.py:863`), contrary to `ws_server.py:11`.
* `drop_session` can leave an empty subscriber set that `list_sessions` lists.
* The sink makes and schedules a message outside the lock, so that one with an
  older label can follow a rename's; `rename_ok` may overtake the last of the
  updates.
* `live.js` sends `{old, new}` with a rename, the stand-alone stream's handler
  wants `speaker` and `display_name`; and the page connects to `/ws/events`,
  where the sink upgrades only paths that start with `/events`.
* A status that the retries did not cure raises the response's `HTTPError`, not
  the `RetryError` that `_retry.py` documents.
* A poll that fails for longer than its retries last fails a job that goes on in
  the service; nothing deletes the transcriptions of lost submissions, those
  made after the call has ended among them.
* The files of a batch of several audios are merged by time stamp alone, so that
  different audios are interleaved.
* `vad_filter.py:17` says that `extract_speech_windows` is what the rest of the
  pipeline calls; nothing does.
* `_windows` adds the last window again when it fits exactly, and a merged
  segment keeps the embedding of its first window only.
* `_cleanup_temp` ignores an `OSError` of `unlink` (`speechbrain_provider.py:360`): the
  WAV stays, and neither the result nor the log says so.
* A clip of less than 0.3 s gets no embedding, so a speaker of such clips is
  never looked up in the registry.
* A download can answer 409 with "status=done" (`api.py:148`).
* A job deleted while it runs writes its result file afterwards.
* An error of the result's write other than `OSError` turns a done job into a
  failed one (`api.py:1034`).
* A persisted result cannot be downloaded after a restart (`api.py:696`).
* `rename` rebinds only the first cluster with the label, and a rename made
  between a match and `resolve`'s assignment is overwritten by the old label.
* A matcher's stale snapshot of a deleted speaker ends the stream with an
  integrity error (`AddRefused`).

## 4. Proofs

The theorems hold for every value of the constants; nothing is assumed but the
named assumptions in the modules, which TLC evaluates in the runs: a "no thread"
value is no thread, bounds are naturals, an id made at random is no label of the
clustering, and what the services and the backends answer has the shape that the
code reads (`OutputsAssumption`, `AnswersAssumption`). Each follows from an inductive
invariant with one lemma or step per action. The listed ones are under
`theorems` in `PROJECT.json`.

`AudioSourceProofs`
* `SourceTypeCorrect`: the type invariant, together with `Counted` (a thread
  about to put a chunk has counted it), which it needs to be inductive.
* `OneSentinel`: `SourceInv` adds `LockInv` (who is inside `close` has the lock)
  and `SentinelInv` (whoever has set the flag has still to put the sentinel, and
  there is no other).
* `OneStragglerEach`: a counting argument: what is behind the sentinel came from
  pushers that had passed the test before the flag was set, at most once each.
* `QueueIsChannel`: the safety half of `ImplementsChannel`. `Front` of a queue is
  what is before its sentinel; two lemmas say what a put and a get do to it, and
  with `SingleSentinel` each step of the queue is an `Accept`, a `Shut`, a
  `Hand`, an `End` or nothing.

`StreamSessionsProofs`
* `TypeCorrect`: the type invariant.
* `SlotIsHeld`: `Exclusive` is not inductive: a handler between `register` and
  `start` owns the slot though nothing runs, and the check it made must still be
  true. `SlotInv` adds that a handler between two awaits has the loop
  (`HoldsLoop`), that a coordinator has no thread before its start (`Fresh`) and
  that the slot belongs to a claimed or running coordinator (`SlotHeld`).
* `MicNeverBeaten`: `MicInv` adds what a microphone handler knows at each place:
  its last lookup is still true or the slot has been emptied since.
* `EndIsLast`: of what a pipeline has said, the first so many events are in the
  history and the others scheduled, each once and in order (`Told`), and its
  `stream_end` is numbered after the rest; a revised record that is scheduled or
  in the history is of an utterance that the history had before (`RevisedAfter`,
  `RevisesTold`).
* `EndIsFree`: an end, scheduled or told, is of a stream that has finished, and
  a finished stream never runs again.

`SessionHubProofs`
* `JoinedOnceWithoutGap`: what a client has been sent, has to replay and has
  scheduled hold no record twice, have none in common (`Apart`), and hold the
  history while it is there (`Whole`). This needs that a client is subscribed to
  its own session from `Join` to `Leave` (`Subscribed`), so that a new record,
  which has a new name, reaches exactly those whose history it enters.
* `ViewersAgree`: `LabelInv` says when a copy of a record may be stale. A record is
  *due* while a rename has still to publish it, and *told* when it is the newest
  of its utterance and not due; a scheduled copy of a told record has its label
  (`Copied`), and so has the viewer's row if it was sent the records in order
  (`Shows`). What a client was sent is in its history or older than all of it
  (`Placed`), so that a trim takes nothing back.

`SpeakerRegistryProofs`
* `RegistryInv`: what an actor has in hand at each place is of the kind it needs
  there (`HandsInv`, with the type invariant), and the parts below.
* `TrimsKeepPrints`: the newest voiceprint of a speaker is on nobody's list of
  those to delete (`NewestStays`), so only a speaker whose creator has still to
  add has none (`EmptyIsNew`) and no matcher knows it (`KnownHasPrints`). The
  limit is `Bounded`: for every set of actors in the middle of a trim, once they
  have deleted what they read there are at most `MaxPrints` and one for each of
  the others.
* `VoiceEnrolledOnce`: a matcher that nobody else's refresh can overwrite knows
  everyone it has enrolled whenever it looks for a match (`Knows`).
* `LabelIsOfVoice`: labels, verdicts, and what the stream has in hand before it
  assigns them (the match's result among it), are of the voice of their cluster
  (`LabelInv`).

`JobsProofs`
* `OldestIsEvicted`: the store is in the order of submission, and a job that is
  neither in it nor deleted has `MaxJobs` younger ones.
* `DeletedStaysGone`: a job that was dropped is written or downloaded only by
  who was at it already.
* `ClosedPoolRests`: after the shutdown the queue is empty and a worker has no
  job that it has not begun.

`StreamPipelineProofs`
* `NothingUnheard`: the `None` that ends the main loop comes from the end of the
  session. Unless recognition was cut, the session ends only when its input was
  closed and all of it recognized (`Ending`), and `None` is never put before
  (`Told`).
* `NoneOvertakes` and `NewsIsRecord` from `SaidInv`: the queue is in the order of
  speech with its `None`s last (`Queued`); what is heard is in the queue or told,
  and what is told was said before what waits (`Passed`); after a `None` nothing is
  recognized, so the main loop leaves nothing behind (`Over`); what is to be looked
  at again is there once and was told once, tentatively (`Again`).

`WebSocketSinkProofs`
* `NoneMissed`: every record of the history is in a thread's hand, among the
  loop's calls, or on its way to each connected client (`OnItsWay`); for a
  client that joins, the history is its replay.
* `StopIsClean`: the main thread has nothing in hand when it asks for the stop,
  so its records are in front of `Stop` in `calls` (`StopLast`) and, when
  connections are closed, sent (`Flushed`); the loop closes only when no handler
  is in a command (`Answering`).

`BatchProofs`, of `AzureBatch`
* `DeadlineIsKept`: the time of the request under way is bounded by its
  remaining attempts (`Spent`), so the clock passes the deadline by no more than
  `PollMax + Budget` (`Lateness`); a poll that began when the transcription was
  ready hears of it (`Informed`).
* `FewOrphans`: what the service has made and what it still owes to submissions
  that were given up are together no more than the attempts (`Counted`), and
  making late only turns the one into the other.
* `WholeResult`: what was downloaded and what is left to download are together the
  transcription files of the submission that was answered, in the order listed
  (`Whole`). `MergedIsTranscript` says what their merging is: each phrase with
  words is at the place which the number of those before it gives.

`BatchProofs`, of `BatchPipeline`: `RunInv` has a part for each theorem, on top of
the types and of what verdicts may be (`IdsInv`).
* `FilesRemoved`: `TempInv`; every way out of a diarization removes the file or
  leaves it for good, and before SpeechBrain's turn there is none (`Turned`), so
  that at most one is left.
* `FaithfulSegments`: `MergeIsFaithful`, about `_merge_adjacent` alone: what the
  windows so far have become holds their ticks under their labels, and nothing
  else but gaps behind them that no window has (`MergedUpTo`). It needs windows in
  the order of both start and end, which the tail window of a span could break
  and does not (`WindowsGlide`).
* `OwnedWords`, `HeldVotes`: `AlignInv`, that a word's speaker and an utterance's
  are what `_segment_for_word` and `_utterance_speaker` promise of the segments
  there are, is kept by the registry's renames (`RenamedAligned`): one map
  renames segments, words and utterances, and gives a speaker only more words.
* `OwnersOfSecond`: the spans for the secondary are the segments with the owners
  they were given (`SpansInv`), and each bucket leaves once (`PrintsInv`).
* `TidySpeech`, from an invariant of its own (`SpeechInv`): the runs of loud frames
  are the longest ones (`RmsRuns`), and merging keeps what is merged in order,
  apart and of the same ticks (`MetUpTo`); then the lengths add up to the number
  of ticks (`TidyLength`).

Every inductive invariant was checked by TLC on the bounds of its run before it
was proved.

Induction. The installed provers cannot apply the library's induction theorems,
which take an operator. `BatchProofs` has induction over the naturals for a
*set* instead (`UpTo`, from the least element that a set of naturals has), and
unfolds `FoldLeft` by the definition of `MapThenFoldSet` into a walk `g` with
`g[0]` the base and `g[k]` the step applied to `g[k - 1]`. What loops and sorts
compute for inputs of any length is proved in this way.

Every invariant that the passing runs check is proved, the type invariants with
them. What stays with TLC: all liveness properties, which rest on fairness and
`ENABLED`, and the liveness half of `ImplementsChannel`.

## 5. Not modelled

Numerical models and thresholds (embeddings are voices, the detector and the
clustering answer anything), online clustering among them; text and confidences;
ISO durations; Silero; HTTP and WebSocket framing, authentication, configuration
and the merge of command line and YAML, logging, uploads, the sink's list of
sessions and static files, display names that collide with ids, MySQL's snapshot
isolation, the feeder's pacing, and what the plan lists as planned.
`PROJECT.json` gives the reason for each component.

## Running

    tlc -workers 2 -config Registry.cfg SpeakerRegistryMC.tla
    tlapm StreamSessionsProofs.tla

The pairs of module and configuration are `runs` in `PROJECT.json`.
