--------------------------- MODULE StreamSessions ---------------------------
(* The life of live streams in pipeline/api.py and                            *)
(* pipeline/streaming_coordinator.py: requests that start a stream for a      *)
(* session (POST stream-file, WS ingest), the CoordinatorRegistry slot they   *)
(* compete for, the coordinator's pipeline thread, the thread or handler that *)
(* owns the audio and gives the slot back, stream-stop, and the event loop    *)
(* through which every event reaches the session's history.                   *)
(*                                                                            *)
(* Handlers run on one event-loop thread and interleave with each other only  *)
(* where they await; pipeline, feeder, drain and stream-stop threads          *)
(* interleave with them anywhere.  A coordinator has the name of the request  *)
(* that makes it.                                                             *)
EXTENDS Naturals, Sequences, FiniteSets

CONSTANTS Requests,  \* requests that may start a stream, one coordinator each
          Sessions,  \* session labels
          Stops,     \* stream-stop requests in flight at a time
          NoReq,     \* no coordinator
          MaxEvents, \* bound: events one stream publishes before it ends
          MaxRenames \* bound: rename commands on the microphones' sockets

ASSUME NoReqAssumption == NoReq \notin Requests
ASSUME BoundAssumption == MaxEvents \in Nat /\ MaxRenames \in Nat

VARIABLES
  table,    \* CoordinatorRegistry._table
  loop,     \* the request whose handler holds the event-loop thread
  req,      \* how far the handler of a request is
  found,    \* what its last coords.get() returned, until it is used
  kind,     \* stream-file or ingest
  sess,     \* the session it names
  started, finished, closed, error, \* the coordinator's flags
  thread,   \* how far StreamingCoordinator._run is
  sent,     \* events the pipeline has published, but for stream_end
  owner,    \* how far the feeder / ingest handler and drain thread is
  calls,    \* hub.broadcast() calls scheduled on the loop
  history,  \* per session, the records that entered it, in order
  renames,  \* rename commands that ingest handlers have taken
  updated,  \* places in the history of the records a rename has still to
            \* publish again
  held,     \* the coordinator a stream-stop request has looked up
  strayed   \* history: sessions whose slot was emptied of a coordinator
            \* that had not finished

reqVars == <<req, found, kind, sess>>
flags == <<started, finished, closed, error>>
command == <<renames, updated>>
vars == <<table, loop, reqVars, flags, thread, sent, owner, calls, history, command,
          held, strayed>>

Running(r) == started[r] /\ ~finished[r]        \* is_running
Busy(c) == c # NoReq /\ Running(c)   \* ... of what a lookup returned

\* What coordinator `by` publishes: the number-th event of the pipeline of `of`,
\* which is itself, or, revised, a record of any pipeline.  `utterance` stands
\* for whatever a pipeline says of an utterance.
Event(e, r, of, number, ok) ==
  [event |-> e, by |-> r, of |-> of, number |-> number, ok |-> ok]
Utterance(r, number) == Event("utterance", r, r, number, TRUE)
Revised(r, rec) == Event("revised", r, rec.of, rec.number, TRUE)
EndOf(r, ok) == Event("stream_end", r, r, sent[r] + 1, ok)

Init ==
  /\ table = [s \in Sessions |-> NoReq]
  /\ loop = NoReq
  /\ req = [r \in Requests |-> "new"]
  /\ found = [r \in Requests |-> NoReq]
  /\ kind \in [Requests -> {"file", "mic"}]
  /\ sess \in [Requests -> Sessions]
  /\ started = [r \in Requests |-> FALSE]
  /\ finished = [r \in Requests |-> FALSE]
  /\ closed = [r \in Requests |-> FALSE]
  /\ error = [r \in Requests |-> FALSE]
  /\ thread = [r \in Requests |-> "none"]
  /\ sent = [r \in Requests |-> 0]
  /\ owner = [r \in Requests |-> "none"]
  /\ calls = <<>>
  /\ history = [s \in Sessions |-> <<>>]
  /\ renames = 0
  /\ updated = [r \in Requests |-> {}]
  /\ held = [x \in Stops |-> NoReq]
  /\ strayed = {}
-----------------------------------------------------------------------------
\* What the steps of each kind of process leave alone.
OffHandler == UNCHANGED <<started, finished, closed, error, thread, sent,
                          owner, calls, history, command, held, strayed>>
OffPipeline == UNCHANGED <<table, loop, reqVars, started, closed, owner, history, command,
                           held, strayed>>
OffOwner == UNCHANGED <<table, loop, reqVars, started, finished, thread, sent,
                        calls, history, command, held, strayed>>
OffStop == UNCHANGED <<table, loop, reqVars, started, finished, error, thread,
                       sent, owner, calls, history, command, strayed>>

ReqStep(r, from, to) == req[r] = from /\ req' = [req EXCEPT ![r] = to]
-----------------------------------------------------------------------------
(* Faulty variants of the steps below, to show that the properties can fail.  *)

\* register() that does not ask whether the existing coordinator runs.
RegisterBlind(r) ==
  /\ ReqStep(r, "claim", "claimed")
  /\ table' = [table EXCEPT ![sess[r]] = r]
  /\ UNCHANGED <<loop, found, kind, sess>> /\ OffHandler

\* ws_ingest with an await between its check and register().
LookThenAwait(r) ==
  /\ \/ Busy(found[r]) /\ ReqStep(r, "look", "refused")
     \/ ~Busy(found[r]) /\ kind[r] = "file" /\ ReqStep(r, "look", "saving")
     \/ ~Busy(found[r]) /\ kind[r] = "mic" /\ ReqStep(r, "look", "claim")
  /\ loop' = NoReq
  /\ found' = [found EXCEPT ![r] = NoReq]
  /\ UNCHANGED <<table, kind, sess>> /\ OffHandler

\* _run that says stream_end before it sets _finished.
FinishLate(r) ==
  /\ thread[r] = "finally"
  /\ calls' = Append(calls, EndOf(r, ~error[r]))
  /\ thread' = [thread EXCEPT ![r] = "ending"]
  /\ UNCHANGED <<finished, error, sent>> /\ OffPipeline

\* _run that says stream_end only for streams still in the registry.
PublishEndIfHeld(r) ==
  /\ thread[r] = "ending"
  /\ calls' = IF table[sess[r]] = r THEN Append(calls, EndOf(r, ~error[r])) ELSE calls
  /\ thread' = [thread EXCEPT ![r] = "ended"]
  /\ UNCHANGED <<finished, error, sent>> /\ OffPipeline

\* _run whose stream_end does not look at the error.
PublishEndOk(r) ==
  /\ thread[r] = "ending"
  /\ calls' = Append(calls, EndOf(r, TRUE))
  /\ thread' = [thread EXCEPT ![r] = "ended"]
  /\ UNCHANGED <<finished, error, sent>> /\ OffPipeline

\* Broadcasts that run in any order.
DeliverAny ==
  /\ loop = NoReq
  /\ \E i \in 1..Len(calls) :
       /\ history' = [history EXCEPT ![sess[calls[i].by]] = Append(@, calls[i])]
       /\ calls' = SubSeq(calls, 1, i - 1) \o SubSeq(calls, i + 1, Len(calls))
  /\ UNCHANGED <<table, loop, reqVars, flags, thread, sent, owner, command, held, strayed>>

\* release() that leaves the slot to a coordinator whose join timed out.
ReleaseFinished(r) ==
  LET s == sess[r] IN
  /\ owner[r] = "releasing"
  /\ owner' = [owner EXCEPT ![r] = "done"]
  /\ table' = IF table[s] = r /\ Running(r) THEN table ELSE [table EXCEPT ![s] = NoReq]
  /\ UNCHANGED <<loop, reqVars, flags, thread, sent, calls, history, command, held, strayed>>
-----------------------------------------------------------------------------
(* Handlers, on the event loop.                                               *)

\* First look at the registry.  stream_file tests `coords.get() is not None`
\* and then gets a second time; ws_ingest keeps what it got.
Arrive(r) ==
  /\ loop = NoReq
  /\ \/ /\ kind[r] = "mic"
        /\ ReqStep(r, "new", "look")
        /\ found' = [found EXCEPT ![r] = table[sess[r]]]
        /\ loop' = r
     \/ /\ kind[r] = "file"
        /\ table[sess[r]] # NoReq
        /\ ReqStep(r, "new", "again")
        /\ loop' = r
        /\ UNCHANGED found
     \/ /\ kind[r] = "file"
        /\ table[sess[r]] = NoReq
        /\ ReqStep(r, "new", "saving")
        /\ UNCHANGED <<found, loop>>
  /\ UNCHANGED <<table, kind, sess>> /\ OffHandler

\* stream_file's second get: when a feeder thread has released the slot in
\* between, the handler dies on None.is_running.
GetAgain(r) ==
  /\ \/ /\ table[sess[r]] # NoReq
        /\ ReqStep(r, "again", "look")
        /\ UNCHANGED loop
     \/ /\ table[sess[r]] = NoReq
        /\ ReqStep(r, "again", "failed")
        /\ loop' = NoReq
  /\ found' = [found EXCEPT ![r] = table[sess[r]]]
  /\ UNCHANGED <<table, kind, sess>> /\ OffHandler

\* is_running of what was found: 409 / close 4409, or go on.  stream_file then
\* awaits the upload, ws_ingest goes straight to the registration.
Look(r) ==
  /\ \/ /\ Busy(found[r])
        /\ ReqStep(r, "look", "refused")
        /\ loop' = NoReq
     \/ /\ ~Busy(found[r])
        /\ kind[r] = "file"
        /\ ReqStep(r, "look", "saving")
        /\ loop' = NoReq
     \/ /\ ~Busy(found[r])
        /\ kind[r] = "mic"
        /\ ReqStep(r, "look", "claim")
        /\ UNCHANGED loop
  /\ found' = [found EXCEPT ![r] = NoReq]
  /\ UNCHANGED <<table, kind, sess>> /\ OffHandler

\* await _save_upload() comes back: saved, or too large / disk error.
Saved(r) ==
  /\ loop = NoReq
  /\ \/ ReqStep(r, "saving", "claim") /\ loop' = r
     \/ ReqStep(r, "saving", "failed") /\ UNCHANGED loop
  /\ UNCHANGED <<table, found, kind, sess>> /\ OffHandler

\* CoordinatorRegistry.register(), under its lock.
Register(r) ==
  LET existing == table[sess[r]] IN
  /\ \/ /\ Busy(existing)
        /\ ReqStep(r, "claim", "failed")
        /\ loop' = NoReq
        /\ UNCHANGED table
     \/ /\ ~Busy(existing)
        /\ ReqStep(r, "claim", "claimed")
        /\ table' = [table EXCEPT ![sess[r]] = r]
        /\ UNCHANGED loop
  /\ UNCHANGED <<found, kind, sess>> /\ OffHandler

\* coord.start(); stream_file also starts the feeder and answers, ws_ingest
\* awaits the send of ingest_ready.
Start(r) ==
  /\ \/ /\ kind[r] = "file"
        /\ ReqStep(r, "claimed", "served")
        /\ owner' = [owner EXCEPT ![r] = "feeding"]
     \/ /\ kind[r] = "mic"
        /\ ReqStep(r, "claimed", "greeting")
        /\ UNCHANGED owner
  /\ started' = [started EXCEPT ![r] = TRUE]
  /\ thread' = [thread EXCEPT ![r] = "running"]
  /\ loop' = NoReq
  /\ UNCHANGED <<table, found, kind, sess, finished, closed, error, sent,
                 calls, history, command, held, strayed>>

\* The send of ingest_ready is outside the try: when the client is gone by
\* then, the handler ends without closing the audio or starting a drain.
Greet(r) ==
  /\ loop = NoReq
  /\ \/ /\ ReqStep(r, "greeting", "served")
        /\ owner' = [owner EXCEPT ![r] = "feeding"]
     \/ /\ ReqStep(r, "greeting", "failed")
        /\ UNCHANGED owner
  /\ UNCHANGED <<table, loop, found, kind, sess, flags, thread, sent, calls,
                 history, command, held, strayed>>
-----------------------------------------------------------------------------
(* handle_command on the ingest handler, which has the loop until it returns. *)
(* It does not ask whether the stream still runs.  A forget publishes         *)
(* nothing; an error of the command ends the handler as the client does.      *)

\* rewrite_history_speaker: the records of the session with the old label;
\* stream_end has none.
HasLabel(s) == {i \in 1..Len(history[s]) : history[s][i].event # "stream_end"}
Rename(r, places) ==
  /\ loop = NoReq
  /\ kind[r] = "mic" /\ owner[r] = "feeding"
  /\ renames < MaxRenames
  /\ ReqStep(r, "served", "renaming")
  /\ loop' = r
  /\ renames' = renames + 1
  /\ updated' = [updated EXCEPT ![r] = places]
  /\ UNCHANGED <<table, found, kind, sess, flags, thread, sent, owner, calls, history,
                 held, strayed>>

\* _broadcast_updates: _publish schedules the broadcast on the loop and waits
\* two seconds in vain, since its caller has the loop.
Revise(r) ==
  /\ req[r] = "renaming"
  /\ \E i \in updated[r] :
       /\ \A j \in updated[r] : i <= j
       /\ calls' = Append(calls, Revised(r, history[sess[r]][i]))
       /\ updated' = [updated EXCEPT ![r] = @ \ {i}]
  /\ UNCHANGED <<table, loop, reqVars, flags, thread, sent, owner, history, renames,
                 held, strayed>>

\* The handler awaits the send of its reply.
Renamed(r) ==
  /\ ReqStep(r, "renaming", "served")
  /\ updated[r] = {}
  /\ loop' = NoReq
  /\ UNCHANGED <<table, found, kind, sess, flags, thread, sent, owner, calls, history,
                 command, held, strayed>>
-----------------------------------------------------------------------------
(* The pipeline thread, StreamingCoordinator._run and _publish.  _publish     *)
(* schedules the broadcast on the loop and waits for it for two seconds at    *)
(* most, so the thread may go on before the broadcast has run.                *)

Publish(r) ==
  /\ thread[r] = "running"
  /\ sent[r] < MaxEvents
  /\ sent' = [sent EXCEPT ![r] = @ + 1]
  /\ calls' = Append(calls, Utterance(r, sent[r] + 1))
  /\ UNCHANGED <<finished, error, thread>> /\ OffPipeline

\* stream_fn returns (the recognizer may end the stream before the audio is
\* closed) or raises.
StreamReturns(r) ==
  /\ thread[r] = "running"
  /\ thread' = [thread EXCEPT ![r] = "finally"]
  /\ UNCHANGED <<finished, error, sent, calls>> /\ OffPipeline

StreamRaises(r) ==
  /\ thread[r] = "running"
  /\ thread' = [thread EXCEPT ![r] = "finally"]
  /\ error' = [error EXCEPT ![r] = TRUE]
  /\ UNCHANGED <<finished, sent, calls>> /\ OffPipeline

\* finally: _finished.set() ...
Finish(r) ==
  /\ thread[r] = "finally"
  /\ finished' = [finished EXCEPT ![r] = TRUE]
  /\ thread' = [thread EXCEPT ![r] = "ending"]
  /\ UNCHANGED <<error, sent, calls>> /\ OffPipeline

\* ... then the stream_end event.
PublishEnd(r) ==
  /\ thread[r] = "ending"
  /\ calls' = Append(calls, EndOf(r, ~error[r]))
  /\ thread' = [thread EXCEPT ![r] = "ended"]
  /\ UNCHANGED <<finished, error, sent>> /\ OffPipeline

\* The loop runs the next scheduled hub.broadcast(), whose first step appends
\* to the history of the coordinator's session.
Deliver ==
  /\ loop = NoReq
  /\ calls # <<>>
  /\ LET c == Head(calls) IN
     history' = [history EXCEPT ![sess[c.by]] = Append(@, c)]
  /\ calls' = Tail(calls)
  /\ UNCHANGED <<table, loop, reqVars, flags, thread, sent, owner, command, held, strayed>>
-----------------------------------------------------------------------------
(* The owner of the audio: stream_file's feeder thread, or ws_ingest's        *)
(* handler followed by its drain thread.                                      *)

\* The WAV cannot be read: the feeder stores the exception on the coordinator.
FeedFails(r) ==
  /\ kind[r] = "file"
  /\ owner[r] = "feeding"
  /\ error' = [error EXCEPT ![r] = TRUE]
  /\ owner' = [owner EXCEPT ![r] = "closing"]
  /\ UNCHANGED closed /\ OffOwner

\* The WAV is over, the client stopped or left: end_audio().  The ingest
\* handler does this on the loop.
EndAudio(r) ==
  /\ owner[r] \in {"feeding", "closing"}
  /\ kind[r] = "mic" => loop = NoReq
  /\ closed' = [closed EXCEPT ![r] = TRUE]
  /\ owner' = [owner EXCEPT ![r] = "joining"]
  /\ UNCHANGED error /\ OffOwner

\* stop(timeout): the join returns because the thread ended ...
Joined(r) ==
  /\ owner[r] = "joining"
  /\ thread[r] = "ended"
  /\ owner' = [owner EXCEPT ![r] = "releasing"]
  /\ UNCHANGED <<closed, error>> /\ OffOwner

\* ... or because 60 / 120 seconds have passed.
JoinTimesOut(r) ==
  /\ owner[r] = "joining"
  /\ thread[r] # "ended"
  /\ owner' = [owner EXCEPT ![r] = "releasing"]
  /\ UNCHANGED <<closed, error>> /\ OffOwner

\* CoordinatorRegistry.release(session): pops whatever the session's slot holds.
Release(r) ==
  LET s == sess[r] IN
  /\ owner[r] = "releasing"
  /\ owner' = [owner EXCEPT ![r] = "done"]
  /\ table' = [table EXCEPT ![s] = NoReq]
  /\ strayed' = IF table[s] # NoReq /\ ~finished[table[s]]
                THEN strayed \cup {s} ELSE strayed
  /\ UNCHANGED <<loop, reqVars, flags, thread, sent, calls, history, command, held>>
-----------------------------------------------------------------------------
(* stream-stop, in a worker thread of the server: get, then end_audio() on    *)
(* what it got; 404 when the slot is empty.                                   *)

StopGet(x, s) ==
  /\ held[x] = NoReq
  /\ table[s] # NoReq
  /\ held' = [held EXCEPT ![x] = table[s]]
  /\ UNCHANGED closed /\ OffStop

StopEnd(x) ==
  /\ held[x] # NoReq
  /\ closed' = [closed EXCEPT ![held[x]] = TRUE]
  /\ held' = [held EXCEPT ![x] = NoReq]
  /\ OffStop
-----------------------------------------------------------------------------
Handler(r) == Arrive(r) \/ GetAgain(r) \/ Look(r) \/ Saved(r) \/ Register(r)
              \/ Start(r) \/ Greet(r)
Command(r) == (\E places \in SUBSET HasLabel(sess[r]) : Rename(r, places))
              \/ Revise(r) \/ Renamed(r)
Pipeline(r) == Publish(r) \/ StreamReturns(r) \/ StreamRaises(r) \/ Finish(r)
               \/ PublishEnd(r)
Owner(r) == FeedFails(r) \/ EndAudio(r) \/ Joined(r) \/ JoinTimesOut(r) \/ Release(r)
Stop(x) == (\E s \in Sessions : StopGet(x, s)) \/ StopEnd(x)

Next == \/ \E r \in Requests : Handler(r) \/ Command(r) \/ Pipeline(r) \/ Owner(r)
        \/ \E x \in Stops : Stop(x)
        \/ Deliver

\* A handler that has the loop goes on, and the loop comes back to an await
\* that is over and to the broadcasts; the pipeline returns once its audio is
\* closed, a WAV ends, a join returns, a worker thread finishes its request.
\* No client is obliged to leave or to rename, no request to arrive.
Fairness ==
  /\ \A r \in Requests :
       /\ WF_vars(GetAgain(r) \/ Look(r) \/ Saved(r) \/ Register(r) \/ Start(r) \/ Greet(r))
       /\ WF_vars(Revise(r) \/ Renamed(r))
       /\ WF_vars(closed[r] /\ (StreamReturns(r) \/ StreamRaises(r)))
       /\ WF_vars(Finish(r) \/ PublishEnd(r))
       /\ WF_vars(kind[r] = "file" /\ EndAudio(r))
       /\ WF_vars(Joined(r) \/ JoinTimesOut(r) \/ Release(r))
  /\ \A x \in Stops : WF_vars(StopEnd(x))
  /\ WF_vars(Deliver)

Safety == Init /\ [][Next]_vars
Spec == Safety /\ Fairness

-----------------------------------------------------------------------------
Numbers == 1..(MaxEvents + 1)
Utterances == {Utterance(r, n) : r \in Requests, n \in Numbers}
Others == [event : {"revised", "stream_end"}, by : Requests, of : Requests,
           number : Numbers, ok : BOOLEAN]
Events == Utterances \cup Others

\* Type invariant of the registry, the coordinators and the threads.
TypeOK ==
  /\ table \in [Sessions -> Requests \cup {NoReq}]
  /\ loop \in Requests \cup {NoReq}
  /\ req \in [Requests -> {"new", "again", "look", "saving", "claim", "claimed",
                           "greeting", "served", "renaming", "refused", "failed"}]
  /\ found \in [Requests -> Requests \cup {NoReq}]
  /\ kind \in [Requests -> {"file", "mic"}]
  /\ sess \in [Requests -> Sessions]
  /\ started \in [Requests -> BOOLEAN]
  /\ finished \in [Requests -> BOOLEAN]
  /\ closed \in [Requests -> BOOLEAN]
  /\ error \in [Requests -> BOOLEAN]
  /\ thread \in [Requests -> {"none", "running", "finally", "ending", "ended"}]
  /\ sent \in [Requests -> 0..MaxEvents]
  /\ owner \in [Requests -> {"none", "feeding", "closing", "joining", "releasing", "done"}]
  /\ calls \in Seq(Events)
  /\ history \in [Sessions -> Seq(Events)]
  /\ renames \in 0..MaxRenames
  /\ updated \in [Requests -> SUBSET Nat]
  /\ held \in [Stops -> Requests \cup {NoReq}]
  /\ strayed \subseteq Sessions

\* As long as no release has emptied a slot under a coordinator that was not
\* finished, a running stream is the one its session's slot holds: two streams
\* never run in one session, although checks, uploads, registrations, starts,
\* timed-out joins and releases of any number of requests interleave, and
\* stream-stop and stream-status always reach the running one.
Exclusive ==
  \A r \in Requests :
    Running(r) /\ sess[r] \notin strayed => table[sess[r]] = r

\* ws_ingest has no await between its check and register(), so a microphone
\* that passed the check never dies on "already streaming": the only request
\* of that kind to fail is one that lost its client after the start.
MicClaimSucceeds ==
  \A r \in Requests : kind[r] = "mic" /\ req[r] = "failed" => started[r]

\* The places of what r's pipeline said, stream_end included, and of r's end.
Said(r) == {i \in 1..Len(history[sess[r]]) :
              history[sess[r]][i].by = r /\ history[sess[r]][i].event # "revised"}
Ends(r) == {i \in Said(r) : history[sess[r]][i].event = "stream_end"}
Ended(r) == Ends(r) # {}

\* What a pipeline says enters the history of its session whole, once and in
\* order, and its stream_end after the last of it, although _publish gives up
\* waiting for a broadcast after two seconds and the broadcasts of other streams
\* and renames come in between.  Only renames on the microphone's own socket may
\* follow it, and each is of a record that the history had before.
EndClosesTranscript ==
  /\ TypeOK
  /\ \A r \in Requests :
       LET h == history[sess[r]] IN
       /\ \A i, j \in Said(r) : i < j => h[i].number < h[j].number
       /\ \A i \in Ends(r) :
            /\ \A j \in Said(r) : j <= i
            /\ \A n \in 1..sent[r] : \E j \in Said(r) : h[j] = Utterance(r, n)
  /\ \A s \in Sessions : \A i \in 1..Len(history[s]) :
       LET e == history[s][i] IN
       e.event = "revised" => \E j \in 1..(i - 1) : history[s][j] = Utterance(e.of, e.number)

\* The code does not have this: a microphone whose recognition was cancelled may
\* rename after its stream's end, or while it ends.
EndIsLastWord ==
  \A r \in Requests : \A i \in Ends(r) : \A j \in 1..Len(history[sess[r]]) :
    history[sess[r]][j].by = r => j <= i

\* A client that has seen the stream_end of a stream is never turned away on
\* account of that stream: by then its is_running is false.
EndFreesSession == \A r \in Requests : Ended(r) => ~Running(r)

\* Closing the audio of a running stream, from the feeder, the ingest handler
\* or stream-stop, ends it, and the session's history says so.
ClosedStreamEnds == \A r \in Requests : (closed[r] /\ started[r]) ~> Ended(r)

\* A pipeline that crashed is reported to the session as a stream_end with
\* ok = false.
CrashReported ==
  \A r \in Requests :
    (thread[r] = "finally" /\ error[r]) ~>
      \E i \in Ends(r) : ~history[sess[r]][i].ok

\* A WAV stream gives its slot back, even when the join times out.
FileFreesSlot ==
  \A r \in Requests : (started[r] /\ kind[r] = "file") ~> (table[sess[r]] # r)

\* What test_api.py claims of stream-file and the comment in api.py of the two
\* surfaces: one stream per session at a time.
OneStreamPerSession ==
  \A r1, r2 \in Requests :
    Running(r1) /\ Running(r2) /\ sess[r1] = sess[r2] => r1 = r2
=============================================================================
