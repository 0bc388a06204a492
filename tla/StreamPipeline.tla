---------------------------- MODULE StreamPipeline ----------------------------
(* stream() of pipeline/streaming.py: the producer thread that takes PCM from  *)
(* the source into the rolling buffer and the recognizer, the recognizer of    *)
(* stt/azure_realtime.py with the SDK's callbacks, the voiceprint thread that  *)
(* labels windows of the buffer, and the main loop that gives each recognized  *)
(* utterance the label most of its windows have, and looks again at the end    *)
(* for those it was not sure of.                                               *)
(*                                                                             *)
(* Time is counted in chunks, one per hop of the windows: window w is made of  *)
(* the chunks w to w + Span - 1, and an utterance is the speech of one chunk.  *)
(* Labels are those after resolve(), which SpeakerRegistry models.             *)
EXTENDS Naturals, Sequences, FiniteSetsExt

CONSTANTS Chunks,  \* bound: chunks the source has
          Speech,  \* the chunks that hold an utterance
          Span,    \* chunks of a window
          Labels,  \* speaker labels of windows
          Pending  \* "Speaker_pending", the label when no window overlaps

ASSUME ChunksAssumption == Chunks \in Nat /\ Speech \subseteq 1..Chunks
ASSUME SpanAssumption == Span \in Nat \ {0}
ASSUME PendingAssumption == Pending \notin Labels

VARIABLES
  prod,      \* how far producer() is
  buffered,  \* chunks in the RollingPCMBuffer
  pushed,    \* chunks written to the SDK's push stream
  service,   \* the SDK's session; _stopped is set when canceled or stopped
  heard,     \* chunks it has recognized
  events,    \* _event_queue: utterances, and End for None
  cut,       \* history: recognition canceled, or drain_timeout passed
  voice,     \* how far StreamingVoiceprint._run is
  windows,   \* _windows, Pending for those whose embedding failed
  main,      \* how far stream() is
  rec,       \* the records of `emitted`
  pending,   \* utterances whose records are in `pending`
  out,       \* what on_event was called with
  failed     \* stream() is raising

prodVars == <<prod, buffered, pushed>>
sdkVars == <<service, heard, events, cut>>
voiceVars == <<voice, windows>>
mainVars == <<main, rec, pending, out, failed>>
vars == <<prodVars, sdkVars, voiceVars, mainVars>>

End == 0
NoVote == [label |-> Pending, count |-> 0, of |-> 1]

Init ==
  /\ prod = "none" /\ buffered = 0 /\ pushed = 0
  /\ service = "off" /\ heard = 0 /\ events = <<>> /\ cut = FALSE
  /\ voice = "none" /\ windows = <<>>
  /\ main = "start" /\ rec = [u \in Speech |-> NoVote]
  /\ pending = <<>> /\ out = <<>> /\ failed = FALSE
-----------------------------------------------------------------------------
(* label_for_range().  All windows of an utterance overlap it alike.           *)

Voters(u) == {w \in DOMAIN windows : w <= u /\ u < w + Span /\ windows[w] # Pending}
Votes(u, l) == Cardinality({w \in Voters(u) : windows[w] = l})
Vote(u) ==
  LET most == {w \in Voters(u) : \A x \in Voters(u) :
                  Votes(u, windows[x]) <= Votes(u, windows[w])}
      top == windows[Min(most)]
  IN  IF Voters(u) = {} THEN NoVote
      ELSE [label |-> top, count |-> Votes(u, top), of |-> Cardinality(Voters(u))]

\* conf < pending_min_confidence
Unsure(v) == 2 * v.count < v.of
\* resolved != speaker or conf > speaker_confidence + 0.1
Better(v, r) ==
  \/ v.label # r.label
  \/ 10 * v.count * r.of > 10 * r.count * v.of + v.of * r.of
-----------------------------------------------------------------------------
(* producer().                                                                 *)

Producing(from, to) == prod = from /\ prod' = to

\* source.chunks() yields, and buffer.append
Take ==
  /\ Producing("reading", "push") /\ buffered < Chunks
  /\ buffered' = buffered + 1
  /\ UNCHANGED <<pushed, sdkVars, voiceVars, mainVars>>
Push ==
  /\ Producing("push", "reading")
  /\ pushed' = buffered
  /\ UNCHANGED <<buffered, sdkVars, voiceVars, mainVars>>

\* The source ends or raises: the finally, with its sleep of window_seconds,
\* and end_input(), which closes the push stream.
SourceEndsHard ==  \* as SourceEnds, with close() and without end_input()
  /\ Producing("reading", "closing")
  /\ UNCHANGED <<buffered, pushed, sdkVars, voiceVars, mainVars>>
SourceEnds ==
  /\ Producing("reading", "draining")
  /\ UNCHANGED <<buffered, pushed, sdkVars, voiceVars, mainVars>>
\* ... which waits for _stopped, at most drain_timeout.
Drained ==
  /\ Producing("draining", "closing")
  /\ cut' = (cut \/ service = "on")
  /\ UNCHANGED <<buffered, pushed, service, heard, events, voiceVars, mainVars>>
\* close(): stop_transcribing_async().get() comes back once the session is over.
StoppedEarly ==  \* as Stopped, without .get()
  /\ Producing("closing", "sentinel")
  /\ UNCHANGED <<buffered, pushed, sdkVars, voiceVars, mainVars>>
Stopped ==
  /\ Producing("closing", "sentinel") /\ service = "stopped"
  /\ UNCHANGED <<buffered, pushed, sdkVars, voiceVars, mainVars>>
PutEnd ==
  /\ Producing("sentinel", "ended")
  /\ events' = Append(events, End)
  /\ UNCHANGED <<buffered, pushed, service, heard, cut, voiceVars, mainVars>>
-----------------------------------------------------------------------------
(* The SDK.  It recognizes what was pushed, in order; it ends the session when *)
(* the input is closed and all of it recognized, or when it is told to stop;   *)
(* it can cancel at any time (a lost connection, a quota).                     *)

\* A chunk is recognized; _on_transcribed ignores one without text.
Transcribed ==
  /\ service = "on" /\ heard < pushed
  /\ heard' = heard + 1
  /\ events' = IF heard' \in Speech THEN Append(events, heard') ELSE events
  /\ UNCHANGED <<service, cut, prodVars, voiceVars, mainVars>>
\* _on_session_end
SessionEnd ==
  /\ \/ prod = "draining" /\ service = "on" /\ heard = pushed
     \/ prod \in {"closing", "sentinel", "ended"} /\ service = "on"
     \/ service = "canceled"
  /\ service' = "stopped" /\ events' = Append(events, End)
  /\ UNCHANGED <<heard, cut, prodVars, voiceVars, mainVars>>
CancelQuiet ==  \* as Cancel, leaving the None to _on_session_end
  /\ service = "on"
  /\ service' = "canceled" /\ cut' = TRUE
  /\ UNCHANGED <<heard, events, prodVars, voiceVars, mainVars>>
\* _on_cancel
Cancel ==
  /\ service = "on"
  /\ service' = "canceled" /\ cut' = TRUE
  /\ events' = Append(events, End)
  /\ UNCHANGED <<heard, prodVars, voiceVars, mainVars>>
-----------------------------------------------------------------------------
(* StreamingVoiceprint._run.                                                   *)

\* The next window is complete: embed and cluster it, or fail and go on.
Look ==
  /\ voice = "running" /\ Len(windows) + Span <= buffered
  /\ \E l \in Labels \cup {Pending} : windows' = Append(windows, l)
  /\ UNCHANGED <<voice, prodVars, sdkVars, mainVars>>
\* It sees _stop, which stop() sets on the way out of stream().
VoiceEnds ==
  /\ voice = "running" /\ main \in {"joining", "returned"}
  /\ voice' = "ended"
  /\ UNCHANGED <<windows, prodVars, sdkVars, mainVars>>
-----------------------------------------------------------------------------
(* stream().                                                                   *)

Main(from, to) == main = from /\ main' = to

StartTranscriber ==
  /\ Main("start", "warm")
  /\ service' = "on"
  /\ UNCHANGED <<heard, events, cut, rec, pending, out, failed, prodVars, voiceVars>>
StartVoiceprint ==
  /\ Main("warm", "resolver")
  /\ voice' = "running"
  /\ UNCHANGED <<windows, rec, pending, out, failed, prodVars, sdkVars>>
StartProducer ==
  /\ Main("resolver", "events")
  /\ prod' = "reading"
  /\ UNCHANGED <<buffered, pushed, rec, pending, out, failed, sdkVars, voiceVars>>
\* The service refuses, the encoder does not load, the registry does not open:
\* all before the try, so what was started stays.
SetupFails ==
  /\ main \in {"start", "warm", "resolver"}
  /\ main' = "raised" /\ failed' = TRUE
  /\ UNCHANGED <<rec, pending, out, prodVars, sdkVars, voiceVars>>

\* events() returns at None.
LeaveEventsAtLast ==  \* as LeaveEvents, with `continue` for None
  /\ main = "events" /\ events # <<>> /\ Head(events) = End
  /\ events' = Tail(events)
  /\ UNCHANGED <<mainVars, service, heard, cut, prodVars, voiceVars>>
LeaveEvents ==
  /\ Main("events", "revising") /\ events # <<>> /\ Head(events) = End
  /\ events' = Tail(events)
  /\ UNCHANGED <<service, heard, cut, rec, pending, out, failed, prodVars, voiceVars>>
\* ... or yields an utterance, which is recorded and emitted.
Emit(u, kind) == Append(out, [u |-> u, event |-> kind, label |-> rec'[u].label])
Record ==
  /\ main = "events" /\ events # <<>> /\ Head(events) # End
  /\ events' = Tail(events)
  /\ LET u == Head(events) IN
       /\ rec' = [rec EXCEPT ![u] = Vote(u)]
       /\ IF Unsure(Vote(u))
          THEN pending' = Append(pending, u) /\ out' = Emit(u, "tentative")
          ELSE out' = Emit(u, "final") /\ UNCHANGED pending
  /\ UNCHANGED <<main, failed, service, heard, cut, prodVars, voiceVars>>
\* After the sleep: the next of `pending`.
ReviseShown ==  \* as Revise, on a copy of the record
  /\ main = "revising" /\ pending # <<>>
  /\ LET u == Head(pending) IN
       IF Better(Vote(u), rec[u])
       THEN out' = Append(out, [u |-> u, event |-> "revised", label |-> Vote(u).label])
       ELSE UNCHANGED out
  /\ pending' = Tail(pending)
  /\ UNCHANGED <<main, rec, failed, prodVars, sdkVars, voiceVars>>
Revise ==
  /\ main = "revising" /\ pending # <<>>
  /\ LET u == Head(pending) IN
       IF Better(Vote(u), rec[u])
       THEN rec' = [rec EXCEPT ![u] = Vote(u)] /\ out' = Emit(u, "revised")
       ELSE UNCHANGED <<rec, out>>
  /\ pending' = Tail(pending)
  /\ UNCHANGED <<main, failed, prodVars, sdkVars, voiceVars>>
Revised ==
  /\ Main("revising", "finally") /\ pending = <<>>
  /\ UNCHANGED <<rec, pending, out, failed, prodVars, sdkVars, voiceVars>>
\* resolve() raises: the registry, or the embedding of a new voice.
Fails ==
  /\ main \in {"events", "revising"}
  /\ main = "events" => events # <<>> /\ Head(events) # End
  /\ main = "revising" => pending # <<>>
  /\ main' = "finally" /\ failed' = TRUE
  /\ UNCHANGED <<rec, pending, out, prodVars, sdkVars, voiceVars>>
\* voiceprint.stop() sets _stop; both joins end, or time out after 5 s.
StopVoiceprint ==
  /\ Main("finally", "joining")
  /\ UNCHANGED <<rec, pending, out, failed, prodVars, sdkVars, voiceVars>>
Joined ==
  /\ Main("joining", "returned")
  /\ UNCHANGED <<rec, pending, out, failed, prodVars, sdkVars, voiceVars>>
-----------------------------------------------------------------------------
Closing == Drained \/ Stopped \/ PutEnd
Service == Transcribed \/ SessionEnd \/ Cancel
Setup == StartTranscriber \/ StartVoiceprint \/ StartProducer \/ SetupFails
Loop == LeaveEvents \/ Record \/ Revise \/ Revised \/ Fails \/ StopVoiceprint \/ Joined

Next ==
  \/ Take \/ Push \/ SourceEnds \/ Closing
  \/ Service \/ Look \/ VoiceEnds \/ Setup \/ Loop

\* Threads run.  The source need not yield nor end, windows may be slow, and the
\* service need answer nothing but stop_transcribing_async().
Spec ==
  /\ Init /\ [][Next]_vars
  /\ WF_vars(Push \/ Closing) /\ WF_vars(VoiceEnds) /\ WF_vars(Setup) /\ WF_vars(Loop)
  /\ WF_vars(prod = "closing" /\ SessionEnd)
-----------------------------------------------------------------------------
(* Properties.                                                                 *)

VoteType == [label : Labels \cup {Pending}, count : Nat, of : Nat \ {0}]

\* Types; the voiceprint thread has looked at no window before its audio was
\* all buffered, and the recognizer is never ahead of the buffer.
TypeOK ==
  /\ prod \in {"none", "reading", "push", "draining", "closing", "sentinel", "ended"}
  /\ heard <= pushed /\ pushed <= buffered /\ buffered <= Chunks
  /\ service \in {"off", "on", "canceled", "stopped"}
  /\ \A i \in DOMAIN events : events[i] \in Speech \cup {End}
  /\ cut \in BOOLEAN /\ failed \in BOOLEAN
  /\ voice \in {"none", "running", "ended"}
  /\ \A w \in DOMAIN windows : windows[w] \in Labels \cup {Pending} /\ w + Span <= buffered + 1
  /\ main \in {"start", "warm", "resolver", "events", "revising", "finally", "joining",
               "returned", "raised"}
  /\ rec \in [Speech -> VoteType]
  /\ \A i \in DOMAIN pending : pending[i] \in Speech
  /\ \A i \in DOMAIN out :
       /\ out[i].u \in Speech /\ out[i].event \in {"tentative", "final", "revised"}
       /\ out[i].label = Pending => out[i].event # "final"

Heard == {u \in Speech : u <= heard}
First(e) == e.event # "revised"
Returned == main = "returned" /\ ~failed

\* However recognition ends (a cancel, the end of the session, close(), each
\* with its None), what was recognized before is published, once and in the
\* order it was said, when stream() returns: no None overtakes an utterance.
AllSaid ==
  /\ TypeOK
  /\ \A i, j \in DOMAIN out : i < j /\ First(out[i]) /\ First(out[j]) => out[i].u < out[j].u
  /\ Returned => {out[i].u : i \in {i \in DOMAIN out : First(out[i])}} = Heard

\* Unless recognition was canceled or the drain timed out, stream() returns only
\* after all audio that the source yielded has been recognized.
AllHeard == Returned /\ ~cut => heard = buffered /\ prod \notin {"reading", "push"}

\* A viewer is told of an utterance once, finally or tentatively, and in the
\* second case at most once more; its last news is the record stream() returns.
ToldOfEach ==
  \A i \in DOMAIN out :
    LET again(j) == out[j].u = out[i].u IN
    /\ \A j \in DOMAIN out : i < j /\ again(j) =>
         out[i].event = "tentative" /\ out[j].event = "revised"
    /\ out[i].event = "revised" => \E j \in DOMAIN out : j < i /\ again(j)
    /\ (\A j \in DOMAIN out : i < j => ~again(j)) => out[i].label = rec[out[i].u].label

\* Once the source has ended, every thread of the pipeline does too, whatever
\* the service answers and whether labelling raises.
SourceEndEnds ==
  prod = "draining" ~> main = "returned" /\ prod = "ended" /\ voice = "ended"

\* When the service cancels, stream() comes back although its source goes on.
CancelEnds == service = "canceled" ~> main \in {"returned", "raised"}
=============================================================================
