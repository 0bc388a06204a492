------------------------ MODULE StreamPipelineProofs ------------------------
(* Proofs about StreamPipeline for any audio, speech, windows and labels: all *)
(* audio that the source yielded has been recognized when stream() returns,   *)
(* unless recognition was cut short; what was recognized is published, once   *)
(* and in order; and the last news of an utterance is its record.             *)
EXTENDS StreamPipeline, SequenceTheorems, FiniteSetTheorems, TLAPS

Utterances == Speech \cup {End}

\* What goes through the threads comes out in order, and no faster.
InStep ==
  /\ buffered \in Nat /\ pushed \in Nat /\ heard \in Nat /\ heard <= pushed
  /\ prod # "push" => pushed = buffered
  /\ prod = "push" => pushed <= buffered
  /\ events \in Seq(Utterances)

\* The producer is past the end of its source, and all of it is recognized.
Complete ==
  heard = buffered /\ prod \in {"draining", "closing", "sentinel", "ended"}

\* Nothing has been started before the transcriber is.
Fresh ==
  /\ main = "start" => service = "off" /\ events = <<>>
  /\ main \in {"start", "warm", "resolver"} => prod = "none"

\* The session ends by itself with all audio recognized, or recognition is cut:
\* the service canceled it, or the producer waited too long for it.
Ending ==
  /\ service = "canceled" => cut
  /\ prod \in {"closing", "sentinel", "ended"} /\ service = "on" => cut
  /\ service = "stopped" /\ ~cut => Complete
  /\ prod \in {"sentinel", "ended"} => service = "stopped"

\* So it is the end of the session that puts the None which ends the main loop.
Told ==
  /\ ~cut /\ (\E i \in 1..Len(events) : events[i] = End) => service = "stopped"
  /\ ~cut /\ ~failed /\ main \in {"revising", "finally", "joining", "returned"} =>
       service = "stopped"

PipelineInv == InStep /\ Fresh /\ Ending /\ Told

\* No utterance is the None.
LEMMA EndIsNoSpeech == End \notin Speech
BY ChunksAssumption DEF End

\* What is in the queue after a put.
LEMMA EventPut ==
  ASSUME events \in Seq(Utterances), NEW e \in Utterances, events' = Append(events, e)
  PROVE  /\ events' \in Seq(Utterances)
         /\ \A i \in 1..Len(events') : events'[i] = e \/ \E j \in 1..Len(events) : events[j] = events'[i]
<1>1. /\ events' \in Seq(Utterances) /\ Len(events') = Len(events) + 1
      /\ events'[Len(events) + 1] = e /\ \A i \in 1..Len(events) : events'[i] = events[i]
      /\ Len(events) \in Nat
  BY AppendProperties, LenProperties
<1>2. \A i \in 1..Len(events') : i = Len(events) + 1 \/ i \in 1..Len(events)
  BY <1>1
<1>3. QED
  BY <1>1, <1>2

\* What is in the queue after a get.
LEMMA EventGot ==
  ASSUME events \in Seq(Utterances), events # <<>>, events' = Tail(events)
  PROVE  /\ events' \in Seq(Utterances) /\ Head(events) = events[1] /\ 1 \in 1..Len(events)
         /\ \A i \in 1..Len(events') : \E j \in 1..Len(events) : events[j] = events'[i]
<1>1. /\ events' \in Seq(Utterances) /\ Len(events') = Len(events) - 1
      /\ \A i \in 1..Len(events') : events'[i] = events[i + 1]
      /\ Len(events) \in Nat \ {0} /\ Head(events) = events[1]
  BY HeadTailProperties, LenProperties, EmptySeq
<1>2. \A i \in 1..Len(events') : i + 1 \in 1..Len(events)
  BY <1>1
<1>3. QED
  BY <1>1, <1>2

\* Nothing runs yet.
LEMMA InitInv == Init => PipelineInv
<1>1. <<>> \in Seq(Utterances) /\ Len(<<>>) = 0
  BY EmptySeq
<1>2. QED
  BY <1>1 DEF Init, PipelineInv, InStep, Fresh, Ending, Told, Complete

\* Every step of the threads and of the service keeps it.
LEMMA NextInv == PipelineInv /\ [Next]_vars => PipelineInv'
<1> SUFFICES ASSUME PipelineInv, [Next]_vars PROVE PipelineInv'
  OBVIOUS
<1> USE DEF PipelineInv, prodVars, sdkVars, voiceVars, mainVars, Producing, Main
<1>1. CASE Take
  BY <1>1 DEF Take, InStep, Fresh, Ending, Told, Complete
<1>2. CASE Push
  BY <1>2 DEF Push, InStep, Fresh, Ending, Told, Complete
<1>3. CASE SourceEnds
  BY <1>3 DEF SourceEnds, InStep, Fresh, Ending, Told, Complete
<1>4. CASE Drained
  BY <1>4 DEF Drained, InStep, Fresh, Ending, Told, Complete
<1>5. CASE Stopped
  BY <1>5 DEF Stopped, InStep, Fresh, Ending, Told, Complete
<1>6. CASE PutEnd
  <2>1. /\ prod = "sentinel" /\ prod' = "ended" /\ events' = Append(events, End)
        /\ UNCHANGED <<buffered, pushed, service, heard, cut, voiceVars, mainVars>>
        /\ service = "stopped"
    BY <1>6 DEF PutEnd, Ending
  <2>2. events' \in Seq(Utterances)
    BY <2>1, EventPut DEF InStep, Utterances
  <2>3. QED
    BY <2>1, <2>2 DEF InStep, Fresh, Ending, Told, Complete
<1>7. CASE Transcribed
  <2>1. /\ service = "on" /\ heard < pushed /\ heard' = heard + 1
        /\ events' \in {events, Append(events, heard')} /\ (events' # events => heard' \in Speech)
        /\ UNCHANGED <<service, cut, prodVars, voiceVars, mainVars>>
    BY <1>7 DEF Transcribed
  <2>2. heard' \in Nat /\ heard' <= pushed
    BY <2>1 DEF InStep
  <2>3. events' \in Seq(Utterances)
        /\ \A i \in 1..Len(events') : events'[i] = End => \E j \in 1..Len(events) : events[j] = End
    <3>1. CASE events' = events
      BY <3>1 DEF InStep
    <3>2. CASE events' # events
      <4>1. heard' \in Utterances /\ heard' # End /\ events' = Append(events, heard')
        BY <2>1, <3>2, EndIsNoSpeech DEF Utterances
      <4>2. QED
        BY <4>1, EventPut DEF InStep
    <3>3. QED
      BY <3>1, <3>2
  <2>4. QED
    BY <2>1, <2>2, <2>3 DEF InStep, Fresh, Ending, Told, Complete
<1>8. CASE SessionEnd
  <2>1. /\ service' = "stopped" /\ events' = Append(events, End)
        /\ UNCHANGED <<heard, cut, prodVars, voiceVars, mainVars>>
        /\ service # "off" /\ (~cut => Complete)
    BY <1>8 DEF SessionEnd, InStep, Ending, Complete
  <2>2. events' \in Seq(Utterances)
    BY <2>1, EventPut DEF InStep, Utterances
  <2>3. QED
    BY <2>1, <2>2 DEF InStep, Fresh, Ending, Told, Complete
<1>9. CASE Cancel
  <2>1. /\ service = "on" /\ service' = "canceled" /\ cut' /\ events' = Append(events, End)
        /\ UNCHANGED <<heard, prodVars, voiceVars, mainVars>>
    BY <1>9 DEF Cancel
  <2>2. events' \in Seq(Utterances)
    BY <2>1, EventPut DEF InStep, Utterances
  <2>3. QED
    BY <2>1, <2>2 DEF InStep, Fresh, Ending, Told, Complete
<1>10. CASE Look \/ VoiceEnds
  BY <1>10 DEF Look, VoiceEnds, InStep, Fresh, Ending, Told, Complete
<1>11. CASE Setup
  BY <1>11 DEF Setup, StartTranscriber, StartVoiceprint, StartProducer, SetupFails,
               InStep, Fresh, Ending, Told, Complete
<1>12. CASE LeaveEvents
  <2>1. /\ main = "events" /\ main' = "revising" /\ events # <<>> /\ Head(events) = End
        /\ events' = Tail(events)
        /\ UNCHANGED <<service, heard, cut, failed, prodVars>>
    BY <1>12 DEF LeaveEvents
  <2>2. /\ events' \in Seq(Utterances) /\ \E i \in 1..Len(events) : events[i] = End
    BY <2>1, EventGot DEF InStep
  <2>3. ~cut => service = "stopped"
    BY <2>2 DEF Told
  <2>4. QED
    BY <2>1, <2>2, <2>3 DEF InStep, Fresh, Ending, Told, Complete
<1>13. CASE Record
  <2>1. /\ events # <<>> /\ events' = Tail(events)
        /\ UNCHANGED <<main, failed, service, heard, cut, prodVars>> /\ main = "events"
    BY <1>13 DEF Record
  <2>2. /\ events' \in Seq(Utterances)
        /\ (\E i \in 1..Len(events') : events'[i] = End) => \E i \in 1..Len(events) : events[i] = End
    BY <2>1, EventGot DEF InStep
  <2>3. QED
    BY <2>1, <2>2 DEF InStep, Fresh, Ending, Told, Complete
<1>14. CASE Revise \/ Revised \/ Fails \/ StopVoiceprint \/ Joined
  <2>1. /\ UNCHANGED <<events, service, heard, cut, prodVars>>
        /\ \/ main' = main /\ failed' = failed
           \/ failed' /\ main' = "finally"
           \/ /\ failed' = failed /\ main \in {"revising", "finally", "joining"}
              /\ main' \in {"finally", "joining", "returned"}
    BY <1>14 DEF Revise, Revised, Fails, StopVoiceprint, Joined
  <2>2. QED
    BY <2>1 DEF InStep, Fresh, Ending, Told, Complete
<1>15. CASE UNCHANGED vars
  BY <1>15 DEF vars, InStep, Fresh, Ending, Told, Complete
<1>16. QED
  BY <1>1, <1>2, <1>3, <1>4, <1>5, <1>6, <1>7, <1>8, <1>9, <1>10, <1>11, <1>12, <1>13, <1>14,
     <1>15 DEF Next, Closing, Service, Loop

\* When stream() returns, all audio that the source yielded has been recognized,
\* unless the service canceled or the drain timed out.
THEOREM NothingUnheard == Spec => []AllHeard
<1>1. PipelineInv => AllHeard
  BY DEF PipelineInv, Told, Ending, Complete, AllHeard, Returned
<1>2. QED
  BY <1>1, InitInv, NextInv, PTL DEF Spec
-----------------------------------------------------------------------------
(* The vote.                                                                  *)

\* Whoever has none below it, in the sense of the library, is below all.
LEMMA NotLess == \A x, y \in Nat : <<y, x>> \notin OpToRel(<, Nat) => x <= y
<1>1. ASSUME NEW x \in Nat, NEW y \in Nat, <<y, x>> \notin OpToRel(<, Nat) PROVE ~ (y < x)
  BY <1>1 DEF OpToRel
<1>2. \A x, y \in Nat : ~ (y < x) => x <= y
  OBVIOUS
<1>3. QED
  BY <1>1, <1>2

\* Every set of numbers that is not empty has a least one.
LEMMA LeastOf ==
  ASSUME NEW T \in SUBSET Nat, T # {}
  PROVE  \E x \in T : \A y \in T : x <= y
<1>1. PICK x \in T : \A y \in T : <<y, x>> \notin OpToRel(<, Nat)
  BY NatLessThanWellFounded, WFMin
<1>2. QED
  BY <1>1, NotLess, Zenon

\* Windows have labels, and are made of audio that is buffered.
Windowed ==
  /\ windows \in Seq(Labels \cup {Pending})
  /\ \A w \in 1..Len(windows) : w + Span <= buffered + 1

\* The voters are finitely many, and so are those for a label.
LEMMA VotersFinite ==
  ASSUME Windowed, NEW u
  PROVE  /\ Voters(u) \in SUBSET Nat /\ IsFiniteSet(Voters(u)) /\ Cardinality(Voters(u)) \in Nat
         /\ \A l : Votes(u, l) \in Nat /\ Votes(u, l) <= Cardinality(Voters(u))
<1>1. DOMAIN windows = 1..Len(windows) /\ Len(windows) \in Nat
  BY LenProperties DEF Windowed
<1>2. Voters(u) \in SUBSET (1..Len(windows)) /\ IsFiniteSet(1..Len(windows))
  BY <1>1, FS_Interval DEF Voters
<1>3. IsFiniteSet(Voters(u)) /\ Cardinality(Voters(u)) \in Nat
  BY <1>2, FS_Subset, FS_CardinalityType
<1>4. ASSUME NEW l PROVE Votes(u, l) \in Nat /\ Votes(u, l) <= Cardinality(Voters(u))
  <2> DEFINE W == {w \in Voters(u) : windows[w] = l}
  <2>1. W \in SUBSET Voters(u)
    OBVIOUS
  <2>2. IsFiniteSet(W) /\ Cardinality(W) <= Cardinality(Voters(u)) /\ Cardinality(W) \in Nat
    BY <1>3, <2>1, FS_Subset, FS_CardinalityType
  <2>3. QED
    BY <2>2 DEF Votes
<1>5. QED
  BY <1>2, <1>3, <1>4

\* Some label has the most votes: the vote names a label of a window, with a
\* count; and without a voter it is pending, and unsure.
LEMMA VoteCounts ==
  ASSUME Windowed, NEW u
  PROVE  Vote(u) \in VoteType /\ (Vote(u).label = Pending => Unsure(Vote(u)))
<1>1. CASE Voters(u) = {}
  BY <1>1 DEF Vote, NoVote, VoteType, Unsure
<1>2. CASE Voters(u) # {}
  <2> DEFINE all == Cardinality(Voters(u))
             lost(w) == all - Votes(u, windows[w])
             T == {lost(w) : w \in Voters(u)}
             most == {w \in Voters(u) : \A x \in Voters(u) :
                        Votes(u, windows[x]) <= Votes(u, windows[w])}
  <2>1. T \in SUBSET Nat /\ T # {}
    BY <1>2, VotersFinite
  <2>2. PICK n \in T : \A k \in T : n <= k
    BY <2>1, LeastOf
  <2>3. PICK w \in Voters(u) : n = lost(w)
    BY <2>2
  <2>4. w \in most
    <3>1. ASSUME NEW x \in Voters(u) PROVE Votes(u, windows[x]) <= Votes(u, windows[w])
      <4>1. lost(w) <= lost(x)
        BY <2>2, <2>3
      <4>2. /\ Votes(u, windows[x]) \in Nat /\ Votes(u, windows[w]) \in Nat /\ all \in Nat
        BY VotersFinite
      <4>3. QED
        BY <4>1, <4>2
    <3>2. QED
      BY <3>1
  <2>5. most \in SUBSET Nat /\ most # {}
    BY <2>4, VotersFinite
  <2> DEFINE i == Min(most)
  <2>6. i \in most
    <3>1. \E x \in most : \A y \in most : x <= y
      BY <2>5, LeastOf
    <3> HIDE DEF most
    <3>2. QED
      BY <3>1 DEF Min
  <2>7. i \in Voters(u) /\ windows[i] \in Labels
    <3>1. i \in Voters(u)
      BY <2>6
    <3>2. i \in DOMAIN windows /\ windows[i] # Pending
      BY <3>1 DEF Voters
    <3>3. windows[i] \in Labels \cup {Pending}
      BY <3>2, ElementOfSeq DEF Windowed
    <3>4. QED
      BY <3>1, <3>2, <3>3
  <2>8. Vote(u) = [label |-> windows[i], count |-> Votes(u, windows[i]), of |-> all]
    BY <1>2 DEF Vote
  <2>9. Votes(u, windows[i]) \in Nat /\ all \in Nat \ {0}
    BY <1>2, VotersFinite, FS_EmptySet
  <2> HIDE DEF i, all
  <2>10. QED
    BY <2>7, <2>8, <2>9, PendingAssumption DEF VoteType
<1>3. QED
  BY <1>1, <1>2
-----------------------------------------------------------------------------
(* What is published.                                                         *)

News == [u : Speech, event : {"tentative", "final", "revised"}, label : Labels \cup {Pending}]

Typed ==
  /\ buffered <= Chunks
  /\ prod \in {"none", "reading", "push", "draining", "closing", "sentinel", "ended"}
  /\ service \in {"off", "on", "canceled", "stopped"}
  /\ cut \in BOOLEAN /\ failed \in BOOLEAN
  /\ voice \in {"none", "running", "ended"}
  /\ main \in {"start", "warm", "resolver", "events", "revising", "finally", "joining",
               "returned", "raised"}
  /\ Windowed
  /\ rec \in [Speech -> VoteType]
  /\ pending \in Seq(Speech)
  /\ out \in Seq(News)
  /\ \A i \in 1..Len(out) : out[i].label = Pending => out[i].event # "final"

\* The queue holds utterances in the order they were said, and then only Ends.
Queued ==
  /\ \A i \in 1..Len(events) : events[i] <= heard
  /\ \A i, j \in 1..Len(events) : i < j /\ events[j] # End =>
       events[i] # End /\ events[i] < events[j]

\* An utterance is heard when it waits in the queue or is told, and what is told
\* was said before all that waits.
Waits(u) == \E i \in 1..Len(events) : events[i] = u
IsTold(u) == \E i \in 1..Len(out) : First(out[i]) /\ out[i].u = u
Passed ==
  /\ \A u \in Speech : u <= heard <=> Waits(u) \/ IsTold(u)
  /\ \A i \in 1..Len(out), j \in 1..Len(events) : events[j] # End => out[i].u < events[j]
  /\ \A i, j \in 1..Len(out) : i < j /\ First(out[i]) /\ First(out[j]) => out[i].u < out[j].u

\* Nothing is recognized after an End; so the main loop leaves events() with no
\* utterance behind.
Over ==
  /\ Waits(End) => service \in {"canceled", "stopped"}
  /\ main \in {"revising", "finally", "joining", "returned"} /\ ~failed =>
       service \in {"canceled", "stopped"} /\ \A u \in Speech : ~Waits(u)

\* What is to be looked at again is there once, and was told once, tentatively.
Again ==
  /\ \A k, l \in 1..Len(pending) : k < l => pending[k] # pending[l]
  /\ \A k \in 1..Len(pending) :
       /\ \E i \in 1..Len(out) : out[i].u = pending[k]
       /\ \A i \in 1..Len(out) : out[i].u = pending[k] => out[i].event = "tentative"


\* A sequence with one more at its end.
LEMMA SeqPut ==
  ASSUME NEW S, NEW s \in Seq(S), NEW e \in S
  PROVE  /\ Append(s, e) \in Seq(S) /\ Len(s) \in Nat /\ Len(Append(s, e)) = Len(s) + 1
         /\ Append(s, e)[Len(s) + 1] = e /\ \A i \in 1..Len(s) : Append(s, e)[i] = s[i]
         /\ \A i \in 1..Len(Append(s, e)) : i = Len(s) + 1 \/ i \in 1..Len(s)
         /\ 1..Len(s) \subseteq 1..Len(Append(s, e)) /\ Len(s) + 1 \in 1..Len(Append(s, e))
<1>1. /\ Append(s, e) \in Seq(S) /\ Len(s) \in Nat /\ Len(Append(s, e)) = Len(s) + 1
      /\ Append(s, e)[Len(s) + 1] = e /\ \A i \in 1..Len(s) : Append(s, e)[i] = s[i]
  BY AppendProperties, LenProperties
<1>2. QED
  BY <1>1

\* A sequence without its first.
LEMMA SeqGot ==
  ASSUME NEW S, NEW s \in Seq(S), s # <<>>
  PROVE  /\ Tail(s) \in Seq(S) /\ Len(s) \in Nat /\ Len(Tail(s)) = Len(s) - 1
         /\ Head(s) = s[1] /\ 1 \in 1..Len(s) /\ Head(s) \in S
         /\ \A i \in 1..Len(Tail(s)) : i + 1 \in 1..Len(s) /\ 1 < i + 1 /\ Tail(s)[i] = s[i + 1]
         /\ \A i \in 1..Len(s) : i = 1 \/ (i - 1 \in 1..Len(Tail(s)) /\ Tail(s)[i - 1] = s[i])
<1>1. /\ Tail(s) \in Seq(S) /\ Len(Tail(s)) = Len(s) - 1 /\ Len(s) \in Nat \ {0}
      /\ Head(s) = s[1] /\ \A i \in 1..Len(Tail(s)) : Tail(s)[i] = s[i + 1]
  BY HeadTailProperties, LenProperties, EmptySeq
<1>2. s[1] \in S
  BY <1>1, ElementOfSeq
<1>3. ASSUME NEW i \in 1..Len(s), i # 1 PROVE i - 1 \in 1..Len(Tail(s)) /\ Tail(s)[i - 1] = s[i]
  <2>1. i - 1 \in 1..Len(Tail(s)) /\ (i - 1) + 1 = i
    BY <1>1, <1>3
  <2>2. QED
    BY <1>1, <2>1
<1>4. \A i \in 1..Len(Tail(s)) : i + 1 \in 1..Len(s) /\ 1 < i + 1
  BY <1>1
<1>5. 1 \in 1..Len(s)
  BY <1>1
<1>6. \A i \in 1..Len(s) : i = 1 \/ (i - 1 \in 1..Len(Tail(s)) /\ Tail(s)[i - 1] = s[i])
  BY <1>3
<1>7. \A i \in 1..Len(Tail(s)) : i + 1 \in 1..Len(s) /\ 1 < i + 1 /\ Tail(s)[i] = s[i + 1]
  BY <1>1, <1>4
<1>8. QED
  BY <1>1, <1>2, <1>5, <1>6, <1>7

\* Whoever is told again was told before.
LEMMA EachIsTold ==
  ASSUME Typed, ToldOfEach, NEW i \in 1..Len(out)
  PROVE  out[i].u \in Speech /\ IsTold(out[i].u)
<1>1. DOMAIN out = 1..Len(out) /\ Len(out) \in Nat
  BY LenProperties DEF Typed
<1>2. \A j \in 1..Len(out) : out[j] \in News
  BY ElementOfSeq DEF Typed
<1>3. CASE out[i].event # "revised"
  BY <1>2, <1>3 DEF IsTold, First, News
<1>4. CASE out[i].event = "revised"
  <2>1. PICK j \in 1..Len(out) : j < i /\ out[j].u = out[i].u
    BY <1>1, <1>4 DEF ToldOfEach
  <2>2. out[j].event = "tentative"
    BY <1>1, <2>1 DEF ToldOfEach
  <2>3. QED
    BY <1>2, <2>1, <2>2 DEF IsTold, First, News
<1>5. QED
  BY <1>3, <1>4

\* A None behind what waits.
LEMMA EndPut ==
  ASSUME PipelineInv, Queued, Passed, events' = Append(events, End), UNCHANGED <<heard, out>>
  PROVE  /\ Queued' /\ Passed'
         /\ \A u \in Speech : Waits(u)' <=> Waits(u)
<1>1. /\ events' \in Seq(Utterances) /\ Len(events) \in Nat /\ Len(events') = Len(events) + 1
      /\ events'[Len(events) + 1] = End /\ \A i \in 1..Len(events) : events'[i] = events[i]
      /\ \A i \in 1..Len(events') : i = Len(events) + 1 \/ i \in 1..Len(events)
      /\ 1..Len(events) \subseteq 1..Len(events')
  <2>1. events \in Seq(Utterances) /\ End \in Utterances
    BY DEF PipelineInv, InStep, Utterances
  <2>2. QED
    BY <2>1, SeqPut
<1>2. \A u \in Speech : Waits(u)' <=> Waits(u)
  BY <1>1, EndIsNoSpeech DEF Waits
<1>3. heard \in Nat
  BY DEF PipelineInv, InStep
<1>4. Queued'
  <2>1. \A i \in 1..Len(events') : events'[i] <= heard
    BY <1>1, <1>3 DEF Queued, End
  <2>2. ASSUME NEW i \in 1..Len(events'), NEW j \in 1..Len(events'), i < j, events'[j] # End
        PROVE  events'[i] # End /\ events'[i] < events'[j]
    <3>1. i \in 1..Len(events) /\ j \in 1..Len(events)
      BY <1>1, <2>2
    <3>2. QED
      BY <1>1, <2>2, <3>1 DEF Queued
  <2>3. QED
    BY <2>1, <2>2 DEF Queued
<1>5. Passed'
  <2>1. \A u \in Speech : IsTold(u)' <=> IsTold(u)
    BY DEF IsTold, First
  <2>2. \A u \in Speech : u <= heard <=> Waits(u)' \/ IsTold(u)'
    BY <1>2, <2>1 DEF Passed
  <2>3. \A i \in 1..Len(out), j \in 1..Len(events') : events'[j] # End => out[i].u < events'[j]
    BY <1>1 DEF Passed
  <2>4. \A i, j \in 1..Len(out) : i < j /\ First(out[i]) /\ First(out[j]) => out[i].u < out[j].u
    BY DEF Passed
  <2>5. QED
    BY <2>2, <2>3, <2>4 DEF Passed, First
<1>6. QED
  BY <1>2, <1>4, <1>5

\* An utterance behind what waits.
LEMMA SpeechPut ==
  ASSUME PipelineInv, Typed, Queued, Passed, Over, Again, ToldOfEach, Transcribed
  PROVE  Queued' /\ Passed' /\ Over'
<1>1. /\ service = "on" /\ heard' = heard + 1
      /\ events' = IF heard' \in Speech THEN Append(events, heard') ELSE events
      /\ UNCHANGED <<service, out, main, failed>>
  BY DEF Transcribed, mainVars
<1>2. heard \in Nat /\ heard' \in Nat /\ events \in Seq(Utterances)
  BY <1>1 DEF PipelineInv, InStep
<1>3. ~Waits(End) /\ ~(main \in {"revising", "finally", "joining", "returned"} /\ ~failed)
  BY <1>1 DEF Over
<1>4. \A i \in 1..Len(events) : events[i] # End /\ events[i] <= heard /\ events[i] \in Speech
  <2>1. \A i \in 1..Len(events) : events[i] \in Utterances
    BY <1>2, ElementOfSeq
  <2>2. QED
    BY <1>3, <2>1 DEF Queued, Waits, Utterances
<1>5. \A i \in 1..Len(out) : out[i].u \in Speech /\ IsTold(out[i].u)
  BY EachIsTold
<1>6. \A u \in Speech : u \in Nat
  BY ChunksAssumption
<1>7. \A i \in 1..Len(out) : out[i].u <= heard
  BY <1>5 DEF Passed
<1>8. CASE heard' \notin Speech
  <2>1. events' = events
    BY <1>1, <1>8
  <2>2. \A u \in Speech : u <= heard' <=> u <= heard
    BY <1>1, <1>2, <1>6, <1>8
  <2>3. Queued'
    <3>1. \A i \in 1..Len(events) : events[i] <= heard'
      BY <1>1, <1>2, <1>4, <1>6
    <3>2. QED
      BY <2>1, <3>1 DEF Queued
  <2>4. Passed'
    BY <1>1, <2>1, <2>2 DEF Passed, Waits, IsTold, First
  <2>5. Over'
    BY <1>1, <1>3, <2>1 DEF Over, Waits
  <2>6. QED
    BY <2>3, <2>4, <2>5
<1>9. CASE heard' \in Speech
  <2>1. /\ events' \in Seq(Utterances) /\ Len(events) \in Nat /\ Len(events') = Len(events) + 1
        /\ events'[Len(events) + 1] = heard' /\ \A i \in 1..Len(events) : events'[i] = events[i]
        /\ \A i \in 1..Len(events') : i = Len(events) + 1 \/ i \in 1..Len(events)
        /\ 1..Len(events) \subseteq 1..Len(events') /\ Len(events) + 1 \in 1..Len(events')
    <3>1. heard' \in Utterances /\ events' = Append(events, heard')
      BY <1>1, <1>9 DEF Utterances
    <3>2. QED
      BY <1>2, <3>1, SeqPut
  <2>2. heard' # End
    BY <1>9, EndIsNoSpeech
  <2>3. Queued'
    <3>1. \A i \in 1..Len(events') : events'[i] <= heard'
      BY <1>1, <1>2, <1>4, <1>6, <2>1
    <3>2. ASSUME NEW i \in 1..Len(events'), NEW j \in 1..Len(events'), i < j
          PROVE  events'[i] # End /\ events'[i] < events'[j]
      <4>1. i \in 1..Len(events) /\ events'[i] = events[i]
        BY <2>1, <3>2
      <4>2. CASE j \in 1..Len(events)
        BY <1>4, <2>1, <3>2, <4>1, <4>2 DEF Queued
      <4>3. CASE j = Len(events) + 1
        BY <1>1, <1>2, <1>4, <1>6, <2>1, <4>1, <4>3
      <4>4. QED
        BY <2>1, <4>2, <4>3
    <3>3. QED
      BY <3>1, <3>2 DEF Queued
  <2>4. Passed'
    <3>1. \A u \in Speech : Waits(u)' <=> Waits(u) \/ u = heard'
      BY <2>1 DEF Waits
    <3>2. \A u \in Speech : u <= heard' <=> u <= heard \/ u = heard'
      BY <1>1, <1>2, <1>6
    <3>3. \A u \in Speech : IsTold(u)' <=> IsTold(u)
      BY <1>1 DEF IsTold, First
    <3>4. \A u \in Speech : u <= heard' <=> Waits(u)' \/ IsTold(u)'
      BY <3>1, <3>2, <3>3 DEF Passed
    <3>5. ASSUME NEW i \in 1..Len(out), NEW j \in 1..Len(events') PROVE out[i].u < events'[j]
      <4>1. CASE j \in 1..Len(events)
        BY <1>4, <2>1, <4>1 DEF Passed
      <4>2. CASE j = Len(events) + 1
        BY <1>1, <1>2, <1>5, <1>6, <1>7, <2>1, <4>2
      <4>3. QED
        BY <2>1, <4>1, <4>2
    <3>6. QED
      BY <1>1, <3>4, <3>5 DEF Passed, First
  <2>5. Over'
    BY <1>1, <1>3, <2>1, <2>2 DEF Over, Waits
  <2>6. QED
    BY <2>3, <2>4, <2>5
<1>10. QED
  BY <1>8, <1>9

\* What is left in the queue after a get.
LEMMA EventLeft ==
  ASSUME PipelineInv, Typed, Queued, Passed, events # <<>>, events' = Tail(events), UNCHANGED heard
  PROVE  /\ Head(events) \in Utterances /\ Waits(Head(events)) /\ Queued'
         /\ \A i \in 1..Len(events') : events'[i] # End => Head(events) # End /\ Head(events) < events'[i]
         /\ \A u : Waits(u) => u = Head(events) \/ Waits(u)'
         /\ \A u : Waits(u)' => Waits(u)
         /\ \A i \in 1..Len(out), j \in 1..Len(events') : events'[j] # End => out[i].u < events'[j]
         /\ \A i \in 1..Len(out) : Head(events) # End => out[i].u < Head(events)
<1>1. /\ events' \in Seq(Utterances) /\ Len(events) \in Nat /\ Len(events') = Len(events) - 1
      /\ Head(events) = events[1] /\ 1 \in 1..Len(events) /\ Head(events) \in Utterances
      /\ \A i \in 1..Len(events') : i + 1 \in 1..Len(events) /\ 1 < i + 1 /\ events'[i] = events[i + 1]
      /\ \A i \in 1..Len(events) : i = 1 \/ (i - 1 \in 1..Len(events') /\ events'[i - 1] = events[i])
  <2>1. events \in Seq(Utterances)
    BY DEF PipelineInv, InStep
  <2>2. QED
    BY <2>1, SeqGot
<1>2. Queued'
  <2>1. \A i \in 1..Len(events') : events'[i] <= heard
    BY <1>1 DEF Queued
  <2>2. ASSUME NEW i \in 1..Len(events'), NEW j \in 1..Len(events'), i < j, events'[j] # End
        PROVE  events'[i] # End /\ events'[i] < events'[j]
    <3>1. /\ i + 1 \in 1..Len(events) /\ j + 1 \in 1..Len(events) /\ i + 1 < j + 1
          /\ events'[i] = events[i + 1] /\ events'[j] = events[j + 1]
      BY <1>1, <2>2
    <3>2. QED
      BY <2>2, <3>1 DEF Queued
  <2>3. QED
    BY <2>1, <2>2 DEF Queued
<1>3. ASSUME NEW i \in 1..Len(events'), events'[i] # End
      PROVE  Head(events) # End /\ Head(events) < events'[i]
  <2>1. i + 1 \in 1..Len(events) /\ 1 < i + 1 /\ events'[i] = events[i + 1]
    BY <1>1
  <2>2. QED
    BY <1>1, <1>3, <2>1 DEF Queued
<1>4. ASSUME NEW u, Waits(u) PROVE u = Head(events) \/ Waits(u)'
  <2>1. PICK i \in 1..Len(events) : events[i] = u
    BY <1>4 DEF Waits
  <2>2. QED
    BY <1>1, <2>1 DEF Waits
<1>5. ASSUME NEW u, Waits(u)' PROVE Waits(u)
  BY <1>1, <1>5 DEF Waits
<1>6. ASSUME NEW i \in 1..Len(out), NEW j \in 1..Len(events'), events'[j] # End
      PROVE  out[i].u < events'[j]
  <2>1. j + 1 \in 1..Len(events) /\ events'[j] = events[j + 1]
    BY <1>1
  <2>2. QED
    BY <1>6, <2>1 DEF Passed
<1>7. QED
  BY <1>1, <1>2, <1>3, <1>4, <1>5, <1>6 DEF Waits, Passed

\* events() returns: only Ends are left.
LEMMA Left ==
  ASSUME PipelineInv, Typed, Queued, Passed, Over, LeaveEvents
  PROVE  Queued' /\ Passed' /\ Over'
<1>1. /\ events # <<>> /\ Head(events) = End /\ events' = Tail(events) /\ main' = "revising"
      /\ UNCHANGED <<heard, out, service, failed>>
  BY DEF LeaveEvents, Main, mainVars
<1>2. service \in {"canceled", "stopped"}
  BY <1>1, EventLeft DEF Over
<1>3. \A u \in Speech : ~Waits(u)'
  BY <1>1, EventLeft, EndIsNoSpeech DEF Waits
<1>4. \A u \in Speech : ~Waits(u)
  BY <1>1, <1>3, EventLeft, EndIsNoSpeech
<1>5. Passed'
  <2>1. \A u \in Speech : u <= heard <=> Waits(u)' \/ IsTold(u)'
    BY <1>1, <1>3, <1>4 DEF Passed, IsTold, First
  <2>2. QED
    BY <1>1, <2>1, EventLeft DEF Passed, First
<1>6. Over'
  BY <1>1, <1>2, <1>3 DEF Over
<1>7. QED
  BY <1>1, <1>5, <1>6, EventLeft

\* A record is told of, after all others, and waits no more.
LEMMA Recorded ==
  ASSUME PipelineInv, Typed, Queued, Passed, Over, Again, ToldOfEach, Record
  PROVE  Typed' /\ Queued' /\ Passed' /\ Over' /\ Again' /\ ToldOfEach'
<1> DEFINE u == Head(events)
           v == Vote(u)
           e == [u |-> u, event |-> IF Unsure(v) THEN "tentative" ELSE "final", label |-> v.label]
           n == Len(out)
<1>1. /\ main = "events" /\ events # <<>> /\ u # End /\ events' = Tail(events)
      /\ UNCHANGED <<main, failed, service, heard, cut, prodVars, voiceVars>>
      /\ rec' = [rec EXCEPT ![u] = v]
      /\ pending' = IF Unsure(v) THEN Append(pending, u) ELSE pending
      /\ Unsure(v) => out' = Emit(u, "tentative")
      /\ ~Unsure(v) => out' = Emit(u, "final")
  BY DEF Record
<1>2. u \in Speech /\ Waits(u)
  BY <1>1, EventLeft DEF Utterances
<1>3. v \in VoteType /\ (v.label = Pending => Unsure(v))
  BY VoteCounts DEF Typed
<1>4. /\ rec' \in [Speech -> VoteType] /\ rec'[u] = v
      /\ \A s \in Speech : s # u => rec'[s] = rec[s]
  BY <1>1, <1>2, <1>3 DEF Typed
<1>5. out' = Append(out, e) /\ e \in News /\ out \in Seq(News) /\ First(e)
      /\ (e.label = Pending => e.event # "final")
  <2>1. v.label \in Labels \cup {Pending}
    BY <1>3 DEF VoteType
  <2> HIDE DEF v, u
  <2>2. out' = Append(out, e)
    BY <1>1, <1>4 DEF Emit
  <2>3. QED
    BY <1>2, <1>3, <2>1, <2>2 DEF News, First, Typed
<1>6. /\ out' \in Seq(News) /\ n \in Nat /\ Len(out') = n + 1 /\ out'[n + 1] = e
      /\ \A i \in 1..n : out'[i] = out[i]
      /\ \A i \in 1..Len(out') : i = n + 1 \/ i \in 1..n
      /\ 1..n \subseteq 1..Len(out') /\ n + 1 \in 1..Len(out')
  <2> HIDE DEF e
  <2>1. QED
    BY <1>5, SeqPut
<1>7. DOMAIN out = 1..n /\ DOMAIN out' = 1..Len(out')
  BY <1>5, <1>6, LenProperties
<1>8. \A i \in 1..n : out[i].u \in Speech /\ out[i].u < u /\ out[i].u # u
  <2>1. \A s \in Speech : s \in Nat
    BY ChunksAssumption
  <2>2. \A i \in 1..n : out[i].u \in Speech /\ out[i].u < u
    BY <1>1, EventLeft, EachIsTold
  <2> HIDE DEF u
  <2>3. QED
    BY <1>2, <2>1, <2>2
<1>9. e.u = u /\ e.label = v.label /\ e.event \in {"tentative", "final"}
  OBVIOUS
<1>10. \A k \in 1..Len(pending) : pending[k] # u
  BY <1>8 DEF Again
<1>11. pending \in Seq(Speech)
  BY DEF Typed
<1>12. /\ Unsure(v) => /\ pending' \in Seq(Speech) /\ Len(pending) \in Nat
                       /\ Len(pending') = Len(pending) + 1 /\ pending'[Len(pending) + 1] = u
                       /\ \A k \in 1..Len(pending) : pending'[k] = pending[k]
                       /\ \A k \in 1..Len(pending') : k = Len(pending) + 1 \/ k \in 1..Len(pending)
       /\ ~Unsure(v) => pending' = pending
  BY <1>1, <1>2, <1>11, SeqPut
<1> HIDE DEF u, v, n
<1>13. Unsure(v) => e.event = "tentative"
  OBVIOUS
<1> HIDE DEF e
<1>14. Typed'
  <2>1. pending' \in Seq(Speech)
    BY <1>11, <1>12
  <2>2. \A i \in 1..Len(out') : out'[i].label = Pending => out'[i].event # "final"
    BY <1>5, <1>6 DEF Typed, n
  <2>3. Windowed'
    BY <1>1 DEF Typed, Windowed, voiceVars, prodVars
  <2>4. QED
    BY <1>1, <1>4, <1>6, <2>1, <2>2, <2>3 DEF Typed, voiceVars, prodVars
<1>15. Queued'
  BY <1>1, EventLeft
<1>16. Passed'
  <2>1. \A s \in Speech : IsTold(s)' <=> IsTold(s) \/ s = u
    BY <1>5, <1>6, <1>9 DEF IsTold, First, n
  <2>2. \A s \in Speech : Waits(s) => s = u \/ Waits(s)'
    BY <1>1, EventLeft DEF u
  <2>3. \A s \in Speech : Waits(s)' => Waits(s)
    BY <1>1, EventLeft
  <2>4. \A s \in Speech : s <= heard <=> Waits(s)' \/ IsTold(s)'
    BY <1>2, <2>1, <2>2, <2>3 DEF Passed
  <2>5. \A i \in 1..Len(out'), j \in 1..Len(events') : events'[j] # End => out'[i].u < events'[j]
    BY <1>1, <1>6, <1>9, EventLeft DEF u, n
  <2>6. \A i, j \in 1..Len(out') : i < j /\ First(out'[i]) /\ First(out'[j]) => out'[i].u < out'[j].u
    BY <1>6, <1>8, <1>9 DEF Passed, n
  <2>7. QED
    BY <1>1, <2>4, <2>5, <2>6 DEF Passed, First
<1>17. Over'
  <2>1. Waits(End)' => Waits(End)
    BY <1>1, EventLeft
  <2>2. QED
    BY <1>1, <2>1 DEF Over
<1>18. Again'
  <2>1. CASE Unsure(v)
    <3>1. \A k, l \in 1..Len(pending') : k < l => pending'[k] # pending'[l]
      BY <1>10, <1>12, <2>1 DEF Again
    <3>2. ASSUME NEW k \in 1..Len(pending')
          PROVE  /\ \E i \in 1..Len(out') : out'[i].u = pending'[k]
                 /\ \A i \in 1..Len(out') : out'[i].u = pending'[k] => out'[i].event = "tentative"
      <4>1. CASE k \in 1..Len(pending)
        <5>1. pending'[k] = pending[k] /\ pending[k] # u
          BY <1>10, <1>12, <2>1, <4>1
        <5>2. \E i \in 1..Len(out') : out'[i].u = pending[k]
          BY <1>6, <4>1 DEF Again, n
        <5>3. \A i \in 1..Len(out') : out'[i].u = pending[k] => out'[i].event = "tentative"
          BY <1>6, <1>9, <4>1, <5>1 DEF Again, n
        <5>4. QED
          BY <5>1, <5>2, <5>3
      <4>2. CASE k = Len(pending) + 1
        BY <1>6, <1>8, <1>9, <1>12, <1>13, <2>1, <4>2
      <4>3. QED
        BY <1>12, <2>1, <4>1, <4>2
    <3>3. QED
      BY <3>1, <3>2 DEF Again
  <2>2. CASE ~Unsure(v)
    <3>1. pending' = pending
      BY <1>12, <2>2
    <3>2. \A k \in 1..Len(pending) : \E i \in 1..Len(out') : out'[i].u = pending[k]
      BY <1>6 DEF Again, n
    <3>3. ASSUME NEW k \in 1..Len(pending), NEW i \in 1..Len(out'), out'[i].u = pending[k]
          PROVE  out'[i].event = "tentative"
      <4>1. i \in 1..n /\ out'[i] = out[i]
        BY <1>6, <1>9, <1>10, <3>3
      <4>2. QED
        BY <3>3, <4>1 DEF Again, n
    <3>4. QED
      BY <3>1, <3>2, <3>3 DEF Again
  <2>3. QED
    BY <2>1, <2>2
<1>19. ToldOfEach'
  <2> SUFFICES ASSUME NEW i \in 1..Len(out')
               PROVE  /\ \A j \in 1..Len(out') : i < j /\ out'[j].u = out'[i].u =>
                           out'[i].event = "tentative" /\ out'[j].event = "revised"
                      /\ out'[i].event = "revised" =>
                           \E j \in 1..Len(out') : j < i /\ out'[j].u = out'[i].u
                      /\ (\A j \in 1..Len(out') : i < j => ~(out'[j].u = out'[i].u)) =>
                           out'[i].label = rec'[out'[i].u].label
    BY <1>7 DEF ToldOfEach
  <2>1. CASE i = n + 1
    <3>1. \A j \in 1..Len(out') : ~(i < j)
      BY <1>6, <2>1
    <3>2. QED
      BY <1>4, <1>6, <1>9, <2>1, <3>1
  <2>2. CASE i \in 1..n
    <3>1. out'[i] = out[i] /\ out[i].u # u /\ out[i].u \in Speech
      BY <1>6, <1>8, <2>2
    <3>2. /\ \A j \in 1..n : i < j /\ out[j].u = out[i].u =>
               out[i].event = "tentative" /\ out[j].event = "revised"
          /\ out[i].event = "revised" => \E j \in 1..n : j < i /\ out[j].u = out[i].u
          /\ (\A j \in 1..n : i < j => ~(out[j].u = out[i].u)) => out[i].label = rec[out[i].u].label
      BY <1>7, <2>2 DEF ToldOfEach
    <3>3. \A j \in 1..Len(out') : out'[j].u = out'[i].u => j \in 1..n /\ out'[j] = out[j]
      BY <1>6, <1>9, <3>1
    <3>4. rec'[out'[i].u] = rec[out[i].u]
      BY <1>4, <3>1
    <3>5. \A j \in 1..n : j \in 1..Len(out') /\ out'[j] = out[j]
      BY <1>6
    <3>6. QED
      BY <3>1, <3>2, <3>3, <3>4, <3>5
  <2>3. QED
    BY <1>6, <2>1, <2>2
<1>20. QED
  BY <1>14, <1>15, <1>16, <1>17, <1>18, <1>19

\* A second look: the record and its news change together, or nothing does.
LEMMA LookedAgain ==
  ASSUME PipelineInv, Typed, Queued, Passed, Over, Again, ToldOfEach, Revise
  PROVE  Typed' /\ Queued' /\ Passed' /\ Over' /\ Again' /\ ToldOfEach'
<1> DEFINE u == Head(pending)
           v == Vote(u)
           e == [u |-> u, event |-> "revised", label |-> v.label]
           n == Len(out)
<1>1. /\ main = "revising" /\ pending # <<>> /\ pending' = Tail(pending)
      /\ UNCHANGED <<main, failed, prodVars, sdkVars, voiceVars>>
      /\ \/ rec' = [rec EXCEPT ![u] = v] /\ out' = Emit(u, "revised")
         \/ rec' = rec /\ out' = out
  BY DEF Revise
<1>2. /\ pending' \in Seq(Speech) /\ u \in Speech /\ 1 \in 1..Len(pending) /\ u = pending[1]
      /\ \A k \in 1..Len(pending') : k + 1 \in 1..Len(pending) /\ 1 < k + 1 /\ pending'[k] = pending[k + 1]
  BY <1>1, SeqGot DEF Typed
<1>3. /\ \E i \in 1..n : out[i].u = u
      /\ \A i \in 1..n : out[i].u = u => out[i].event = "tentative"
      /\ \A k \in 1..Len(pending') : pending'[k] # u
  BY <1>2 DEF Again
<1>4. \A k, l \in 1..Len(pending') : k < l => pending'[k] # pending'[l]
  <2>1. ASSUME NEW k \in 1..Len(pending'), NEW l \in 1..Len(pending'), k < l
        PROVE  pending'[k] # pending'[l]
    <3>1. /\ k + 1 \in 1..Len(pending) /\ l + 1 \in 1..Len(pending) /\ k + 1 < l + 1
          /\ pending'[k] = pending[k + 1] /\ pending'[l] = pending[l + 1]
      BY <1>2, <2>1
    <3>2. QED
      BY <3>1 DEF Again
  <2>2. QED
    BY <2>1
<1>5. \A k \in 1..Len(pending') :
        /\ \E i \in 1..n : out[i].u = pending'[k]
        /\ \A i \in 1..n : out[i].u = pending'[k] => out[i].event = "tentative"
  BY <1>2 DEF Again
<1>6. Queued' /\ Windowed'
  BY <1>1 DEF Queued, Typed, Windowed, sdkVars, voiceVars, prodVars
<1>7. Over'
  BY <1>1 DEF Over, Waits, sdkVars
<1>8. CASE rec' = rec /\ out' = out
  <2>1. Passed'
    BY <1>1, <1>8 DEF Passed, Waits, IsTold, First, sdkVars
  <2>2. Again'
    BY <1>4, <1>5, <1>8 DEF Again
  <2>3. ToldOfEach'
    BY <1>8 DEF ToldOfEach
  <2>4. Typed'
    BY <1>1, <1>2, <1>6, <1>8 DEF Typed, sdkVars, voiceVars, prodVars
  <2>5. QED
    BY <1>6, <1>7, <2>1, <2>2, <2>3, <2>4
<1>9. CASE rec' = [rec EXCEPT ![u] = v] /\ out' = Emit(u, "revised")
  <2>1. v \in VoteType
    BY VoteCounts DEF Typed
  <2>2. /\ rec' \in [Speech -> VoteType] /\ rec'[u] = v
        /\ \A s \in Speech : s # u => rec'[s] = rec[s]
    BY <1>2, <1>9, <2>1 DEF Typed
  <2>3. out' = Append(out, e) /\ e \in News /\ out \in Seq(News)
    <3>1. v.label \in Labels \cup {Pending}
      BY <2>1 DEF VoteType
    <3> HIDE DEF v, u
    <3>2. QED
      BY <1>2, <1>9, <2>2, <3>1 DEF Emit, News, Typed
  <2>4. e.u = u /\ e.label = v.label /\ e.event = "revised" /\ ~First(e)
    BY DEF First
  <2> HIDE DEF e
  <2>5. /\ out' \in Seq(News) /\ n \in Nat /\ Len(out') = n + 1 /\ out'[n + 1] = e
        /\ \A i \in 1..n : out'[i] = out[i]
        /\ \A i \in 1..Len(out') : i = n + 1 \/ i \in 1..n
        /\ 1..n \subseteq 1..Len(out') /\ n + 1 \in 1..Len(out')
    BY <2>3, SeqPut
  <2>6. DOMAIN out = 1..n /\ DOMAIN out' = 1..Len(out')
    BY <2>3, <2>5, LenProperties
  <2> HIDE DEF u, v, n
  <2>7. Typed'
    <3>1. \A i \in 1..Len(out') : out'[i].label = Pending => out'[i].event # "final"
      BY <2>4, <2>5 DEF Typed, n
    <3>2. QED
      BY <1>1, <1>2, <1>6, <2>2, <2>5, <3>1 DEF Typed, sdkVars, voiceVars, prodVars
  <2>8. Passed'
    <3>1. \A s \in Speech : IsTold(s)' <=> IsTold(s)
      BY <2>4, <2>5 DEF IsTold, First, n
    <3>2. \A s \in Speech : s <= heard <=> Waits(s)' \/ IsTold(s)'
      BY <1>1, <3>1 DEF Passed, Waits, sdkVars
    <3>3. \A i \in 1..Len(out'), j \in 1..Len(events) : events[j] # End => out'[i].u < events[j]
      BY <1>3, <2>4, <2>5 DEF Passed, n
    <3>4. \A i, j \in 1..Len(out') : i < j /\ First(out'[i]) /\ First(out'[j]) => out'[i].u < out'[j].u
      BY <2>4, <2>5 DEF Passed, n
    <3>5. QED
      BY <1>1, <3>2, <3>3, <3>4 DEF Passed, First, sdkVars
  <2>9. Again'
    <3>1. \A k \in 1..Len(pending') : \E i \in 1..Len(out') : out'[i].u = pending'[k]
      BY <1>5, <2>5
    <3>2. ASSUME NEW k \in 1..Len(pending'), NEW i \in 1..Len(out'), out'[i].u = pending'[k]
          PROVE  out'[i].event = "tentative"
      <4>1. i \in 1..n /\ out'[i] = out[i]
        BY <1>3, <2>4, <2>5, <3>2
      <4>2. QED
        BY <1>5, <3>2, <4>1
    <3>3. QED
      BY <1>4, <3>1, <3>2 DEF Again
  <2>10. ToldOfEach'
    <3> SUFFICES ASSUME NEW i \in 1..Len(out')
                 PROVE  /\ \A j \in 1..Len(out') : i < j /\ out'[j].u = out'[i].u =>
                             out'[i].event = "tentative" /\ out'[j].event = "revised"
                        /\ out'[i].event = "revised" =>
                             \E j \in 1..Len(out') : j < i /\ out'[j].u = out'[i].u
                        /\ (\A j \in 1..Len(out') : i < j => ~(out'[j].u = out'[i].u)) =>
                             out'[i].label = rec'[out'[i].u].label
      BY <2>6 DEF ToldOfEach
    <3>1. CASE i = n + 1
      <4>1. \A j \in 1..Len(out') : ~(i < j)
        BY <2>5, <3>1
      <4>2. \E j \in 1..Len(out') : j < i /\ out'[j].u = u
        BY <1>3, <2>5, <3>1
      <4>3. QED
        BY <2>2, <2>4, <2>5, <3>1, <4>1, <4>2
    <3>2. CASE i \in 1..n
      <4>1. out'[i] = out[i] /\ out[i].u \in Speech
        BY <2>5, <3>2, EachIsTold DEF n
      <4>2. /\ \A j \in 1..n : i < j /\ out[j].u = out[i].u =>
                 out[i].event = "tentative" /\ out[j].event = "revised"
            /\ out[i].event = "revised" => \E j \in 1..n : j < i /\ out[j].u = out[i].u
            /\ (\A j \in 1..n : i < j => ~(out[j].u = out[i].u)) => out[i].label = rec[out[i].u].label
        BY <2>6, <3>2 DEF ToldOfEach
      <4>3. \A j \in 1..n : j \in 1..Len(out') /\ out'[j] = out[j]
        BY <2>5
      <4>4. CASE out[i].u = u
        <5>1. out[i].event = "tentative"
          BY <1>3, <3>2, <4>4
        <5>2. i < n + 1 /\ n + 1 \in 1..Len(out') /\ out'[n + 1].u = u
          BY <2>4, <2>5, <3>2
        <5>3. \A j \in 1..Len(out') : i < j /\ out'[j].u = u => out'[j].event = "revised"
          BY <2>4, <2>5, <4>2, <4>4
        <5>4. QED
          BY <4>1, <4>4, <5>1, <5>2, <5>3
      <4>5. CASE out[i].u # u
        <5>1. \A j \in 1..Len(out') : out'[j].u = out'[i].u => j \in 1..n /\ out'[j] = out[j]
          BY <2>4, <2>5, <4>1, <4>5
        <5>2. rec'[out'[i].u] = rec[out[i].u]
          BY <2>2, <4>1, <4>5
        <5>3. QED
          BY <4>1, <4>2, <4>3, <5>1, <5>2
      <4>6. QED
        BY <4>4, <4>5
    <3>3. QED
      BY <2>5, <3>1, <3>2
  <2>11. QED
    BY <1>6, <1>7, <2>7, <2>8, <2>9, <2>10
<1>10. QED
  BY <1>1, <1>8, <1>9

SaidInv == Typed /\ Queued /\ Passed /\ Over /\ Again /\ ToldOfEach

\* Nothing is said yet.
LEMMA InitSaid == Init => SaidInv
<1> SUFFICES ASSUME Init PROVE SaidInv
  OBVIOUS
<1>1. \A S : <<>> \in Seq(S) /\ Len(<<>>) = 0
  BY EmptySeq
<1>2. Typed
  <2>1. Windowed
    BY <1>1 DEF Init, Windowed
  <2>2. rec \in [Speech -> VoteType]
    BY DEF Init, NoVote, VoteType
  <2>3. <<>> \in Seq(Speech) /\ <<>> \in Seq(News) /\ Len(<<>>) = 0
    BY <1>1
  <2>4. pending \in Seq(Speech) /\ out \in Seq(News) /\ Len(out) = 0
    BY <2>3 DEF Init
  <2>5. buffered <= Chunks
    BY ChunksAssumption DEF Init
  <2>6. \A i \in 1..Len(out) : out[i].label = Pending => out[i].event # "final"
    BY <2>4
  <2>7. cut \in BOOLEAN /\ failed \in BOOLEAN
    BY DEF Init
  <2>8. /\ prod = "none" /\ service = "off" /\ voice = "none" /\ main = "start"
    BY DEF Init
  <2>9. QED
    BY <2>1, <2>2, <2>4, <2>5, <2>6, <2>7, <2>8 DEF Typed
<1>3. Passed
  <2>1. \A u \in Speech : ~ (u <= 0)
    BY ChunksAssumption
  <2>2. QED
    BY <1>1, <2>1 DEF Init, Passed, Waits, IsTold
<1>4. DOMAIN out = 1..0
  BY <1>1, LenProperties DEF Init
<1>5. QED
  BY <1>1, <1>2, <1>3, <1>4 DEF Init, SaidInv, Queued, Over, Waits, Again, ToldOfEach

\* One more window keeps them typed and within the buffer.
LEMMA Looked == PipelineInv /\ Windowed /\ Look => Windowed'
<1> SUFFICES ASSUME PipelineInv, Windowed, Look PROVE Windowed'
  OBVIOUS
<1>1. PICK l \in Labels \cup {Pending} : windows' = Append(windows, l)
  BY DEF Look
<1>2. Len(windows) + Span <= buffered /\ buffered' = buffered /\ buffered \in Nat
  BY DEF Look, prodVars, PipelineInv, InStep
<1>3. /\ windows' \in Seq(Labels \cup {Pending}) /\ Len(windows) \in Nat
      /\ \A w \in 1..Len(windows') : w = Len(windows) + 1 \/ w \in 1..Len(windows)
  BY <1>1, SeqPut DEF Windowed
<1>4. \A w \in 1..Len(windows') : w + Span <= buffered + 1
  BY <1>2, <1>3, SpanAssumption DEF Windowed
<1>5. QED
  BY <1>2, <1>3, <1>4 DEF Windowed

\* Every step keeps what is published in step with what is heard and recorded.
LEMMA NextSaid == PipelineInv /\ SaidInv /\ [Next]_vars => SaidInv'
<1> SUFFICES ASSUME PipelineInv, SaidInv, [Next]_vars PROVE SaidInv'
  OBVIOUS
<1> USE DEF SaidInv
<1> DEFINE Rest == UNCHANGED <<heard, events, rec, pending, out>>
<1>1. ASSUME Rest PROVE Queued' /\ Passed' /\ Again' /\ ToldOfEach'
  BY <1>1 DEF Queued, Passed, Waits, IsTold, First, Again, ToldOfEach
<1>2. ASSUME Rest, service' = service \/ (service' = "on" /\ service = "off"),
             \/ failed' \/ main' \notin {"revising", "finally", "joining", "returned"}
             \/ failed' = failed /\ main' = main
             \/ failed' = failed /\ main \in {"revising", "finally", "joining", "returned"}
      PROVE  Over'
  BY <1>2 DEF Over, Waits
<1>3. CASE Take \/ Push \/ SourceEnds \/ Drained \/ Stopped
  <2>1. /\ UNCHANGED <<heard, events, service, voiceVars, mainVars>> /\ cut' \in BOOLEAN
        /\ buffered \in Nat
        /\ buffered' = buffered \/ (buffered' = buffered + 1 /\ buffered < Chunks)
        /\ prod' \in {"none", "reading", "push", "draining", "closing", "sentinel", "ended"}
    BY <1>3 DEF Take, Push, SourceEnds, Drained, Stopped, Producing, sdkVars, Typed, PipelineInv, InStep
  <2>2. Typed'
    <3>1. windows' = windows /\ windows \in Seq(Labels \cup {Pending}) /\ Len(windows) \in Nat
      BY <2>1, LenProperties DEF Typed, Windowed, voiceVars
    <3>2. \A w \in 1..Len(windows) : w + Span <= buffered' + 1
      BY <2>1, <3>1, SpanAssumption DEF Typed, Windowed
    <3>3. Windowed'
      BY <3>1, <3>2 DEF Windowed
    <3>4. QED
      BY <2>1, <3>3, ChunksAssumption DEF Typed, voiceVars, mainVars
  <2>3. QED
    BY <1>1, <1>2, <2>1, <2>2 DEF mainVars
<1>4. CASE PutEnd \/ SessionEnd \/ Cancel
  <2>1. /\ events' = Append(events, End) /\ UNCHANGED <<heard, buffered, voiceVars, mainVars>>
        /\ service' \in {"canceled", "stopped"}
        /\ cut' \in {cut, TRUE} /\ prod' \in {prod, "ended"}
    BY <1>4 DEF PutEnd, SessionEnd, Cancel, Producing, prodVars, PipelineInv, Ending
  <2>2. Queued' /\ Passed' /\ \A u \in Speech : Waits(u)' <=> Waits(u)
    BY <2>1, EndPut DEF mainVars
  <2>3. Typed'
    BY <2>1 DEF Typed, Windowed, voiceVars, mainVars
  <2>4. Over'
    BY <2>1, <2>2 DEF Over, mainVars
  <2>5. QED
    BY <2>1, <2>2, <2>3, <2>4 DEF Again, ToldOfEach, mainVars
<1>5. CASE Transcribed
  <2>1. UNCHANGED <<service, cut, prodVars, voiceVars, mainVars>>
    BY <1>5 DEF Transcribed
  <2>2. Typed'
    BY <2>1 DEF Typed, Windowed, prodVars, voiceVars, mainVars
  <2>3. QED
    BY <1>5, <2>1, <2>2, SpeechPut DEF Again, ToldOfEach, mainVars
<1>6. CASE Look \/ VoiceEnds
  <2>1. Rest /\ UNCHANGED <<prodVars, sdkVars, mainVars>> /\ voice' \in {voice, "ended"}
    BY <1>6 DEF Look, VoiceEnds, sdkVars, mainVars
  <2>2. Windowed'
    BY <1>6, Looked DEF VoiceEnds, Typed, Windowed, prodVars
  <2>3. Typed'
    BY <2>1, <2>2 DEF Typed, prodVars, sdkVars, mainVars
  <2>4. QED
    BY <1>1, <1>2, <2>1, <2>3 DEF sdkVars, mainVars
<1>7. CASE Setup
  <2>1. /\ Rest /\ UNCHANGED <<buffered, cut, windows>> /\ prod' \in {prod, "reading"}
        /\ voice' \in {voice, "running"} /\ failed' \in {failed, TRUE}
        /\ service' = service \/ (service' = "on" /\ service = "off")
        /\ main' \in {"warm", "resolver", "events", "raised"}
    BY <1>7 DEF Setup, StartTranscriber, StartVoiceprint, StartProducer, SetupFails, Main,
                prodVars, sdkVars, voiceVars, mainVars, PipelineInv, Fresh
  <2>2. Typed'
    BY <2>1 DEF Typed, Windowed
  <2>3. QED
    BY <1>1, <1>2, <2>1, <2>2
<1>8. CASE LeaveEvents
  <2>1. UNCHANGED <<service, heard, cut, rec, pending, out, failed, prodVars, voiceVars>> /\ main' = "revising"
    BY <1>8 DEF LeaveEvents, Main
  <2>2. Typed'
    BY <2>1 DEF Typed, Windowed, prodVars, voiceVars
  <2>3. QED
    BY <1>8, <2>1, <2>2, Left DEF Again, ToldOfEach
<1>9. CASE Record
  BY <1>9, Recorded
<1>10. CASE Revise
  BY <1>10, LookedAgain
<1>11. CASE Revised \/ Fails \/ StopVoiceprint \/ Joined
  <2>1. /\ Rest /\ UNCHANGED <<prodVars, sdkVars, voiceVars>>
        /\ main' \in {"finally", "joining", "returned"}
        /\ failed' \/ (failed' = failed /\ main \in {"revising", "finally", "joining"})
        /\ failed' \in {failed, TRUE}
    BY <1>11 DEF Revised, Fails, StopVoiceprint, Joined, Main, sdkVars
  <2>2. Windowed' /\ failed' \in BOOLEAN
    BY <2>1 DEF Typed, Windowed, prodVars, voiceVars
  <2>3. Typed'
    BY <2>1, <2>2 DEF Typed, prodVars, sdkVars, voiceVars
  <2>4. QED
    BY <1>1, <1>2, <2>1, <2>3 DEF sdkVars
<1>12. CASE UNCHANGED vars
  <2>1. Rest /\ UNCHANGED <<prodVars, sdkVars, voiceVars, mainVars>>
    BY <1>12 DEF vars, sdkVars, mainVars
  <2>2. Typed'
    BY <2>1 DEF Typed, Windowed, prodVars, sdkVars, voiceVars, mainVars
  <2>3. QED
    BY <1>1, <1>2, <2>1, <2>2 DEF sdkVars, mainVars
<1>13. QED
  BY <1>3, <1>4, <1>5, <1>6, <1>7, <1>8, <1>9, <1>10, <1>11, <1>12 DEF Next, Closing, Service, Loop

\* What the invariant says of types and of order, as the runs check it.
LEMMA SaidIsAll == PipelineInv /\ SaidInv => AllSaid
<1> SUFFICES ASSUME PipelineInv, SaidInv PROVE AllSaid
  OBVIOUS
<1>1. /\ DOMAIN out = 1..Len(out) /\ DOMAIN events = 1..Len(events)
      /\ DOMAIN windows = 1..Len(windows) /\ DOMAIN pending = 1..Len(pending)
  BY LenProperties DEF SaidInv, Typed, Windowed, PipelineInv, InStep
<1>2. TypeOK
  <2>1. heard <= pushed /\ pushed <= buffered
    BY DEF PipelineInv, InStep
  <2>2. \A i \in DOMAIN events : events[i] \in Speech \cup {End}
    BY <1>1, ElementOfSeq DEF PipelineInv, InStep, Utterances
  <2>3. \A w \in DOMAIN windows : windows[w] \in Labels \cup {Pending} /\ w + Span <= buffered + 1
    BY <1>1, ElementOfSeq DEF SaidInv, Typed, Windowed
  <2>4. \A i \in DOMAIN pending : pending[i] \in Speech
    BY <1>1, ElementOfSeq DEF SaidInv, Typed
  <2>5. \A i \in DOMAIN out : out[i] \in News
    BY <1>1, ElementOfSeq DEF SaidInv, Typed
  <2>6. QED
    BY <1>1, <2>1, <2>2, <2>3, <2>4, <2>5 DEF TypeOK, SaidInv, Typed, News
<1>3. \A i, j \in DOMAIN out : i < j /\ First(out[i]) /\ First(out[j]) => out[i].u < out[j].u
  BY <1>1 DEF SaidInv, Passed
<1>4. ASSUME Returned PROVE {out[i].u : i \in {i \in DOMAIN out : First(out[i])}} = Heard
  <2>1. \A u \in Speech : ~Waits(u)
    BY <1>4 DEF Returned, SaidInv, Over
  <2>2. \A u \in Speech : u <= heard <=> IsTold(u)
    BY <2>1 DEF SaidInv, Passed
  <2>3. \A i \in 1..Len(out) : out[i].u \in Speech
    BY EachIsTold DEF SaidInv
  <2>4. QED
    BY <1>1, <2>2, <2>3 DEF Heard, IsTold
<1>5. QED
  BY <1>2, <1>3, <1>4 DEF AllSaid

\* However recognition ends, what was recognized before is published when
\* stream() returns, once and in the order it was said: no None overtakes an
\* utterance, whatever the number of Nones.
THEOREM NoneOvertakes == Spec => []AllSaid
<1>1. PipelineInv /\ SaidInv /\ [Next]_vars => PipelineInv' /\ SaidInv'
  BY NextInv, NextSaid
<1>2. QED
  BY <1>1, InitInv, InitSaid, SaidIsAll, PTL DEF Spec

\* A viewer is told of an utterance once or, if first tentatively, twice, and its
\* last news is the record that stream() returns.
THEOREM NewsIsRecord == Spec => []ToldOfEach
<1>1. PipelineInv /\ SaidInv /\ [Next]_vars => PipelineInv' /\ SaidInv'
  BY NextInv, NextSaid
<1>2. SaidInv => ToldOfEach
  BY DEF SaidInv
<1>3. QED
  BY <1>1, <1>2, InitInv, InitSaid, PTL DEF Spec
=============================================================================
