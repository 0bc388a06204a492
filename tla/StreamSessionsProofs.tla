------------------------ MODULE StreamSessionsProofs ------------------------
(* Proofs about StreamSessions for any requests, sessions and bounds.  First  *)
(* its type invariant, that a running stream holds its session's slot as long *)
(* as no release strays, and that a microphone handler that passed its check  *)
(* registers; the argument rests on the event loop: between the moment a      *)
(* handler looks at the registry and its next await no other handler runs.    *)
(* Then that what a pipeline has published reaches its history whole and in   *)
(* order, with its end last of it and nothing but revisions after that, and   *)
(* that by then the stream no longer blocks its session.                      *)
EXTENDS StreamSessions, SequenceTheorems, TLAPS

\* A handler between two awaits has the loop.
OnLoop == {"again", "look", "claim", "claimed", "renaming"}
HoldsLoop == \A r \in Requests : req[r] \in OnLoop => loop = r

\* Before start() a coordinator has no thread and has not finished.
Unstarted == {"new", "again", "look", "saving", "claim", "claimed"}
Fresh == \A r \in Requests :
           req[r] \in Unstarted => thread[r] = "none" /\ ~finished[r]

\* From register() on the slot is the coordinator's, until it finishes or a
\* release strays.
Holding(r) == req[r] = "claimed" \/ Running(r)
SlotHeld == \A r \in Requests :
              Holding(r) /\ sess[r] \notin strayed => table[sess[r]] = r

SlotInv == TypeOK /\ HoldsLoop /\ Fresh /\ SlotHeld

\* What ws_ingest found is still there, or the slot has been emptied; once it
\* has seen that nothing runs, nothing runs; past the start it has started.
MicOK(r) ==
  kind[r] = "mic" =>
    /\ req[r] = "look" => table[sess[r]] \in {found[r], NoReq}
    /\ req[r] = "claim" => ~Busy(table[sess[r]])
    /\ req[r] \in {"greeting", "failed"} => started[r]
    /\ req[r] \notin {"again", "saving"}
MicInv == SlotInv /\ \A r \in Requests : MicOK(r)

\* The records that a rename has still to publish are records of its session,
\* and none of them is a stream_end.
Labelled == \A r \in Requests : updated[r] \subseteq HasLabel(sess[r])

\* The events there are, and what their fields are.
LEMMA EventKinds ==
  ASSUME NEW r \in Requests, NEW q \in Requests, NEW n \in Numbers, NEW ok \in BOOLEAN
  PROVE  /\ Utterance(r, n) \in Events
         /\ Event("revised", r, q, n, TRUE) \in Events
         /\ Event("stream_end", r, r, n, ok) \in Events
<1>1. Utterance(r, n) \in Utterances
  BY DEF Utterances
<1>2. Event("revised", r, q, n, TRUE) \in Others /\ Event("stream_end", r, r, n, ok) \in Others
  BY DEF Others, Event
<1>3. QED
  BY <1>1, <1>2 DEF Events
LEMMA EventFields ==
  ASSUME NEW e \in Events
  PROVE  /\ e.by \in Requests /\ e.of \in Requests /\ e.number \in Numbers
         /\ e.event = "utterance" => e = Utterance(e.by, e.number) /\ e.of = e.by
<1>1. CASE e \in Utterances
  <2>1. PICK r \in Requests, n \in Numbers : e = Utterance(r, n)
    BY <1>1 DEF Utterances
  <2>2. QED
    BY <2>1 DEF Event, Utterance
<1>2. CASE e \in Others
  BY <1>2 DEF Others
<1>3. QED
  BY <1>1, <1>2 DEF Events

\* What the steps leave alone, as far as the transcripts are concerned.
telling == <<calls, history, sess, sent, finished, updated>>

LEMMA Quiet ==
  ASSUME NEW r \in Requests,
         \/ Arrive(r) \/ GetAgain(r) \/ Look(r) \/ Saved(r) \/ Register(r) \/ Greet(r)
         \/ Renamed(r)
         \/ Owner(r)
  PROVE  UNCHANGED <<telling, thread>>
<1> USE DEF telling, reqVars, flags, command
<1>1. CASE Arrive(r) \/ GetAgain(r) \/ Look(r) \/ Saved(r) \/ Register(r) \/ Greet(r)
  BY <1>1 DEF Arrive, GetAgain, Look, Saved, Register, Greet, OffHandler
<1>2. CASE Renamed(r)
  BY <1>2 DEF Renamed
<1>3. CASE Owner(r)
  BY <1>3 DEF Owner, FeedFails, EndAudio, Joined, JoinTimesOut, Release, OffOwner
<1>4. QED
  BY <1>1, <1>2, <1>3
LEMMA QuietStop ==
  ASSUME (\E x \in Stops : Stop(x)) \/ UNCHANGED vars
  PROVE  UNCHANGED <<telling, thread>>
BY DEF telling, reqVars, flags, command, Stop, StopGet, StopEnd, OffStop, vars

\* A history only grows, and a place in it keeps its record.
LEMMA HistoryGrows ==
  ASSUME TypeOK, [Next]_vars, NEW s \in Sessions
  PROVE  /\ Len(history[s]) <= Len(history'[s]) /\ Len(history[s]) \in Nat
         /\ Len(history'[s]) \in Nat
         /\ \A i \in 1..Len(history[s]) : history'[s][i] = history[s][i]
<1>1. Len(history[s]) \in Nat
  BY LenProperties DEF TypeOK
<1>2. CASE history' = history
  BY <1>1, <1>2
<1>3. CASE Deliver
  <2> DEFINE c == Head(calls)
  <2>1. c \in Events /\ history' = [history EXCEPT ![sess[c.by]] = Append(@, c)]
    BY <1>3 DEF Deliver, TypeOK
  <2> HIDE DEF c
  <2>2. history'[s] \in {history[s], Append(history[s], c)}
    BY <2>1 DEF TypeOK
  <2>3. history[s] \in Seq(Events)
    BY DEF TypeOK
  <2>4. CASE history'[s] = Append(history[s], c)
    BY <1>1, <2>1, <2>3, <2>4, AppendProperties
  <2>5. QED
    BY <1>1, <2>2, <2>4
<1>4. ASSUME NEW r \in Requests, Handler(r) \/ Owner(r) \/ Pipeline(r) \/ Command(r)
      PROVE  history' = history
  <2>1. CASE Start(r)
    BY <2>1 DEF Start
  <2>2. CASE Pipeline(r)
    BY <2>2 DEF Pipeline, Publish, StreamReturns, StreamRaises, Finish, PublishEnd, OffPipeline
  <2>3. CASE Command(r)
    BY <2>3 DEF Command, Rename, Revise, Renamed
  <2>4. QED
    BY <1>4, <2>1, <2>2, <2>3, Quiet DEF Handler, telling
<1>5. CASE (\E x \in Stops : Stop(x)) \/ UNCHANGED vars
  BY <1>5, QuietStop DEF telling
<1>6. QED
  BY <1>2, <1>3, <1>4, <1>5 DEF Next

LEMMA LabelledStep == TypeOK /\ Labelled /\ [Next]_vars => Labelled'
<1> SUFFICES ASSUME TypeOK, Labelled, [Next]_vars, NEW o \in Requests, NEW i \in updated'[o]
             PROVE  i \in HasLabel(sess[o])'
  BY DEF Labelled
<1>1. /\ sess' = sess
      /\ i \in updated[o] \/ i \in HasLabel(sess[o])
  <2>1. ASSUME NEW r \in Requests, Handler(r) \/ Owner(r) \/ Pipeline(r)
        PROVE  UNCHANGED <<sess, updated>>
    <3>1. CASE Start(r)
      BY <3>1 DEF Start, command
    <3>2. CASE Pipeline(r)
      BY <3>2 DEF Pipeline, Publish, StreamReturns, StreamRaises, Finish, PublishEnd,
                  OffPipeline, reqVars, command
    <3>3. QED
      BY <2>1, <3>1, <3>2, Quiet DEF Handler, telling
  <2>2. ASSUME NEW r \in Requests, Command(r)
        PROVE  /\ sess' = sess
               /\ i \in updated[o] \/ i \in HasLabel(sess[o])
    <3>1. ASSUME NEW places \in SUBSET HasLabel(sess[r]), Rename(r, places)
          PROVE  /\ sess' = sess
                 /\ i \in updated[o] \/ i \in HasLabel(sess[o])
      <4>1. sess' = sess /\ updated' = [updated EXCEPT ![r] = places]
        BY <3>1 DEF Rename
      <4>2. CASE o = r
        BY <3>1, <4>1, <4>2 DEF TypeOK
      <4>3. CASE o # r
        BY <4>1, <4>3 DEF TypeOK
      <4>4. QED
        BY <4>1, <4>2, <4>3
    <3>2. CASE Revise(r) \/ Renamed(r)
      BY <3>2 DEF Revise, Renamed, reqVars, command, TypeOK
    <3>3. QED
      BY <2>2, <3>1, <3>2 DEF Command
  <2>3. CASE Deliver
    BY <2>3 DEF Deliver, reqVars, command
  <2>4. CASE (\E x \in Stops : Stop(x)) \/ UNCHANGED vars
    BY <2>4, QuietStop DEF telling
  <2>5. QED
    BY <2>1, <2>2, <2>3, <2>4 DEF Next
<1>2. i \in HasLabel(sess[o])
  BY <1>1 DEF Labelled
<1>3. sess[o] \in Sessions
  BY DEF TypeOK
<1>4. i \in 1..Len(history'[sess[o]]) /\ history'[sess[o]][i].event # "stream_end"
  BY <1>2, <1>3, HistoryGrows DEF HasLabel
<1>5. QED
  BY <1>1, <1>4 DEF HasLabel

\* The type invariant holds whatever the requests, sessions and bounds are.
THEOREM TypeCorrect == Safety => []TypeOK
<1> USE NoReqAssumption, BoundAssumption
<1>1. Init => TypeOK /\ Labelled
  BY DEF Init, TypeOK, Labelled
<1>2. TypeOK /\ Labelled /\ [Next]_vars => TypeOK'
  <2> SUFFICES ASSUME TypeOK, Labelled, [Next]_vars PROVE TypeOK'
    OBVIOUS
  <2>1. ASSUME NEW r \in Requests, Arrive(r) PROVE TypeOK'
    <3>1. /\ req' \in [Requests -> {"new", "again", "look", "saving", "claim", "claimed",
                                   "greeting", "served", "renaming", "refused", "failed"}]
          /\ loop' \in Requests \cup {NoReq}
      BY <2>1 DEF Arrive, ReqStep, TypeOK
    <3>2. found' \in [Requests -> Requests \cup {NoReq}]
      BY <2>1 DEF Arrive, TypeOK
    <3>3. QED
      BY <2>1, <3>1, <3>2 DEF Arrive, OffHandler, TypeOK, command
  <2>2. ASSUME NEW r \in Requests, GetAgain(r) PROVE TypeOK'
    BY <2>2 DEF GetAgain, ReqStep, OffHandler, TypeOK, reqVars, flags, command
  <2>3. ASSUME NEW r \in Requests, Look(r) PROVE TypeOK'
    BY <2>3 DEF Look, ReqStep, OffHandler, TypeOK, reqVars, flags, command
  <2>4. ASSUME NEW r \in Requests, Saved(r) PROVE TypeOK'
    BY <2>4 DEF Saved, ReqStep, OffHandler, TypeOK, reqVars, flags, command
  <2>5. ASSUME NEW r \in Requests, Register(r) PROVE TypeOK'
    <3>1. /\ req' \in [Requests -> {"new", "again", "look", "saving", "claim", "claimed",
                                   "greeting", "served", "renaming", "refused", "failed"}]
          /\ loop' \in Requests \cup {NoReq}
      BY <2>5 DEF Register, ReqStep, TypeOK
    <3>2. table' \in [Sessions -> Requests \cup {NoReq}]
      BY <2>5 DEF Register, TypeOK
    <3>3. QED
      BY <2>5, <3>1, <3>2 DEF Register, OffHandler, TypeOK, command
  <2>6. ASSUME NEW r \in Requests, Start(r) PROVE TypeOK'
    BY <2>6 DEF Start, ReqStep, TypeOK, reqVars, flags, command
  <2>7. ASSUME NEW r \in Requests, Greet(r) PROVE TypeOK'
    BY <2>7 DEF Greet, ReqStep, TypeOK, reqVars, flags, command
  <2>8. ASSUME NEW r \in Requests, Publish(r) PROVE TypeOK'
    <3>1. sent[r] + 1 \in Numbers /\ sent' \in [Requests -> 0..MaxEvents]
      <4>1. sent[r] \in 0..MaxEvents /\ sent[r] < MaxEvents /\ sent' = [sent EXCEPT ![r] = @ + 1]
        BY <2>8 DEF Publish, TypeOK
      <4>2. sent[r] + 1 \in 0..MaxEvents /\ sent[r] + 1 \in Numbers
        BY <4>1 DEF Numbers
      <4>3. QED
        BY <4>1, <4>2 DEF TypeOK
    <3>2. calls' \in Seq(Events)
      <4>1. Utterance(r, sent[r] + 1) \in Events
        BY <3>1, EventKinds
      <4>2. calls' = Append(calls, Utterance(r, sent[r] + 1))
        BY <2>8 DEF Publish
      <4>3. QED
        BY <4>1, <4>2 DEF TypeOK
    <3>3. QED
      BY <2>8, <3>1, <3>2 DEF Publish, OffPipeline, TypeOK, reqVars, flags, command
  <2>9. ASSUME NEW r \in Requests, StreamReturns(r) PROVE TypeOK'
    BY <2>9 DEF StreamReturns, OffPipeline, TypeOK, reqVars, flags, command
  <2>10. ASSUME NEW r \in Requests, StreamRaises(r) PROVE TypeOK'
    BY <2>10 DEF StreamRaises, OffPipeline, TypeOK, reqVars, flags, command
  <2>11. ASSUME NEW r \in Requests, Finish(r) PROVE TypeOK'
    BY <2>11 DEF Finish, OffPipeline, TypeOK, reqVars, flags, command
  <2>12. ASSUME NEW r \in Requests, PublishEnd(r) PROVE TypeOK'
    <3>1. sent[r] + 1 \in Numbers /\ (~error[r]) \in BOOLEAN
      <4>1. sent[r] \in 0..MaxEvents
        BY DEF TypeOK
      <4>2. QED
        BY <4>1 DEF Numbers
    <3>2. calls' \in Seq(Events)
      <4>1. EndOf(r, ~error[r]) \in Events
        BY <3>1, EventKinds DEF EndOf
      <4>2. calls' = Append(calls, EndOf(r, ~error[r]))
        BY <2>12 DEF PublishEnd
      <4>3. QED
        BY <4>1, <4>2 DEF TypeOK
    <3>3. QED
      BY <2>12, <3>2 DEF PublishEnd, OffPipeline, TypeOK, reqVars, flags, command
  <2>13. ASSUME NEW r \in Requests, FeedFails(r) PROVE TypeOK'
    BY <2>13 DEF FeedFails, OffOwner, TypeOK, reqVars, flags, command
  <2>14. ASSUME NEW r \in Requests, EndAudio(r) PROVE TypeOK'
    BY <2>14 DEF EndAudio, OffOwner, TypeOK, reqVars, flags, command
  <2>15. ASSUME NEW r \in Requests, Joined(r) PROVE TypeOK'
    BY <2>15 DEF Joined, OffOwner, TypeOK, reqVars, flags, command
  <2>16. ASSUME NEW r \in Requests, JoinTimesOut(r) PROVE TypeOK'
    BY <2>16 DEF JoinTimesOut, OffOwner, TypeOK, reqVars, flags, command
  <2>17. ASSUME NEW r \in Requests, Release(r) PROVE TypeOK'
    BY <2>17 DEF Release, TypeOK, reqVars, flags, command
  <2>18. ASSUME NEW x \in Stops, NEW s \in Sessions, StopGet(x, s) PROVE TypeOK'
    BY <2>18 DEF StopGet, OffStop, TypeOK, reqVars, flags, command
  <2>19. ASSUME NEW x \in Stops, StopEnd(x) PROVE TypeOK'
    BY <2>19 DEF StopEnd, OffStop, TypeOK, reqVars, flags, command
  <2>20. CASE Deliver
    <3> DEFINE c == Head(calls)
    <3>1. c \in Events /\ calls' \in Seq(Events)
      BY <2>20 DEF Deliver, TypeOK
    <3>2. sess[c.by] \in Sessions
      BY <3>1, EventFields DEF TypeOK
    <3>3. history' = [history EXCEPT ![sess[c.by]] = Append(@, c)]
      BY <2>20 DEF Deliver
    <3> HIDE DEF c
    <3>4. history' \in [Sessions -> Seq(Events)]
      BY <3>1, <3>2, <3>3 DEF TypeOK
    <3>5. QED
      BY <2>20, <3>1, <3>4 DEF Deliver, TypeOK, reqVars, flags, command
  <2>22. ASSUME NEW r \in Requests, NEW places \in SUBSET HasLabel(sess[r]), Rename(r, places)
         PROVE  TypeOK'
    <3>1. places \in SUBSET Nat
      BY DEF HasLabel
    <3>2. /\ updated' \in [Requests -> SUBSET Nat] /\ renames' \in 0..MaxRenames
          /\ req' \in [Requests -> {"new", "again", "look", "saving", "claim", "claimed",
                                   "greeting", "served", "renaming", "refused", "failed"}]
      BY <2>22, <3>1 DEF Rename, ReqStep, TypeOK
    <3>3. QED
      BY <2>22, <3>2 DEF Rename, TypeOK, flags
  <2>23. ASSUME NEW r \in Requests, Revise(r) PROVE TypeOK'
    <3>1. PICK i \in updated[r] : /\ calls' = Append(calls, Revised(r, history[sess[r]][i]))
                                  /\ updated' = [updated EXCEPT ![r] = @ \ {i}]
      BY <2>23 DEF Revise
    <3>2. history[sess[r]][i] \in Events
      BY DEF Labelled, HasLabel, TypeOK
    <3>3. Revised(r, history[sess[r]][i]) \in Events
      BY <3>2, EventFields, EventKinds DEF Revised
    <3>4. calls' \in Seq(Events) /\ updated' \in [Requests -> SUBSET Nat]
      BY <3>1, <3>3 DEF TypeOK
    <3>5. QED
      BY <2>23, <3>4 DEF Revise, TypeOK, reqVars, flags
  <2>24. ASSUME NEW r \in Requests, Renamed(r) PROVE TypeOK'
    BY <2>24 DEF Renamed, ReqStep, TypeOK, flags, command
  <2>21. CASE UNCHANGED vars
    BY <2>21 DEF vars, TypeOK, reqVars, flags, command
  <2>25. QED
    BY <2>1, <2>2, <2>3, <2>4, <2>5, <2>6, <2>7, <2>8, <2>9, <2>10, <2>11, <2>12, <2>13, <2>14, <2>15, <2>16, <2>17, <2>18, <2>19, <2>20, <2>21, <2>22, <2>23, <2>24 DEF Next, Handler, Command, Pipeline, Owner, Stop
<1>3. TypeOK /\ Labelled /\ [Next]_vars => Labelled'
  BY LabelledStep
<1>4. QED
  BY <1>1, <1>2, <1>3, PTL DEF Safety

\* What the slot's invariants are about.
slotVars == <<table, sess, started, finished, thread, strayed>>
SlotGoal == HoldsLoop /\ Fresh /\ SlotHeld

\* A handler that goes on without touching the registry, and has the loop
\* exactly while it is between two awaits, keeps them.
LEMMA HandlerMove ==
  ASSUME SlotInv, NEW r \in Requests, NEW to,
         req' = [req EXCEPT ![r] = to], to # "claimed", UNCHANGED slotVars,
         to \in Unstarted => req[r] \in Unstarted,
         loop \in {r, NoReq},
         to \in OnLoop => loop' = r
  PROVE  SlotGoal'
<1>1. HoldsLoop'
  BY NoReqAssumption DEF SlotInv, TypeOK, HoldsLoop
<1>2. Fresh'
  BY DEF SlotInv, TypeOK, Fresh, slotVars
<1>3. SlotHeld'
  BY DEF SlotInv, TypeOK, SlotHeld, Holding, Running, slotVars
<1>4. QED
  BY <1>1, <1>2, <1>3 DEF SlotGoal

\* So does a pipeline thread that has been started and goes on.
LEMMA ThreadMove ==
  ASSUME SlotInv, NEW r \in Requests, NEW to,
         thread[r] # "none", thread' = [thread EXCEPT ![r] = to],
         \/ finished' = finished
         \/ finished' = [finished EXCEPT ![r] = TRUE],
         UNCHANGED <<table, loop, req, sess, started, strayed>>
  PROVE  SlotGoal'
<1>1. HoldsLoop'
  BY DEF SlotInv, HoldsLoop
<1>2. Fresh'
  BY DEF SlotInv, TypeOK, Fresh
<1>3. \A o \in Requests : ~finished'[o] => ~finished[o]
  BY DEF SlotInv, TypeOK
<1>4. SlotHeld'
  BY <1>3 DEF SlotInv, SlotHeld, Holding, Running
<1>5. QED
  BY <1>1, <1>2, <1>4 DEF SlotGoal

\* And whatever else leaves all of this alone.
LEMMA Aside ==
  ASSUME SlotInv, UNCHANGED slotVars, UNCHANGED <<loop, req>>
  PROVE  SlotGoal'
BY DEF SlotInv, HoldsLoop, Fresh, SlotHeld, Holding, Running, slotVars, SlotGoal

\* The loop is free, or the handler that takes a step has it.
LEMMA MyLoop ==
  ASSUME SlotInv, NEW r \in Requests, req[r] \in OnLoop
  PROVE  loop \in {r, NoReq} /\ loop = r
BY DEF SlotInv, HoldsLoop

\* register() gives the slot to a coordinator when none runs in it.
LEMMA RegisterStep ==
  ASSUME SlotInv, NEW r \in Requests, Register(r)
  PROVE  SlotGoal'
<1> USE DEF SlotInv, TypeOK
<1>1. req[r] = "claim" /\ loop = r
  BY MyLoop DEF Register, ReqStep, OnLoop
<1>2. CASE Busy(table[sess[r]])
  <2>1. /\ req' = [req EXCEPT ![r] = "failed"] /\ loop' = NoReq
        /\ UNCHANGED slotVars
    BY <1>2 DEF Register, ReqStep, OffHandler, slotVars
  <2>2. QED
    BY <1>1, <2>1, HandlerMove DEF Unstarted, OnLoop
<1>3. CASE ~Busy(table[sess[r]])
  <2>1. /\ req' = [req EXCEPT ![r] = "claimed"]
        /\ table' = [table EXCEPT ![sess[r]] = r]
        /\ UNCHANGED <<loop, sess, started, finished, thread, strayed>>
    BY <1>3 DEF Register, ReqStep, OffHandler
  <2>2. HoldsLoop'
    BY <1>1, <2>1 DEF HoldsLoop
  <2>3. Fresh'
    BY <1>1, <2>1 DEF Fresh, Unstarted
  <2>4. ASSUME NEW o \in Requests, Holding(o)', sess[o] \notin strayed
        PROVE  table'[sess[o]] = o
    <3>1. CASE o = r
      BY <2>1, <3>1
    <3>2. CASE o # r
      <4>1. req[o] # "claimed"
        BY <1>1, <3>2 DEF HoldsLoop, OnLoop
      <4>2. Running(o) /\ table[sess[o]] = o
        BY <2>1, <2>4, <3>2, <4>1 DEF SlotHeld, Holding, Running
      <4>3. sess[o] # sess[r]
        BY <1>3, <4>2, NoReqAssumption DEF Busy
      <4>4. QED
        BY <2>1, <4>2, <4>3
    <3>3. QED
      BY <3>1, <3>2
  <2>5. QED
    BY <2>1, <2>2, <2>3, <2>4 DEF SlotHeld, SlotGoal
<1>4. QED
  BY <1>2, <1>3

\* start() runs the coordinator that holds the slot.
LEMMA StartStep ==
  ASSUME SlotInv, NEW r \in Requests, Start(r)
  PROVE  SlotGoal'
<1> USE DEF SlotInv, TypeOK
<1>1. req[r] = "claimed" /\ loop = r
  BY MyLoop DEF Start, ReqStep, OnLoop
<1>2. /\ req'[r] \in {"served", "greeting"}
      /\ \A o \in Requests \ {r} : req'[o] = req[o]
      /\ started' = [started EXCEPT ![r] = TRUE]
      /\ thread' = [thread EXCEPT ![r] = "running"]
      /\ UNCHANGED <<table, sess, finished, strayed>>
  BY DEF Start, ReqStep
<1>3. \A o \in Requests : req'[o] \notin OnLoop
  BY <1>1, <1>2 DEF HoldsLoop, OnLoop
<1>4. HoldsLoop'
  BY <1>3 DEF HoldsLoop
<1>5. Fresh'
  BY <1>2 DEF Fresh, Unstarted
<1>6. SlotHeld'
  BY <1>1, <1>2 DEF SlotHeld, Holding, Running
<1>7. QED
  BY <1>4, <1>5, <1>6 DEF SlotGoal

\* release() empties the slot, and says so if it strays.
LEMMA ReleaseStep ==
  ASSUME SlotInv, NEW r \in Requests, Release(r)
  PROVE  SlotGoal'
<1> USE DEF SlotInv, TypeOK
<1>1. /\ table' = [table EXCEPT ![sess[r]] = NoReq]
      /\ UNCHANGED <<loop, req, sess, started, finished, thread>>
  BY DEF Release, reqVars, flags
<1>2. strayed \subseteq strayed'
  BY DEF Release
<1>3. ASSUME NEW o \in Requests, Holding(o)', sess[o] \notin strayed'
      PROVE  table'[sess[o]] = o
  <2>1. table[sess[o]] = o
    BY <1>1, <1>2, <1>3 DEF SlotHeld, Holding, Running
  <2>2. ~finished[o]
    BY <1>1, <1>3 DEF Fresh, Unstarted, Holding, Running
  <2>3. sess[o] # sess[r]
    BY <1>3, <2>1, <2>2, NoReqAssumption DEF Release
  <2>4. QED
    BY <1>1, <2>1, <2>3
<1>4. QED
  BY <1>1, <1>3 DEF HoldsLoop, Fresh, SlotHeld, SlotGoal

\* Registering, starting and releasing in any order keep the slot with the
\* stream that runs, but for the releases that `strayed` counts.
LEMMA SlotStep == SlotInv /\ [Next]_vars => SlotGoal'
<1> SUFFICES ASSUME SlotInv, [Next]_vars PROVE SlotGoal'
  OBVIOUS
<1> USE DEF slotVars, reqVars, flags
<1>1. ASSUME NEW r \in Requests, Arrive(r) PROVE SlotGoal'
  <2>1. req[r] = "new" /\ loop = NoReq /\ UNCHANGED slotVars
    BY <1>1 DEF Arrive, ReqStep, OffHandler
  <2>2. PICK to \in {"look", "again", "saving"} :
          req' = [req EXCEPT ![r] = to] /\ (to \in OnLoop => loop' = r)
    BY <1>1 DEF Arrive, ReqStep, OnLoop
  <2>3. QED
    BY <2>1, <2>2, HandlerMove DEF Unstarted
<1>2. ASSUME NEW r \in Requests, GetAgain(r) PROVE SlotGoal'
  <2>1. req[r] = "again" /\ loop = r /\ UNCHANGED slotVars
    BY <1>2, MyLoop DEF GetAgain, ReqStep, OffHandler, OnLoop
  <2>2. PICK to \in {"look", "failed"} :
          req' = [req EXCEPT ![r] = to] /\ (to \in OnLoop => loop' = loop)
    BY <1>2 DEF GetAgain, ReqStep, OnLoop
  <2>3. QED
    BY <2>1, <2>2, HandlerMove DEF Unstarted
<1>3. ASSUME NEW r \in Requests, Look(r) PROVE SlotGoal'
  <2>1. req[r] = "look" /\ loop = r /\ UNCHANGED slotVars
    BY <1>3, MyLoop DEF Look, ReqStep, OffHandler, OnLoop
  <2>2. PICK to \in {"refused", "saving", "claim"} :
          req' = [req EXCEPT ![r] = to] /\ (to \in OnLoop => loop' = loop)
    BY <1>3 DEF Look, ReqStep, OnLoop
  <2>3. QED
    BY <2>1, <2>2, HandlerMove DEF Unstarted
<1>4. ASSUME NEW r \in Requests, Saved(r) PROVE SlotGoal'
  <2>1. req[r] = "saving" /\ loop = NoReq /\ UNCHANGED slotVars
    BY <1>4 DEF Saved, ReqStep, OffHandler
  <2>2. PICK to \in {"claim", "failed"} :
          req' = [req EXCEPT ![r] = to] /\ (to \in OnLoop => loop' = r)
    BY <1>4 DEF Saved, ReqStep, OnLoop
  <2>3. QED
    BY <2>1, <2>2, HandlerMove DEF Unstarted
<1>5. ASSUME NEW r \in Requests, Register(r) \/ Start(r) \/ Release(r) PROVE SlotGoal'
  BY <1>5, RegisterStep, StartStep, ReleaseStep
<1>6. ASSUME NEW r \in Requests, Greet(r) PROVE SlotGoal'
  <2>1. req[r] = "greeting" /\ loop = NoReq /\ UNCHANGED slotVars
    BY <1>6 DEF Greet, ReqStep
  <2>2. PICK to \in {"served", "failed"} : req' = [req EXCEPT ![r] = to]
    BY <1>6 DEF Greet, ReqStep
  <2>3. QED
    BY <2>1, <2>2, HandlerMove DEF Unstarted, OnLoop
<1>7. ASSUME NEW r \in Requests, StreamReturns(r) \/ StreamRaises(r) PROVE SlotGoal'
  BY <1>7, ThreadMove DEF StreamReturns, StreamRaises, OffPipeline
<1>8. ASSUME NEW r \in Requests, Finish(r) \/ PublishEnd(r) PROVE SlotGoal'
  BY <1>8, ThreadMove DEF Finish, PublishEnd, OffPipeline
<1>9. ASSUME NEW r \in Requests, Publish(r) PROVE SlotGoal'
  BY <1>9, Aside DEF Publish, OffPipeline
<1>10. ASSUME NEW r \in Requests,
              FeedFails(r) \/ EndAudio(r) \/ Joined(r) \/ JoinTimesOut(r)
       PROVE SlotGoal'
  BY <1>10, Aside DEF FeedFails, EndAudio, Joined, JoinTimesOut, OffOwner
<1>11. ASSUME NEW x \in Stops, Stop(x) PROVE SlotGoal'
  BY <1>11, Aside DEF Stop, StopGet, StopEnd, OffStop
<1>12. CASE Deliver \/ UNCHANGED vars
  BY <1>12, Aside DEF Deliver, vars
<1>13. ASSUME NEW r \in Requests, Command(r) PROVE SlotGoal'
  <2>1. CASE \E places \in SUBSET HasLabel(sess[r]) : Rename(r, places)
    <3>1. /\ req[r] = "served" /\ loop = NoReq /\ UNCHANGED slotVars
          /\ req' = [req EXCEPT ![r] = "renaming"] /\ loop' = r
      BY <2>1 DEF Rename, ReqStep
    <3>2. QED
      BY <3>1, HandlerMove DEF Unstarted
  <2>2. CASE Revise(r)
    BY <2>2, Aside DEF Revise
  <2>3. CASE Renamed(r)
    <3>1. /\ req[r] = "renaming" /\ loop = r /\ UNCHANGED slotVars
          /\ req' = [req EXCEPT ![r] = "served"]
      BY <2>3, MyLoop DEF Renamed, ReqStep, OnLoop
    <3>2. QED
      BY <3>1, HandlerMove DEF Unstarted, OnLoop
  <2>4. QED
    BY <1>13, <2>1, <2>2, <2>3 DEF Command
<1>14. QED
  BY <1>1, <1>2, <1>3, <1>4, <1>5, <1>6, <1>7, <1>8, <1>9, <1>10, <1>11, <1>12, <1>13
     DEF Next, Handler, Pipeline, Owner

\* Exclusive for any number of requests and sessions: without a stray release
\* a running stream is the one in its session's slot, so there is one at most.
THEOREM SlotIsHeld == Safety => []Exclusive
<1>1. Init => SlotInv
  <2>1. Init => TypeOK
    BY BoundAssumption DEF Init, TypeOK
  <2>2. Init => HoldsLoop /\ Fresh /\ SlotHeld
    BY DEF Init, HoldsLoop, OnLoop, Fresh, Unstarted, SlotHeld, Holding, Running
  <2>3. QED
    BY <2>1, <2>2 DEF SlotInv
<1>2. SlotInv /\ [Next]_vars /\ TypeOK' => SlotInv'
  BY SlotStep DEF SlotInv, SlotGoal
<1>3. SlotInv => Exclusive
  BY DEF SlotInv, SlotHeld, Holding, Exclusive
<1>4. QED
  BY <1>1, <1>2, <1>3, TypeCorrect, PTL DEF Safety

\* Two streams of one session that has seen no stray release are the same.
COROLLARY OneRunning ==
  ASSUME Exclusive,
         NEW r1 \in Requests, NEW r2 \in Requests,
         Running(r1), Running(r2), sess[r1] = sess[r2], sess[r1] \notin strayed
  PROVE  r1 = r2
BY DEF Exclusive

\* A request keeps what it relies on while it does not move, its slot is left
\* alone or emptied, and no coordinator starts running behind its back.
LEMMA MicKept ==
  ASSUME TypeOK, NEW o \in Requests, MicOK(o),
         req'[o] = req[o], found'[o] = found[o], UNCHANGED <<kind, sess>>,
         started[o] => started'[o],
         table'[sess[o]] \in {table[sess[o]], NoReq},
         req[o] = "claim" => \A c \in Requests : Running(c)' => Running(c)
  PROVE  MicOK(o)'
<1>1. CASE req[o] = "claim"
  <2>1. CASE table'[sess[o]] = NoReq
    BY <1>1, <2>1 DEF MicOK, Busy
  <2>2. CASE table'[sess[o]] = table[sess[o]] /\ table[sess[o]] # NoReq
    <3>1. table[sess[o]] \in Requests
      BY <2>2 DEF TypeOK
    <3>2. QED
      BY <1>1, <2>2, <3>1 DEF MicOK, Busy
  <2>3. QED
    BY <2>1, <2>2
<1>2. CASE req[o] # "claim"
  BY <1>2 DEF MicOK
<1>3. QED
  BY <1>1, <1>2

\* Whatever is no handler leaves requests alone, starts nothing and at most
\* empties slots.
LEMMA NoHandler ==
  ASSUME TypeOK,
         \/ \E r \in Requests : Pipeline(r) \/ Owner(r)
         \/ \E x \in Stops : Stop(x)
         \/ Deliver
         \/ UNCHANGED vars
  PROVE  /\ UNCHANGED <<req, found, kind, sess, started>>
         /\ \A s \in Sessions : table'[s] \in {table[s], NoReq}
         /\ \A c \in Requests : Running(c)' => Running(c)
<1> USE DEF reqVars, flags, Running
<1>1. ASSUME NEW r \in Requests, Pipeline(r)
      PROVE  /\ UNCHANGED <<req, found, kind, sess, started, table>>
             /\ \A c \in Requests : finished[c] => finished'[c]
  <2>1. CASE Publish(r) \/ StreamReturns(r) \/ StreamRaises(r)
    BY <2>1 DEF Publish, StreamReturns, StreamRaises, OffPipeline
  <2>2. CASE Finish(r)
    BY <2>2, SMTT(20) DEF Finish, OffPipeline, TypeOK
  <2>3. CASE PublishEnd(r)
    BY <2>3, SMTT(20) DEF PublishEnd, OffPipeline, TypeOK
  <2>4. QED
    BY <1>1, <2>1, <2>2, <2>3 DEF Pipeline
<1>2. ASSUME NEW r \in Requests, FeedFails(r) \/ EndAudio(r) \/ Joined(r) \/ JoinTimesOut(r)
      PROVE  UNCHANGED <<req, found, kind, sess, started, finished, table>>
  BY <1>2 DEF FeedFails, EndAudio, Joined, JoinTimesOut, OffOwner
<1>3. ASSUME NEW r \in Requests, Release(r)
      PROVE  /\ UNCHANGED <<req, found, kind, sess, started, finished>>
             /\ \A s \in Sessions : table'[s] \in {table[s], NoReq}
  BY <1>3 DEF Release, TypeOK
<1>4. ASSUME NEW x \in Stops, Stop(x)
      PROVE  UNCHANGED <<req, found, kind, sess, started, finished, table>>
  BY <1>4 DEF Stop, StopGet, StopEnd, OffStop
<1>5. ASSUME Deliver \/ UNCHANGED vars
      PROVE  UNCHANGED <<req, found, kind, sess, started, finished, table>>
  BY <1>5 DEF Deliver, vars
<1>6. QED
  BY <1>1, <1>2, <1>3, <1>4, <1>5 DEF Owner

\* A command moves its handler from being served to renaming and back.
LEMMA CommandMove ==
  ASSUME TypeOK, NEW r \in Requests, Command(r)
  PROVE  /\ UNCHANGED <<found, kind, sess, started, finished, table>>
         /\ req'[r] \in {"served", "renaming"}
         /\ \A o \in Requests \ {r} : req'[o] = req[o]
BY DEF Command, Rename, Revise, Renamed, ReqStep, TypeOK, reqVars, flags

\* A microphone handler keeps the loop from its check to its registration, so
\* that what it saw of the slot is still true, or the slot has become empty.
LEMMA MicStep == MicInv /\ [Next]_vars => \A o \in Requests : MicOK(o)'
<1> SUFFICES ASSUME MicInv, [Next]_vars, NEW o \in Requests PROVE MicOK(o)'
  OBVIOUS
<1>0. SlotInv /\ TypeOK /\ MicOK(o)
  BY DEF MicInv, SlotInv
<1>1. ASSUME \/ \E r \in Requests : Pipeline(r) \/ Owner(r)
             \/ \E x \in Stops : Stop(x)
             \/ Deliver
             \/ UNCHANGED vars
      PROVE  MicOK(o)'
  <2>1. sess[o] \in Sessions
    BY <1>0 DEF TypeOK
  <2>2. QED
    BY <1>0, <1>1, <2>1, NoHandler, MicKept
<1>2. ASSUME NEW r \in Requests, o # r, Register(r) \/ Start(r) PROVE MicOK(o)'
  <2>1. loop = r
    BY <1>0, <1>2, MyLoop DEF Register, Start, ReqStep, OnLoop
  <2>2. req[o] \notin OnLoop
    BY <1>0, <1>2, <2>1 DEF SlotInv, HoldsLoop
  <2>3. /\ req'[o] = req[o] /\ UNCHANGED <<kind, sess>>
        /\ started[o] => started'[o]
    BY <1>0, <1>2 DEF Register, Start, ReqStep, OffHandler, TypeOK
  <2>4. QED
    BY <1>0, <2>2, <2>3 DEF MicOK, OnLoop
<1>3. ASSUME NEW r \in Requests, o # r,
             Arrive(r) \/ GetAgain(r) \/ Look(r) \/ Saved(r) \/ Greet(r) \/ Command(r)
      PROVE  MicOK(o)'
  <2>1. /\ req'[o] = req[o] /\ found'[o] = found[o]
        /\ UNCHANGED <<kind, sess, started, finished, table>>
    <3>1. CASE Arrive(r)
      BY <1>0, <1>3, <3>1 DEF Arrive, ReqStep, OffHandler, TypeOK
    <3>2. CASE GetAgain(r)
      BY <1>0, <1>3, <3>2 DEF GetAgain, ReqStep, OffHandler, TypeOK
    <3>3. CASE Look(r)
      BY <1>0, <1>3, <3>3 DEF Look, ReqStep, OffHandler, TypeOK
    <3>4. CASE Saved(r) \/ Greet(r)
      BY <1>0, <1>3, <3>4 DEF Saved, Greet, ReqStep, OffHandler, flags, TypeOK
    <3>5. CASE Command(r)
      BY <1>0, <1>3, <3>5, CommandMove
    <3>6. QED
      BY <1>3, <3>1, <3>2, <3>3, <3>4, <3>5
  <2>2. \A c \in Requests : Running(c)' => Running(c)
    BY <2>1 DEF Running
  <2>3. QED
    BY <1>0, <2>1, <2>2, MicKept
<1>4. CASE Arrive(o)
  BY <1>0, <1>4 DEF Arrive, ReqStep, TypeOK, MicOK
<1>5. CASE GetAgain(o)
  BY <1>0, <1>5 DEF GetAgain, ReqStep, TypeOK, MicOK
<1>6. CASE Look(o)
  <2>1. req[o] = "look" /\ UNCHANGED <<table, kind, sess, started, finished>>
    BY <1>6 DEF Look, ReqStep, OffHandler
  <2>2. CASE kind[o] = "mic" /\ ~Busy(found[o])
    <3>1. req'[o] = "claim" /\ table[sess[o]] \in {found[o], NoReq}
      BY <1>0, <1>6, <2>1, <2>2 DEF Look, ReqStep, MicOK, TypeOK
    <3>2. ~Busy(table[sess[o]])
      BY <2>2, <3>1 DEF Busy
    <3>3. ~Busy(table[sess[o]])'
      BY <2>1, <3>2 DEF Busy, Running
    <3>4. QED
      BY <3>1, <3>3 DEF MicOK
  <2>3. CASE kind[o] = "mic" /\ Busy(found[o])
    <3>1. req'[o] = "refused"
      BY <1>0, <1>6, <2>3 DEF Look, ReqStep, TypeOK
    <3>2. QED
      BY <3>1 DEF MicOK
  <2>4. CASE kind[o] # "mic"
    BY <2>1, <2>4 DEF MicOK
  <2>5. QED
    BY <2>2, <2>3, <2>4
<1>7. CASE Saved(o)
  BY <1>0, <1>7 DEF Saved, ReqStep, TypeOK, MicOK
<1>8. CASE Register(o)
  <2>1. req[o] = "claim" /\ UNCHANGED <<kind, sess>>
    BY <1>8 DEF Register, ReqStep
  <2>2. kind[o] = "mic" => req'[o] = "claimed"
    BY <1>0, <1>8, <2>1 DEF Register, ReqStep, MicOK, TypeOK
  <2>3. QED
    BY <2>1, <2>2 DEF MicOK
<1>9. CASE Start(o)
  BY <1>0, <1>9 DEF Start, ReqStep, TypeOK, MicOK
<1>10. CASE Greet(o)
  BY <1>0, <1>10 DEF Greet, ReqStep, flags, TypeOK, MicOK
<1>11. CASE Command(o)
  BY <1>0, <1>11, CommandMove DEF MicOK
<1>12. QED
  BY <1>1, <1>2, <1>3, <1>4, <1>5, <1>6, <1>7, <1>8, <1>9, <1>10, <1>11 DEF Next, Handler

\* MicClaimSucceeds for any requests: ws_ingest never loses the session between
\* its check and register(), whoever else starts, ends or releases streams.
THEOREM MicNeverBeaten == Safety => []MicClaimSucceeds
<1> DEFINE AllMicOK == \A o \in Requests : MicOK(o)
<1>1. Init => HoldsLoop /\ Fresh /\ SlotHeld
  BY DEF Init, HoldsLoop, OnLoop, Fresh, Unstarted, SlotHeld, Holding, Running
<1>2. Init => AllMicOK
  BY DEF Init, MicOK
<1>3. TypeOK /\ HoldsLoop /\ Fresh /\ SlotHeld /\ AllMicOK /\ [Next]_vars
      => HoldsLoop' /\ Fresh' /\ SlotHeld' /\ AllMicOK'
  BY SlotStep, MicStep DEF MicInv, SlotInv, SlotGoal
<1>4. AllMicOK => MicClaimSucceeds
  BY DEF MicOK, MicClaimSucceeds
<1> HIDE DEF AllMicOK
<1>5. QED
  BY <1>1, <1>2, <1>3, <1>4, TypeCorrect, PTL DEF Safety
-----------------------------------------------------------------------------
(* The transcripts.  Broadcasts of many streams and of renames are scheduled  *)
(* on one loop.  What holds at every step: the events of a pipeline in its    *)
(* session's history are the first ones it published, and those scheduled are *)
(* the others, each once and in order, with its end as the last.              *)

\* Where the sequence q has what r's pipeline said.
Mine(q, r) == {i \in 1..Len(q) : q[i].by = r /\ q[i].event # "revised"}

\* It has the events a+1 to b of r, each once and in order.
InOrder(q, r, a, b) ==
  /\ \A i \in Mine(q, r) : q[i].number \in (a + 1)..b
  /\ \A n \in (a + 1)..b : \E i \in Mine(q, r) : q[i].number = n
  /\ \A i, j \in Mine(q, r) : i < j => q[i].number < q[j].number

\* The end is numbered after everything else.
EndMarked(q, r, last) ==
  \A i \in Mine(q, r) : q[i].event = "stream_end" <=> q[i].number = last

Total(r) == sent[r] + (IF thread[r] = "ended" THEN 1 ELSE 0)
Told(r) ==
  /\ \E d \in 0..Total(r) : InOrder(history[sess[r]], r, 0, d) /\ InOrder(calls, r, d, Total(r))
  /\ EndMarked(history[sess[r]], r, sent[r] + 1)
  /\ EndMarked(calls, r, sent[r] + 1)
EndsFinished(r) == thread[r] \in {"ending", "ended"} => finished[r]

\* A revision is of an utterance that its session's history has already.
Has(s, k, e) == \E j \in 1..k : history[s][j] = Utterance(e.of, e.number)
RevisedAfter(s) ==
  \A i \in 1..Len(history[s]) :
    history[s][i].event = "revised" => Has(s, i - 1, history[s][i])
RevisesTold(i) ==
  LET s == sess[calls[i].by] IN calls[i].event = "revised" => Has(s, Len(history[s]), calls[i])

TranscriptInv ==
  /\ \A r \in Requests : Told(r) /\ EndsFinished(r)
  /\ \A s \in Sessions : RevisedAfter(s)
  /\ \A i \in 1..Len(calls) : RevisesTold(i)

\* The places in a sequence that gets one more event at its end.
LEMMA MineAppend ==
  ASSUME NEW q \in Seq(Events), NEW e \in Events, NEW r
  PROVE  /\ Mine(Append(q, e), r) =
              Mine(q, r) \cup (IF e.by = r /\ e.event # "revised" THEN {Len(q) + 1} ELSE {})
         /\ Append(q, e)[Len(q) + 1] = e
         /\ \A i \in 1..Len(q) : Append(q, e)[i] = q[i]
         /\ Len(Append(q, e)) = Len(q) + 1 /\ Len(q) \in Nat
<1>1. /\ Len(Append(q, e)) = Len(q) + 1 /\ Append(q, e)[Len(q) + 1] = e /\ Len(q) \in Nat
      /\ \A i \in 1..Len(q) : Append(q, e)[i] = q[i]
  BY AppendProperties, LenProperties
<1> DEFINE a == Append(q, e)
<1> HIDE DEF a
<1>2. ASSUME Len(a) = Len(q) + 1, a[Len(q) + 1] = e, \A i \in 1..Len(q) : a[i] = q[i]
      PROVE  Mine(a, r) =
               Mine(q, r) \cup (IF e.by = r /\ e.event # "revised" THEN {Len(q) + 1} ELSE {})
  BY <1>1, <1>2 DEF Mine
<1>3. QED
  BY <1>1, <1>2 DEF a

\* Those in a sequence that has lost its first event, at one place less each.
LEMMA MineTail ==
  ASSUME NEW q \in Seq(Events), q # <<>>, NEW r
  PROVE  /\ \A j : j \in Mine(Tail(q), r) <=> j \in Nat \ {0} /\ j + 1 \in Mine(q, r)
         /\ \A j \in 1..Len(Tail(q)) : Tail(q)[j] = q[j + 1]
         /\ Len(q) \in Nat \ {0} /\ Len(Tail(q)) = Len(q) - 1
         /\ Head(q) = q[1] /\ Head(q) \in Events
         /\ 1 \in Mine(q, r) <=> Head(q).by = r /\ Head(q).event # "revised"
<1>1. Len(q) \in Nat \ {0} /\ Len(Tail(q)) = Len(q) - 1 /\ Head(q) = q[1] /\ Head(q) \in Events
      /\ \A i \in 1..Len(Tail(q)) : Tail(q)[i] = q[i + 1]
  BY HeadTailProperties, LenProperties, EmptySeq
<1> DEFINE t == Tail(q)
<1> HIDE DEF t
<1>2. ASSUME Len(t) = Len(q) - 1, \A i \in 1..Len(t) : t[i] = q[i + 1]
      PROVE  \A j : j \in Mine(t, r) <=> j \in Nat \ {0} /\ j + 1 \in Mine(q, r)
  BY <1>1, <1>2 DEF Mine
<1>3. 1 \in Mine(q, r) <=> q[1].by = r /\ q[1].event # "revised"
  BY <1>1 DEF Mine
<1>4. QED
  BY <1>1, <1>2, <1>3 DEF t

\* An event of another, or a revision, changes nothing for r.
LEMMA AppendOther ==
  ASSUME NEW q \in Seq(Events), NEW e \in Events, NEW r, e.by # r \/ e.event = "revised"
  PROVE  /\ \A a, b \in Nat : InOrder(q, r, a, b) => InOrder(Append(q, e), r, a, b)
         /\ \A n : EndMarked(q, r, n) => EndMarked(Append(q, e), r, n)
<1> DEFINE p == Append(q, e)
<1>1. Mine(p, r) = Mine(q, r) /\ \A i \in Mine(q, r) : p[i] = q[i]
  BY MineAppend DEF Mine
<1> HIDE DEF p
<1>2. /\ \A a, b \in Nat : InOrder(q, r, a, b) => InOrder(p, r, a, b)
      /\ \A n : EndMarked(q, r, n) => EndMarked(p, r, n)
  BY <1>1 DEF InOrder, EndMarked
<1>3. QED
  BY <1>2 DEF p

\* The next event of r comes after the ones before it.
LEMMA AppendOwn ==
  ASSUME NEW q \in Seq(Events), NEW e \in Events, NEW r, e.by = r, e.event # "revised",
         NEW a \in Nat, NEW b \in Nat, a <= b, InOrder(q, r, a, b), e.number = b + 1
  PROVE  InOrder(Append(q, e), r, a, b + 1)
<1> DEFINE p == Append(q, e)
           m == Len(q) + 1
<1>1. /\ Mine(p, r) = Mine(q, r) \cup {m} /\ p[m] = e
      /\ \A i \in Mine(q, r) : p[i] = q[i] /\ i < m /\ i \in Nat
      /\ m \in Nat
  BY MineAppend DEF Mine
<1> HIDE DEF p, m
<1>2. \A i \in Mine(p, r) : p[i].number \in (a + 1)..(b + 1)
  BY <1>1 DEF InOrder
<1>3. ASSUME NEW n \in (a + 1)..(b + 1) PROVE \E i \in Mine(p, r) : p[i].number = n
  <2>1. CASE n = b + 1
    BY <1>1, <2>1
  <2>2. CASE n # b + 1
    <3>1. n \in (a + 1)..b
      BY <2>2
    <3>2. QED
      BY <1>1, <3>1 DEF InOrder
  <2>3. QED
    BY <2>1, <2>2
<1>4. ASSUME NEW i \in Mine(p, r), NEW j \in Mine(p, r), i < j
      PROVE  p[i].number < p[j].number
  <2>1. i \in Mine(q, r)
    BY <1>1, <1>4
  <2>2. CASE j = m
    <3>1. p[j].number = b + 1
      BY <1>1, <2>2
    <3>2. p[i].number \in (a + 1)..b
      BY <1>1, <2>1 DEF InOrder
    <3>3. QED
      BY <3>1, <3>2
  <2>3. CASE j \in Mine(q, r)
    BY <1>1, <1>4, <2>1, <2>3 DEF InOrder
  <2>4. QED
    BY <1>1, <2>2, <2>3
<1>5. QED
  BY <1>2, <1>3, <1>4 DEF InOrder, p

\* The first scheduled event of r is the next one to enter the history.
LEMMA TailOwn ==
  ASSUME NEW q \in Seq(Events), q # <<>>, NEW r, 1 \in Mine(q, r),
         NEW a \in Nat, NEW b \in Nat, InOrder(q, r, a, b)
  PROVE  Head(q).number = a + 1 /\ a + 1 <= b /\ InOrder(Tail(q), r, a + 1, b)
<1> DEFINE t == Tail(q)
<1>1. /\ \A j : j \in Mine(t, r) <=> j \in Nat \ {0} /\ j + 1 \in Mine(q, r)
      /\ \A j \in Mine(t, r) : t[j] = q[j + 1]
      /\ Head(q) = q[1] /\ Mine(q, r) \subseteq Nat \ {0}
  BY MineTail DEF Mine
<1> HIDE DEF t
<1>2. q[1].number \in (a + 1)..b
  BY DEF InOrder
<1>3. PICK k \in Mine(q, r) : q[k].number = a + 1
  BY <1>2 DEF InOrder
<1>4. k = 1
  <2>1. ASSUME k # 1 PROVE FALSE
    <3>1. 1 < k
      BY <1>1, <2>1
    <3>2. q[1].number < q[k].number
      BY <3>1 DEF InOrder
    <3>3. QED
      BY <1>2, <1>3, <3>2
  <2>2. QED
    BY <2>1
<1>5. ASSUME NEW i \in Mine(t, r) PROVE t[i].number \in (a + 2)..b
  <2>1. i + 1 \in Mine(q, r) /\ 1 < i + 1 /\ t[i] = q[i + 1]
    BY <1>1
  <2>2. q[1].number < q[i + 1].number /\ q[i + 1].number \in (a + 1)..b
    BY <2>1 DEF InOrder
  <2>3. QED
    BY <1>3, <1>4, <2>1, <2>2
<1>6. ASSUME NEW n \in (a + 2)..b PROVE \E i \in Mine(t, r) : t[i].number = n
  <2>1. PICK j \in Mine(q, r) : q[j].number = n
    BY DEF InOrder
  <2>2. j # 1
    BY <1>3, <1>4, <2>1
  <2>3. j - 1 \in Nat \ {0} /\ (j - 1) + 1 = j
    BY <1>1, <2>2
  <2>4. j - 1 \in Mine(t, r) /\ t[j - 1] = q[j]
    BY <1>1, <2>3
  <2>5. QED
    BY <2>1, <2>4
<1>7. ASSUME NEW i \in Mine(t, r), NEW j \in Mine(t, r), i < j
      PROVE  t[i].number < t[j].number
  <2>1. i + 1 \in Mine(q, r) /\ j + 1 \in Mine(q, r) /\ i + 1 < j + 1
    BY <1>1, <1>7
  <2>2. QED
    BY <1>1, <2>1 DEF InOrder
<1>8. (a + 1) + 1 = a + 2 /\ a + 1 <= b
  BY <1>2
<1>9. InOrder(t, r, a + 1, b)
  BY <1>5, <1>6, <1>7, <1>8 DEF InOrder
<1>10. QED
  BY <1>1, <1>3, <1>4, <1>8, <1>9 DEF t

\* When the first is not r's, all of r's remain.
LEMMA TailOther ==
  ASSUME NEW q \in Seq(Events), q # <<>>, NEW r, 1 \notin Mine(q, r),
         NEW a \in Nat, NEW b \in Nat, InOrder(q, r, a, b)
  PROVE  InOrder(Tail(q), r, a, b)
<1> DEFINE t == Tail(q)
<1>1. /\ \A j : j \in Mine(t, r) <=> j \in Nat \ {0} /\ j + 1 \in Mine(q, r)
      /\ \A j \in Mine(t, r) : t[j] = q[j + 1]
      /\ Mine(q, r) \subseteq Nat \ {0}
  BY MineTail DEF Mine
<1> HIDE DEF t
<1>2. \A j \in Mine(q, r) : j - 1 \in Mine(t, r) /\ t[j - 1] = q[j]
  <2>1. ASSUME NEW j \in Mine(q, r) PROVE j - 1 \in Nat \ {0} /\ (j - 1) + 1 = j
    BY <1>1
  <2>2. QED
    BY <1>1, <2>1
<1>3. \A i \in Mine(t, r) : t[i].number \in (a + 1)..b
  BY <1>1 DEF InOrder
<1>4. \A n \in (a + 1)..b : \E i \in Mine(t, r) : t[i].number = n
  BY <1>2 DEF InOrder
<1>5. ASSUME NEW i \in Mine(t, r), NEW j \in Mine(t, r), i < j
      PROVE  t[i].number < t[j].number
  <2>1. i + 1 \in Mine(q, r) /\ j + 1 \in Mine(q, r) /\ i + 1 < j + 1
    BY <1>1, <1>5
  <2>2. QED
    BY <1>1, <2>1 DEF InOrder
<1>6. QED
  BY <1>3, <1>4, <1>5 DEF InOrder, t

LEMMA TailMarked ==
  ASSUME NEW q \in Seq(Events), q # <<>>, NEW r, NEW n, EndMarked(q, r, n)
  PROVE  EndMarked(Tail(q), r, n)
<1> DEFINE t == Tail(q)
<1>1. \A j \in Mine(t, r) : j + 1 \in Mine(q, r) /\ t[j] = q[j + 1]
  BY MineTail DEF Mine
<1> HIDE DEF t
<1>2. EndMarked(t, r, n)
  BY <1>1 DEF EndMarked
<1>3. QED
  BY <1>2 DEF t

LEMMA AppendMarked ==
  ASSUME NEW q \in Seq(Events), NEW e \in Events, NEW r, NEW n, EndMarked(q, r, n),
         e.by = r => (e.event = "stream_end" <=> e.number = n)
  PROVE  EndMarked(Append(q, e), r, n)
<1> DEFINE p == Append(q, e)
           m == Len(q) + 1
<1>1. \A i \in Mine(p, r) : (i \in Mine(q, r) /\ p[i] = q[i]) \/ (p[i] = e /\ e.by = r)
  BY MineAppend DEF Mine
<1> HIDE DEF p
<1>2. EndMarked(p, r, n)
  BY <1>1 DEF EndMarked
<1>3. QED
  BY <1>2 DEF p

LEMMA TellingTypes ==
  ASSUME TypeOK, NEW r \in Requests
  PROVE  /\ calls \in Seq(Events) /\ sess[r] \in Sessions
         /\ history[sess[r]] \in Seq(Events)
         /\ sent[r] \in Nat /\ Total(r) \in Nat /\ sent[r] <= Total(r)
BY BoundAssumption DEF TypeOK, Total

\* A step that tells nothing and does not end r's thread keeps what is said of r.
LEMMA ToldAside ==
  ASSUME NEW r \in Requests, Told(r), UNCHANGED <<calls, history, sess, sent>>,
         thread'[r] = "ended" <=> thread[r] = "ended"
  PROVE  Told(r)'
<1>1. Total(r)' = Total(r)
  BY DEF Total
<1>2. calls' = calls /\ history'[sess'[r]] = history[sess[r]] /\ sent'[r] = sent[r]
  OBVIOUS
<1>3. QED
  BY <1>1, <1>2 DEF Told

\* So does one that schedules an event of another stream or a revision.
LEMMA ToldOther ==
  ASSUME TypeOK, NEW r \in Requests, Told(r), NEW e \in Events,
         e.by # r \/ e.event = "revised",
         calls' = Append(calls, e), UNCHANGED <<history, sess>>,
         sent'[r] = sent[r], thread'[r] = thread[r]
  PROVE  Told(r)'
<1>1. Total(r)' = Total(r) /\ calls \in Seq(Events) /\ Total(r) \in Nat
  BY TellingTypes DEF Total
<1>2. PICK d \in 0..Total(r) : InOrder(history[sess[r]], r, 0, d) /\ InOrder(calls, r, d, Total(r))
  BY DEF Told
<1>3. InOrder(calls', r, d, Total(r)) /\ EndMarked(calls', r, sent[r] + 1)
  <2>1. d \in Nat
    BY <1>1
  <2>2. QED
    BY <1>1, <1>2, <2>1, AppendOther DEF Told
<1>4. QED
  BY <1>1, <1>2, <1>3 DEF Told

\* The pipeline schedules its next utterance.
LEMMA ToldUtterance ==
  ASSUME TypeOK, NEW r \in Requests, Told(r), Publish(r)
  PROVE  Told(r)'
<1> DEFINE e == Utterance(r, sent[r] + 1)
<1>1. /\ calls \in Seq(Events) /\ sent[r] \in Nat /\ thread[r] # "ended" /\ thread' = thread
      /\ calls' = Append(calls, e) /\ UNCHANGED <<history, sess>>
      /\ sent'[r] = sent[r] + 1
  <2>1. sent' = [sent EXCEPT ![r] = @ + 1]
    BY DEF Publish
  <2>2. QED
    BY <2>1, TellingTypes DEF Publish, OffPipeline, reqVars, TypeOK
<1>2. e \in Events /\ e.by = r /\ e.event = "utterance" /\ e.number = sent[r] + 1
  <2>1. sent[r] + 1 \in Numbers
    BY BoundAssumption DEF Publish, TypeOK, Numbers
  <2>2. QED
    BY <2>1, EventKinds DEF Utterance, Event
<1> HIDE DEF e
<1>3. Total(r) = sent[r] /\ Total(r)' = sent[r] + 1
  BY <1>1 DEF Total
<1>4. PICK d \in 0..Total(r) : InOrder(history[sess[r]], r, 0, d) /\ InOrder(calls, r, d, Total(r))
  BY DEF Told
<1>5. d \in Nat /\ d <= sent[r] /\ d \in 0..(sent[r] + 1)
  BY <1>1, <1>3, <1>4
<1>6. InOrder(calls', r, d, sent[r] + 1)
  BY <1>1, <1>2, <1>3, <1>4, <1>5, AppendOwn
<1>7. \A i \in Mine(history[sess[r]], r) : history[sess[r]][i].number \in 1..d
  BY <1>4 DEF InOrder
<1>8. \A i \in Mine(calls, r) : calls[i].number \in (d + 1)..sent[r]
  BY <1>3, <1>4 DEF InOrder
<1>9. /\ EndMarked(history[sess[r]], r, sent[r] + 2)
      /\ EndMarked(calls, r, sent[r] + 2)
  <2>1. \A n \in 1..sent[r] : n # sent[r] + 2 /\ n # sent[r] + 1
    BY <1>1
  <2>2. 1..d \subseteq 1..sent[r] /\ (d + 1)..sent[r] \subseteq 1..sent[r]
    BY <1>1, <1>5
  <2>3. \A i \in Mine(history[sess[r]], r) :
          history[sess[r]][i].number # sent[r] + 2 /\ history[sess[r]][i].number # sent[r] + 1
    BY <1>7, <2>1, <2>2
  <2>4. \A i \in Mine(calls, r) : calls[i].number # sent[r] + 2 /\ calls[i].number # sent[r] + 1
    BY <1>8, <2>1, <2>2
  <2>5. QED
    BY <2>3, <2>4 DEF Told, EndMarked
<1>10. EndMarked(calls', r, sent[r] + 2)
  <2>1. e.number # sent[r] + 2
    BY <1>1, <1>2
  <2>2. QED
    BY <1>1, <1>2, <1>9, <2>1, AppendMarked
<1>11. sent'[r] + 1 = sent[r] + 2
  BY <1>1
<1>12. QED
  BY <1>1, <1>3, <1>4, <1>5, <1>6, <1>9, <1>10, <1>11 DEF Told

\* ... or its end.
LEMMA ToldEnd ==
  ASSUME TypeOK, NEW r \in Requests, Told(r), PublishEnd(r)
  PROVE  Told(r)'
<1> DEFINE e == EndOf(r, ~error[r])
<1>1. /\ calls \in Seq(Events) /\ sent[r] \in Nat /\ thread[r] # "ended" /\ thread'[r] = "ended"
      /\ calls' = Append(calls, e) /\ UNCHANGED <<history, sess, sent>>
  BY TellingTypes DEF PublishEnd, OffPipeline, reqVars, TypeOK
<1>2. e \in Events /\ e.by = r /\ e.event = "stream_end" /\ e.number = sent[r] + 1
  <2>1. sent[r] + 1 \in Numbers /\ (~error[r]) \in BOOLEAN
    <3>1. sent[r] \in 0..MaxEvents
      BY DEF TypeOK
    <3>2. QED
      BY <3>1, BoundAssumption DEF Numbers
  <2>2. QED
    BY <2>1, EventKinds DEF EndOf, Event
<1> HIDE DEF e
<1>3. Total(r) = sent[r] /\ Total(r)' = sent[r] + 1
  BY <1>1 DEF Total
<1>4. PICK d \in 0..Total(r) : InOrder(history[sess[r]], r, 0, d) /\ InOrder(calls, r, d, Total(r))
  BY DEF Told
<1>5. d \in Nat /\ d <= sent[r] /\ d \in 0..(sent[r] + 1)
  BY <1>1, <1>3, <1>4
<1>6. InOrder(calls', r, d, sent[r] + 1)
  BY <1>1, <1>2, <1>3, <1>4, <1>5, AppendOwn
<1>7. EndMarked(calls', r, sent[r] + 1)
  BY <1>1, <1>2, AppendMarked DEF Told
<1>8. QED
  BY <1>1, <1>3, <1>4, <1>5, <1>6, <1>7 DEF Told

\* The loop runs the next broadcast.
LEMMA ToldDeliver ==
  ASSUME TypeOK, NEW r \in Requests, Told(r), Deliver
  PROVE  Told(r)'
<1> DEFINE c == Head(calls)
           h == history[sess[r]]
<1>1. /\ calls \in Seq(Events) /\ calls # <<>> /\ h \in Seq(Events) /\ sess[r] \in Sessions
      /\ calls' = Tail(calls) /\ UNCHANGED <<sess, sent, thread>>
      /\ history' = [history EXCEPT ![sess[c.by]] = Append(@, c)]
  BY TellingTypes DEF Deliver, reqVars
<1>2. c \in Events /\ (1 \in Mine(calls, r) <=> c.by = r /\ c.event # "revised")
  BY <1>1, MineTail
<1>3. Total(r)' = Total(r) /\ Total(r) \in Nat
  BY <1>1, TellingTypes DEF Total
<1> HIDE DEF c
<1>4. /\ history'[sess[r]] = IF sess[c.by] = sess[r] THEN Append(h, c) ELSE h
  BY <1>1 DEF TypeOK
<1>5. PICK d \in 0..Total(r) : InOrder(h, r, 0, d) /\ InOrder(calls, r, d, Total(r))
  BY DEF Told
<1>6. d \in Nat
  BY <1>3
<1> HIDE DEF h
<1>7. EndMarked(calls', r, sent[r] + 1)
  BY <1>1, TailMarked DEF Told
<1>8. CASE 1 \notin Mine(calls, r)
  <2>1. InOrder(calls', r, d, Total(r))
    BY <1>1, <1>3, <1>5, <1>6, <1>8, TailOther
  <2>2. InOrder(Append(h, c), r, 0, d) /\ EndMarked(Append(h, c), r, sent[r] + 1)
    BY <1>1, <1>2, <1>5, <1>6, <1>8, AppendOther DEF Told, h
  <2>3. InOrder(history'[sess[r]], r, 0, d) /\ EndMarked(history'[sess[r]], r, sent[r] + 1)
    BY <1>4, <1>5, <2>2 DEF Told, h
  <2>4. QED
    BY <1>1, <1>3, <1>7, <2>1, <2>3 DEF Told
<1>9. CASE 1 \in Mine(calls, r)
  <2>1. c.number = d + 1 /\ d + 1 <= Total(r) /\ InOrder(calls', r, d + 1, Total(r))
    BY <1>1, <1>3, <1>5, <1>6, <1>9, TailOwn DEF c
  <2>2. c.by = r /\ c.event # "revised" /\ history'[sess[r]] = Append(h, c)
    BY <1>2, <1>4, <1>9
  <2>3. InOrder(Append(h, c), r, 0, d + 1)
    <3>1. 0 <= d
      BY <1>6
    <3>2. QED
      BY <1>1, <1>2, <1>5, <1>6, <2>1, <2>2, <3>1, AppendOwn
  <2>4. c.event = "stream_end" <=> c.number = sent[r] + 1
    BY <1>1, <1>9, MineTail DEF Told, EndMarked, c
  <2>5. EndMarked(Append(h, c), r, sent[r] + 1)
    BY <1>1, <1>2, <2>4, AppendMarked DEF Told, h
  <2>6. d + 1 \in 0..Total(r)
    BY <1>3, <1>6, <2>1
  <2>7. QED
    BY <1>1, <1>3, <1>7, <2>1, <2>2, <2>3, <2>5, <2>6 DEF Told
<1>10. QED
  BY <1>8, <1>9



\* A revision enters the history after its utterance, which was there when it
\* was scheduled.
LEMMA RevisionsDeliver ==
  ASSUME TypeOK, TranscriptInv, Deliver
  PROVE  /\ \A s \in Sessions : RevisedAfter(s)'
         /\ \A i \in 1..Len(calls') : RevisesTold(i)'
<1> DEFINE c == Head(calls)
<1>0. [Next]_vars
  BY DEF Next
<1>1. /\ calls \in Seq(Events) /\ calls # <<>> /\ calls' = Tail(calls) /\ sess' = sess
      /\ history' = [history EXCEPT ![sess[c.by]] = Append(@, c)]
      /\ sess \in [Requests -> Sessions]
  BY DEF Deliver, TypeOK, reqVars
<1>2. /\ c \in Events /\ c = calls[1] /\ 1 \in 1..Len(calls)
      /\ \A j \in 1..Len(calls') : calls'[j] = calls[j + 1] /\ j + 1 \in 1..Len(calls)
  BY <1>1, MineTail
<1>3. \A i \in 1..Len(calls) : calls[i] \in Events /\ sess[calls[i].by] \in Sessions
  BY <1>1, EventFields
<1>4. ASSUME NEW i \in 1..Len(calls') PROVE RevisesTold(i)'
  <2> DEFINE s == sess[calls[i + 1].by]
             e == calls[i + 1]
  <2>1. RevisesTold(i + 1) /\ i + 1 \in 1..Len(calls)
    BY <1>2 DEF TranscriptInv
  <2>2. s \in Sessions /\ Len(history[s]) \in Nat
    BY <1>3, <2>1, HistoryGrows, <1>0
  <2>3. e.event = "revised" => Has(s, Len(history[s]), e)
    BY <2>1 DEF RevisesTold
  <2>4. calls'[i] = e /\ sess'[calls'[i].by] = s
    BY <1>1, <1>2
  <2>5. ASSUME e.event = "revised"
        PROVE  \E j \in 1..Len(history'[s]) : history'[s][j] = Utterance(e.of, e.number)
    <3>1. PICK j \in 1..Len(history[s]) : history[s][j] = Utterance(e.of, e.number)
      BY <2>3, <2>5 DEF Has
    <3>2. j \in 1..Len(history'[s]) /\ history'[s][j] = history[s][j]
      BY <1>0, <2>2, HistoryGrows
    <3>3. QED
      BY <3>1, <3>2
  <2>6. QED
    BY <2>4, <2>5 DEF RevisesTold, Has
<1>5. ASSUME NEW s \in Sessions, NEW i \in 1..Len(history'[s]), history'[s][i].event = "revised"
      PROVE  Has(s, i - 1, history[s][i])'
  <2>1. Len(history[s]) \in Nat /\ history[s] \in Seq(Events)
    BY HistoryGrows, <1>0 DEF TypeOK
  <2> HIDE DEF c
  <2>2. history'[s] = IF sess[c.by] = s THEN Append(history[s], c) ELSE history[s]
    BY <1>1 DEF TypeOK
  <2>3. CASE i <= Len(history[s])
    <3>1. i \in 1..Len(history[s]) /\ history'[s][i] = history[s][i]
      BY <2>1, <2>3, HistoryGrows, <1>0
    <3>2. Has(s, i - 1, history[s][i]) /\ i - 1 \in Nat /\ i - 1 <= Len(history[s])
      BY <1>5, <2>1, <3>1 DEF TranscriptInv, RevisedAfter
    <3>3. PICK j \in 1..(i - 1) :
            history[s][j] = Utterance(history[s][i].of, history[s][i].number)
      BY <3>2 DEF Has
    <3>4. history'[s][j] = history[s][j]
      BY <2>1, <3>1, HistoryGrows, <1>0
    <3>5. QED
      BY <3>1, <3>3, <3>4 DEF Has, Utterance, Event
  <2>4. CASE i > Len(history[s])
    <3>1. /\ sess[c.by] = s /\ i = Len(history[s]) + 1 /\ history'[s][i] = c
          /\ i - 1 = Len(history[s])
      BY <1>2, <2>1, <2>2, <2>4, MineAppend
    <3>2. RevisesTold(1) /\ c.event = "revised"
      BY <1>2, <1>5, <3>1 DEF TranscriptInv
    <3>3. Has(s, Len(history[s]), c)
      BY <1>2, <3>1, <3>2 DEF RevisesTold
    <3>4. PICK j \in 1..Len(history[s]) : history[s][j] = Utterance(c.of, c.number)
      BY <3>3 DEF Has
    <3>5. j \in 1..(i - 1) /\ history'[s][j] = Utterance(history'[s][i].of, history'[s][i].number)
      BY <3>1, <3>4, HistoryGrows, <1>0
    <3>6. QED
      BY <3>5 DEF Has, Utterance, Event
  <2>5. QED
    BY <2>1, <2>3, <2>4
<1>6. \A s \in Sessions : RevisedAfter(s)'
  BY <1>5 DEF RevisedAfter
<1>7. QED
  BY <1>4, <1>6

\* What is scheduled leaves the histories alone: only the new event is to be
\* looked at.
LEMMA RevisionsSchedule ==
  ASSUME TypeOK, TranscriptInv, NEW e \in Events, calls' = Append(calls, e),
         UNCHANGED <<history, sess>>,
         e.event = "revised" => Has(sess[e.by], Len(history[sess[e.by]]), e)
  PROVE  /\ \A s \in Sessions : RevisedAfter(s)'
         /\ \A i \in 1..Len(calls') : RevisesTold(i)'
<1>1. calls \in Seq(Events)
  BY DEF TypeOK
<1>2. /\ Len(calls') = Len(calls) + 1 /\ Len(calls) \in Nat
      /\ calls'[Len(calls) + 1] = e
      /\ \A i \in 1..Len(calls) : calls'[i] = calls[i]
  BY <1>1, MineAppend
<1>3. \A s \in Sessions : RevisedAfter(s)'
  BY DEF TranscriptInv, RevisedAfter, Has
<1>4. ASSUME NEW i \in 1..Len(calls') PROVE RevisesTold(i)'
  <2>1. CASE i \in 1..Len(calls)
    <3>1. RevisesTold(i) /\ calls'[i] = calls[i]
      BY <1>2, <2>1 DEF TranscriptInv
    <3>2. QED
      BY <3>1 DEF RevisesTold, Has
  <2>2. CASE i = Len(calls) + 1
    BY <1>2, <2>2 DEF RevisesTold, Has
  <2>3. QED
    BY <1>2, <2>1, <2>2
<1>5. QED
  BY <1>3, <1>4

LEMMA RevisionsAside ==
  ASSUME TranscriptInv, UNCHANGED <<calls, history, sess>>
  PROVE  /\ \A s \in Sessions : RevisedAfter(s)'
         /\ \A i \in 1..Len(calls') : RevisesTold(i)'
<1>1. \A s \in Sessions : RevisedAfter(s)'
  BY DEF TranscriptInv, RevisedAfter, Has
<1>2. \A i \in 1..Len(calls') : RevisesTold(i)'
  BY DEF TranscriptInv, RevisesTold, Has
<1>3. QED
  BY <1>1, <1>2

\* What a rename schedules is a revision of an utterance in the history: a
\* record with a label is one, or the revision of one that is further up.
LEMMA ReviseTold ==
  ASSUME TypeOK, Labelled, TranscriptInv, NEW r \in Requests, Revise(r)
  PROVE  \E e \in Events :
           /\ e.event = "revised" /\ calls' = Append(calls, e)
           /\ Has(sess[e.by], Len(history[sess[e.by]]), e)
<1>1. PICK i \in updated[r] : calls' = Append(calls, Revised(r, history[sess[r]][i]))
  BY DEF Revise
<1> DEFINE s == sess[r]
           rec == history[s][i]
           e == Revised(r, rec)
<1>2. s \in Sessions /\ history[s] \in Seq(Events) /\ Len(history[s]) \in Nat
  BY LenProperties DEF TypeOK
<1>3. i \in 1..Len(history[s]) /\ rec.event # "stream_end" /\ rec \in Events
  BY <1>2 DEF Labelled, HasLabel
<1> HIDE DEF rec
<1>4. /\ e \in Events /\ e.event = "revised" /\ e.by = r /\ e.of = rec.of
      /\ e.number = rec.number
  BY <1>3, EventFields, EventKinds DEF Revised, Event
<1>5. CASE rec.event = "revised"
  <2>1. Has(s, i - 1, rec)
    BY <1>2, <1>3, <1>5 DEF TranscriptInv, RevisedAfter, rec
  <2>2. PICK j \in 1..(i - 1) : history[s][j] = Utterance(rec.of, rec.number)
    BY <2>1 DEF Has
  <2>3. j \in 1..Len(history[s])
    BY <1>2, <1>3
  <2>4. QED
    BY <1>1, <1>4, <2>2, <2>3 DEF Has, rec
<1>6. CASE rec.event = "utterance"
  <2>1. rec = Utterance(rec.of, rec.number)
    BY <1>3, <1>6, EventFields
  <2>2. history[s][i] = Utterance(rec.of, rec.number)
    BY <2>1 DEF rec
  <2>3. QED
    BY <1>1, <1>3, <1>4, <2>2 DEF Has, rec
<1>7. rec.event \in {"utterance", "revised", "stream_end"}
  <2>1. rec \in Others => rec.event \in {"revised", "stream_end"}
    BY DEF Others
  <2>2. rec \in Utterances => rec.event = "utterance"
    BY DEF Utterances, Utterance, Event
  <2>3. QED
    BY <1>3, <2>1, <2>2 DEF Events
<1>8. QED
  BY <1>3, <1>5, <1>6, <1>7

\* Every step keeps the account of every stream, and finishes a coordinator
\* before its end is said.
LEMMA TranscriptStep == SlotInv /\ Labelled /\ TranscriptInv /\ [Next]_vars => TranscriptInv'
<1> SUFFICES ASSUME SlotInv, Labelled, TranscriptInv, [Next]_vars
             PROVE  TranscriptInv'
  OBVIOUS
<1> DEFINE Streams == \A o \in Requests : Told(o)' /\ EndsFinished(o)'
           Revisions == /\ \A s \in Sessions : RevisedAfter(s)'
                        /\ \A i \in 1..Len(calls') : RevisesTold(i)'
<1> SUFFICES Streams /\ Revisions
  BY DEF TranscriptInv
<1>0. TypeOK /\ \A o \in Requests : Told(o) /\ EndsFinished(o) /\ finished[o] \in BOOLEAN
  BY DEF TranscriptInv, SlotInv, TypeOK
<1>1. ASSUME UNCHANGED <<calls, history, sess, sent>>,
             \A o \in Requests : EndsFinished(o)'
                                 /\ (thread'[o] = "ended" <=> thread[o] = "ended")
      PROVE  Streams /\ Revisions
  BY <1>0, <1>1, ToldAside, RevisionsAside
<1>2. ASSUME UNCHANGED <<telling, thread>> PROVE Streams /\ Revisions
  BY <1>0, <1>1, <1>2 DEF telling, EndsFinished
<1>3. ASSUME NEW r \in Requests, NEW to, thread[r] # "ended", to # "ended",
             to = "ending" => finished'[r],
             thread' = [thread EXCEPT ![r] = to], UNCHANGED <<calls, history, sess, sent>>,
             \A o \in Requests : finished[o] => finished'[o]
      PROVE  Streams /\ Revisions
  <2>1. \A o \in Requests : EndsFinished(o)' /\ (thread'[o] = "ended" <=> thread[o] = "ended")
    BY <1>0, <1>3 DEF EndsFinished, TypeOK
  <2>2. QED
    BY <1>1, <1>3, <2>1
<1>4. ASSUME NEW r \in Requests, Handler(r) \/ Owner(r) PROVE Streams /\ Revisions
  <2>1. CASE Start(r)
    <3>1. thread[r] = "none"
      BY <2>1 DEF Start, ReqStep, SlotInv, Fresh, Unstarted
    <3>2. UNCHANGED <<calls, history, sess, sent, finished>>
          /\ thread' = [thread EXCEPT ![r] = "running"]
      BY <2>1 DEF Start
    <3>3. QED
      BY <1>3, <3>1, <3>2
  <2>2. QED
    BY <1>2, <1>4, <2>1, Quiet DEF Handler
<1>5. ASSUME NEW r \in Requests, StreamReturns(r) \/ StreamRaises(r)
      PROVE  Streams /\ Revisions
  <2>1. thread[r] = "running" /\ UNCHANGED <<calls, history, sess, sent, finished>>
        /\ thread' = [thread EXCEPT ![r] = "finally"]
    BY <1>5 DEF StreamReturns, StreamRaises, OffPipeline, reqVars
  <2>2. QED
    BY <1>3, <2>1
<1>6. ASSUME NEW r \in Requests, Finish(r) PROVE Streams /\ Revisions
  <2>1. thread[r] = "finally" /\ UNCHANGED <<calls, history, sess, sent>>
        /\ thread' = [thread EXCEPT ![r] = "ending"]
        /\ finished' = [finished EXCEPT ![r] = TRUE]
    BY <1>6 DEF Finish, OffPipeline, reqVars
  <2>2. finished'[r] /\ \A o \in Requests : finished[o] => finished'[o]
    BY <1>0, <2>1 DEF TypeOK
  <2>3. QED
    BY <1>3, <2>1, <2>2
<1>7. ASSUME NEW r \in Requests, NEW e \in Events, e.by = r,
             calls' = Append(calls, e), UNCHANGED <<history, sess, finished>>,
             \A o \in Requests \ {r} : sent'[o] = sent[o] /\ thread'[o] = thread[o],
             thread'[r] \in {"ending", "ended"} => thread[r] \in {"ending", "ended"},
             Told(r)', e.event # "revised"
      PROVE  Streams /\ Revisions
  <2>1. \A o \in Requests \ {r} : Told(o)'
    BY <1>0, <1>7, ToldOther
  <2>2. \A o \in Requests : EndsFinished(o)'
    BY <1>0, <1>7 DEF EndsFinished
  <2>3. Revisions
    BY <1>0, <1>7, RevisionsSchedule
  <2>4. QED
    BY <1>7, <2>1, <2>2, <2>3
<1>8. ASSUME NEW r \in Requests, Publish(r) PROVE Streams /\ Revisions
  <2> DEFINE e == Utterance(r, sent[r] + 1)
  <2>1. /\ UNCHANGED <<history, sess, finished, thread>>
        /\ calls' = Append(calls, e) /\ sent' = [sent EXCEPT ![r] = @ + 1]
        /\ sent[r] < MaxEvents
    BY <1>8 DEF Publish, OffPipeline, reqVars
  <2>2. sent[r] + 1 \in Numbers
    BY <1>0, <2>1, BoundAssumption DEF TypeOK, Numbers
  <2>3. e \in Events /\ e.by = r /\ e.event # "revised"
    BY <2>2, EventKinds DEF Utterance, Event
  <2>4. Told(r)'
    BY <1>0, <1>8, ToldUtterance
  <2>5. \A o \in Requests \ {r} : sent'[o] = sent[o] /\ thread'[o] = thread[o]
    BY <1>0, <2>1 DEF TypeOK
  <2> HIDE DEF e
  <2>6. QED
    BY <1>7, <2>1, <2>3, <2>4, <2>5
<1>9. ASSUME NEW r \in Requests, PublishEnd(r) PROVE Streams /\ Revisions
  <2> DEFINE e == EndOf(r, ~error[r])
  <2>1. /\ UNCHANGED <<history, sess, finished, sent>> /\ thread[r] = "ending"
        /\ calls' = Append(calls, e) /\ thread' = [thread EXCEPT ![r] = "ended"]
    BY <1>9 DEF PublishEnd, OffPipeline, reqVars
  <2>2. sent[r] + 1 \in Numbers /\ (~error[r]) \in BOOLEAN
    <3>1. sent[r] \in 0..MaxEvents
      BY <1>0 DEF TypeOK
    <3>2. QED
      BY <3>1, BoundAssumption DEF Numbers
  <2>3. e \in Events /\ e.by = r /\ e.event # "revised"
    BY <2>2, EventKinds DEF EndOf, Event
  <2>4. Told(r)'
    BY <1>0, <1>9, ToldEnd
  <2>5. \A o \in Requests \ {r} : sent'[o] = sent[o] /\ thread'[o] = thread[o]
    BY <1>0, <2>1 DEF TypeOK
  <2> HIDE DEF e
  <2>6. QED
    BY <1>7, <2>1, <2>3, <2>4, <2>5
<1>10. ASSUME NEW r \in Requests, Command(r) PROVE Streams /\ Revisions
  <2>1. CASE \E places \in SUBSET HasLabel(sess[r]) : Rename(r, places)
    BY <1>0, <1>1, <2>1 DEF Rename, flags, EndsFinished
  <2>2. CASE Renamed(r)
    BY <1>2, <2>2, Quiet
  <2>3. CASE Revise(r)
    <3>1. UNCHANGED <<history, sess, finished, sent, thread>>
      BY <2>3 DEF Revise, reqVars, flags
    <3>2. PICK e \in Events :
            /\ e.event = "revised" /\ calls' = Append(calls, e)
            /\ Has(sess[e.by], Len(history[sess[e.by]]), e)
      BY <1>0, <2>3, ReviseTold
    <3>3. \A o \in Requests : Told(o)' /\ EndsFinished(o)'
      BY <1>0, <3>1, <3>2, ToldOther DEF EndsFinished
    <3>4. QED
      BY <1>0, <3>1, <3>2, <3>3, RevisionsSchedule
  <2>4. QED
    BY <1>10, <2>1, <2>2, <2>3 DEF Command
<1>11. CASE Deliver
  <2>1. \A o \in Requests : Told(o)'
    BY <1>0, <1>11, ToldDeliver
  <2>2. \A o \in Requests : EndsFinished(o)'
    BY <1>0, <1>11 DEF Deliver, EndsFinished, flags
  <2>3. QED
    BY <1>0, <1>11, <2>1, <2>2, RevisionsDeliver
<1>12. CASE (\E x \in Stops : Stop(x)) \/ UNCHANGED vars
  BY <1>2, <1>12, QuietStop
<1>13. QED
  BY <1>4, <1>5, <1>6, <1>8, <1>9, <1>10, <1>11, <1>12 DEF Next, Pipeline

\* The slot's invariant, which knows that a thread starts once, and this one.
LEMMA TranscriptHolds == Safety => [](SlotInv /\ TranscriptInv)
<1>1. Init => SlotInv /\ Labelled
  BY BoundAssumption DEF Init, SlotInv, TypeOK, HoldsLoop, OnLoop, Fresh, Unstarted,
                         SlotHeld, Holding, Running, Labelled
<1>2. Init => TranscriptInv
  <2> SUFFICES ASSUME Init PROVE TranscriptInv
    OBVIOUS
  <2>1. /\ Len(calls) = 0 /\ \A s \in Sessions : Len(history[s]) = 0
        /\ \A r \in Requests : sent[r] = 0 /\ thread[r] = "none" /\ sess[r] \in Sessions
    BY DEF Init
  <2>2. ASSUME NEW r \in Requests PROVE Told(r) /\ EndsFinished(r)
    <3>1. Mine(calls, r) = {} /\ Mine(history[sess[r]], r) = {} /\ Total(r) = 0
      BY <2>1 DEF Mine, Total
    <3>2. InOrder(calls, r, 0, 0) /\ InOrder(history[sess[r]], r, 0, 0)
      BY <3>1 DEF InOrder
    <3>3. QED
      BY <2>1, <3>1, <3>2 DEF Told, EndMarked, EndsFinished
  <2>3. QED
    BY <2>1, <2>2 DEF TranscriptInv, RevisedAfter
<1>3. SlotInv /\ TypeOK' /\ [Next]_vars => SlotInv'
  BY SlotStep DEF SlotInv, SlotGoal
<1>4. SlotInv /\ Labelled /\ [Next]_vars => Labelled'
  BY LabelledStep DEF SlotInv
<1>5. QED
  BY <1>1, <1>2, <1>3, <1>4, TranscriptStep, TypeCorrect, PTL DEF Safety

\* However many streams and renames share the loop and whatever waits have timed
\* out, what a pipeline published is in its session's history whole, once and in
\* order by its stream_end, which is the last of it; and a rename publishes only
\* records again that the history has.
THEOREM EndIsLast == Safety => []EndClosesTranscript
<1>1. SlotInv /\ TranscriptInv => EndClosesTranscript
  <2> SUFFICES ASSUME SlotInv, TranscriptInv PROVE EndClosesTranscript
    OBVIOUS
  <2>1. ASSUME NEW r \in Requests
        PROVE  /\ \A i, j \in Said(r) :
                    i < j => history[sess[r]][i].number < history[sess[r]][j].number
               /\ \A i \in Ends(r) :
                    /\ \A j \in Said(r) : j <= i
                    /\ \A n \in 1..sent[r] :
                         \E j \in Said(r) : history[sess[r]][j] = Utterance(r, n)
    <3> DEFINE h == history[sess[r]]
    <3>1. h \in Seq(Events) /\ sent[r] \in Nat /\ Total(r) \in Nat /\ Total(r) <= sent[r] + 1
      BY TellingTypes DEF SlotInv, Total
    <3>2. Said(r) = Mine(h, r)
      BY DEF Said, Mine
    <3>3. PICK d \in 0..Total(r) : InOrder(h, r, 0, d)
      BY DEF TranscriptInv, Told
    <3>4. EndMarked(h, r, sent[r] + 1)
      BY DEF TranscriptInv, Told
    <3>5. Ends(r) = {i \in Said(r) : h[i].event = "stream_end"}
      BY DEF Ends
    <3>6. \A i \in Said(r) : i \in 1..Len(h) /\ h[i].by = r /\ h[i].event # "revised"
      BY DEF Said
    <3>7. Len(h) \in Nat
      BY <3>1, LenProperties
    <3> HIDE DEF h
    <3>8. ASSUME NEW i \in Ends(r), NEW j \in Said(r) PROVE j <= i
      <4>1. i \in Said(r) /\ h[i].number = sent[r] + 1
        BY <3>2, <3>4, <3>5 DEF EndMarked
      <4>2. h[j].number \in 1..d
        BY <3>2, <3>3 DEF InOrder
      <4>3. ASSUME i < j PROVE FALSE
        <5>1. h[i].number < h[j].number
          BY <3>2, <3>3, <4>1, <4>3 DEF InOrder
        <5>2. QED
          BY <3>1, <4>1, <4>2, <5>1
      <4>4. i \in Nat /\ j \in Nat
        BY <3>6, <3>7, <4>1
      <4>5. QED
        BY <4>3, <4>4
    <3>9. ASSUME NEW i \in Ends(r), NEW n \in 1..sent[r]
          PROVE  \E j \in Said(r) : h[j] = Utterance(r, n)
      <4>1. i \in Said(r) /\ h[i].number = sent[r] + 1 /\ h[i].number \in 1..d
        BY <3>2, <3>3, <3>4, <3>5 DEF EndMarked, InOrder
      <4>2. n \in 1..d /\ n # sent[r] + 1
        BY <3>1, <4>1
      <4>3. PICK j \in Said(r) : h[j].number = n
        BY <3>2, <3>3, <4>2 DEF InOrder
      <4>4. h[j].event # "stream_end" /\ h[j].event # "revised" /\ h[j].by = r
        BY <3>2, <3>4, <3>6, <4>2, <4>3 DEF EndMarked
      <4>5. h[j] \in Events
        BY <3>1, <3>6
      <4>6. h[j] = Utterance(h[j].by, h[j].number)
        <5>1. h[j] \in Others => h[j].event \in {"revised", "stream_end"}
          BY DEF Others
        <5>2. h[j] \in Utterances => h[j].event = "utterance"
          BY DEF Utterances, Utterance, Event
        <5>3. QED
          BY <4>4, <4>5, <5>1, <5>2, EventFields DEF Events
      <4>7. QED
        BY <4>3, <4>4, <4>6
    <3>10. \A i, j \in Said(r) : i < j => h[i].number < h[j].number
      BY <3>2, <3>3 DEF InOrder
    <3>11. QED
      BY <3>8, <3>9, <3>10 DEF h
  <2>2. ASSUME NEW s \in Sessions, NEW i \in 1..Len(history[s]),
               history[s][i].event = "revised"
        PROVE  \E j \in 1..(i - 1) :
                 history[s][j] = Utterance(history[s][i].of, history[s][i].number)
    BY <2>2 DEF TranscriptInv, RevisedAfter, Has
  <2>3. QED
    BY <2>1, <2>2 DEF EndClosesTranscript, SlotInv
<1>2. QED
  BY <1>1, TranscriptHolds, PTL

\* Whoever has seen stream_end can start the next stream of the session.
THEOREM EndIsFree == Safety => []EndFreesSession
<1>1. SlotInv /\ TranscriptInv => EndFreesSession
  <2> SUFFICES ASSUME SlotInv, TranscriptInv, NEW r \in Requests, NEW i \in Ends(r)
               PROVE  finished[r]
    BY DEF EndFreesSession, Ended, Running
  <2> DEFINE h == history[sess[r]]
  <2>1. Said(r) = Mine(h, r) /\ i \in Said(r) /\ h[i].event = "stream_end"
    BY DEF Said, Mine, Ends
  <2>2. PICK d \in 0..Total(r) : InOrder(h, r, 0, d)
    BY DEF TranscriptInv, Told
  <2>3. EndMarked(h, r, sent[r] + 1) /\ EndsFinished(r)
    BY DEF TranscriptInv, Told
  <2> HIDE DEF h
  <2>4. h[i].number = sent[r] + 1 /\ h[i].number \in 1..d
    BY <2>1, <2>2, <2>3 DEF EndMarked, InOrder
  <2>5. sent[r] \in Nat /\ Total(r) \in Nat
    BY TellingTypes DEF SlotInv
  <2>6. Total(r) # sent[r]
    BY <2>2, <2>4, <2>5
  <2>7. thread[r] = "ended"
    BY <2>5, <2>6 DEF Total
  <2>8. QED
    BY <2>3, <2>7 DEF EndsFinished
<1>2. QED
  BY <1>1, TranscriptHolds, PTL
=============================================================================
