------------------------------ MODULE SessionHub ------------------------------
(* SessionHub of pipeline/session_hub.py and its subscribers, the /ws/events  *)
(* handlers of pipeline/api.py: records published into a session's history    *)
(* and fanned out, the replay of the history to a client that joins, renames  *)
(* that rewrite the history in place and publish what they changed, clients   *)
(* that leave and histories that are dropped.                                 *)
(*                                                                            *)
(* Everything here runs on the event loop; a step is what runs between two    *)
(* awaits.  A history holds references to records (dicts), so that a rewrite  *)
(* is seen by whoever still has the record to send; a message is a copy.      *)
EXTENDS Naturals, Sequences

CONSTANTS Sessions, Clients,
          Segments,   \* utterances: what start, end and azure_speaker identify
          Labels,     \* speaker labels
          NoLabel,    \* a client shows nothing for the utterance
          NoOne,      \* the broadcaster of a message no rename waits for
          MaxHistory, \* _MAX_HISTORY
          TrimTo,     \* _HISTORY_TRIM_TO
          MaxRecords  \* bound: records ever published

ASSUME LabelAssumption == NoLabel \notin Labels /\ NoOne \notin Clients
ASSUME HistoryAssumption ==
  MaxHistory \in Nat /\ TrimTo \in Nat /\ 0 < TrimTo /\ TrimTo <= MaxHistory
ASSUME RecordsAssumption == MaxRecords \in Nat

VARIABLES
  records, \* the dicts, in the order they were published; a history and a
           \* replay name them by their place here
  history, \* _histories
  subs,    \* _subs
  state,   \* how far a client's handler is
  sess,    \* the session it has joined
  replay,  \* what it has still to replay
  owed,    \* records its rename has still to publish
  queued,  \* sends to it that broadcasts have scheduled
  got,     \* the records it has been sent, in order
  shown,   \* the label it shows for an utterance: the last one received
  ordered  \* sessions with renames from /ws/ingest: for each rename, the
           \* records still to publish

vars == <<records, history, subs, state, sess, replay, owed, queued,
          got, shown, ordered>>
clientVars == <<subs, state, sess, replay, got, shown>>

Ids == 1..MaxRecords
Messages == [id : Ids, seg : Segments, who : Labels, by : Clients \cup {NoOne}]
Elements(seq) == {seq[i] : i \in 1..Len(seq)}

Init ==
  /\ records = <<>>
  /\ history = [s \in Sessions |-> <<>>]
  /\ subs = [s \in Sessions |-> {}]
  /\ state = [c \in Clients |-> "away"]
  /\ sess \in [Clients -> Sessions]
  /\ replay = [c \in Clients |-> <<>>]
  /\ owed = [c \in Clients |-> {}]
  /\ queued = [c \in Clients |-> <<>>]
  /\ got = [c \in Clients |-> <<>>]
  /\ shown = [c \in Clients |-> [g \in Segments |-> NoLabel]]
  /\ ordered = [s \in Sessions |-> <<>>]
-----------------------------------------------------------------------------
(* Faulty variants of the steps below, to show that the properties can fail.  *)

\* A replay that iterates over the history itself, not over a copy.
ReplayNextUncopied(c) ==
  /\ state[c] = "replaying"
  /\ replay[c] # <<>>
  /\ LET i == Head(replay[c])
         later(j) == j > i
         r == records[i] IN
     /\ got' = [got EXCEPT ![c] = Append(@, i)]
     /\ shown' = [shown EXCEPT ![c][r.seg] = r.who]
     /\ replay' = [replay EXCEPT ![c] = SelectSeq(history[sess[c]], later)]
  /\ UNCHANGED <<records, history, subs, state, sess, owed, queued, ordered>>

\* A rename that tells the clients of one record too few.
RenameOneFewer(c, old, new) ==
  /\ state[c] = "live"
  /\ LET hit == {i \in Elements(history[sess[c]]) : records[i].who = old} IN
     /\ hit # {}
     /\ records' = [i \in 1..Len(records) |->
                      IF i \in hit THEN [records[i] EXCEPT !.who = new]
                      ELSE records[i]]
     /\ owed' = [owed EXCEPT ![c] = {i \in hit : \E k \in hit : i < k}]
  /\ state' = [state EXCEPT ![c] = "renaming"]
  /\ UNCHANGED <<history, subs, sess, replay, queued, got, shown, ordered>>

\* A send that gives up on a client busy with its replay.
SendNextOrSkip(c) ==
  /\ queued[c] # <<>>
  /\ queued' = [queued EXCEPT ![c] = Tail(@)]
  /\ LET m == Head(queued[c]) IN
     IF state[c] \in {"replaying", "gone"} THEN UNCHANGED <<got, shown>>
     ELSE /\ got' = [got EXCEPT ![c] = Append(@, m.id)]
          /\ shown' = [shown EXCEPT ![c][m.seg] = m.who]
  /\ UNCHANGED <<records, history, subs, state, sess, replay, owed, ordered>>
-----------------------------------------------------------------------------
\* append(): the newest TrimTo records once there are more than MaxHistory.
Trimmed(h) ==
  IF Len(h) > MaxHistory THEN SubSeq(h, Len(h) - TrimTo + 1, Len(h)) ELSE h

\* broadcast(): a new record, into the history and to whoever is subscribed.
\* The gathered sends run later, in this order for each client.
Broadcast(s, seg, who, by) ==
  LET id == Len(records) + 1
      m == [id |-> id, seg |-> seg, who |-> who, by |-> by] IN
  /\ id <= MaxRecords
  /\ records' = Append(records, [seg |-> seg, who |-> who])
  /\ history' = [history EXCEPT ![s] = Trimmed(Append(@, id))]
  /\ queued' = [c \in Clients |->
                  IF c \in subs[s] THEN Append(queued[c], m) ELSE queued[c]]

\* rewrite_history_speaker(): the records of the session's history that carry
\* the old label, and all records with those rewritten.  The history is in the
\* order of the records, and so are the broadcasts of a rename.
Carrying(s, old) == {i \in Elements(history[s]) : records[i].who = old}
Rewritten(s, old, new) ==
  [i \in 1..Len(records) |->
     IF i \in Carrying(s, old) THEN [records[i] EXCEPT !.who = new]
     ELSE records[i]]

\* The client is sent a record.  It keeps one row per utterance.
Receive(c, id, seg, who) ==
  /\ got' = [got EXCEPT ![c] = Append(@, id)]
  /\ shown' = [shown EXCEPT ![c][seg] = who]

\* The pipeline, or POST /api/sessions/{id}/events, publishes a record.
Publish(s, seg, who) ==
  /\ Broadcast(s, seg, who, NoOne)
  /\ UNCHANGED <<clientVars, owed, ordered>>

\* ws_events: subscribe, then take the history, with no await in between.
Join(c) ==
  LET s == sess[c] IN
  /\ state[c] = "away"
  /\ state' = [state EXCEPT ![c] = "replaying"]
  /\ subs' = [subs EXCEPT ![s] = @ \cup {c}]
  /\ replay' = [replay EXCEPT ![c] = history[s]]
  /\ UNCHANGED <<records, history, sess, owed, queued, got, shown, ordered>>

\* One turn of the replay loop: the record as it is now.
ReplayNext(c) ==
  /\ state[c] = "replaying"
  /\ replay[c] # <<>>
  /\ LET i == Head(replay[c]) IN
     Receive(c, i, records[i].seg, records[i].who)
  /\ replay' = [replay EXCEPT ![c] = Tail(@)]
  /\ UNCHANGED <<records, history, subs, state, sess, owed, queued, ordered>>

ReplayDone(c) ==
  /\ state[c] = "replaying"
  /\ replay[c] = <<>>
  /\ state' = [state EXCEPT ![c] = "live"]
  /\ UNCHANGED <<records, history, subs, sess, replay, owed, queued,
                 got, shown, ordered>>

\* A scheduled send reaches the client, or finds it gone and is swallowed.
SendNext(c) ==
  /\ queued[c] # <<>>
  /\ queued' = [queued EXCEPT ![c] = Tail(@)]
  /\ IF state[c] = "gone" THEN UNCHANGED <<got, shown>>
     ELSE LET m == Head(queued[c]) IN Receive(c, m.id, m.seg, m.who)
  /\ UNCHANGED <<records, history, subs, state, sess, replay, owed, ordered>>

\* The rename's last broadcast has gathered all its sends.
Gathered(c) == \A d \in Clients : \A m \in Elements(queued[d]) : m.by # c

\* ws_events: a rename rewrites the history, and its handler then publishes
\* every rewritten record, awaiting each broadcast.
Rename(c, old, new) ==
  /\ state[c] = "live"
  /\ Carrying(sess[c], old) # {}
  /\ records' = Rewritten(sess[c], old, new)
  /\ owed' = [owed EXCEPT ![c] = Carrying(sess[c], old)]
  /\ state' = [state EXCEPT ![c] = "renaming"]
  /\ UNCHANGED <<history, subs, sess, replay, queued, got, shown, ordered>>

\* The next broadcast copies the record as it is now, not as it was rewritten.
RenameNext(c) ==
  /\ state[c] = "renaming"
  /\ Gathered(c)
  /\ \E i \in owed[c] :
       /\ \A k \in owed[c] : i <= k
       /\ Broadcast(sess[c], records[i].seg, records[i].who, c)
       /\ owed' = [owed EXCEPT ![c] = @ \ {i}]
  /\ UNCHANGED <<clientVars, ordered>>

\* The acknowledgement.
RenameDone(c) ==
  /\ state[c] = "renaming"
  /\ owed[c] = {}
  /\ Gathered(c)
  /\ state' = [state EXCEPT ![c] = "live"]
  /\ UNCHANGED <<records, history, subs, sess, replay, owed, queued,
                 got, shown, ordered>>

\* The socket closes, also in the middle of a replay: unsubscribe().
Leave(c) ==
  LET s == sess[c] IN
  /\ state[c] \in {"replaying", "live"}
  /\ state' = [state EXCEPT ![c] = "gone"]
  /\ subs' = [subs EXCEPT ![s] = @ \ {c}]
  /\ replay' = [replay EXCEPT ![c] = <<>>]
  /\ UNCHANGED <<records, history, sess, owed, queued, got, shown, ordered>>

\* A rename through /ws/ingest without a registry: handle_command rewrites and
\* schedules a broadcast of every rewritten record before the loop is free.
\* Bounded: no more renames wait than records there is still room for.
Order(s, old, new) ==
  LET all == Append(ordered[s], Carrying(s, old)) IN
  /\ Carrying(s, old) # {}
  /\ Len(all) <= MaxRecords - Len(records)
  /\ records' = Rewritten(s, old, new)
  /\ ordered' = [ordered EXCEPT ![s] = all]
  /\ UNCHANGED <<history, clientVars, owed, queued>>

OrderNext(s) ==
  /\ ordered[s] # <<>>
  /\ \E i \in Head(ordered[s]) :
       /\ \A k \in Head(ordered[s]) : i <= k
       /\ Broadcast(s, records[i].seg, records[i].who, NoOne)
       /\ ordered' = [ordered EXCEPT ![s] = IF Head(@) = {i} THEN Tail(@)
                                           ELSE <<Head(@) \ {i}>> \o Tail(@)]
  /\ UNCHANGED <<clientVars, owed>>

\* drop_session(), from DELETE /api/sessions/{id} or the cleanup.
Drop(s) ==
  /\ history[s] # <<>>
  /\ history' = [history EXCEPT ![s] = <<>>]
  /\ UNCHANGED <<records, clientVars, owed, queued, ordered>>

Handler(c) ==
  \/ Join(c) \/ ReplayNext(c) \/ ReplayDone(c) \/ Leave(c)
  \/ (\E old, new \in Labels : Rename(c, old, new)) \/ RenameNext(c) \/ RenameDone(c)

Next ==
  \/ \E c \in Clients : Handler(c) \/ SendNext(c)
  \/ \E s \in Sessions :
       \/ Drop(s) \/ OrderNext(s)
       \/ \E seg \in Segments, who \in Labels : Publish(s, seg, who)
       \/ \E old, new \in Labels : Order(s, old, new)

\* The loop gets to every scheduled send and every replay.  Nobody has to
\* join, publish, rename, leave or drop.
Fairness == \A c \in Clients : WF_vars(SendNext(c)) /\ WF_vars(ReplayNext(c))

Safety == Init /\ [][Next]_vars
Spec == Safety /\ Fairness
-----------------------------------------------------------------------------
TypeOK ==
  /\ Len(records) <= MaxRecords
  /\ \A i \in 1..Len(records) : records[i] \in [seg : Segments, who : Labels]
  /\ \A s \in Sessions :
       /\ Elements(history[s]) \subseteq 1..Len(records)
       /\ Len(history[s]) <= MaxHistory
       /\ UNION Elements(ordered[s]) \subseteq 1..Len(records)
  /\ subs \in [Sessions -> SUBSET Clients]
  /\ state \in [Clients -> {"away", "replaying", "live", "renaming", "gone"}]
  /\ sess \in [Clients -> Sessions]
  /\ \A c \in Clients :
       /\ Elements(replay[c]) \cup owed[c] \cup Elements(got[c])
            \subseteq 1..Len(records)
       /\ Elements(queued[c]) \subseteq Messages
  /\ shown \in [Clients -> [Segments -> Labels \cup {NoLabel}]]

Here(c) == state[c] \in {"replaying", "live", "renaming"}
Coming(c) == replay[c] \o [i \in 1..Len(queued[c]) |-> queued[c][i].id]

\* A client that has joined misses nothing, for nothing falls between subscribing
\* and copying the history: every record of it has been sent to the client, is
\* left to replay, or is in a scheduled send.  And nothing comes twice: no record
\* is both replayed and sent live, though publications go on during the replay.
OnceWithoutGap ==
  /\ TypeOK
  /\ \A c \in Clients : LET all == got[c] \o Coming(c) IN
       /\ Here(c) => Elements(history[sess[c]]) \subseteq Elements(all)
       /\ \A i, j \in 1..Len(all) : all[i] = all[j] => i = j

Ascending(seq) == \A i, j \in 1..Len(seq) : i < j => seq[i] < seq[j]

\* Nothing about the session's labels is still to be told.
Settled(s) ==
  /\ ordered[s] = <<>>
  /\ \A c \in Clients : sess[c] = s => owed[c] = {}

\* The label of the newest record of an utterance.
About(s, seg) == {i \in Elements(history[s]) : records[i].seg = seg}
Current(s, seg) ==
  records[CHOOSE i \in About(s, seg) : \A j \in About(s, seg) : j <= i].who

\* Concurrent renames and revisions leave every viewer agreed with the history:
\* once all is sent, a client that was sent the records in order shows, for
\* each utterance, what its newest record in the history says.
ViewAgrees ==
  \A c \in Clients :
    Here(c) /\ Settled(sess[c]) /\ Coming(c) = <<>> /\ Ascending(got[c]) =>
      \A seg \in Segments : About(sess[c], seg) # {} =>
        shown[c][seg] = Current(sess[c], seg)

\* Every record reaches every client that was there for it, or the client goes.
Reaches ==
  \A c \in Clients, i \in Ids :
    Here(c) /\ i \in Elements(history[sess[c]])
      ~> i \in Elements(got[c]) \/ state[c] = "gone"

\* A rename updates the records "when a speaker has been renamed"
\* (pipeline/ws_server.py:121): publishing them again changes no utterance's
\* label.  It does when the record has been superseded since: an obsolete
\* record, published again, is the newest.  The code does not have this property,
\* and no run asks for it.
Republish == (\E c \in Clients : RenameNext(c)) \/ (\E s \in Sessions : OrderNext(s))
KeepsLabels ==
  \A s \in Sessions, seg \in Segments :
    About(s, seg) # {} /\ About(s, seg)' # {} => Current(s, seg)' = Current(s, seg)
RenameOnlyRepeats == [][Republish => KeepsLabels]_vars
=============================================================================
