---------------------------- MODULE WebSocketSink ----------------------------
(* WebSocketSink of pipeline/ws_server.py with the command handler and the    *)
(* events of main() in pipeline/streaming.py: the fan-out of a stream that    *)
(* runs alone, without the API server.  One session.                          *)
(*                                                                            *)
(* Three kinds of threads: the pipeline's (main), one for each command that   *)
(* runs (asyncio.to_thread, at most one per client), and the loop's.  A       *)
(* thread broadcasts in two steps, the append to the history under the lock   *)
(* and, after it, the call that the loop is to make; the loop makes its calls *)
(* in the order they were asked for, the stop of the server among them.       *)
EXTENDS Naturals, Sequences, FiniteSets, SequencesExt

CONSTANTS Clients, Labels,
          Main,               \* the pipeline's thread
          Stop,               \* in calls: set the stop event
          MaxHistory, TrimTo, \* _MAX_HISTORY, _HISTORY_TRIM_TO
          MaxRecords          \* bound: records ever appended

ASSUME SinkAssumption ==
  /\ Main \notin Clients /\ Stop \notin Nat
  /\ MaxRecords \in Nat /\ MaxHistory \in Nat /\ TrimTo \in 1..MaxHistory

VARIABLES
  records, \* every record appended: its label, and the thread it is from
  history, \* _histories: the records' places
  subs,    \* _sessions: the connections subscribed
  hand,    \* what a thread has appended and not asked the loop to send yet
  calls,   \* what the loop has been asked to do
  queued,  \* sends of a fan-out to a connection that are not made yet
  conn,    \* "away", "up", "left" by the client or "closed" by the server
  handler, \* how far a connection's handler is
  replay,  \* what it has still to replay
  updates, \* records its rename has still to broadcast
  got,     \* what the client was sent
  main,    \* the pipeline's thread: "streaming", "stopping", "returned"
  server   \* "open", "closing", "closed"

vars == <<records, history, subs, hand, calls, queued, conn, handler, replay,
          updates, got, main, server>>
clientVars == <<subs, conn, handler, replay>>

Threads == Clients \cup {Main}
Nothing == 0

Init ==
  /\ records = <<>> /\ history = <<>> /\ subs = {} /\ calls = <<>>
  /\ hand = [t \in Threads |-> Nothing]
  /\ queued = [c \in Clients |-> <<>>] /\ got = [c \in Clients |-> <<>>]
  /\ conn = [c \in Clients |-> "away"] /\ handler = [c \in Clients |-> "none"]
  /\ replay = [c \in Clients |-> <<>>] /\ updates = [c \in Clients |-> {}]
  /\ main = "streaming" /\ server = "open"
-----------------------------------------------------------------------------
(* broadcast(), by any thread.                                                *)

Owed == FoldSet(LAMBDA c, n : n + Cardinality(updates[c]), 0, Clients)  \* of renames, within the bound
Trimmed(h) == IF Len(h) > MaxHistory THEN SubSeq(h, Len(h) - TrimTo + 1, Len(h)) ELSE h
Add(t, who) ==
  LET id == Len(records) + 1 IN
  /\ hand[t] = Nothing /\ id <= MaxRecords
  /\ records' = Append(records, [who |-> who, by |-> t])
  /\ history' = Trimmed(Append(history, id))
  /\ hand' = [hand EXCEPT ![t] = id]

\* run_coroutine_threadsafe(_fanout), which raises when the loop is closed.
Schedule(t) ==
  /\ hand[t] # Nothing /\ server # "closed"
  /\ calls' = Append(calls, hand[t])
  /\ hand' = [hand EXCEPT ![t] = Nothing]
  /\ UNCHANGED <<records, history, clientVars, queued, updates, got, main, server>>

\* on_event(), for a new or a revised record of the stream.
OnEvent ==
  /\ main = "streaming" /\ Len(records) + Owed < MaxRecords
  /\ \E who \in Labels : Add(Main, who)
  /\ UNCHANGED <<clientVars, calls, queued, updates, got, main, server>>

\* The stream has ended: stop() asks the loop to set the stop event, and waits
\* for the thread, 3 seconds at most.  (main() then ends, and its process may; the
\* model goes on.)
AskStopNow ==  \* as AskStop, with the event set at once, ahead of the loop's calls
  /\ main = "streaming" /\ hand[Main] = Nothing
  /\ main' = "stopping" /\ calls' = <<Stop>> \o calls
  /\ UNCHANGED <<records, history, clientVars, hand, queued, updates, got, server>>
AskStop ==
  /\ main = "streaming" /\ hand[Main] = Nothing
  /\ main' = "stopping" /\ calls' = Append(calls, Stop)
  /\ UNCHANGED <<records, history, clientVars, hand, queued, updates, got, server>>
StopReturns ==
  /\ main = "stopping" /\ main' = "returned"
  /\ UNCHANGED <<records, history, clientVars, hand, calls, queued, updates, got, server>>
-----------------------------------------------------------------------------
(* The loop.                                                                  *)

\* _fanout: a send for every connection that is subscribed by now.
FanoutLive ==  \* as Fanout, without those still at their replay
  /\ calls # <<>> /\ Head(calls) # Stop /\ server # "closed"
  /\ calls' = Tail(calls)
  /\ queued' = [c \in Clients |-> IF c \in subs /\ handler[c] # "replaying"
                                  THEN Append(queued[c], Head(calls)) ELSE queued[c]]
  /\ UNCHANGED <<records, history, clientVars, hand, updates, got, main, server>>
Fanout ==
  /\ calls # <<>> /\ Head(calls) # Stop /\ server # "closed"
  /\ calls' = Tail(calls)
  /\ queued' = [c \in Clients |-> IF c \in subs THEN Append(queued[c], Head(calls)) ELSE queued[c]]
  /\ UNCHANGED <<records, history, clientVars, hand, updates, got, main, server>>

\* A send reaches its client, or its error is gathered.
Send(c) ==
  /\ queued[c] # <<>> /\ queued' = [queued EXCEPT ![c] = Tail(@)]
  /\ got' = IF conn[c] = "up" THEN [got EXCEPT ![c] = Append(@, Head(queued[c]))] ELSE got
  /\ UNCHANGED <<records, history, clientVars, hand, calls, updates, main, server>>

\* The stop event: ws_serve's exit closes every connection, waits for the
\* handlers, and the loop is closed.  What fan-outs before it have begun to
\* send is written first.
StopEvent ==
  /\ calls # <<>> /\ Head(calls) = Stop
  /\ calls' = Tail(calls) /\ server' = "closing"
  /\ UNCHANGED <<records, history, clientVars, hand, queued, updates, got, main>>
CloseConnection(c) ==
  /\ server = "closing" /\ conn[c] = "up" /\ queued[c] = <<>>
  /\ conn' = [conn EXCEPT ![c] = "closed"]
  /\ UNCHANGED <<records, history, subs, handler, replay, hand, calls, queued, updates, got, main, server>>
CloseLoop ==
  /\ server = "closing" /\ \A c \in Clients : handler[c] \in {"none", "ended"}
  /\ server' = "closed"
  /\ UNCHANGED <<records, history, clientVars, hand, calls, queued, updates, got, main>>
-----------------------------------------------------------------------------
(* A connection's handler, and the thread of its command.                     *)

\* Subscribed, and the history copied, under the lock.
Join(c) ==
  /\ server = "open" /\ conn[c] = "away"
  /\ conn' = [conn EXCEPT ![c] = "up"] /\ handler' = [handler EXCEPT ![c] = "replaying"]
  /\ subs' = subs \cup {c} /\ replay' = [replay EXCEPT ![c] = history]
  /\ UNCHANGED <<records, history, hand, calls, queued, updates, got, main, server>>

ReplayNext(c) ==
  /\ handler[c] = "replaying" /\ conn[c] = "up"
  /\ IF replay[c] = <<>> THEN handler' = [handler EXCEPT ![c] = "live"] /\ UNCHANGED <<replay, got>>
     ELSE /\ got' = [got EXCEPT ![c] = Append(@, Head(replay[c]))]
          /\ replay' = [replay EXCEPT ![c] = Tail(@)] /\ handler' = handler
  /\ UNCHANGED <<records, history, subs, conn, hand, calls, queued, updates, main, server>>

\* A command arrives and its thread is started.
Command(c) ==
  /\ handler[c] = "live" /\ conn[c] = "up"
  /\ handler' = [handler EXCEPT ![c] = "asked"]
  /\ UNCHANGED <<records, history, subs, conn, replay, hand, calls, queued, updates, got, main, server>>

\* _command_handler: a rename that the resolver accepts rewrites the history and
\* has its records to broadcast; other commands, and errors, only answer.
\* Bounded by the records there is still room for.
Rewrite(c, old, new) ==
  LET hit == {i \in ToSet(history) : records[i].who = old} IN
  /\ Cardinality(hit) + Owed + Len(records) <= MaxRecords
  /\ records' = [i \in 1..Len(records) |->
                   IF i \in hit THEN [records[i] EXCEPT !.who = new] ELSE records[i]]
  /\ updates' = [updates EXCEPT ![c] = hit]
RunCommand(c) ==
  /\ handler[c] = "asked" /\ handler' = [handler EXCEPT ![c] = "telling"]
  /\ (\E old, new \in Labels : old # new /\ Rewrite(c, old, new)) \/ UNCHANGED <<records, updates>>
  /\ UNCHANGED <<history, subs, conn, replay, hand, calls, queued, got, main, server>>
Update(c) ==  \* the next one: the history is in the order of the records
  /\ handler[c] = "telling"
  /\ \E next \in updates[c] :
       /\ \A i \in updates[c] : next <= i
       /\ Add(c, records[next].who)
       /\ updates' = [updates EXCEPT ![c] = @ \ {next}]
  /\ UNCHANGED <<clientVars, calls, queued, got, main, server>>

\* The handler's end: unsubscribed under the lock.
Leave(c) ==
  /\ handler' = [handler EXCEPT ![c] = "ended"] /\ subs' = subs \ {c}
  /\ replay' = [replay EXCEPT ![c] = <<>>]

\* The command's answer, which finds the connection up or not.
RespondUp(c) ==  \* as Respond, without the end of the connection
  /\ handler[c] = "telling" /\ updates[c] = {} /\ hand[c] = Nothing /\ conn[c] = "up"
  /\ handler' = [handler EXCEPT ![c] = "live"]
  /\ UNCHANGED <<subs, replay, records, history, conn, hand, calls, queued, updates, got, main, server>>
Respond(c) ==
  /\ handler[c] = "telling" /\ updates[c] = {} /\ hand[c] = Nothing
  /\ IF conn[c] = "up" THEN handler' = [handler EXCEPT ![c] = "live"] /\ UNCHANGED <<subs, replay>>
     ELSE Leave(c)
  /\ UNCHANGED <<records, history, conn, hand, calls, queued, updates, got, main, server>>

\* A handler that sends or receives finds that the connection has ended.
Ended(c) ==
  /\ handler[c] \in {"replaying", "live"} /\ conn[c] \in {"left", "closed"}
  /\ Leave(c)
  /\ UNCHANGED <<records, history, conn, hand, calls, queued, updates, got, main, server>>

\* The client goes away.
Disconnect(c) ==
  /\ conn[c] = "up" /\ conn' = [conn EXCEPT ![c] = "left"]
  /\ UNCHANGED <<records, history, subs, handler, replay, hand, calls, queued, updates, got, main, server>>

LoopStep == Fanout \/ StopEvent \/ CloseLoop
            \/ \E c \in Clients : Send(c) \/ ReplayNext(c) \/ Ended(c) \/ CloseConnection(c)
CommandStep(c) == RunCommand(c) \/ Update(c) \/ Schedule(c) \/ Respond(c)
Next ==
  \/ OnEvent \/ AskStop \/ StopReturns \/ Schedule(Main) \/ LoopStep
  \/ \E c \in Clients : Join(c) \/ Command(c) \/ CommandStep(c) \/ Disconnect(c)

\* The loop does what it is asked for, and threads run.  Nobody has to publish,
\* join, ask or leave.
Fairness == WF_vars(LoopStep) /\ WF_vars(Schedule(Main)) /\ \A c \in Clients : WF_vars(CommandStep(c))
Spec == Init /\ [][Next]_vars /\ Fairness
-----------------------------------------------------------------------------
Ids == 1..Len(records)
TypeOK ==
  /\ \A i \in Ids : records[i] \in [who : Labels, by : Threads]
  /\ ToSet(history) \subseteq Ids /\ Len(history) <= MaxHistory
  /\ subs \subseteq Clients /\ ToSet(calls) \subseteq Ids \cup {Stop}
  /\ hand \in [Threads -> Ids \cup {Nothing}]
  /\ conn \in [Clients -> {"away", "up", "left", "closed"}]
  /\ handler \in [Clients -> {"none", "replaying", "live", "asked", "telling", "ended"}]
  /\ \A c \in Clients : ToSet(queued[c] \o replay[c] \o got[c]) \cup updates[c] \subseteq Ids
  /\ main \in {"streaming", "stopping", "returned"} /\ server \in {"open", "closing", "closed"}

\* A connected client misses nothing, though the history and the connections
\* are looked at by different threads at different times: each record of the
\* history was sent to it or will be, from its replay, a send, a call of the loop or
\* the hand of a thread.
InHand == {hand[t] : t \in Threads}
NothingMissed ==
  /\ TypeOK
  /\ \A c \in Clients : conn[c] = "up" =>
       ToSet(history) \subseteq ToSet(got[c] \o replay[c] \o queued[c]) \cup ToSet(calls) \cup InHand

\* Stopping loses nothing of the stream: a client whose connection the server
\* closed has been sent every record of the stream that is in the history,
\* unless it was still at its replay.  And no thread is left that would call a
\* closed loop.
StopFlushes ==
  /\ \A c \in Clients : conn[c] = "closed" /\ handler[c] # "replaying" /\ c \in subs =>
       {i \in ToSet(history) : records[i].by = Main} \subseteq ToSet(got[c])
  /\ server = "closed" => InHand = {Nothing} /\ \A c \in Clients : updates[c] = {}

\* Every command is answered or its client is gone, whatever else is going on,
\* and a stop closes the server, also when commands are running.
Ends ==
  /\ \A c \in Clients : handler[c] = "asked" ~> handler[c] \in {"live", "ended"}
  /\ main = "stopping" ~> server = "closed"

\* "Late joiners get the session's full history replayed before live events start
\* streaming." (pipeline/ws_server.py:10).  They do not: a fan-out during the
\* replay reaches them, also one of a record that the replay has yet to bring:
\* the code does not have this property, and no run asks for it.
ReplayedFirst ==
  [][\A c \in Clients : Send(c) /\ conn[c] = "up" => handler[c] # "replaying"]_vars
=============================================================================
