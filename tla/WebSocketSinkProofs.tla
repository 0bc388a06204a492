------------------------ MODULE WebSocketSinkProofs ------------------------
(* Proofs about WebSocketSink for any clients, labels and bounds: a connected *)
(* client misses no record of the history, and a stop of the server sends     *)
(* what the stream published before it.                                       *)
EXTENDS WebSocketSink, SequenceTheorems, TLAPS

Handlers == {"none", "replaying", "live", "asked", "telling", "ended"}
Places == {"away", "up", "left", "closed"}

\* The shapes of the variables, and that they name records there are.
Shapes ==
  /\ records \in Seq([who : Labels, by : Threads])
  /\ history \in Seq(Nat) /\ Len(history) <= MaxHistory
  /\ subs \subseteq Clients /\ calls \in Seq(Nat \cup {Stop})
  /\ hand \in [Threads -> Nat]
  /\ conn \in [Clients -> Places] /\ handler \in [Clients -> Handlers]
  /\ queued \in [Clients -> Seq(Nat)] /\ replay \in [Clients -> Seq(Nat)]
  /\ got \in [Clients -> Seq(Nat)] /\ updates \in [Clients -> SUBSET Nat]
  /\ main \in {"streaming", "stopping", "returned"} /\ server \in {"open", "closing", "closed"}
Named ==
  /\ ToSet(history) \subseteq Ids /\ ToSet(calls) \subseteq Ids \cup {Stop}
  /\ \A t \in Threads : hand[t] \in Ids \cup {Nothing}
  /\ \A c \in Clients : ToSet(queued[c]) \cup ToSet(replay[c]) \cup ToSet(got[c]) \cup updates[c]
                          \subseteq Ids

\* The elements of a sequence that grows, shrinks or is cut.
LEMMA Grown ==
  ASSUME NEW S, NEW s \in Seq(S), NEW e \in S
  PROVE  Append(s, e) \in Seq(S) /\ ToSet(Append(s, e)) = ToSet(s) \cup {e}
<1>1. /\ Append(s, e) \in Seq(S) /\ Len(Append(s, e)) = Len(s) + 1 /\ Append(s, e)[Len(s) + 1] = e
      /\ \A i \in 1..Len(s) : Append(s, e)[i] = s[i]
  BY AppendProperties
<1>2. Len(s) \in Nat /\ DOMAIN s = 1..Len(s) /\ DOMAIN Append(s, e) = 1..Len(Append(s, e))
  BY <1>1, LenProperties
<1> DEFINE a == Append(s, e)
<1> HIDE DEF a
<1>3. ASSUME Len(a) = Len(s) + 1, a[Len(s) + 1] = e, \A i \in 1..Len(s) : a[i] = s[i],
             DOMAIN a = 1..Len(a)
      PROVE  ToSet(a) = ToSet(s) \cup {e}
  BY <1>2, <1>3 DEF ToSet
<1>4. QED
  BY <1>1, <1>2, <1>3 DEF a

\* Its head is in what it loses.
LEMMA Shrunk ==
  ASSUME NEW S, NEW s \in Seq(S), s # <<>>
  PROVE  /\ Head(s) \in S /\ Tail(s) \in Seq(S)
         /\ ToSet(s) = {Head(s)} \cup ToSet(Tail(s))
<1>1. /\ Len(s) \in Nat \ {0} /\ Head(s) = s[1] /\ Head(s) \in S
      /\ Tail(s) \in Seq(S) /\ Len(Tail(s)) = Len(s) - 1
      /\ \A i \in 1..Len(Tail(s)) : Tail(s)[i] = s[i + 1]
  BY HeadTailProperties, LenProperties, EmptySeq
<1>2. DOMAIN s = 1..Len(s) /\ DOMAIN Tail(s) = 1..Len(Tail(s))
  BY <1>1, LenProperties
<1> DEFINE t == Tail(s)
           h == Head(s)
<1> HIDE DEF t, h
<1>3. ASSUME Len(s) \in Nat \ {0}, h = s[1], Len(t) = Len(s) - 1, DOMAIN t = 1..Len(t),
             \A i \in 1..Len(t) : t[i] = s[i + 1]
      PROVE  ToSet(s) = {h} \cup ToSet(t)
  <2>1. {h} \cup ToSet(t) \subseteq ToSet(s)
    BY <1>2, <1>3 DEF ToSet
  <2>2. ASSUME NEW i \in 1..Len(s) PROVE s[i] \in {h} \cup ToSet(t)
    <3>1. CASE i = 1
      BY <1>3, <3>1
    <3>2. CASE i # 1
      <4>1. i - 1 \in 1..Len(t) /\ t[i - 1] = s[i]
        BY <1>3, <3>2
      <4>2. QED
        BY <1>3, <4>1 DEF ToSet
    <3>3. QED
      BY <3>1, <3>2
  <2>3. QED
    BY <1>2, <2>1, <2>2 DEF ToSet
<1>4. QED
  BY <1>1, <1>2, <1>3 DEF t, h

\* The trim keeps a part, no longer than the history may be.
LEMMA Cut ==
  ASSUME NEW s \in Seq(Nat), Len(s) <= MaxHistory + 1
  PROVE  /\ Trimmed(s) \in Seq(Nat) /\ ToSet(Trimmed(s)) \subseteq ToSet(s)
         /\ Len(Trimmed(s)) <= MaxHistory
<1> USE SinkAssumption
<1>1. CASE ~(Len(s) > MaxHistory)
  BY <1>1, LenProperties DEF Trimmed
<1>2. CASE Len(s) > MaxHistory
  <2> DEFINE m == Len(s) - TrimTo + 1
             t == SubSeq(s, m, Len(s))
  <2>1. Len(s) \in Nat /\ m \in 1..Len(s) + 1 /\ Len(s) \in m - 1..Len(s) /\ Len(s) - m + 1 = TrimTo
    BY <1>2, LenProperties
  <2>2. t \in Seq(Nat) /\ Len(t) = TrimTo /\ \A i \in 1..TrimTo : t[i] = s[m + i - 1]
    BY <2>1, SubSeqProperties
  <2>3. DOMAIN s = 1..Len(s) /\ DOMAIN t = 1..TrimTo
    BY <2>2, LenProperties
  <2>4. \A i \in 1..TrimTo : m + i - 1 \in 1..Len(s)
    BY <1>2, <2>1
  <2>5. Trimmed(s) = t
    BY <1>2 DEF Trimmed
  <2> HIDE DEF t, m
  <2>6. ToSet(t) \subseteq ToSet(s)
    BY <2>2, <2>3, <2>4 DEF ToSet
  <2>7. QED
    BY <2>2, <2>5, <2>6
<1>3. QED
  BY <1>1, <1>2, LenProperties

\* broadcast(): a record that there was not, in the hand of its thread.
LEMMA AddStep ==
  ASSUME Shapes, Named, NEW t \in Threads, NEW who \in Labels, Add(t, who)
  PROVE  LET id == Len(records) + 1 IN
         /\ id \in Nat \ Ids /\ Ids' = Ids \cup {id}
         /\ records' \in Seq([who : Labels, by : Threads])
         /\ records'[id].by = t /\ \A i \in Ids : records'[i] = records[i]
         /\ history' \in Seq(Nat) /\ Len(history') <= MaxHistory
         /\ ToSet(history') \subseteq ToSet(history) \cup {id}
         /\ hand' = [hand EXCEPT ![t] = id] /\ hand[t] = Nothing
<1> DEFINE id == Len(records) + 1
           r == [who |-> who, by |-> t]
<1>1. /\ hand[t] = Nothing /\ hand' = [hand EXCEPT ![t] = id]
      /\ records' = Append(records, r) /\ history' = Trimmed(Append(history, id))
  BY DEF Add
<1>2. Len(records) \in Nat /\ id \in Nat /\ id \notin Ids
  BY LenProperties DEF Shapes, Ids
<1>3. r \in [who : Labels, by : Threads] /\ r.by = t
  OBVIOUS
<1> HIDE DEF r, id
<1>4. /\ records' \in Seq([who : Labels, by : Threads]) /\ Len(records') = Len(records) + 1
      /\ records'[Len(records) + 1] = r /\ \A i \in 1..Len(records) : records'[i] = records[i]
  BY <1>1, <1>3, AppendProperties DEF Shapes
<1>5. Ids' = Ids \cup {id}
  BY <1>2, <1>4 DEF Ids, id
<1>6. /\ Append(history, id) \in Seq(Nat) /\ ToSet(Append(history, id)) = ToSet(history) \cup {id}
      /\ Len(Append(history, id)) = Len(history) + 1 /\ Len(history) \in Nat
  <2>1. history \in Seq(Nat)
    BY DEF Shapes
  <2>2. Append(history, id) \in Seq(Nat) /\ ToSet(Append(history, id)) = ToSet(history) \cup {id}
    BY <1>2, <2>1, Grown
  <2>3. Len(Append(history, id)) = Len(history) + 1 /\ Len(history) \in Nat
    BY <1>2, <2>1, AppendProperties, LenProperties
  <2>4. QED
    BY <2>2, <2>3
<1>7. Len(Append(history, id)) <= MaxHistory + 1
  BY <1>6, SinkAssumption DEF Shapes
<1>8. /\ history' \in Seq(Nat) /\ Len(history') <= MaxHistory
      /\ ToSet(history') \subseteq ToSet(history) \cup {id}
  BY <1>1, <1>6, <1>7, Cut
<1>9. QED
  BY <1>1, <1>2, <1>3, <1>4, <1>5, <1>8 DEF Ids, id

\* A command's thread broadcasts with a label that a record of the history has.
LEMMA UpdateAdds ==
  ASSUME Shapes, Named, NEW c \in Clients, Update(c)
  PROVE  /\ c \in Threads /\ c # Main /\ handler[c] = "telling"
         /\ \E who \in Labels : Add(c, who)
         /\ UNCHANGED <<clientVars, calls, queued, got, main, server>>
         /\ updates' \in [Clients -> SUBSET Nat]
         /\ \A d \in Clients : updates'[d] \subseteq updates[d]
         /\ \A d \in Clients \ {c} : updates'[d] = updates[d]
<1>1. PICK next \in updates[c] :
        /\ Add(c, records[next].who)
        /\ updates' = [updates EXCEPT ![c] = @ \ {next}]
  BY DEF Update
<1>2. UNCHANGED <<clientVars, calls, queued, got, main, server>> /\ handler[c] = "telling"
  BY DEF Update
<1>3. next \in 1..Len(records)
  BY DEF Named, Ids
<1>4. records[next] \in [who : Labels, by : Threads]
  BY <1>3, ElementOfSeq DEF Shapes
<1>5. QED
  BY <1>1, <1>2, <1>4, SinkAssumption DEF Shapes, Threads

\* A queue of the loop or of a client that gets one more, or loses its first.
LEMMA AddedTo ==
  ASSUME NEW f \in [Clients -> Seq(Nat)], NEW c \in Clients, NEW e \in Nat
  PROVE  /\ [f EXCEPT ![c] = Append(@, e)] \in [Clients -> Seq(Nat)]
         /\ ToSet([f EXCEPT ![c] = Append(@, e)][c]) = ToSet(f[c]) \cup {e}
<1>1. f[c] \in Seq(Nat)
  OBVIOUS
<1>2. Append(f[c], e) \in Seq(Nat) /\ ToSet(Append(f[c], e)) = ToSet(f[c]) \cup {e}
  BY <1>1, Grown
<1>3. [f EXCEPT ![c] = Append(@, e)][c] = Append(f[c], e)
  OBVIOUS
<1>4. QED
  BY <1>2, <1>3

\* Such a queue of one client.
LEMMA TakenFrom ==
  ASSUME NEW f \in [Clients -> Seq(Nat)], NEW c \in Clients, f[c] # <<>>
  PROVE  /\ [f EXCEPT ![c] = Tail(@)] \in [Clients -> Seq(Nat)] /\ Head(f[c]) \in Nat
         /\ ToSet(f[c]) = {Head(f[c])} \cup ToSet([f EXCEPT ![c] = Tail(@)][c])
<1>1. f[c] \in Seq(Nat)
  OBVIOUS
<1>2. /\ Head(f[c]) \in Nat /\ Tail(f[c]) \in Seq(Nat)
      /\ ToSet(f[c]) = {Head(f[c])} \cup ToSet(Tail(f[c]))
  BY <1>1, Shrunk
<1>3. [f EXCEPT ![c] = Tail(@)][c] = Tail(f[c])
  OBVIOUS
<1>4. QED
  BY <1>2, <1>3

Typed == Shapes /\ Named

\* What moves from one variable to another has a name already.
LEMMA TypeStep == Typed /\ [Next]_vars => Typed'
<1> SUFFICES ASSUME Shapes, Named, [Next]_vars PROVE Shapes' /\ Named'
  BY DEF Typed
<1> USE DEF clientVars
<1>1. ASSUME NEW t \in Threads, NEW who \in Labels, Add(t, who),
             UNCHANGED <<clientVars, calls, queued, got, main, server>>,
             updates' \in [Clients -> SUBSET Nat], \A c \in Clients : updates'[c] \subseteq updates[c]
      PROVE  Shapes' /\ Named'
  <2>1. Shapes'
    BY <1>1, AddStep DEF Shapes
  <2>2. Named'
    <3>1. Ids \subseteq Ids' /\ ToSet(history') \subseteq Ids'
          /\ \A u \in Threads : hand'[u] \in Ids' \cup {Nothing}
      BY <1>1, AddStep DEF Shapes, Named
    <3>2. QED
      BY <1>1, <3>1 DEF Named
  <2>3. QED
    BY <2>1, <2>2
<1>2. CASE OnEvent
  BY <1>1, <1>2 DEF OnEvent, Threads, Shapes
<1>3. CASE AskStop
  <2>1. calls \in Seq(Nat \cup {Stop}) /\ calls' = Append(calls, Stop)
        /\ UNCHANGED <<records, history, clientVars, hand, queued, updates, got, server>>
        /\ main' = "stopping"
    BY <1>3 DEF AskStop, Shapes
  <2>2. calls' \in Seq(Nat \cup {Stop}) /\ ToSet(calls') = ToSet(calls) \cup {Stop}
    BY <2>1, Grown
  <2>3. QED
    BY <2>1, <2>2 DEF Shapes, Named, Ids
<1>4. CASE StopReturns
  BY <1>4 DEF StopReturns, Shapes, Named, Ids
<1>5. ASSUME NEW t \in Threads, Schedule(t) PROVE Shapes' /\ Named'
  <2>1. /\ hand[t] \in Nat /\ hand[t] \in Ids /\ hand' = [hand EXCEPT ![t] = Nothing]
        /\ calls \in Seq(Nat \cup {Stop}) /\ calls' = Append(calls, hand[t])
        /\ UNCHANGED <<records, history, clientVars, queued, updates, got, main, server>>
    BY <1>5 DEF Schedule, Shapes, Named
  <2>2. calls' \in Seq(Nat \cup {Stop}) /\ ToSet(calls') = ToSet(calls) \cup {hand[t]}
    BY <2>1, Grown
  <2>3. Nothing \in Nat
    BY DEF Nothing
  <2>4. QED
    BY <2>1, <2>2, <2>3 DEF Shapes, Named, Ids
<1>6. ASSUME calls # <<>>, calls' = Tail(calls) PROVE calls' \in Seq(Nat \cup {Stop})
        /\ ToSet(calls') \subseteq ToSet(calls) /\ Head(calls) \in ToSet(calls)
  BY <1>6, Shrunk DEF Shapes
<1>7. CASE Fanout
  <2>1. /\ Head(calls) \in Ids /\ Head(calls) \in Nat
        /\ UNCHANGED <<records, history, clientVars, hand, updates, got, main, server>>
        /\ calls # <<>> /\ calls' = Tail(calls)
        /\ queued' = [c \in Clients |->
                        IF c \in subs THEN Append(queued[c], Head(calls)) ELSE queued[c]]
    BY <1>6, <1>7 DEF Fanout, Named, Ids
  <2>2. ASSUME NEW c \in Clients
        PROVE  queued'[c] \in Seq(Nat) /\ ToSet(queued'[c]) \subseteq ToSet(queued[c]) \cup {Head(calls)}
    <3>1. queued[c] \in Seq(Nat)
      BY DEF Shapes
    <3>2. QED
      BY <2>1, <3>1, Grown
  <2>3. queued' \in [Clients -> Seq(Nat)]
    BY <2>1, <2>2
  <2>4. QED
    BY <1>6, <2>1, <2>2, <2>3 DEF Shapes, Named, Ids
<1>8. ASSUME NEW c \in Clients, Send(c) PROVE Shapes' /\ Named'
  <2>1. /\ queued[c] # <<>> /\ queued' = [queued EXCEPT ![c] = Tail(@)]
        /\ UNCHANGED <<records, history, clientVars, hand, calls, updates, main, server>>
        /\ got' \in {got, [got EXCEPT ![c] = Append(@, Head(queued[c]))]}
    BY <1>8 DEF Send
  <2>2. /\ queued' \in [Clients -> Seq(Nat)] /\ Head(queued[c]) \in Nat
        /\ ToSet(queued[c]) = {Head(queued[c])} \cup ToSet(queued'[c])
    BY <2>1, TakenFrom DEF Shapes
  <2>3. got' \in [Clients -> Seq(Nat)] /\ ToSet(got'[c]) \subseteq ToSet(got[c]) \cup {Head(queued[c])}
    <3>1. CASE got' = got
      BY <3>1 DEF Shapes
    <3>2. CASE got' = [got EXCEPT ![c] = Append(@, Head(queued[c]))]
      <4>1. got \in [Clients -> Seq(Nat)]
        BY DEF Shapes
      <4>2. QED
        BY <2>2, <3>2, <4>1, AddedTo
    <3>3. QED
      BY <2>1, <3>1, <3>2
  <2>4. \A d \in Clients \ {c} : queued'[d] = queued[d] /\ got'[d] = got[d]
    BY <2>1 DEF Shapes
  <2>5. QED
    BY <2>1, <2>2, <2>3, <2>4 DEF Shapes, Named, Ids
<1>9. CASE StopEvent
  BY <1>6, <1>9 DEF StopEvent, Shapes, Named, Ids
<1>10. ASSUME NEW c \in Clients, CloseConnection(c) \/ Disconnect(c) \/ Command(c)
       PROVE  Shapes' /\ Named'
  BY <1>10 DEF CloseConnection, Disconnect, Command, Shapes, Named, Ids, Places, Handlers
<1>11. CASE CloseLoop
  BY <1>11 DEF CloseLoop, Shapes, Named, Ids
<1>12. ASSUME NEW c \in Clients, Join(c) PROVE Shapes' /\ Named'
  BY <1>12 DEF Join, Shapes, Named, Ids, Places, Handlers
<1>13. ASSUME NEW c \in Clients, ReplayNext(c) PROVE Shapes' /\ Named'
  <2>1. CASE replay[c] = <<>>
    BY <1>13, <2>1 DEF ReplayNext, Shapes, Named, Ids, Handlers
  <2>2. CASE replay[c] # <<>>
    <3>1. /\ replay' = [replay EXCEPT ![c] = Tail(@)]
          /\ got' = [got EXCEPT ![c] = Append(@, Head(replay[c]))]
          /\ UNCHANGED <<records, history, subs, conn, handler, hand, calls, queued, updates, main, server>>
      BY <1>13, <2>2 DEF ReplayNext
    <3>2. /\ replay' \in [Clients -> Seq(Nat)] /\ Head(replay[c]) \in Nat
          /\ ToSet(replay[c]) = {Head(replay[c])} \cup ToSet(replay'[c])
      BY <2>2, <3>1, TakenFrom DEF Shapes
    <3>3. got' \in [Clients -> Seq(Nat)] /\ ToSet(got'[c]) = ToSet(got[c]) \cup {Head(replay[c])}
      BY <3>1, <3>2, AddedTo DEF Shapes
    <3>4. \A d \in Clients \ {c} : replay'[d] = replay[d] /\ got'[d] = got[d]
      BY <3>1 DEF Shapes
    <3>5. Shapes'
      BY <3>1, <3>2, <3>3 DEF Shapes, Handlers
    <3>6. Named'
      BY <3>1, <3>2, <3>3, <3>4 DEF Named, Ids
    <3>7. QED
      BY <3>5, <3>6
  <2>3. QED
    BY <2>1, <2>2
<1>14. ASSUME NEW c \in Clients, RunCommand(c) PROVE Shapes' /\ Named'
  <2>1. /\ handler' = [handler EXCEPT ![c] = "telling"]
        /\ UNCHANGED <<history, subs, conn, replay, hand, calls, queued, got, main, server>>
    BY <1>14 DEF RunCommand
  <2>2. CASE UNCHANGED <<records, updates>>
    BY <2>1, <2>2 DEF Shapes, Named, Ids, Handlers
  <2>3. ASSUME NEW old \in Labels, NEW new \in Labels, Rewrite(c, old, new)
        PROVE  Shapes' /\ Named'
    <3> DEFINE hit == {i \in ToSet(history) : records[i].who = old}
    <3>1. hit \subseteq Ids /\ hit \subseteq Nat /\ Len(records) \in Nat
      BY LenProperties DEF Named, Shapes, Ids
    <3>2. /\ updates' = [updates EXCEPT ![c] = hit]
          /\ records' = [i \in 1..Len(records) |->
                            IF i \in hit THEN [records[i] EXCEPT !.who = new] ELSE records[i]]
      BY <2>3 DEF Rewrite
    <3> HIDE DEF hit
    <3>3. \A i \in 1..Len(records) : records[i] \in [who : Labels, by : Threads]
      BY ElementOfSeq DEF Shapes
    <3>4. \A i \in 1..Len(records) : records'[i] \in [who : Labels, by : Threads]
      BY <3>2, <3>3
    <3>5. records' \in Seq([who : Labels, by : Threads]) /\ Len(records') = Len(records)
      BY <3>1, <3>2, <3>4, IsASeq
    <3>6. Ids' = Ids
      BY <3>5 DEF Ids
    <3>7. QED
      BY <2>1, <3>1, <3>2, <3>5, <3>6 DEF Shapes, Named, Handlers
  <2>4. QED
    BY <1>14, <2>2, <2>3 DEF RunCommand
<1>15. ASSUME NEW c \in Clients, Update(c) PROVE Shapes' /\ Named'
  BY <1>1, <1>15, UpdateAdds
<1>16. ASSUME NEW c \in Clients, Respond(c) \/ Ended(c) PROVE Shapes' /\ Named'
  <2>1. /\ UNCHANGED <<records, history, conn, hand, calls, queued, updates, got, main, server>>
        /\ subs' \subseteq subs
        /\ handler' \in [Clients -> Handlers]
        /\ replay' \in {replay, [replay EXCEPT ![c] = <<>>]}
    BY <1>16 DEF Respond, Ended, Leave, Shapes, Handlers
  <2>2. <<>> \in Seq(Nat) /\ ToSet(<<>>) = {}
    BY EmptySeq DEF ToSet
  <2>3. Shapes'
    BY <2>1, <2>2 DEF Shapes
  <2>4. \A d \in Clients : ToSet(replay'[d]) \subseteq ToSet(replay[d])
    BY <2>1, <2>2 DEF Shapes
  <2>5. Named'
    BY <2>1, <2>4 DEF Named, Ids
  <2>6. QED
    BY <2>3, <2>5
<1>17. CASE UNCHANGED vars
  BY <1>17 DEF vars, Shapes, Named, Ids
<1>18. QED
  BY <1>2, <1>3, <1>4, <1>5, <1>7, <1>8, <1>9, <1>10, <1>11, <1>12, <1>13, <1>14, <1>15, <1>16, <1>17
     DEF Next, LoopStep, CommandStep, Threads

\* A connection that is up is subscribed and has a handler, and every record of
\* the history is on its way to it, or there.
Active == {"replaying", "live", "asked", "telling"}
Subscribed ==
  \A c \in Clients : /\ conn[c] = "up" => c \in subs /\ handler[c] \in Active
                     /\ conn[c] = "away" => handler[c] = "none"
OnItsWay ==
  \A c \in Clients : conn[c] = "up" =>
    ToSet(history) \subseteq ToSet(got[c]) \cup ToSet(replay[c]) \cup ToSet(queued[c])
                               \cup ToSet(calls) \cup InHand

\* A handler subscribes before anything else and unsubscribes when it ends.
LEMMA SubscribedStep == Typed /\ Subscribed /\ [Next]_vars => Subscribed'
<1> SUFFICES ASSUME Shapes, Subscribed, [Next]_vars PROVE Subscribed'
  BY DEF Typed
<1> USE DEF clientVars
<1>1. CASE OnEvent \/ AskStop \/ StopReturns \/ Fanout \/ StopEvent \/ CloseLoop \/ UNCHANGED vars
  BY <1>1 DEF OnEvent, AskStop, StopReturns, Fanout, StopEvent, CloseLoop, vars, Subscribed
<1>2. ASSUME NEW t \in Threads, Schedule(t) PROVE Subscribed'
  BY <1>2 DEF Schedule, Subscribed
<1>3. ASSUME NEW c \in Clients, Send(c) \/ Update(c) PROVE Subscribed'
  BY <1>3 DEF Send, Update, Subscribed
<1>4. ASSUME NEW c \in Clients, CloseConnection(c) \/ Disconnect(c) PROVE Subscribed'
  BY <1>4 DEF CloseConnection, Disconnect, Subscribed, Shapes
<1>5. ASSUME NEW c \in Clients, Join(c) PROVE Subscribed'
  BY <1>5 DEF Join, Subscribed, Shapes, Active
<1>6. ASSUME NEW c \in Clients, ReplayNext(c) \/ Command(c) \/ RunCommand(c) PROVE Subscribed'
  BY <1>6 DEF ReplayNext, Command, RunCommand, Subscribed, Shapes, Active
<1>7. ASSUME NEW c \in Clients, Respond(c) \/ Ended(c) PROVE Subscribed'
  BY <1>7 DEF Respond, Ended, Leave, Subscribed, Shapes, Active
<1>8. QED
  BY <1>1, <1>2, <1>3, <1>4, <1>5, <1>6, <1>7 DEF Next, LoopStep, CommandStep, Threads

\* A record only moves on towards the client: from a thread's hand to the loop's
\* calls, to the sends or, from the history, by the replay.
LEMMA WayStep == Typed /\ Subscribed /\ OnItsWay /\ [Next]_vars => OnItsWay'
<1> SUFFICES ASSUME Shapes, Named, Subscribed, OnItsWay, [Next]_vars PROVE OnItsWay'
  BY DEF Typed
<1> USE DEF clientVars
<1>1. ASSUME NEW t \in Threads, NEW who \in Labels, Add(t, who),
             UNCHANGED <<clientVars, calls, queued, got>>
      PROVE  OnItsWay'
  <2>1. /\ hand' = [hand EXCEPT ![t] = Len(records) + 1] /\ hand[t] = Nothing
        /\ ToSet(history') \subseteq ToSet(history) \cup {Len(records) + 1}
    BY <1>1, AddStep
  <2>2. InHand' \cup {Nothing} = InHand \cup {Len(records) + 1, Nothing}
    BY <2>1 DEF InHand, Shapes
  <2>3. Nothing \notin ToSet(history) /\ Len(records) + 1 \in InHand'
    BY <2>1, LenProperties DEF Named, Shapes, Ids, Nothing, InHand
  <2>4. QED
    BY <1>1, <2>1, <2>2, <2>3 DEF OnItsWay
<1>2. CASE OnEvent
  BY <1>1, <1>2 DEF OnEvent, Threads
<1>3. CASE AskStop
  <2>1. ToSet(calls') = ToSet(calls) \cup {Stop}
    <3>1. calls \in Seq(Nat \cup {Stop}) /\ calls' = Append(calls, Stop)
      BY <1>3 DEF AskStop, Shapes
    <3>2. QED
      BY <3>1, Grown
  <2>2. QED
    BY <1>3, <2>1 DEF AskStop, OnItsWay, InHand
<1>4. ASSUME NEW t \in Threads, Schedule(t) PROVE OnItsWay'
  <2>1. ToSet(calls') = ToSet(calls) \cup {hand[t]}
    <3>1. hand[t] \in Nat \cup {Stop} /\ calls \in Seq(Nat \cup {Stop})
      BY DEF Shapes
    <3>2. QED
      BY <1>4, <3>1, Grown DEF Schedule
  <2>2. InHand \subseteq InHand' \cup {hand[t]}
    BY <1>4 DEF Schedule, InHand, Shapes
  <2>3. QED
    BY <1>4, <2>1, <2>2 DEF Schedule, OnItsWay
<1>5. CASE Fanout
  <2>1. /\ calls # <<>> /\ calls' = Tail(calls)
        /\ UNCHANGED <<history, subs, conn, handler, replay, hand, got>>
        /\ queued' = [c \in Clients |->
                        IF c \in subs THEN Append(queued[c], Head(calls)) ELSE queued[c]]
    BY <1>5 DEF Fanout
  <2>2. ToSet(calls) = {Head(calls)} \cup ToSet(calls') /\ Head(calls) \in Nat
    BY <1>5, <2>1, Shrunk DEF Fanout, Shapes
  <2>3. ASSUME NEW c \in Clients, c \in subs
        PROVE  ToSet(queued'[c]) = ToSet(queued[c]) \cup {Head(calls)}
    <3>1. queued[c] \in Seq(Nat)
      BY DEF Shapes
    <3>2. QED
      BY <2>1, <2>2, <2>3, <3>1, Grown
  <2>4. ASSUME NEW c \in Clients, conn[c] = "up"
        PROVE  ToSet(history) \subseteq ToSet(got[c]) \cup ToSet(replay[c]) \cup ToSet(queued'[c])
                                          \cup ToSet(calls') \cup InHand
    <3>1. c \in subs
      BY <2>4 DEF Subscribed
    <3>2. QED
      BY <2>2, <2>3, <2>4, <3>1 DEF OnItsWay
  <2>5. QED
    BY <2>1, <2>4 DEF OnItsWay, InHand
<1>6. ASSUME NEW c \in Clients, Send(c) PROVE OnItsWay'
  <2>1. /\ queued[c] # <<>> /\ queued' = [queued EXCEPT ![c] = Tail(@)]
        /\ UNCHANGED <<history, conn, replay, hand, calls>>
        /\ got' = IF conn[c] = "up" THEN [got EXCEPT ![c] = Append(@, Head(queued[c]))] ELSE got
    BY <1>6 DEF Send
  <2>2. /\ Head(queued[c]) \in Nat
        /\ ToSet(queued[c]) = {Head(queued[c])} \cup ToSet(queued'[c])
    BY <2>1, TakenFrom DEF Shapes
  <2>3. conn[c] = "up" => ToSet(got'[c]) = ToSet(got[c]) \cup {Head(queued[c])}
    BY <2>1, <2>2, AddedTo DEF Shapes
  <2>4. \A d \in Clients \ {c} : queued'[d] = queued[d] /\ got'[d] = got[d]
    BY <2>1 DEF Shapes
  <2>5. QED
    BY <2>1, <2>2, <2>3, <2>4 DEF OnItsWay, InHand
<1>7. CASE StopEvent
  <2>1. ToSet(calls) = {Stop} \cup ToSet(calls')
    BY <1>7, Shrunk DEF StopEvent, Shapes
  <2>2. Stop \notin ToSet(history)
    BY SinkAssumption, LenProperties DEF Named, Shapes, Ids
  <2>3. QED
    BY <1>7, <2>1, <2>2 DEF StopEvent, OnItsWay, InHand
<1>8. ASSUME NEW c \in Clients, ReplayNext(c) PROVE OnItsWay'
  <2>1. CASE replay[c] = <<>>
    BY <1>8, <2>1 DEF ReplayNext, OnItsWay, InHand
  <2>2. CASE replay[c] # <<>>
    <3>1. /\ replay' = [replay EXCEPT ![c] = Tail(@)]
          /\ got' = [got EXCEPT ![c] = Append(@, Head(replay[c]))]
          /\ UNCHANGED <<history, conn, hand, calls, queued>>
      BY <1>8, <2>2 DEF ReplayNext
    <3>2. /\ Head(replay[c]) \in Nat
          /\ ToSet(replay[c]) = {Head(replay[c])} \cup ToSet(replay'[c])
      BY <2>2, <3>1, TakenFrom DEF Shapes
    <3>3. ToSet(got'[c]) = ToSet(got[c]) \cup {Head(replay[c])}
      BY <3>1, <3>2, AddedTo DEF Shapes
    <3>4. \A d \in Clients \ {c} : replay'[d] = replay[d] /\ got'[d] = got[d]
      BY <3>1 DEF Shapes
    <3>5. QED
      BY <3>1, <3>2, <3>3, <3>4 DEF OnItsWay, InHand
  <2>3. QED
    BY <2>1, <2>2
<1>9. ASSUME NEW c \in Clients, Join(c) PROVE OnItsWay'
  BY <1>9 DEF Join, OnItsWay, InHand, Shapes
<1>10. ASSUME NEW c \in Clients, CloseConnection(c) \/ Disconnect(c) PROVE OnItsWay'
  <2>1. /\ UNCHANGED <<history, replay, hand, calls, queued, got>>
        /\ \A d \in Clients : conn'[d] = "up" => conn[d] = "up"
    BY <1>10 DEF CloseConnection, Disconnect, Shapes
  <2>2. QED
    BY <2>1 DEF OnItsWay, InHand
<1>11. ASSUME NEW c \in Clients, Command(c) \/ RunCommand(c) PROVE OnItsWay'
  BY <1>11 DEF Command, RunCommand, OnItsWay, InHand
<1>12. ASSUME NEW c \in Clients, Update(c) PROVE OnItsWay'
  BY <1>1, <1>12, UpdateAdds
<1>13. ASSUME NEW c \in Clients, Respond(c) \/ Ended(c) PROVE OnItsWay'
  <2>1. /\ UNCHANGED <<history, conn, hand, calls, queued, got>>
        /\ \A d \in Clients : conn[d] = "up" => replay'[d] = replay[d]
    BY <1>13 DEF Respond, Ended, Leave, Shapes
  <2>2. QED
    BY <2>1 DEF OnItsWay, InHand
<1>14. CASE StopReturns \/ CloseLoop \/ UNCHANGED vars
  BY <1>14 DEF StopReturns, CloseLoop, vars, OnItsWay, InHand
<1>15. QED
  BY <1>2, <1>3, <1>4, <1>5, <1>6, <1>7, <1>8, <1>9, <1>10, <1>11, <1>12, <1>13, <1>14
     DEF Next, LoopStep, CommandStep, Threads

\* What a stop relies on.  A record stays its thread's; the stream's records are
\* there before it stops, and no call of the loop comes from it after that.
Ours == {i \in Ids : records[i].by = Main}
HandsOwn == \A t \in Threads : hand[t] # Nothing => records[hand[t]].by = t
MainQuiet ==
  /\ hand[Main] # Nothing => main = "streaming"
  /\ main = "streaming" => server = "open" /\ Stop \notin ToSet(calls)
StopLast ==
  /\ \A i, j \in 1..Len(calls) : calls[i] = Stop /\ i < j => calls[j] \notin Ours
  /\ server # "open" => ToSet(calls) \cap Ours = {}

\* Commands run for handlers that wait for them, after the replay; the loop is
\* closed when no handler is left.
Answering ==
  /\ \A c \in Clients :
       /\ hand[c] # Nothing \/ updates[c] # {} => handler[c] = "telling"
       /\ handler[c] \in {"live", "asked", "telling"} => replay[c] = <<>>
  /\ server = "closed" => \A c \in Clients : handler[c] \in {"none", "ended"}
Flushed ==
  \A c \in Clients : conn[c] = "closed" =>
    /\ server # "open"
    /\ handler[c] # "replaying" /\ c \in subs => ToSet(history) \cap Ours \subseteq ToSet(got[c])

\* A step keeps the authors, and only the stream adds to what is its own.
AuthorsKept ==
  /\ \A i \in Ids : i \in Ids' /\ records'[i].by = records[i].by
  /\ main # "streaming" => Ours' = Ours

\* No record changes hands, and a stream that has stopped adds none.
LEMMA Authors ==
  ASSUME Shapes, Named, [Next]_vars
  PROVE  /\ \A i \in Ids : i \in Ids' /\ records'[i].by = records[i].by
         /\ Ours \subseteq Ours' /\ Ours' \cap Ids \subseteq Ours
         /\ main # "streaming" => Ours' = Ours
<1>1. ASSUME NEW t \in Threads, NEW who \in Labels, Add(t, who), t = Main => main = "streaming"
      PROVE  AuthorsKept
  <2>1. /\ Ids' = Ids \cup {Len(records) + 1} /\ records'[Len(records) + 1].by = t
        /\ \A i \in Ids : records'[i] = records[i]
    BY <1>1, AddStep
  <2>2. QED
    BY <1>1, <2>1 DEF Ours, AuthorsKept
<1>2. ASSUME OnEvent PROVE AuthorsKept
  BY <1>1, <1>2 DEF OnEvent, Threads
<1>3. ASSUME NEW c \in Clients, Update(c) PROVE AuthorsKept
  BY <1>1, <1>3, UpdateAdds
<1>4. ASSUME UNCHANGED records PROVE AuthorsKept
  BY <1>4 DEF Ours, Ids, AuthorsKept
<1>5. ASSUME NEW c \in Clients, RunCommand(c) PROVE AuthorsKept
  <2>1. ASSUME NEW old \in Labels, NEW new \in Labels, Rewrite(c, old, new)
        PROVE  AuthorsKept
    <3> DEFINE hit == {i \in ToSet(history) : records[i].who = old}
    <3>1. /\ Len(records) \in Nat
          /\ \A i \in 1..Len(records) : records[i] \in [who : Labels, by : Threads]
      BY ElementOfSeq, LenProperties DEF Shapes
    <3>2. records' = [i \in 1..Len(records) |->
                        IF i \in hit THEN [records[i] EXCEPT !.who = new] ELSE records[i]]
      BY <2>1 DEF Rewrite
    <3> HIDE DEF hit
    <3>3. \A i \in 1..Len(records) : records'[i] \in [who : Labels, by : Threads]
                                     /\ records'[i].by = records[i].by
      BY <3>1, <3>2
    <3>4. Len(records') = Len(records)
      BY <3>1, <3>2, <3>3, IsASeq
    <3>5. QED
      BY <3>3, <3>4 DEF Ours, Ids, AuthorsKept
  <2>2. QED
    BY <1>4, <1>5, <2>1 DEF RunCommand
<1>6. ASSUME NEW t \in Threads, Schedule(t) PROVE AuthorsKept
  BY <1>4, <1>6 DEF Schedule
<1>7. ASSUME AskStop \/ StopReturns \/ Fanout \/ StopEvent \/ CloseLoop \/ UNCHANGED vars
      PROVE  AuthorsKept
  BY <1>4, <1>7 DEF AskStop, StopReturns, Fanout, StopEvent, CloseLoop, vars
<1>8. ASSUME NEW c \in Clients,
             Send(c) \/ ReplayNext(c) \/ Ended(c) \/ CloseConnection(c) \/ Respond(c)
               \/ Join(c) \/ Command(c) \/ Disconnect(c)
      PROVE  AuthorsKept
  BY <1>4, <1>8 DEF Send, ReplayNext, Ended, CloseConnection, Respond, Join, Command, Disconnect
<1>9. AuthorsKept
  BY <1>2, <1>3, <1>5, <1>6, <1>7, <1>8 DEF Next, LoopStep, CommandStep, Threads
<1>10. QED
  BY <1>9 DEF Ours, AuthorsKept

\* What a thread holds is its own.
LEMMA HandsStep == Typed /\ HandsOwn /\ [Next]_vars => HandsOwn'
<1> SUFFICES ASSUME Shapes, Named, HandsOwn, [Next]_vars PROVE HandsOwn'
  BY DEF Typed
<1>1. \A i \in Ids : records'[i].by = records[i].by
  BY Authors
<1>2. ASSUME \A t \in Threads : hand'[t] \in {hand[t], Nothing} PROVE HandsOwn'
  BY <1>1, <1>2 DEF HandsOwn, Named
<1>3. ASSUME NEW t \in Threads, NEW who \in Labels, Add(t, who) PROVE HandsOwn'
  <2>1. /\ hand' = [hand EXCEPT ![t] = Len(records) + 1] /\ records'[Len(records) + 1].by = t
    BY <1>3, AddStep
  <2>2. QED
    BY <1>1, <2>1 DEF HandsOwn, Named, Shapes
<1>4. CASE OnEvent
  BY <1>3, <1>4 DEF OnEvent, Threads
<1>5. ASSUME NEW c \in Clients, Update(c) PROVE HandsOwn'
  BY <1>3, <1>5, UpdateAdds
<1>6. ASSUME NEW t \in Threads, Schedule(t) PROVE HandsOwn'
  BY <1>2, <1>6 DEF Schedule, Shapes
<1>7. CASE AskStop \/ StopReturns \/ Fanout \/ StopEvent \/ CloseLoop \/ UNCHANGED vars
  BY <1>2, <1>7 DEF AskStop, StopReturns, Fanout, StopEvent, CloseLoop, vars
<1>8. ASSUME NEW c \in Clients,
             Send(c) \/ ReplayNext(c) \/ Ended(c) \/ CloseConnection(c) \/ Respond(c)
               \/ Join(c) \/ Command(c) \/ Disconnect(c) \/ RunCommand(c)
      PROVE  HandsOwn'
  BY <1>2, <1>8 DEF Send, ReplayNext, Ended, CloseConnection, Respond, Join, Command, Disconnect,
                    RunCommand
<1>9. QED
  BY <1>4, <1>5, <1>6, <1>7, <1>8 DEF Next, LoopStep, CommandStep, Threads

\* The pipeline's thread is done with its record when it stops the server.
LEMMA QuietStep == Typed /\ MainQuiet /\ [Next]_vars => MainQuiet'
<1> SUFFICES ASSUME Shapes, Named, MainQuiet, [Next]_vars PROVE MainQuiet'
  BY DEF Typed
<1>1. ASSUME UNCHANGED <<main, server>>, hand'[Main] \in {hand[Main], Nothing},
             ToSet(calls') \subseteq ToSet(calls)
      PROVE  MainQuiet'
  BY <1>1 DEF MainQuiet
<1>2. CASE OnEvent
  BY <1>2 DEF OnEvent, MainQuiet
<1>3. CASE AskStop
  BY <1>3 DEF AskStop, MainQuiet
<1>4. CASE StopReturns \/ CloseLoop
  BY <1>4 DEF StopReturns, CloseLoop, MainQuiet
<1>5. ASSUME NEW t \in Threads, Schedule(t) PROVE MainQuiet'
  <2>1. /\ hand[t] \in Nat /\ calls \in Seq(Nat \cup {Stop}) /\ calls' = Append(calls, hand[t])
        /\ hand' = [hand EXCEPT ![t] = Nothing] /\ UNCHANGED <<main, server>>
    BY <1>5 DEF Schedule, Shapes
  <2>2. ToSet(calls') = ToSet(calls) \cup {hand[t]}
    BY <2>1, Grown
  <2>3. hand[t] # Stop /\ hand'[Main] \in {hand[Main], Nothing}
    BY <2>1, SinkAssumption DEF Shapes, Threads
  <2>4. QED
    BY <2>1, <2>2, <2>3 DEF MainQuiet
<1>6. CASE Fanout
  <2>1. ToSet(calls') \subseteq ToSet(calls)
    BY <1>6, Shrunk DEF Fanout, Shapes
  <2>2. QED
    BY <1>1, <1>6, <2>1 DEF Fanout
<1>7. CASE StopEvent
  <2>1. ToSet(calls) = {Stop} \cup ToSet(calls')
    BY <1>7, Shrunk DEF StopEvent, Shapes
  <2>2. QED
    BY <1>7, <2>1 DEF StopEvent, MainQuiet
<1>8. ASSUME NEW c \in Clients, Update(c) PROVE MainQuiet'
  <2>1. PICK who \in Labels : Add(c, who)
    BY <1>8, UpdateAdds
  <2>2. hand'[Main] = hand[Main]
    <3>1. c \in Threads /\ c # Main
      BY <1>8, UpdateAdds
    <3>2. hand' = [hand EXCEPT ![c] = Len(records) + 1]
      BY <2>1, <3>1, AddStep
    <3>3. QED
      BY <3>1, <3>2 DEF Shapes
  <2>3. QED
    BY <1>1, <1>8, <2>2, UpdateAdds
<1>9. ASSUME NEW c \in Clients,
             Send(c) \/ ReplayNext(c) \/ Ended(c) \/ CloseConnection(c) \/ Respond(c)
               \/ Join(c) \/ Command(c) \/ Disconnect(c) \/ RunCommand(c)
      PROVE  MainQuiet'
  BY <1>1, <1>9 DEF Send, ReplayNext, Ended, CloseConnection, Respond, Join, Command, Disconnect,
                    RunCommand
<1>10. CASE UNCHANGED vars
  BY <1>1, <1>10 DEF vars
<1>11. QED
  BY <1>2, <1>3, <1>4, <1>5, <1>6, <1>7, <1>8, <1>9, <1>10 DEF Next, LoopStep, CommandStep, Threads

\* Calls are made in the order they were asked for: what the stream published
\* before the stop is sent before it.
LEMMA StopLastStep ==
  Typed /\ HandsOwn /\ MainQuiet /\ StopLast /\ [Next]_vars => StopLast'
<1> SUFFICES ASSUME Shapes, Named, HandsOwn, MainQuiet, StopLast, [Next]_vars PROVE StopLast'
  BY DEF Typed
<1> DEFINE n == Len(calls)
<1>0. /\ calls \in Seq(Nat \cup {Stop}) /\ n \in Nat /\ DOMAIN calls = 1..n
      /\ ToSet(calls) = {calls[i] : i \in 1..n} /\ ToSet(calls) \subseteq Ids \cup {Stop}
      /\ Stop \notin Ids
  BY LenProperties, SinkAssumption DEF Shapes, Named, ToSet, Ids
<1>1. /\ Ours \subseteq Ours' /\ Ours' \cap Ids \subseteq Ours
      /\ Ours \subseteq Ids /\ Stop \notin Ours'
  BY Authors, SinkAssumption DEF Ours, Ids
<1>2. ASSUME calls' = calls, server' # "open" => server # "open" \/ ToSet(calls) \cap Ours = {}
      PROVE  StopLast'
  <2>1. \A i \in 1..n : calls[i] \in Ids \cup {Stop}
    BY <1>0
  <2>2. \A i \in 1..n : calls[i] \in Ours' => calls[i] \in Ours
    BY <1>1, <2>1
  <2>3. QED
    BY <1>0, <1>2, <2>2 DEF StopLast
<1>3. CASE OnEvent \/ StopReturns \/ UNCHANGED vars
  BY <1>2, <1>3 DEF OnEvent, StopReturns, vars
<1>4. CASE CloseLoop
  BY <1>2, <1>4 DEF CloseLoop
<1>5. ASSUME NEW e \in Nat \cup {Stop}, calls' = Append(calls, e), server' = server,
             e \notin Ours' \/ main = "streaming"
      PROVE  StopLast'
  <2>1. /\ Len(calls') = n + 1 /\ calls'[n + 1] = e /\ \A i \in 1..n : calls'[i] = calls[i]
        /\ ToSet(calls') = ToSet(calls) \cup {e}
    BY <1>0, <1>5, AppendProperties, Grown
  <2>2. \A i \in 1..n : calls[i] \in Ours' => calls[i] \in Ours
    BY <1>0, <1>1
  <2>3. ASSUME NEW i \in 1..n + 1, NEW j \in 1..n + 1, calls'[i] = Stop, i < j,
               calls'[j] \in Ours'
        PROVE  FALSE
    <3>1. i \in 1..n /\ calls[i] = Stop
      BY <1>0, <2>1, <2>3
    <3>2. main # "streaming"
      BY <1>0, <3>1 DEF MainQuiet
    <3>3. j \in 1..n /\ calls[j] \in Ours
      BY <1>0, <1>5, <2>1, <2>2, <2>3, <3>2
    <3>4. QED
      BY <2>3, <3>1, <3>3 DEF StopLast
  <2>4. ASSUME server # "open" PROVE ToSet(calls') \cap Ours' = {}
    <3>1. main # "streaming" /\ ToSet(calls) \cap Ours = {}
      BY <2>4 DEF MainQuiet, StopLast
    <3>2. QED
      BY <1>0, <1>1, <1>5, <2>1, <3>1
  <2>5. QED
    BY <1>5, <2>1, <2>3, <2>4 DEF StopLast
<1>6. CASE AskStop
  BY <1>1, <1>5, <1>6 DEF AskStop
<1>7. ASSUME NEW t \in Threads, Schedule(t) PROVE StopLast'
  <2>1. hand[t] \in Nat /\ hand[t] # Nothing /\ records' = records
        /\ calls' = Append(calls, hand[t]) /\ server' = server
    BY <1>7 DEF Schedule, Shapes
  <2>2. hand[t] \in Ours' => t = Main
    BY <2>1 DEF HandsOwn, Ours
  <2>3. t = Main => main = "streaming"
    BY <2>1 DEF MainQuiet
  <2>4. QED
    BY <1>5, <2>1, <2>2, <2>3
<1>8. ASSUME calls # <<>>, calls' = Tail(calls), records' = records,
             server' # "open" => server # "open" \/ calls[1] = Stop
      PROVE  StopLast'
  <2>1. /\ n \in Nat \ {0} /\ Len(calls') = n - 1 /\ calls' \in Seq(Nat \cup {Stop})
        /\ \A i \in 1..n - 1 : calls'[i] = calls[i + 1]
    BY <1>0, <1>8, HeadTailProperties, EmptySeq
  <2>2. Ours' = Ours
    BY <1>8 DEF Ours, Ids
  <2>3. ToSet(calls') = {calls'[i] : i \in 1..n - 1}
    BY <2>1, LenProperties DEF ToSet
  <2>4. \A i \in 1..n - 1 : i + 1 \in 1..n /\ calls'[i] = calls[i + 1] /\ 1 < i + 1
    BY <2>1
  <2>5. ASSUME NEW i \in 1..n - 1, NEW j \in 1..n - 1, calls'[i] = Stop, i < j
        PROVE  calls'[j] \notin Ours
    <3>1. i + 1 \in 1..n /\ j + 1 \in 1..n /\ i + 1 < j + 1
      BY <2>1, <2>5
    <3>2. QED
      BY <2>4, <2>5, <3>1 DEF StopLast
  <2>6. ASSUME server' # "open", NEW i \in 1..n - 1 PROVE calls'[i] \notin Ours
    <3>1. CASE server # "open"
      BY <1>0, <2>4, <3>1 DEF StopLast
    <3>2. CASE calls[1] = Stop
      BY <2>1, <2>4, <3>2 DEF StopLast
    <3>3. QED
      BY <1>8, <2>6, <3>1, <3>2
  <2>7. QED
    BY <2>1, <2>2, <2>3, <2>5, <2>6 DEF StopLast
<1>9. CASE Fanout
  BY <1>8, <1>9 DEF Fanout
<1>10. CASE StopEvent
  <2>1. calls[1] = Stop
    BY <1>0, <1>10, HeadTailProperties DEF StopEvent
  <2>2. QED
    BY <1>8, <1>10, <2>1 DEF StopEvent
<1>11. ASSUME NEW c \in Clients, Update(c) PROVE StopLast'
  BY <1>2, <1>11, UpdateAdds
<1>12. ASSUME NEW c \in Clients,
             Send(c) \/ ReplayNext(c) \/ Ended(c) \/ CloseConnection(c) \/ Respond(c)
               \/ Join(c) \/ Command(c) \/ Disconnect(c) \/ RunCommand(c)
       PROVE  StopLast'
  BY <1>2, <1>12 DEF Send, ReplayNext, Ended, CloseConnection, Respond, Join, Command, Disconnect,
                     RunCommand
<1>13. QED
  BY <1>3, <1>4, <1>6, <1>7, <1>9, <1>10, <1>11, <1>12 DEF Next, LoopStep, CommandStep, Threads

\* The loop is not closed before the last command is answered.
LEMMA AnsweringStep ==
  Typed /\ Subscribed /\ MainQuiet /\ Answering /\ [Next]_vars => Answering'
<1> SUFFICES ASSUME Shapes, Named, Subscribed, MainQuiet, Answering, [Next]_vars
             PROVE  Answering'
  BY DEF Typed
<1> USE DEF clientVars
<1>0. Main \notin Clients /\ Clients \subseteq Threads
  BY SinkAssumption DEF Threads
<1>1. ASSUME UNCHANGED <<handler, replay, updates>>,
             \A c \in Clients : hand'[c] \in {hand[c], Nothing},
             server' = "closed" => server = "closed" \/ \A c \in Clients : handler[c] \in {"none", "ended"}
      PROVE  Answering'
  BY <1>1 DEF Answering
<1>2. CASE OnEvent
  <2>1. PICK who \in Labels : Add(Main, who)
    BY <1>2 DEF OnEvent
  <2>2. Main \in Threads /\ hand' = [hand EXCEPT ![Main] = Len(records) + 1]
    BY <2>1, AddStep DEF Threads
  <2>3. \A c \in Clients : hand'[c] = hand[c]
    BY <1>0, <2>2 DEF Shapes
  <2>4. QED
    BY <1>1, <1>2, <2>3 DEF OnEvent
<1>3. CASE AskStop \/ StopReturns \/ Fanout \/ StopEvent \/ CloseLoop \/ UNCHANGED vars
  BY <1>1, <1>3 DEF AskStop, StopReturns, Fanout, StopEvent, CloseLoop, vars
<1>4. ASSUME NEW t \in Threads, Schedule(t) PROVE Answering'
  BY <1>0, <1>1, <1>4 DEF Schedule, Shapes
<1>5. ASSUME NEW c \in Clients, Send(c) \/ CloseConnection(c) \/ Disconnect(c) PROVE Answering'
  BY <1>1, <1>5 DEF Send, CloseConnection, Disconnect
<1>6. ASSUME NEW c \in Clients, Update(c) PROVE Answering'
  <2>1. PICK who \in Labels : Add(c, who)
    BY <1>6, UpdateAdds
  <2>2. hand' = [hand EXCEPT ![c] = Len(records) + 1] /\ handler[c] = "telling"
    BY <1>0, <1>6, <2>1, AddStep, UpdateAdds
  <2>3. /\ UNCHANGED <<handler, replay, server>>
        /\ \A d \in Clients \ {c} : updates'[d] = updates[d] /\ hand'[d] = hand[d]
    BY <1>0, <1>6, <2>2, UpdateAdds DEF Shapes
  <2>4. QED
    BY <2>2, <2>3 DEF Answering
<1>7. ASSUME NEW c \in Clients, Join(c) PROVE Answering'
  BY <1>7 DEF Join, Answering, Subscribed, Shapes
<1>8. ASSUME NEW c \in Clients, ReplayNext(c) PROVE Answering'
  BY <1>8 DEF ReplayNext, Answering, Shapes
<1>9. ASSUME NEW c \in Clients, Command(c) PROVE Answering'
  BY <1>9 DEF Command, Answering, Shapes
<1>10. ASSUME NEW c \in Clients, RunCommand(c) PROVE Answering'
  <2>1. /\ handler[c] = "asked" /\ handler' = [handler EXCEPT ![c] = "telling"]
        /\ UNCHANGED <<replay, hand, server>>
        /\ \A d \in Clients \ {c} : updates'[d] = updates[d]
    BY <1>10 DEF RunCommand, Rewrite, Shapes
  <2>2. QED
    BY <2>1 DEF Answering, Shapes
<1>11. ASSUME NEW c \in Clients, Respond(c) PROVE Answering'
  BY <1>11 DEF Respond, Leave, Answering, Shapes
<1>12. ASSUME NEW c \in Clients, Ended(c) PROVE Answering'
  BY <1>12 DEF Ended, Leave, Answering, Shapes
<1>13. QED
  BY <1>2, <1>3, <1>4, <1>5, <1>6, <1>7, <1>8, <1>9, <1>10, <1>11, <1>12
     DEF Next, LoopStep, CommandStep, Threads

\* A connection is closed when all that is on its way is no stream's any more.
LEMMA FlushedStep ==
  /\ Typed /\ Subscribed /\ OnItsWay /\ HandsOwn /\ MainQuiet /\ StopLast
  /\ Answering /\ Flushed /\ [Next]_vars
  => Flushed'
<1> SUFFICES ASSUME Shapes, Named, Subscribed, OnItsWay, HandsOwn, MainQuiet, StopLast,
                    Answering, Flushed, [Next]_vars
             PROVE  Flushed'
  BY DEF Typed
<1> USE DEF clientVars
<1>0. /\ Ours \subseteq Ours' /\ Ours' \cap Ids \subseteq Ours
      /\ main # "streaming" => Ours' = Ours
      /\ ToSet(history) \subseteq Ids
  BY Authors DEF Named
<1>1. ASSUME UNCHANGED <<subs, conn, handler>>, server' # "open" \/ server = "open",
             \A c \in Clients : ToSet(got[c]) \subseteq ToSet(got'[c]),
             ToSet(history') \cap Ours' \subseteq ToSet(history) \cap Ours \/ server = "open"
      PROVE  Flushed'
  BY <1>1 DEF Flushed
<1>2. ASSUME history' = history
      PROVE  ToSet(history') \cap Ours' \subseteq ToSet(history) \cap Ours
  BY <1>0, <1>2
<1>3. CASE OnEvent
  BY <1>1, <1>3 DEF OnEvent, MainQuiet
<1>4. CASE AskStop \/ StopReturns \/ Fanout \/ StopEvent \/ CloseLoop \/ UNCHANGED vars
  BY <1>1, <1>2, <1>4 DEF AskStop, StopReturns, Fanout, StopEvent, CloseLoop, vars
<1>5. ASSUME NEW t \in Threads, Schedule(t) PROVE Flushed'
  BY <1>1, <1>2, <1>5 DEF Schedule
<1>6. ASSUME NEW c \in Clients, Send(c) PROVE Flushed'
  <2>1. /\ queued[c] # <<>>
        /\ UNCHANGED <<history, subs, conn, handler, server>>
        /\ got' \in {got, [got EXCEPT ![c] = Append(@, Head(queued[c]))]}
    BY <1>6 DEF Send
  <2>2. Head(queued[c]) \in Nat
    BY <2>1, TakenFrom DEF Shapes
  <2>3. ToSet(got[c]) \subseteq ToSet(got'[c])
    <3>1. CASE got' = got
      BY <3>1
    <3>2. CASE got' = [got EXCEPT ![c] = Append(@, Head(queued[c]))]
      <4>1. got \in [Clients -> Seq(Nat)]
        BY DEF Shapes
      <4>2. ToSet(got'[c]) = ToSet(got[c]) \cup {Head(queued[c])}
        BY <2>2, <3>2, <4>1, AddedTo
      <4>3. QED
        BY <4>2
    <3>3. QED
      BY <2>1, <3>1, <3>2
  <2>4. \A d \in Clients \ {c} : got'[d] = got[d]
    BY <2>1 DEF Shapes
  <2>5. QED
    BY <1>1, <1>2, <2>1, <2>3, <2>4
<1>7. ASSUME NEW c \in Clients, CloseConnection(c) PROVE Flushed'
  <2>1. /\ server = "closing" /\ conn[c] = "up" /\ queued[c] = <<>>
        /\ conn' = [conn EXCEPT ![c] = "closed"]
        /\ UNCHANGED <<history, subs, handler, got, server>>
    BY <1>7 DEF CloseConnection
  <2>2. main # "streaming" /\ Ours' = Ours
    BY <1>0, <2>1 DEF MainQuiet
  <2>3. ASSUME NEW i \in ToSet(history), i \in Ours, handler[c] # "replaying"
        PROVE  i \in ToSet(got[c])
    <3>1. i \in Ids /\ i # Nothing /\ i \notin ToSet(calls)
      BY <2>1, <2>3 DEF Ours, Ids, Nothing, StopLast
    <3>2. i \notin InHand
      <4>1. ASSUME NEW t \in Threads, hand[t] = i PROVE FALSE
        <5>1. t = Main
          BY <2>3, <3>1, <4>1 DEF HandsOwn, Ours
        <5>2. QED
          BY <2>2, <3>1, <4>1, <5>1 DEF MainQuiet
      <4>2. QED
        BY <4>1 DEF InHand
    <3>3. replay[c] = <<>>
      BY <2>1, <2>3 DEF Subscribed, Active, Answering
    <3>4. ToSet(replay[c]) = {} /\ ToSet(queued[c]) = {}
      BY <2>1, <3>3, EmptySeq DEF ToSet
    <3>5. QED
      BY <2>1, <2>3, <3>1, <3>2, <3>4 DEF OnItsWay
  <2>4. QED
    BY <2>1, <2>2, <2>3 DEF Flushed, Shapes
<1>8. ASSUME NEW c \in Clients, Disconnect(c) PROVE Flushed'
  BY <1>0, <1>2, <1>8 DEF Disconnect, Flushed, Shapes
<1>9. ASSUME NEW c \in Clients, Join(c) PROVE Flushed'
  BY <1>0, <1>2, <1>9 DEF Join, Flushed, Shapes
<1>10. ASSUME NEW c \in Clients, ReplayNext(c) PROVE Flushed'
  <2>1. /\ conn[c] = "up" /\ UNCHANGED <<history, conn, subs, server>>
        /\ \A d \in Clients \ {c} : handler'[d] = handler[d] /\ got'[d] = got[d]
    BY <1>10 DEF ReplayNext, Shapes
  <2>2. QED
    BY <1>0, <1>2, <2>1 DEF Flushed
<1>11. ASSUME NEW c \in Clients, Command(c) \/ RunCommand(c) PROVE Flushed'
  <2>1. /\ handler[c] # "replaying" /\ UNCHANGED <<history, conn, subs, got, server>>
        /\ \A d \in Clients : handler'[d] # "replaying" <=> handler[d] # "replaying"
    BY <1>11 DEF Command, RunCommand, Shapes
  <2>2. QED
    BY <1>0, <1>2, <2>1 DEF Flushed
<1>12. ASSUME NEW c \in Clients, Update(c) PROVE Flushed'
  <2>1. c \in Threads /\ c # Main /\ UNCHANGED <<subs, conn, handler, got, server>>
    BY <1>12, UpdateAdds
  <2>2. PICK who \in Labels : Add(c, who)
    BY <1>12, UpdateAdds
  <2>3. /\ ToSet(history') \subseteq ToSet(history) \cup {Len(records) + 1}
        /\ records'[Len(records) + 1].by = c
    BY <2>1, <2>2, AddStep
  <2>4. ToSet(history') \cap Ours' \subseteq ToSet(history) \cap Ours
    BY <1>0, <2>1, <2>3 DEF Ours
  <2>5. QED
    BY <1>1, <2>1, <2>4
<1>13. ASSUME NEW c \in Clients, Respond(c) \/ Ended(c) PROVE Flushed'
  <2>1. /\ UNCHANGED <<history, conn, got, server>> /\ subs' \subseteq subs
        /\ \A d \in Clients : handler'[d] # "replaying" /\ d \in subs' =>
                                handler[d] # "replaying" /\ d \in subs
    BY <1>13 DEF Respond, Ended, Leave, Shapes
  <2>2. QED
    BY <1>0, <1>2, <2>1 DEF Flushed
<1>14. QED
  BY <1>3, <1>4, <1>5, <1>6, <1>7, <1>8, <1>9, <1>10, <1>11, <1>12, <1>13
     DEF Next, LoopStep, CommandStep, Threads

\* The elements of two sequences, one after the other.
LEMMA Concatenated ==
  ASSUME NEW s \in Seq(Nat), NEW t \in Seq(Nat)
  PROVE  s \o t \in Seq(Nat) /\ ToSet(s \o t) = ToSet(s) \cup ToSet(t)
<1>1. /\ s \o t \in Seq(Nat)
      /\ Range(s \o t) = Range(s) \cup Range(t)
  BY ConcatProperties, RangeConcatenation
<1>2. QED
  BY <1>1 DEF ToSet, Range

SinkInv ==
  Typed /\ Subscribed /\ OnItsWay /\ HandsOwn /\ MainQuiet /\ StopLast /\ Answering /\ Flushed

\* All of it, at every step.
LEMMA SinkInvHolds == Spec => []SinkInv
<1>1. Init => SinkInv
  <2> SUFFICES ASSUME Init PROVE SinkInv
    OBVIOUS
  <2>1. /\ <<>> \in Seq(Nat) /\ <<>> \in Seq(Nat \cup {Stop})
        /\ <<>> \in Seq([who : Labels, by : Threads]) /\ Len(<<>>) = 0 /\ ToSet(<<>>) = {}
    BY EmptySeq DEF ToSet
  <2>2. Typed
    BY <2>1, SinkAssumption DEF Init, Typed, Shapes, Named, Places, Handlers, Nothing, Threads
  <2>3. Subscribed /\ OnItsWay /\ HandsOwn /\ MainQuiet /\ StopLast /\ Answering /\ Flushed
    BY <2>1 DEF Init, Subscribed, OnItsWay, HandsOwn, MainQuiet, StopLast, Answering, Flushed,
                Threads
  <2>4. QED
    BY <2>2, <2>3 DEF SinkInv
<1>2. SinkInv /\ [Next]_vars => SinkInv'
  BY TypeStep, SubscribedStep, WayStep, HandsStep, QuietStep, StopLastStep, AnsweringStep,
     FlushedStep DEF SinkInv
<1>3. QED
  BY <1>1, <1>2, PTL DEF Spec

\* Whatever the clients, the labels and the size of the history: a client that
\* subscribes before it copies the history under one lock misses no record,
\* though a broadcast is made in two steps by one thread and sent by another.
THEOREM NoneMissed == Spec => []NothingMissed
<1>1. SinkInv => NothingMissed
  <2> SUFFICES ASSUME Shapes, Named, OnItsWay PROVE NothingMissed
    BY DEF SinkInv, Typed
  <2>1. ASSUME NEW c \in Clients
        PROVE  /\ ToSet(queued[c] \o replay[c] \o got[c]) \cup updates[c] \subseteq Ids
               /\ ToSet(got[c] \o replay[c] \o queued[c])
                    = ToSet(got[c]) \cup ToSet(replay[c]) \cup ToSet(queued[c])
    <3>1. /\ queued[c] \in Seq(Nat) /\ replay[c] \in Seq(Nat) /\ got[c] \in Seq(Nat)
      BY DEF Shapes
    <3>2. /\ queued[c] \o replay[c] \in Seq(Nat) /\ got[c] \o replay[c] \in Seq(Nat)
          /\ ToSet(queued[c] \o replay[c]) = ToSet(queued[c]) \cup ToSet(replay[c])
          /\ ToSet(got[c] \o replay[c]) = ToSet(got[c]) \cup ToSet(replay[c])
      BY <3>1, Concatenated
    <3>3. /\ ToSet(queued[c] \o replay[c] \o got[c])
               = ToSet(queued[c]) \cup ToSet(replay[c]) \cup ToSet(got[c])
          /\ ToSet(got[c] \o replay[c] \o queued[c])
               = ToSet(got[c]) \cup ToSet(replay[c]) \cup ToSet(queued[c])
      BY <3>1, <3>2, Concatenated
    <3>4. QED
      BY <3>3 DEF Named
  <2>2. \A i \in Ids : records[i] \in [who : Labels, by : Threads]
    BY ElementOfSeq DEF Shapes, Ids
  <2>3. TypeOK
    BY <2>1, <2>2 DEF TypeOK, Shapes, Named, Places, Handlers
  <2>4. QED
    BY <2>1, <2>3 DEF NothingMissed, OnItsWay
<1>2. QED
  BY <1>1, SinkInvHolds, PTL

\* A stop sends what was published before it, and no thread is left that would
\* call a closed loop, in every order of commands, fan-outs and disconnections.
THEOREM StopIsClean == Spec => []StopFlushes
<1>1. SinkInv => StopFlushes
  <2> SUFFICES ASSUME SinkInv PROVE StopFlushes
    OBVIOUS
  <2>1. ASSUME NEW c \in Clients, conn[c] = "closed", handler[c] # "replaying", c \in subs
        PROVE  {i \in ToSet(history) : records[i].by = Main} \subseteq ToSet(got[c])
    BY <2>1 DEF SinkInv, Flushed, Ours, Typed, Named
  <2>2. ASSUME server = "closed"
        PROVE  InHand = {Nothing} /\ \A c \in Clients : updates[c] = {}
    <3>1. \A c \in Clients : hand[c] = Nothing /\ updates[c] = {}
      BY <2>2 DEF SinkInv, Answering
    <3>2. hand[Main] = Nothing
      BY <2>2 DEF SinkInv, MainQuiet
    <3>3. QED
      BY <3>1, <3>2 DEF InHand, Threads
  <2>3. QED
    BY <2>1, <2>2 DEF StopFlushes
<1>2. QED
  BY <1>1, SinkInvHolds, PTL
=============================================================================
