----------------------------- MODULE AudioSource -----------------------------
(* _QueueAudioSource of pipeline/streaming_coordinator.py: the queue between  *)
(* the threads that push PCM (a WAV feeder, the /ws/ingest handler) and the   *)
(* one pipeline thread that iterates chunks().  push() tests the closed flag  *)
(* without the lock and then puts; close() takes the lock, sets the flag and  *)
(* puts the sentinel.  Every one of those is a step of its own here.          *)
EXTENDS Naturals, Sequences, FiniteSets

CONSTANTS Pushers,   \* threads that push audio; they close it as well
          Closers,   \* threads that only close it (stream-stop, drain threads)
          MaxPushes, \* bound: push() calls of one thread
          NoThread   \* value of the lock when nobody holds it

Threads == Pushers \cup Closers

ASSUME ThreadsAssumption == NoThread \notin Threads
ASSUME MaxPushesAssumption == MaxPushes \in Nat

\* The n-th chunk pushed by p.  The sentinel is told apart by identity in the
\* code and by its tag here.
Chunk(p, n) == [by |-> p, n |-> n]
Chunks == [by : Pushers, n : 1..MaxPushes]
Sentinel == [by |-> NoThread, n |-> 0]
Items == Chunks \cup {Sentinel}

VARIABLES q,        \* _q, the unbounded queue.Queue
          closed,   \* _closed
          lock,     \* holder of _lock
          pc,       \* what each thread is doing inside push() or close()
          pushed,   \* number of push() calls each pusher has begun
          received, \* chunks yielded by chunks(), in order
          done      \* chunks() has returned

vars == <<q, closed, lock, pc, pushed, received, done>>

Init ==
  /\ q = <<>>
  /\ closed = FALSE
  /\ lock = NoThread
  /\ pc = [t \in Threads |-> "idle"]
  /\ pushed = [p \in Pushers |-> 0]
  /\ received = <<>>
  /\ done = FALSE

-----------------------------------------------------------------------------
(* Faulty variants of the steps below, to show that the properties can fail.  *)

\* push() without its test of the flag.
PushCheckBlind(p) ==
  /\ pc[p] = "idle" /\ pushed[p] < MaxPushes
  /\ pushed' = [pushed EXCEPT ![p] = @ + 1]
  /\ pc' = [pc EXCEPT ![p] = "put"]
  /\ UNCHANGED <<q, closed, lock, received, done>>

\* close() that does not return when already closed.
CloseSetAgain(t) ==
  /\ pc[t] = "closing"
  /\ closed' = TRUE
  /\ pc' = [pc EXCEPT ![t] = "sentinel"]
  /\ UNCHANGED <<q, lock, pushed, received, done>>

\* close() that leaves out the sentinel while chunks are queued.
ClosePutIfEmpty(t) ==
  /\ pc[t] = "sentinel"
  /\ q' = IF q = <<>> THEN <<Sentinel>> ELSE q
  /\ lock' = NoThread
  /\ pc' = [pc EXCEPT ![t] = "idle"]
  /\ UNCHANGED <<closed, pushed, received, done>>

\* chunks() on a LifoQueue.
GetNewest ==
  /\ ~done /\ q # <<>>
  /\ q' = SubSeq(q, 1, Len(q) - 1)
  /\ IF q[Len(q)] = Sentinel
     THEN done' = TRUE /\ UNCHANGED received
     ELSE received' = Append(received, q[Len(q)]) /\ UNCHANGED done
  /\ UNCHANGED <<closed, lock, pc, pushed>>

\* chunks() that hands the sentinel on as audio.
GetRaw ==
  /\ ~done /\ q # <<>>
  /\ q' = Tail(q)
  /\ received' = Append(received, Head(q))
  /\ done' = (Head(q) = Sentinel)
  /\ UNCHANGED <<closed, lock, pc, pushed>>
-----------------------------------------------------------------------------
\* push(): the unlocked test of _closed.  A closed source drops the chunk.
PushCheck(p) ==
  /\ pc[p] = "idle"
  /\ pushed[p] < MaxPushes
  /\ pushed' = [pushed EXCEPT ![p] = @ + 1]
  /\ pc' = IF closed THEN pc ELSE [pc EXCEPT ![p] = "put"]
  /\ UNCHANGED <<q, closed, lock, received, done>>

\* push(): the put, whatever happened to _closed since the test.
PushPut(p) ==
  /\ pc[p] = "put"
  /\ q' = Append(q, Chunk(p, pushed[p]))
  /\ pc' = [pc EXCEPT ![p] = "idle"]
  /\ UNCHANGED <<closed, lock, pushed, received, done>>

\* close(): with self._lock.
CloseEnter(t) ==
  /\ pc[t] = "idle"
  /\ lock = NoThread
  /\ lock' = t
  /\ pc' = [pc EXCEPT ![t] = "closing"]
  /\ UNCHANGED <<q, closed, pushed, received, done>>

\* close(): return when already closed, else set the flag.
CloseSet(t) ==
  /\ pc[t] = "closing"
  /\ \/ /\ closed
        /\ lock' = NoThread
        /\ pc' = [pc EXCEPT ![t] = "idle"]
        /\ UNCHANGED closed
     \/ /\ ~closed
        /\ closed' = TRUE
        /\ pc' = [pc EXCEPT ![t] = "sentinel"]
        /\ UNCHANGED lock
  /\ UNCHANGED <<q, pushed, received, done>>

\* close(): put the sentinel and leave the lock.
ClosePut(t) ==
  /\ pc[t] = "sentinel"
  /\ q' = Append(q, Sentinel)
  /\ lock' = NoThread
  /\ pc' = [pc EXCEPT ![t] = "idle"]
  /\ UNCHANGED <<closed, pushed, received, done>>

\* chunks(): a blocking get; the sentinel ends the generator for good.
Get ==
  /\ ~done
  /\ q # <<>>
  /\ q' = Tail(q)
  /\ IF Head(q) = Sentinel
     THEN done' = TRUE /\ UNCHANGED received
     ELSE received' = Append(received, Head(q)) /\ UNCHANGED done
  /\ UNCHANGED <<closed, lock, pc, pushed>>

Push(p) == PushCheck(p) \/ PushPut(p)
Close(t) == CloseEnter(t) \/ CloseSet(t) \/ ClosePut(t)

Next == (\E p \in Pushers : Push(p)) \/ (\E t \in Threads : Close(t)) \/ Get

\* A thread inside push() or close() runs on, and the pipeline thread keeps
\* taking from the queue.  Nobody is obliged to call push() or close().
Fairness ==
  /\ \A p \in Pushers : WF_vars(PushPut(p))
  /\ \A t \in Threads : WF_vars(CloseSet(t)) /\ WF_vars(ClosePut(t))
  /\ WF_vars(Get)

Safety == Init /\ [][Next]_vars
Spec == Safety /\ Fairness
-----------------------------------------------------------------------------
\* Type invariant of the queue and of the threads inside it.
TypeOK ==
  /\ q \in Seq(Items)
  /\ closed \in BOOLEAN
  /\ lock \in Threads \cup {NoThread}
  /\ pc \in [Threads -> {"idle", "put", "closing", "sentinel"}]
  /\ pushed \in [Pushers -> 0..MaxPushes]
  /\ received \in Seq(Chunks)
  /\ done \in BOOLEAN

Sentinels == {i \in 1..Len(q) : q[i] = Sentinel}

\* However many threads race in close(), the pipeline is sent exactly one
\* sentinel: none is left in the queue after chunks() has returned, none is
\* there before somebody closed, and never two.
SingleSentinel ==
  /\ \A i, j \in Sentinels : i = j
  /\ done => Sentinels = {}
  /\ Sentinels # {} \/ done => closed

\* What is behind the sentinel, or left after chunks() returned, is lost.
Stranded ==
  IF done THEN {q[i] : i \in 1..Len(q)}
  ELSE {q[i] : i \in {k \in 1..Len(q) : \E j \in Sentinels : j < k}}

\* push() tests the flag outside the lock, so a chunk may land behind the
\* sentinel; a thread can strand one such chunk and no more, and it is the
\* last one it got into the queue.
StragglersBounded ==
  \A c, d \in Stranded : c.by = d.by => c = d

\* Once somebody has closed the source, chunks() returns.
ClosedEnds == closed ~> done

\* The chunks in front of the sentinel are in transit; the channel is open
\* until the sentinel is in the queue.
InTransit ==
  IF done THEN <<>>
  ELSE SubSeq(q, 1, IF Sentinels = {} THEN Len(q)
                    ELSE (CHOOSE i \in Sentinels : \A j \in Sentinels : i <= j) - 1)

Channel == INSTANCE AudioChannel WITH
             open <- Sentinels = {} /\ ~done,
             transit <- InTransit,
             ended <- done

\* The queue with an in-band sentinel implements the channel: accepted chunks
\* come out in order, none accepted before the sentinel is lost, and the end
\* comes after them.
ImplementsChannel == Channel!ChannelSpec
=============================================================================
