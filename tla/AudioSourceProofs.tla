-------------------------- MODULE AudioSourceProofs --------------------------
(* Proofs about AudioSource for any threads: its type invariant, and that     *)
(* however many threads close it the pipeline is sent one sentinel.           *)
EXTENDS AudioSource, SequenceTheorems, TLAPS

\* A thread between the two ends of close()'s critical section has the lock.
LockInv == \A t \in Threads : pc[t] \in {"closing", "sentinel"} => lock = t

NoSentinel == \A i \in 1..Len(q) : q[i] # Sentinel

\* The thread that has set the flag has still to send the sentinel; there is
\* none before the flag is set and none after the pipeline has seen it.
SentinelInv ==
  /\ \A t \in Threads : pc[t] = "sentinel" => closed /\ NoSentinel /\ ~done
  /\ ~closed => NoSentinel /\ ~done
  /\ done => NoSentinel
  /\ \A i, j \in 1..Len(q) : q[i] = Sentinel /\ q[j] = Sentinel => i = j

SourceInv == TypeOK /\ LockInv /\ SentinelInv

\* The sentinel is nobody's chunk.
LEMMA SentinelIsNoChunk == Sentinel \notin Chunks
BY ThreadsAssumption DEF Sentinel, Chunks, Threads

\* What is in the queue is a chunk or the sentinel.
LEMMA ChunkType ==
  ASSUME NEW p \in Pushers, NEW n \in 1..MaxPushes
  PROVE  Chunk(p, n) \in Chunks /\ Chunk(p, n) # Sentinel
BY ThreadsAssumption DEF Chunk, Chunks, Sentinel, Threads

\* push() has counted a chunk before it puts it.
Counted == \A p \in Pushers : pc[p] = "put" => pushed[p] \in 1..MaxPushes

\* The type invariant, whatever threads push and close.
THEOREM SourceTypeCorrect == Safety => []TypeOK
<1> DEFINE I == TypeOK /\ Counted
<1>1. Init => I
  <2>1. ASSUME Init PROVE TypeOK
    <3>1. 0 \in 0..MaxPushes
      BY MaxPushesAssumption
    <3>2. pushed \in [Pushers -> 0..MaxPushes]
      BY <2>1, <3>1 DEF Init
    <3>3. lock \in Threads \cup {NoThread} /\ closed \in BOOLEAN /\ done \in BOOLEAN
      BY <2>1 DEF Init
    <3>4. pc \in [Threads -> {"idle", "put", "closing", "sentinel"}]
      BY <2>1 DEF Init
    <3>5. q \in Seq(Items)
      BY <2>1 DEF Init
    <3>6. received \in Seq(Chunks)
      BY <2>1 DEF Init
    <3>7. QED
      BY <3>2, <3>3, <3>4, <3>5, <3>6 DEF TypeOK
  <2>2. Init => Counted
    BY DEF Init, Counted, Threads
  <2>3. QED
    BY <2>1, <2>2
<1>2. I /\ [Next]_vars => I'
  <2> SUFFICES ASSUME TypeOK, Counted, [Next]_vars PROVE TypeOK' /\ Counted'
    OBVIOUS
  <2> USE MaxPushesAssumption DEF TypeOK, Counted
  <2>1. ASSUME NEW p \in Pushers, PushCheck(p) PROVE TypeOK' /\ Counted'
    <3>1. p \in Threads /\ pushed[p] + 1 \in 1..MaxPushes
      BY <2>1 DEF Threads, PushCheck
    <3>2. pushed' = [pushed EXCEPT ![p] = pushed[p] + 1] /\ pushed' \in [Pushers -> 0..MaxPushes]
      BY <2>1, <3>1 DEF PushCheck
    <3>3. pc' \in [Threads -> {"idle", "put", "closing", "sentinel"}]
      BY <2>1, <3>1 DEF PushCheck
    <3>4. Counted'
      <4> SUFFICES ASSUME NEW o \in Pushers, pc'[o] = "put" PROVE pushed'[o] \in 1..MaxPushes
        OBVIOUS
      <4>1. CASE o = p
        BY <3>1, <3>2, <4>1
      <4>2. CASE o # p
        BY <2>1, <3>2, <4>2 DEF PushCheck, Threads
      <4>3. QED
        BY <4>1, <4>2
    <3>5. QED
      BY <2>1, <3>2, <3>3, <3>4 DEF PushCheck
  <2>2. ASSUME NEW p \in Pushers, PushPut(p) PROVE TypeOK' /\ Counted'
    <3>1. p \in Threads /\ Chunk(p, pushed[p]) \in Items
      BY <2>2 DEF PushPut, Chunk, Items, Chunks, Threads
    <3>2. QED
      BY <2>2, <3>1 DEF PushPut, Threads
  <2>3. ASSUME NEW t \in Threads, CloseEnter(t) PROVE TypeOK' /\ Counted'
    BY <2>3 DEF CloseEnter, Threads
  <2>4. ASSUME NEW t \in Threads, CloseSet(t) PROVE TypeOK' /\ Counted'
    BY <2>4 DEF CloseSet, Threads
  <2>5. ASSUME NEW t \in Threads, ClosePut(t) PROVE TypeOK' /\ Counted'
    BY <2>5 DEF ClosePut, Items, Threads
  <2>6. CASE Get
    <3>1. Head(q) \in Items /\ q' \in Seq(Items)
      BY <2>6 DEF Get
    <3>2. Head(q) # Sentinel => Head(q) \in Chunks
      BY <3>1 DEF Items
    <3>3. received' \in Seq(Chunks) /\ done' \in BOOLEAN
      <4>1. CASE Head(q) = Sentinel
        BY <2>6, <4>1 DEF Get
      <4>2. CASE Head(q) # Sentinel
        <5>1. received' = Append(received, Head(q)) /\ done' = done
          BY <2>6, <4>2 DEF Get
        <5>2. Head(q) \in Chunks
          BY <3>2, <4>2
        <5>3. QED
          BY <5>1, <5>2
      <4>3. QED
        BY <4>1, <4>2
    <3>4. QED
      BY <2>6, <3>1, <3>3 DEF Get
  <2>7. CASE UNCHANGED vars
    BY <2>7 DEF vars
  <2>8. QED
    BY <2>1, <2>2, <2>3, <2>4, <2>5, <2>6, <2>7 DEF Next, Push, Close
<1>3. QED
  BY <1>1, <1>2, PTL DEF Safety

\* Whoever closes first sends the sentinel, inside the lock; whoever comes
\* later finds the flag set.
LEMMA SentinelStep ==
  ASSUME SourceInv, Counted, [Next]_vars
  PROVE  LockInv' /\ SentinelInv'
<1> USE ThreadsAssumption DEF SourceInv, TypeOK, LockInv, SentinelInv, NoSentinel
<1>1. ASSUME NEW p \in Pushers, PushCheck(p) PROVE LockInv' /\ SentinelInv'
  BY <1>1 DEF PushCheck, Threads
<1>2. ASSUME NEW p \in Pushers, PushPut(p) PROVE LockInv' /\ SentinelInv'
  <2>1. Chunk(p, pushed[p]) \in Items /\ Chunk(p, pushed[p]) # Sentinel
    BY <1>2, ChunkType DEF PushPut, Counted, Items
  <2>2. /\ Len(q') = Len(q) + 1
        /\ \A i \in 1..Len(q) : q'[i] = q[i]
        /\ q'[Len(q) + 1] # Sentinel
    BY <1>2, <2>1 DEF PushPut
  <2>3. \A i \in 1..Len(q') : q'[i] = Sentinel => i \in 1..Len(q) /\ q[i] = Sentinel
    BY <2>2
  <2>4. NoSentinel => NoSentinel'
    BY <2>3
  <2>5. \A i, j \in 1..Len(q') : q'[i] = Sentinel /\ q'[j] = Sentinel => i = j
    BY <2>3
  <2>6. LockInv'
    BY <1>2 DEF PushPut
  <2>7. QED
    BY <1>2, <2>4, <2>5, <2>6 DEF PushPut
<1>3. ASSUME NEW t \in Threads, CloseEnter(t) PROVE LockInv' /\ SentinelInv'
  BY <1>3 DEF CloseEnter
<1>4. ASSUME NEW t \in Threads, CloseSet(t) PROVE LockInv' /\ SentinelInv'
  BY <1>4 DEF CloseSet
<1>5. ASSUME NEW t \in Threads, ClosePut(t) PROVE LockInv' /\ SentinelInv'
  <2>1. lock = t /\ closed /\ NoSentinel /\ ~done
    BY <1>5 DEF ClosePut
  <2>2. /\ Len(q') = Len(q) + 1
        /\ \A i \in 1..Len(q) : q'[i] = q[i]
    BY <1>5 DEF ClosePut, Items
  <2>3. \A i \in 1..Len(q') : q'[i] = Sentinel => i = Len(q) + 1
    BY <2>1, <2>2
  <2>4. \A u \in Threads : pc'[u] \notin {"closing", "sentinel"}
    BY <1>5, <2>1 DEF ClosePut
  <2>5. QED
    BY <1>5, <2>1, <2>3, <2>4 DEF ClosePut
<1>6. CASE Get
  <2>1. /\ Len(q') = Len(q) - 1
        /\ \A i \in 1..Len(q') : q'[i] = q[i + 1] /\ i + 1 \in 1..Len(q)
        /\ 1 \in 1..Len(q) /\ Head(q) = q[1]
    BY <1>6 DEF Get
  <2>2. NoSentinel => NoSentinel'
    BY <2>1
  <2>3. \A i, j \in 1..Len(q') : q'[i] = Sentinel /\ q'[j] = Sentinel => i = j
    BY <2>1, SMTT(20)
  <2>4. Head(q) = Sentinel => NoSentinel' /\ ~NoSentinel
    BY <2>1
  <2>5. LockInv'
    BY <1>6 DEF Get
  <2>6. QED
    BY <1>6, <2>2, <2>3, <2>4, <2>5 DEF Get
<1>7. CASE UNCHANGED vars
  BY <1>7 DEF vars
<1>8. QED
  BY <1>1, <1>2, <1>3, <1>4, <1>5, <1>6, <1>7 DEF Next, Push, Close

\* Pushes, closes and the consumer keep the lock's and the sentinel's invariants.
LEMMA SourceStep == SourceInv /\ Counted /\ [Next]_vars /\ TypeOK' => SourceInv'
BY SentinelStep DEF SourceInv

\* They hold at the start.
LEMMA SourceInit == Init => LockInv /\ SentinelInv
BY DEF Init, LockInv, SentinelInv, NoSentinel

\* At every step a chunk about to be put is counted.
LEMMA CountedAlways == Safety => []Counted
<1>1. Init => Counted
  BY DEF Init, Counted, Threads
<1>2. TypeOK /\ TypeOK' /\ Counted /\ [Next]_vars => Counted'
  <2> SUFFICES ASSUME TypeOK, Counted, [Next]_vars PROVE Counted'
    OBVIOUS
  <2> USE MaxPushesAssumption DEF TypeOK, Counted, Threads
  <2>1. ASSUME NEW p \in Pushers, PushCheck(p) PROVE Counted'
    <3>1. pushed[p] + 1 \in 1..MaxPushes /\ pushed' = [pushed EXCEPT ![p] = pushed[p] + 1]
      BY <2>1 DEF PushCheck
    <3> SUFFICES ASSUME NEW o \in Pushers, pc'[o] = "put" PROVE pushed'[o] \in 1..MaxPushes
      OBVIOUS
    <3>2. CASE o = p
      BY <3>1, <3>2
    <3>3. CASE o # p
      BY <2>1, <3>1, <3>3 DEF PushCheck
    <3>4. QED
      BY <3>2, <3>3
  <2>2. ASSUME NEW p \in Pushers, PushPut(p) PROVE Counted'
    BY <2>2 DEF PushPut
  <2>3. ASSUME NEW t \in Threads, Close(t) PROVE Counted'
    BY <2>3 DEF Close, CloseEnter, CloseSet, ClosePut
  <2>4. CASE Get \/ UNCHANGED vars
    BY <2>4 DEF Get, vars
  <2>5. QED
    BY <2>1, <2>2, <2>3, <2>4 DEF Next, Push
<1>3. QED
  BY <1>1, <1>2, SourceTypeCorrect, PTL DEF Safety

\* SingleSentinel for any threads racing in close().
THEOREM OneSentinel == Safety => []SingleSentinel
<1>1. SourceInv => SingleSentinel
  BY DEF SourceInv, SentinelInv, NoSentinel, SingleSentinel, Sentinels
<1>2. SourceInv <=> TypeOK /\ LockInv /\ SentinelInv
  BY DEF SourceInv
<1>3. QED
  BY <1>1, <1>2, SourceInit, SourceStep, SourceTypeCorrect, CountedAlways, PTL DEF Safety
-----------------------------------------------------------------------------
\* Position k of the queue is behind the sentinel.
Behind(k) == done \/ \E j \in 1..Len(q) : j < k /\ q[j] = Sentinel

\* A thread with a chunk behind the sentinel saw the flag down when it began
\* that push; its next push sees it up.
StragglerInv ==
  /\ \A k \in 1..Len(q) : Behind(k) /\ q[k] # Sentinel => pc[q[k].by] # "put"
  /\ \A k, m \in 1..Len(q) :
       /\ Behind(k) /\ q[k] # Sentinel
       /\ Behind(m) /\ q[m] # Sentinel
       /\ q[k].by = q[m].by
       => k = m

\* A chunk behind the sentinel is counted against its thread.
LEMMA StragglerStep ==
  ASSUME SourceInv, Counted, StragglerInv, [Next]_vars
  PROVE  StragglerInv'
<1> USE ThreadsAssumption DEF SourceInv, TypeOK
<1>1. ASSUME NEW p \in Pushers, PushCheck(p) PROVE StragglerInv'
  <2>1. CASE closed
    BY <1>1, <2>1 DEF PushCheck, StragglerInv, Behind
  <2>2. CASE ~closed
    <3>1. \A k \in 1..Len(q') : ~Behind(k)'
      BY <1>1, <2>2 DEF PushCheck, SentinelInv, NoSentinel, Behind
    <3>2. QED
      BY <3>1 DEF StragglerInv
  <2>3. QED
    BY <2>1, <2>2
<1>2. ASSUME NEW p \in Pushers, PushPut(p) PROVE StragglerInv'
  <2> DEFINE c == Chunk(p, pushed[p])
  <2>1. c \in Items /\ c # Sentinel /\ c.by = p
    BY <1>2, ChunkType DEF PushPut, Counted, Items, Chunk
  <2>2. /\ Len(q') = Len(q) + 1
        /\ \A i \in 1..Len(q) : q'[i] = q[i]
        /\ q'[Len(q) + 1] = c
    BY <1>2, <2>1 DEF PushPut
  <2> HIDE DEF c
  <2>3. \A k \in 1..Len(q) : Behind(k)' <=> Behind(k)
    BY <1>2, <2>2 DEF PushPut, Behind
  <2>4. pc[p] = "put" /\ pc'[p] = "idle" /\ \A o \in Threads \ {p} : pc'[o] = pc[o]
    BY <1>2 DEF PushPut, Threads
  <2>5. \A k \in 1..Len(q) : Behind(k) /\ q[k] # Sentinel => q[k].by # p
    BY <2>4 DEF StragglerInv
  <2>6. \A k \in 1..Len(q) : q[k] # Sentinel => q[k].by \in Threads
    BY DEF Items, Chunks, Threads
  <2>7. ASSUME NEW k \in 1..Len(q'), Behind(k)', q'[k] # Sentinel
        PROVE  pc'[q'[k].by] # "put"
    <3>1. CASE k \in 1..Len(q)
      <4>1. Behind(k) /\ q'[k] = q[k] /\ q[k].by \in Threads \ {p}
        BY <2>2, <2>3, <2>5, <2>6, <2>7, <3>1
      <4>2. pc[q[k].by] # "put"
        BY <2>7, <3>1, <4>1 DEF StragglerInv
      <4>3. QED
        BY <2>4, <4>1, <4>2
    <3>2. CASE k = Len(q) + 1
      BY <2>1, <2>2, <2>4, <3>2
    <3>3. QED
      BY <2>2, <3>1, <3>2
  <2>8. ASSUME NEW k \in 1..Len(q'), NEW m \in 1..Len(q'), k < m,
               Behind(k)', q'[k] # Sentinel, Behind(m)', q'[m] # Sentinel,
               q'[k].by = q'[m].by
        PROVE  FALSE
    <3>1. k \in 1..Len(q)
      BY <2>2, <2>8
    <3>2. CASE m \in 1..Len(q)
      BY <2>2, <2>3, <2>8, <3>1, <3>2 DEF StragglerInv
    <3>3. CASE m = Len(q) + 1
      BY <2>1, <2>2, <2>3, <2>5, <2>8, <3>1, <3>3
    <3>4. QED
      BY <2>2, <3>2, <3>3
  <2>9. QED
    BY <2>7, <2>8, <2>2 DEF StragglerInv
<1>3. ASSUME NEW t \in Threads, CloseEnter(t) \/ CloseSet(t) PROVE StragglerInv'
  <2>1. q' = q /\ done' = done /\ \A o \in Threads : pc'[o] = "put" => pc[o] = "put"
    BY <1>3 DEF CloseEnter, CloseSet
  <2>2. \A k \in 1..Len(q) : q[k] # Sentinel => q[k].by \in Threads
    BY DEF Items, Chunks, Threads
  <2>3. \A k \in 1..Len(q) : Behind(k)' <=> Behind(k)
    BY <2>1 DEF Behind
  <2>4. QED
    BY <2>1, <2>2, <2>3 DEF StragglerInv
<1>4. ASSUME NEW t \in Threads, ClosePut(t) PROVE StragglerInv'
  <2>1. NoSentinel /\ ~done /\ ~done'
    BY <1>4 DEF ClosePut, SentinelInv
  <2>2. /\ Len(q') = Len(q) + 1
        /\ \A i \in 1..Len(q) : q'[i] = q[i]
        /\ q'[Len(q) + 1] = Sentinel
    BY <1>4 DEF ClosePut, Items
  <2>3. \A k \in 1..Len(q') : ~Behind(k)'
    BY <2>1, <2>2 DEF NoSentinel, Behind
  <2>4. QED
    BY <2>3 DEF StragglerInv
<1>5. CASE Get
  <2>1. /\ Len(q') = Len(q) - 1
        /\ \A i \in 1..Len(q') : q'[i] = q[i + 1] /\ i + 1 \in 1..Len(q)
        /\ 1 \in 1..Len(q) /\ Head(q) = q[1] /\ ~done /\ pc' = pc
    BY <1>5 DEF Get
  <2>2. \A k \in 1..Len(q') : Behind(k)' => Behind(k + 1)
    <3>1. CASE Head(q) = Sentinel
      BY <2>1, <3>1 DEF Behind
    <3>2. CASE Head(q) # Sentinel
      <4>1. ~done'
        BY <1>5, <2>1, <3>2 DEF Get
      <4>2. QED
        BY <2>1, <4>1 DEF Behind
    <3>3. QED
      BY <3>1, <3>2
  <2>3. \A k \in 1..Len(q') : Behind(k)' /\ q'[k] # Sentinel => pc'[q'[k].by] # "put"
    BY <2>1, <2>2 DEF StragglerInv
  <2>4. ASSUME NEW k \in 1..Len(q'), NEW m \in 1..Len(q'),
               Behind(k)', q'[k] # Sentinel, Behind(m)', q'[m] # Sentinel,
               q'[k].by = q'[m].by
        PROVE  k = m
    <3>1. k + 1 = m + 1
      BY <2>1, <2>2, <2>4 DEF StragglerInv
    <3>2. QED
      BY <3>1, <2>1
  <2>5. QED
    BY <2>3, <2>4 DEF StragglerInv
<1>6. CASE UNCHANGED vars
  BY <1>6 DEF vars, StragglerInv, Behind
<1>7. QED
  BY <1>1, <1>2, <1>3, <1>4, <1>5, <1>6 DEF Next, Push, Close

\* StragglersBounded for any threads: the unlocked test of the flag costs each
\* producer one chunk at most.
THEOREM OneStragglerEach == Safety => []StragglersBounded
<1>1. Init => StragglerInv
  BY DEF Init, StragglerInv
<1>2. SourceInv /\ StragglerInv => StragglersBounded
  <2> SUFFICES ASSUME SourceInv, StragglerInv,
                      NEW c \in Stranded, NEW d \in Stranded, c.by = d.by
               PROVE  c = d
    BY DEF StragglersBounded
  <2>1. PICK k \in 1..Len(q) : Behind(k) /\ q[k] = c
    BY DEF Stranded, Sentinels, Behind
  <2>2. PICK m \in 1..Len(q) : Behind(m) /\ q[m] = d
    BY DEF Stranded, Sentinels, Behind
  <2>3. \A i \in 1..Len(q) : Behind(i) => q[i] # Sentinel
    BY DEF SourceInv, TypeOK, SentinelInv, NoSentinel, Behind
  <2>4. QED
    BY <2>1, <2>2, <2>3 DEF StragglerInv
<1>3. SourceInv <=> TypeOK /\ LockInv /\ SentinelInv
  BY DEF SourceInv
<1>4. SourceInv /\ Counted /\ StragglerInv /\ [Next]_vars => StragglerInv'
  BY StragglerStep
<1>5. QED
  BY <1>1, <1>2, <1>3, <1>4, SourceInit, SourceStep, SourceTypeCorrect,
     CountedAlways, PTL DEF Safety
-----------------------------------------------------------------------------
\* The places of the sentinel in a queue, and what is in front of the first.
Ends(s) == {i \in 1..Len(s) : s[i] = Sentinel}
Front(s) ==
  SubSeq(s, 1, IF Ends(s) = {} THEN Len(s)
               ELSE (CHOOSE i \in Ends(s) : \A j \in Ends(s) : i <= j) - 1)
Single(s) == \A i, j \in Ends(s) : i = j

\* The beginning of a queue, place by place.
LEMMA Beginning ==
  ASSUME NEW s \in Seq(Items), NEW n \in Nat, n <= Len(s)
  PROVE  /\ SubSeq(s, 1, n) \in Seq(Items) /\ Len(SubSeq(s, 1, n)) = n
         /\ \A i \in 1..n : SubSeq(s, 1, n)[i] = s[i]
<1>1. Len(s) \in Nat /\ 1 \in Int /\ n \in Int /\ \A i \in 1..n : s[i] \in Items
  BY ElementOfSeq, LenProperties
<1>2. /\ SubSeq(s, 1, n) \in Seq(Items)
      /\ Len(SubSeq(s, 1, n)) = IF 1 <= n THEN n - 1 + 1 ELSE 0
      /\ \A i \in 1..n - 1 + 1 : SubSeq(s, 1, n)[i] = s[1 + i - 1]
  BY <1>1, SubSeqProperties
<1>3. (IF 1 <= n THEN n - 1 + 1 ELSE 0) = n /\ n - 1 + 1 = n /\ \A i \in 1..n : 1 + i - 1 = i
  OBVIOUS
<1>4. QED
  BY <1>2, <1>3

\* A queue without a sentinel is all in front of it.
LEMMA FrontIs ==
  ASSUME NEW s \in Seq(Items), Single(s)
  PROVE  /\ Ends(s) = {} => Front(s) = s
         /\ \A p \in Ends(s) : Front(s) = SubSeq(s, 1, p - 1) /\ Ends(s) = {p}
<1>1. Len(s) \in Nat
  BY LenProperties
<1>2. ASSUME Ends(s) = {} PROVE Front(s) = s
  <2>1. Front(s) = SubSeq(s, 1, Len(s))
    BY <1>2 DEF Front
  <2>2. QED
    BY <1>1, <2>1, Beginning, SeqEqual
<1>3. ASSUME NEW p \in Ends(s) PROVE Front(s) = SubSeq(s, 1, p - 1) /\ Ends(s) = {p}
  <2>1. Ends(s) = {p} /\ p \in Nat
    BY <1>1 DEF Single, Ends
  <2>2. (CHOOSE i \in Ends(s) : \A j \in Ends(s) : i <= j) = p
    BY <2>1
  <2>3. QED
    BY <2>1, <2>2 DEF Front
<1>4. QED
  BY <1>2, <1>3

\* What a put changes in front of the sentinel: a chunk comes to the end of it
\* as long as there is none; the sentinel itself changes nothing.
LEMMA FrontOfAppend ==
  ASSUME NEW s \in Seq(Items), NEW e \in Items, Single(s), Single(Append(s, e))
  PROVE  /\ Ends(s) = {} /\ e # Sentinel =>
              Front(Append(s, e)) = Append(Front(s), e) /\ Ends(Append(s, e)) = {}
         /\ Ends(s) # {} \/ e = Sentinel =>
              Front(Append(s, e)) = Front(s) /\ Ends(Append(s, e)) # {}
<1> DEFINE a == Append(s, e)
<1>1. /\ a \in Seq(Items) /\ Len(a) = Len(s) + 1 /\ a[Len(s) + 1] = e
      /\ \A i \in 1..Len(s) : a[i] = s[i]
      /\ Len(s) \in Nat /\ Single(a)
  BY AppendProperties, LenProperties
<1>2. Ends(s) = {} /\ e # Sentinel => Front(a) = Append(Front(s), e) /\ Ends(a) = {}
  <2> SUFFICES ASSUME Ends(s) = {}, e # Sentinel PROVE Front(a) = Append(Front(s), e) /\ Ends(a) = {}
    OBVIOUS
  <2> HIDE DEF a
  <2>1. \A i \in 1..Len(a) : a[i] # Sentinel
    BY <1>1 DEF Ends
  <2>2. Ends(a) = {}
    BY <2>1 DEF Ends
  <2>3. Front(a) = a /\ Front(s) = s
    BY <1>1, <2>2, FrontIs DEF Single
  <2>4. QED
    BY <2>2, <2>3 DEF a
<1>3. \A n \in Nat : n <= Len(s) => SubSeq(a, 1, n) = SubSeq(s, 1, n)
  <2> SUFFICES ASSUME NEW n \in Nat, n <= Len(s) PROVE SubSeq(a, 1, n) = SubSeq(s, 1, n)
    OBVIOUS
  <2> HIDE DEF a
  <2>1. n <= Len(a)
    BY <1>1
  <2>2. /\ SubSeq(a, 1, n) \in Seq(Items) /\ Len(SubSeq(a, 1, n)) = n
        /\ \A i \in 1..n : SubSeq(a, 1, n)[i] = a[i]
    BY <1>1, <2>1, Beginning
  <2>3. /\ SubSeq(s, 1, n) \in Seq(Items) /\ Len(SubSeq(s, 1, n)) = n
        /\ \A i \in 1..n : SubSeq(s, 1, n)[i] = s[i]
    BY Beginning
  <2>4. \A i \in 1..n : SubSeq(a, 1, n)[i] = SubSeq(s, 1, n)[i]
    <3>1. \A i \in 1..n : i \in 1..Len(s)
      BY <1>1
    <3>2. QED
      BY <1>1, <2>2, <2>3, <3>1
  <2>5. QED
    BY <2>2, <2>3, <2>4, SeqEqual
<1>4. ASSUME NEW p \in Ends(s) PROVE Front(a) = Front(s) /\ Ends(a) # {}
  <2> HIDE DEF a
  <2>1. p \in Ends(a) /\ p - 1 \in Nat /\ p - 1 <= Len(s)
    BY <1>1 DEF Ends
  <2>2. Front(s) = SubSeq(s, 1, p - 1)
    BY FrontIs
  <2>3. Front(a) = SubSeq(a, 1, p - 1)
    BY <1>1, <2>1, FrontIs
  <2>4. QED
    BY <1>3, <2>1, <2>2, <2>3
<1>5. ASSUME Ends(s) = {}, e = Sentinel PROVE Front(a) = Front(s) /\ Ends(a) # {}
  <2> HIDE DEF a
  <2>1. Len(s) + 1 \in Ends(a) /\ Len(s) + 1 - 1 = Len(s)
    BY <1>1, <1>5 DEF Ends
  <2>2. Front(a) = SubSeq(a, 1, Len(s) + 1 - 1)
    BY <1>1, <2>1, FrontIs
  <2>3. Front(a) = SubSeq(s, 1, Len(s))
    BY <1>1, <1>3, <2>1, <2>2
  <2>4. QED
    BY <1>5, <2>1, <2>3 DEF Front
<1>6. QED
  BY <1>2, <1>4, <1>5

\* What a get changes in front of the sentinel.
LEMMA FrontOfTail ==
  ASSUME NEW s \in Seq(Items), s # <<>>, Single(s), Single(Tail(s))
  PROVE  /\ Head(s) = Sentinel => Front(s) = <<>> /\ Ends(s) # {}
         /\ Head(s) # Sentinel =>
              /\ Front(s) # <<>> /\ Head(Front(s)) = Head(s) /\ Front(Tail(s)) = Tail(Front(s))
              /\ Ends(Tail(s)) = {} <=> Ends(s) = {}
<1> DEFINE t == Tail(s)
<1>1. /\ t \in Seq(Items) /\ Len(t) = Len(s) - 1 /\ \A i \in 1..Len(t) : t[i] = s[i + 1]
      /\ Len(s) \in Nat \ {0} /\ Head(s) = s[1]
  BY HeadTailProperties, LenProperties, EmptySeq
<1> HIDE DEF t
<1>2. ASSUME Head(s) = Sentinel PROVE Front(s) = <<>> /\ Ends(s) # {}
  <2>1. 1 \in Ends(s) /\ 1 - 1 = 0
    BY <1>1, <1>2 DEF Ends
  <2>2. Front(s) = SubSeq(s, 1, 0)
    BY <2>1, FrontIs
  <2>3. QED
    BY <2>1, <2>2, SubSeqEmpty
<1>3. ASSUME Head(s) # Sentinel, Ends(s) = {}
      PROVE  /\ Front(s) # <<>> /\ Head(Front(s)) = Head(s) /\ Front(t) = Tail(Front(s))
             /\ Ends(t) = {}
  <2>1. \A i \in 1..Len(t) : i + 1 \in 1..Len(s)
    BY <1>1
  <2>2. Ends(t) = {}
    BY <1>1, <1>3, <2>1 DEF Ends
  <2>3. Front(s) = s /\ Front(t) = t
    BY <1>1, <1>3, <2>2, FrontIs DEF t
  <2>4. QED
    BY <2>2, <2>3 DEF t
<1>4. ASSUME Head(s) # Sentinel, NEW p \in Ends(s)
      PROVE  /\ Front(s) # <<>> /\ Head(Front(s)) = Head(s) /\ Front(t) = Tail(Front(s))
             /\ Ends(t) # {}
  <2> DEFINE f == Front(s)
  <2>1. p \in 2..Len(s) /\ p - 1 \in Nat /\ p - 1 <= Len(s) /\ p - 1 # 0 /\ p - 1 \in 1..Len(t)
        /\ p - 1 - 1 \in Nat /\ p - 1 - 1 <= Len(t) /\ 1 \in 1..p - 1
    BY <1>1, <1>4 DEF Ends
  <2>2. t[p - 1] = Sentinel
    BY <1>1, <2>1 DEF Ends
  <2>3. p - 1 \in Ends(t)
    BY <2>1, <2>2 DEF Ends
  <2>4. f = SubSeq(s, 1, p - 1) /\ Front(t) = SubSeq(t, 1, p - 1 - 1)
    BY <1>1, <2>3, FrontIs DEF t
  <2>5. f \in Seq(Items) /\ Len(f) = p - 1 /\ \A i \in 1..p - 1 : f[i] = s[i]
    BY <2>1, <2>4, Beginning
  <2>6. Front(t) \in Seq(Items) /\ Len(Front(t)) = p - 1 - 1 /\ \A i \in 1..p - 1 - 1 : Front(t)[i] = t[i]
    BY <1>1, <2>1, <2>4, Beginning
  <2> HIDE DEF f
  <2>7. f # <<>> /\ Head(f) = f[1]
    BY <2>1, <2>5, EmptySeq
  <2>8. /\ Tail(f) \in Seq(Items) /\ Len(Tail(f)) = Len(f) - 1
        /\ \A i \in 1..Len(Tail(f)) : Tail(f)[i] = f[i + 1]
    BY <2>5, <2>7, HeadTailProperties
  <2>9. \A i \in 1..p - 1 - 1 : i + 1 \in 1..p - 1 /\ i \in 1..Len(t)
    BY <2>1
  <2>10. \A i \in 1..p - 1 - 1 : Tail(f)[i] = Front(t)[i]
    BY <1>1, <2>5, <2>6, <2>8, <2>9
  <2>11. Tail(f) = Front(t)
    BY <2>5, <2>6, <2>8, <2>10, SeqEqual
  <2>12. Head(f) = Head(s)
    BY <1>1, <2>1, <2>5, <2>7
  <2>13. QED
    BY <2>3, <2>7, <2>11, <2>12 DEF f
<1>5. QED
  BY <1>2, <1>3, <1>4 DEF t

\* Every step of the threads and of the pipeline is one of the channel's, or
\* changes nothing there.
LEMMA ChannelStep ==
  ASSUME SourceInv, SourceInv', Counted, [Next]_vars
  PROVE  [Channel!ChannelNext]_(Channel!cvars)
<1> USE DEF Channel!cvars
<1>1. /\ q \in Seq(Items) /\ q' \in Seq(Items) /\ Single(q) /\ Single(q')
      /\ done \in BOOLEAN /\ done' \in BOOLEAN
  BY DEF SourceInv, TypeOK, SentinelInv, Single, Ends
<1>2. /\ Sentinels = Ends(q) /\ Sentinels' = Ends(q')
      /\ InTransit = (IF done THEN <<>> ELSE Front(q))
      /\ InTransit' = (IF done' THEN <<>> ELSE Front(q'))
  BY DEF InTransit, Sentinels, Ends, Front
<1>3. ASSUME UNCHANGED <<q, done, received>> PROVE UNCHANGED Channel!cvars
  BY <1>3 DEF Channel!cvars, Sentinels, InTransit
<1>4. ASSUME NEW e \in Items, q' = Append(q, e), UNCHANGED <<done, received>>,
             e = Sentinel => Ends(q) = {} /\ ~done
      PROVE  [Channel!ChannelNext]_(Channel!cvars)
  <2>1. CASE done
    BY <1>2, <1>4, <2>1
  <2>2. CASE ~done /\ Ends(q) = {} /\ e # Sentinel
    <3>1. InTransit' = Append(InTransit, e) /\ Sentinels' = {} /\ Sentinels = {} /\ ~done'
      BY <1>1, <1>2, <1>4, <2>2, FrontOfAppend
    <3>2. e \in Chunks
      BY <2>2 DEF Items
    <3>3. Channel!Accept(e)
      BY <1>4, <3>1, <2>2 DEF Channel!Accept
    <3>4. QED
      BY <3>2, <3>3 DEF Channel!ChannelNext
  <2>3. CASE ~done /\ Ends(q) # {} /\ e # Sentinel
    <3>1. InTransit' = InTransit /\ Sentinels' # {} /\ Sentinels # {} /\ ~done'
      BY <1>1, <1>2, <1>4, <2>3, FrontOfAppend
    <3>2. QED
      BY <1>4, <3>1, <2>3
  <2>4. CASE ~done /\ e = Sentinel
    <3>1. InTransit' = InTransit /\ Sentinels' # {} /\ Sentinels = {} /\ ~done'
      BY <1>1, <1>2, <1>4, <2>4, FrontOfAppend
    <3>2. Channel!Shut
      BY <1>4, <2>4, <3>1 DEF Channel!Shut
    <3>3. QED
      BY <3>2 DEF Channel!ChannelNext
  <2>5. QED
    BY <1>1, <2>1, <2>2, <2>3, <2>4
<1>5. ASSUME NEW p \in Pushers, PushPut(p) PROVE [Channel!ChannelNext]_(Channel!cvars)
  <2>1. Chunk(p, pushed[p]) \in Items /\ Chunk(p, pushed[p]) # Sentinel
    BY <1>5, ChunkType DEF PushPut, Counted, Items
  <2>2. q' = Append(q, Chunk(p, pushed[p])) /\ UNCHANGED <<done, received>>
    BY <1>5 DEF PushPut
  <2>3. QED
    BY <1>4, <2>1, <2>2
<1>6. ASSUME NEW t \in Threads, ClosePut(t) PROVE [Channel!ChannelNext]_(Channel!cvars)
  <2>1. NoSentinel /\ ~done
    BY <1>6 DEF ClosePut, SourceInv, SentinelInv
  <2>2. Ends(q) = {} /\ Sentinel \in Items
    BY <2>1 DEF NoSentinel, Ends, Items
  <2>3. q' = Append(q, Sentinel) /\ UNCHANGED <<done, received>>
    BY <1>6 DEF ClosePut
  <2>4. QED
    BY <1>4, <2>1, <2>2, <2>3
<1>7. CASE Get
  <2>1. /\ ~done /\ q # <<>> /\ q' = Tail(q)
        /\ IF Head(q) = Sentinel THEN done' = TRUE /\ UNCHANGED received
           ELSE received' = Append(received, Head(q)) /\ UNCHANGED done
    BY <1>7 DEF Get
  <2>2. CASE Head(q) = Sentinel
    <3>1. InTransit = <<>> /\ InTransit' = <<>> /\ Sentinels # {} /\ done' /\ received' = received
      BY <1>1, <1>2, <2>1, <2>2, FrontOfTail
    <3>2. Channel!End
      BY <2>1, <3>1 DEF Channel!End
    <3>3. QED
      BY <3>2 DEF Channel!ChannelNext
  <2>3. CASE Head(q) # Sentinel
    <3>1. /\ InTransit # <<>> /\ Head(InTransit) = Head(q) /\ InTransit' = Tail(InTransit)
          /\ Sentinels' = {} <=> Sentinels = {}
          /\ done' = done /\ received' = Append(received, Head(q))
      BY <1>1, <1>2, <2>1, <2>3, FrontOfTail
    <3>2. Channel!Hand
      BY <2>1, <3>1 DEF Channel!Hand
    <3>3. QED
      BY <3>2 DEF Channel!ChannelNext
  <2>4. QED
    BY <2>2, <2>3
<1>8. ASSUME NEW p \in Pushers, PushCheck(p) PROVE UNCHANGED Channel!cvars
  BY <1>3, <1>8 DEF PushCheck
<1>9. ASSUME NEW t \in Threads, CloseEnter(t) \/ CloseSet(t) PROVE UNCHANGED Channel!cvars
  BY <1>3, <1>9 DEF CloseEnter, CloseSet
<1>10. CASE UNCHANGED vars
  BY <1>3, <1>10 DEF vars
<1>11. QED
  BY <1>5, <1>6, <1>7, <1>8, <1>9, <1>10 DEF Next, Push, Close

\* The safety half of ImplementsChannel, for any threads: the queue with an
\* in-band sentinel is a channel that loses nothing accepted before it was shut.
THEOREM QueueIsChannel == Safety => Channel!ChannelSafety
<1>1. Init => Channel!ChannelInit
  <2> SUFFICES ASSUME Init PROVE Channel!ChannelInit
    OBVIOUS
  <2>1. q = <<>> /\ ~done /\ received = <<>> /\ done = FALSE
    BY DEF Init
  <2>2. Sentinels = {}
    BY <2>1 DEF Sentinels
  <2>3. InTransit = SubSeq(<<>>, 1, 0)
    BY <2>1, <2>2 DEF InTransit
  <2>4. InTransit = <<>>
    BY <2>3, SubSeqEmpty
  <2>5. QED
    BY <2>1, <2>2, <2>4 DEF Channel!ChannelInit
<1>2. SourceInv <=> TypeOK /\ LockInv /\ SentinelInv
  BY DEF SourceInv
<1>3. QED
  BY <1>1, <1>2, ChannelStep, SourceInit, SourceStep, SourceTypeCorrect, CountedAlways,
     PTL DEF Safety, Channel!ChannelSafety
=============================================================================
