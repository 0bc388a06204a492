------------------------------ MODULE JobsProofs ------------------------------
(* Proofs about Jobs for any jobs, workers, requests and size of the store:   *)
(* its type invariant, and that the store evicts only the oldest job.         *)
EXTENDS Jobs, SequenceTheorems, FiniteSetTheorems, TLAPS

Distinct(seq) == \A i, k \in 1..Len(seq) : seq[i] = seq[k] => i = k

Statuses == {"none", "queued", "running", "done", "failed", "lost"}
Futures == {"none", "pending", "running", "done", "cancelled"}

\* A job of the store has as many younger ones submitted behind it as the
\* store holds behind it.
Rank ==
  \A k \in 1..Len(order), i \in 1..Len(made) :
    made[i] = order[k] => Len(made) - i >= Len(order) - k

OnlyOldestGoes ==
  \A i \in 1..Len(made) :
    made[i] \in Kept \cup Dropped \/ Len(made) - i >= MaxJobs

\* The store, with what tells a job that was submitted from a new one.
StoreOK ==
  /\ order \in Seq(Jobs) /\ made \in Seq(Jobs)
  /\ Kept \subseteq Elements(made) /\ Len(order) <= MaxJobs /\ Distinct(order)
  /\ status \in [Jobs -> Statuses]
  /\ \A i \in 1..Len(made) : status[made[i]] # "none"
  /\ Rank /\ OnlyOldestGoes

\* The pool: a future is pending exactly while its job is in the queue, once.
PoolOK ==
  /\ queue \in Seq(Jobs) /\ Distinct(queue)
  /\ half \in Jobs \cup {NoJob}
  /\ fut \in [Jobs -> Futures]
  /\ Elements(queue) = {j \in Jobs : fut[j] = "pending"}
  /\ \A j \in Jobs : status[j] = "none" => fut[j] = "none"
  /\ half # NoJob => fut[half] = "none" /\ status[half] # "none"
  /\ IsFiniteSet(Running) /\ Cardinality(Running) <= Workers

\* The requests that delete, and those that download.
DeletesOK ==
  /\ todo \in [Deletes -> Seq(Jobs)] /\ stage \in [Deletes -> {"idle", "drop", "unlink"}]
  /\ \A d \in Deletes : stage[d] # "idle" => todo[d] # <<>>
  /\ deleted \subseteq Jobs
DownloadsOK ==
  /\ down \in [Downloads -> {"idle", "look", "backfill", "filling", "send"}]
  /\ asked \in [Downloads -> Jobs \cup {NoJob}]
  /\ \A x \in Downloads : down[x] # "idle" => asked[x] \in Jobs
  /\ answer \in [Downloads -> {"nothing", "409", "none", "partial", "whole"}]

\* The jobs' own fields, their files, and the process.
FieldsOK ==
  /\ result \in [Jobs -> BOOLEAN] /\ lock \in Jobs \cup {NoJob}
  /\ worker \in [Jobs -> {"none", "begin", "work", "store", "result", "write",
                          "writing", "except", "end"}]
  /\ file \in [Jobs -> {"none", "partial", "whole"}]
  /\ writers \in [Jobs -> SUBSET (Jobs \cup Downloads)]
  /\ phase \in {"up", "draining", "cutting", "closed"} /\ restarts \in 0..MaxRestarts

JobsInv == StoreOK /\ PoolOK /\ DeletesOK /\ DownloadsOK /\ FieldsOK
-----------------------------------------------------------------------------
(* The operations on lists.                                                   *)

\* What appending adds.
LEMMA AppendFacts ==
  ASSUME NEW seq \in Seq(Jobs), NEW j \in Jobs
  PROVE  /\ Append(seq, j) \in Seq(Jobs) /\ Len(Append(seq, j)) = Len(seq) + 1
         /\ Append(seq, j)[Len(seq) + 1] = j
         /\ \A i \in 1..Len(seq) : Append(seq, j)[i] = seq[i]
         /\ Elements(Append(seq, j)) = Elements(seq) \cup {j}
         /\ Distinct(seq) /\ j \notin Elements(seq) => Distinct(Append(seq, j))
<1> DEFINE new == Append(seq, j)
<1>1. /\ new \in Seq(Jobs) /\ Len(new) = Len(seq) + 1
      /\ new[Len(seq) + 1] = j
      /\ \A i \in 1..Len(seq) : new[i] = seq[i]
  BY AppendProperties
<1> HIDE DEF new
<1>2. Len(seq) \in Nat
  OBVIOUS
<1>3. Elements(new) = Elements(seq) \cup {j}
  BY <1>1, <1>2 DEF Elements
<1>4. Distinct(seq) /\ j \notin Elements(seq) => Distinct(new)
  BY <1>1, <1>2 DEF Elements, Distinct
<1>5. QED
  BY <1>1, <1>3, <1>4 DEF new

\* What taking the first one off leaves.
LEMMA TailFacts ==
  ASSUME NEW seq \in Seq(Jobs), seq # <<>>
  PROVE  /\ Head(seq) \in Jobs /\ Head(seq) = seq[1] /\ Head(seq) \in Elements(seq)
         /\ Tail(seq) \in Seq(Jobs) /\ Len(Tail(seq)) = Len(seq) - 1
         /\ \A i \in 1..Len(seq) - 1 : Tail(seq)[i] = seq[i + 1]
         /\ Elements(seq) = Elements(Tail(seq)) \cup {Head(seq)}
         /\ Distinct(seq) => Distinct(Tail(seq)) /\ Head(seq) \notin Elements(Tail(seq))
<1> DEFINE new == Tail(seq)
<1>1. /\ Head(seq) \in Jobs /\ Head(seq) = seq[1] /\ Len(seq) \in Nat \ {0}
      /\ new \in Seq(Jobs) /\ Len(new) = Len(seq) - 1
      /\ \A i \in 1..Len(seq) - 1 : new[i] = seq[i + 1]
  BY HeadTailProperties, EmptySeq
<1> HIDE DEF new
<1>2. Elements(seq) = Elements(new) \cup {Head(seq)}
  <2>1. ASSUME NEW i \in 1..Len(seq), i # 1 PROVE seq[i] \in Elements(new)
    <3>1. i - 1 \in 1..Len(new) /\ new[i - 1] = seq[i]
      BY <1>1, <2>1
    <3>2. QED
      BY <3>1 DEF Elements
  <2>2. Elements(new) \subseteq Elements(seq)
    BY <1>1 DEF Elements
  <2>3. \A i \in 1..Len(seq) : seq[i] \in Elements(new) \cup {Head(seq)}
    BY <1>1, <2>1
  <2>4. Head(seq) \in Elements(seq)
    BY <1>1 DEF Elements
  <2>5. Elements(seq) \subseteq Elements(new) \cup {Head(seq)}
    BY <2>3 DEF Elements
  <2>6. QED
    BY <2>2, <2>4, <2>5
<1>3. Distinct(seq) => Distinct(new) /\ Head(seq) \notin Elements(new)
  BY <1>1, SMTT(20) DEF Distinct, Elements
<1>4. QED
  BY <1>1, <1>2, <1>3 DEF new, Elements

\* What removing one leaves: the others, none further from the end than it was.
LEMMA WithoutFacts ==
  ASSUME NEW seq \in Seq(Jobs), NEW j, Distinct(seq)
  PROVE  /\ Without(seq, j) \in Seq(Jobs) /\ Len(Without(seq, j)) <= Len(seq)
         /\ Elements(Without(seq, j)) = Elements(seq) \ {j}
         /\ Distinct(Without(seq, j))
         /\ \A k \in 1..Len(Without(seq, j)) : \E m \in 1..Len(seq) :
              /\ Without(seq, j)[k] = seq[m]
              /\ Len(Without(seq, j)) - k <= Len(seq) - m
<1>1. CASE j \notin Elements(seq)
  BY <1>1 DEF Without
<1>2. CASE j \in Elements(seq)
  <2> DEFINE at == CHOOSE i \in 1..Len(seq) : seq[i] = j
             old(i) == IF i < at THEN i ELSE i + 1
             new == Without(seq, j)
  <2>1. at \in 1..Len(seq) /\ seq[at] = j
    BY <1>2 DEF Elements
  <2>2. new = [i \in 1..Len(seq) - 1 |-> seq[old(i)]]
    BY <1>2 DEF Without
  <2> HIDE DEF new, at
  <2>3. ASSUME NEW i \in 1..Len(seq) - 1
        PROVE  old(i) \in 1..Len(seq) /\ old(i) # at /\ Len(seq) - 1 - i <= Len(seq) - old(i)
    BY <2>1, <2>3
  <2>4. new \in Seq(Jobs) /\ Len(new) = Len(seq) - 1
    <3>1. Len(seq) - 1 \in Nat /\ \A i \in 1..Len(seq) - 1 : seq[old(i)] \in Jobs
      BY <2>1, <2>3
    <3>2. QED
      BY <2>2, <3>1, IsASeq
  <2>5. \A i \in 1..Len(new) : new[i] = seq[old(i)]
    BY <2>2, <2>4
  <2>6. Distinct(new)
    <3>1. ASSUME NEW i \in 1..Len(new), NEW k \in 1..Len(new), new[i] = new[k] PROVE i = k
      <4>1. old(i) = old(k)
        BY <2>3, <2>4, <2>5, <3>1 DEF Distinct
      <4>2. QED
        BY <2>1, <2>4, <4>1
    <3>2. QED
      BY <3>1 DEF Distinct
  <2>7. Elements(new) = Elements(seq) \ {j}
    <3>1. ASSUME NEW i \in 1..Len(new) PROVE new[i] \in Elements(seq) /\ new[i] # j
      <4>1. old(i) \in 1..Len(seq) /\ old(i) # at /\ new[i] = seq[old(i)]
        BY <2>3, <2>4, <2>5
      <4>2. QED
        BY <2>1, <4>1 DEF Elements, Distinct
    <3>2. ASSUME NEW m \in 1..Len(seq), seq[m] # j PROVE seq[m] \in Elements(new)
      <4>1. m # at
        BY <2>1, <3>2
      <4>2. CASE m < at
        <5>1. m \in 1..Len(new) /\ old(m) = m
          BY <2>1, <2>4, <4>2
        <5>2. QED
          BY <2>5, <5>1 DEF Elements
      <4>3. CASE m > at
        <5>1. m - 1 \in 1..Len(new) /\ old(m - 1) = m
          BY <2>1, <2>4, <4>3
        <5>2. QED
          BY <2>5, <5>1 DEF Elements
      <4>4. QED
        BY <2>1, <4>1, <4>2, <4>3
    <3>3. QED
      BY <3>1, <3>2 DEF Elements
  <2>8. QED
    BY <2>3, <2>4, <2>5, <2>6, <2>7 DEF new
<1>3. QED
  BY <1>1, <1>2

-----------------------------------------------------------------------------
(* What each kind of step changes.                                            *)

\* A worker's step: never the store's order, the pool's queue, or a request.
LEMMA RunJobEffect ==
  ASSUME NEW j \in Jobs, RunJob(j)
  PROVE  /\ UNCHANGED <<order, made, half, queue, downVars, delVars, process>>
         /\ \/ fut' = fut
            \/ fut[j] = "running" /\ fut' = [fut EXCEPT ![j] = "done"]
         /\ \/ status' = status
            \/ /\ j \in Kept
               /\ \E s \in {"running", "done", "failed"} : status' = [status EXCEPT ![j] = s]
<1> USE DEF OffWorker, store, files
<1>1. CASE MarkRunning(j)
  BY <1>1 DEF MarkRunning, SetStatus
<1>2. CASE SetDone(j)
  BY <1>2 DEF SetDone, SetStatus
<1>3. CASE MarkFailed(j)
  BY <1>3 DEF MarkFailed, SetStatus
<1>4. CASE Returns(j) \/ Raises(j) \/ SetResult(j) \/ WriteOpens(j) \/ WriteCloses(j) \/ WriteFails(j)
  BY <1>4 DEF Returns, Raises, SetResult, WriteOpens, WriteCloses, WriteFails
<1>5. CASE End(j)
  BY <1>5 DEF End
<1>6. QED
  BY <1>1, <1>2, <1>3, <1>4, <1>5 DEF RunJob

\* A download's step: it changes nothing but files and its own state.
LEMMA DownloadEffect ==
  ASSUME NEW x \in Downloads, Download(x)
  PROVE  UNCHANGED <<store, made, pool, delVars, process>>
BY DEF Download, Ask, NotReady, LookAtFile, BackfillOpens, BackfillCloses, Send, OffDownload

\* The requests that delete, before they take a job out of the store and after.
LEMMA DeleteEffect ==
  ASSUME NEW d \in Deletes, DeleteJob(d) \/ CleanJobs(d) \/ Remove(d)
  PROVE  UNCHANGED <<store, made, pool, downVars, process>>
<1>1. CASE DeleteJob(d) \/ CleanJobs(d)
  BY <1>1 DEF DeleteJob, CleanJobs, Begin, OffDelete, store
<1>2. CASE Remove(d)
  BY <1>2 DEF Remove, OffDelete, store
<1>3. QED
  BY <1>1, <1>2

\* A step of the shutdown: it changes the pool and the phase.
LEMMA LifespanEffect ==
  ASSUME Lifespan
  PROVE  UNCHANGED <<store, made, half, worker, files, downVars, delVars, restarts>>
BY DEF Lifespan, Drain, Cut, Cancel, Shutdown, OffLifespan

\* Which job a request has dropped stays known.
LEMMA DroppedStays ==
  ASSUME JobsInv, NEW d \in Deletes, DeleteJob(d) \/ CleanJobs(d) \/ Drop(d) \/ Remove(d)
  PROVE  Dropped \subseteq Dropped'
<1>1. deleted \subseteq deleted'
  BY DEF DeleteJob, CleanJobs, Begin, Drop, Remove
<1>2. ASSUME NEW e \in Deletes, stage[e] = "unlink"
      PROVE  Head(todo[e]) \in Dropped'
  <2>1. CASE Remove(d) /\ e = d
    BY <1>2, <2>1 DEF Remove, Dropped
  <2>2. CASE ~(Remove(d) /\ e = d)
    <3>1. stage'[e] = "unlink" /\ todo'[e] = todo[e]
      BY <1>2, <2>2 DEF JobsInv, DeletesOK, DeleteJob, CleanJobs, Begin, Drop, Remove
    <3>2. QED
      BY <1>2, <3>1 DEF Dropped
  <2>3. QED
    BY <2>1, <2>2
<1>3. QED
  BY <1>1, <1>2 DEF Dropped
-----------------------------------------------------------------------------
(* The store.                                                                 *)

\* A submission puts the new job behind all others and evicts the first at most.
LEMMA SubmitStore == ASSUME JobsInv, NEW j \in Jobs, Submit(j) PROVE StoreOK'
<1> DEFINE longer == Append(order, j)
<1> USE LimitAssumption
<1>1. /\ order \in Seq(Jobs) /\ made \in Seq(Jobs) /\ Kept \subseteq Elements(made)
      /\ Len(order) <= MaxJobs /\ Distinct(order)
      /\ Len(order) \in Nat /\ Len(made) \in Nat /\ MaxJobs \in Nat \ {0}
  BY DEF JobsInv, StoreOK
<1>2. j \notin Elements(made) /\ j \notin Elements(order)
  BY <1>1 DEF JobsInv, StoreOK, Elements, Submit, Kept
<1>3. /\ longer \in Seq(Jobs) /\ Len(longer) = Len(order) + 1 /\ longer[Len(order) + 1] = j
      /\ \A k \in 1..Len(order) : longer[k] = order[k]
      /\ Elements(longer) = Elements(order) \cup {j} /\ Distinct(longer)
  BY <1>1, <1>2, AppendFacts
<1>4. /\ made' = Append(made, j) /\ made' \in Seq(Jobs) /\ Len(made') = Len(made) + 1
      /\ made'[Len(made) + 1] = j /\ \A i \in 1..Len(made) : made'[i] = made[i]
      /\ Elements(made') = Elements(made) \cup {j}
  BY <1>1, AppendFacts DEF Submit
<1>5. status' \in [Jobs -> Statuses] /\ \A i \in 1..Len(made') : status'[made'[i]] # "none"
  BY <1>1, <1>4 DEF JobsInv, StoreOK, Submit, Statuses
<1> HIDE DEF longer
<1>6. \A k \in 1..Len(longer), i \in 1..Len(made') :
        made'[i] = longer[k] => Len(made') - i >= Len(longer) - k
  <2> SUFFICES ASSUME NEW k \in 1..Len(longer), NEW i \in 1..Len(made'), made'[i] = longer[k]
               PROVE  Len(made') - i >= Len(longer) - k
    OBVIOUS
  <2>1. CASE k = Len(order) + 1
    BY <1>1, <1>3, <1>4, <2>1
  <2>2. CASE k # Len(order) + 1 /\ i = Len(made) + 1
    <3>1. longer[k] \in Elements(order)
      BY <1>1, <1>3, <2>2 DEF Elements
    <3>2. QED
      BY <1>2, <1>4, <2>2, <3>1
  <2>3. CASE k # Len(order) + 1 /\ i # Len(made) + 1
    <3>1. k \in 1..Len(order) /\ i \in 1..Len(made) /\ made[i] = order[k]
      BY <1>1, <1>3, <1>4, <2>3
    <3>2. Len(made) - i >= Len(order) - k
      BY <3>1 DEF JobsInv, StoreOK, Rank
    <3>3. QED
      BY <1>1, <1>3, <1>4, <3>1, <3>2
  <2>4. QED
    BY <2>1, <2>2, <2>3
<1>7. \A i \in 1..Len(made') :
        made'[i] \in Elements(longer) \cup Dropped' \/ Len(made') - i >= MaxJobs
  <2> SUFFICES ASSUME NEW i \in 1..Len(made')
               PROVE made'[i] \in Elements(longer) \cup Dropped' \/ Len(made') - i >= MaxJobs
    OBVIOUS
  <2>1. CASE i = Len(made) + 1
    BY <1>3, <1>4, <2>1
  <2>2. CASE i # Len(made) + 1
    <3>1. i \in 1..Len(made) /\ made'[i] = made[i]
      BY <1>1, <1>4, <2>2
    <3>2. made[i] \in Elements(order) \cup Dropped \/ Len(made) - i >= MaxJobs
      BY <3>1 DEF JobsInv, StoreOK, OnlyOldestGoes, Kept
    <3>3. Dropped' = Dropped
      BY DEF Dropped, Submit, delVars
    <3>4. QED
      BY <1>1, <1>3, <1>4, <3>1, <3>2, <3>3
  <2>3. QED
    BY <2>1, <2>2
<1>8. CASE Len(longer) <= MaxJobs
  <2>1. order' = longer
    BY <1>1, <1>3, <1>8 DEF Submit, Newest, longer
  <2>2. QED
    BY <1>1, <1>3, <1>4, <1>5, <1>6, <1>7, <1>8, <2>1 DEF StoreOK, Rank, OnlyOldestGoes, Kept
<1>9. CASE Len(longer) > MaxJobs
  <2>1. order' = Tail(longer) /\ longer # <<>>
    BY <1>1, <1>3, <1>9 DEF Submit, Newest, longer
  <2>2. /\ order' \in Seq(Jobs) /\ Len(order') = Len(longer) - 1 /\ Distinct(order')
        /\ \A k \in 1..Len(order') : order'[k] = longer[k + 1]
        /\ Elements(longer) = Elements(order') \cup {longer[1]}
    BY <1>1, <1>3, <2>1, TailFacts
  <2>3. \A k \in 1..Len(order'), i \in 1..Len(made') :
          made'[i] = order'[k] => Len(made') - i >= Len(order') - k
    <3> SUFFICES ASSUME NEW k \in 1..Len(order'), NEW i \in 1..Len(made'), made'[i] = order'[k]
                 PROVE  Len(made') - i >= Len(order') - k
      OBVIOUS
    <3>1. k + 1 \in 1..Len(longer) /\ made'[i] = longer[k + 1]
      BY <1>1, <1>3, <2>2
    <3>2. Len(made') - i >= Len(longer) - (k + 1)
      BY <1>6, <3>1
    <3>3. QED
      BY <1>1, <1>3, <1>4, <2>2, <3>2
  <2>4. \A i \in 1..Len(made') :
          made'[i] \in Elements(order') \cup Dropped' \/ Len(made') - i >= MaxJobs
    <3> SUFFICES ASSUME NEW i \in 1..Len(made')
                 PROVE made'[i] \in Elements(order') \cup Dropped' \/ Len(made') - i >= MaxJobs
      OBVIOUS
    <3>1. CASE made'[i] = longer[1]
      <4>1. 1 \in 1..Len(longer)
        BY <1>1, <1>3
      <4>2. Len(made') - i >= Len(longer) - 1
        BY <1>6, <3>1, <4>1
      <4>3. QED
        BY <1>1, <1>3, <1>4, <1>9, <4>2
    <3>2. CASE made'[i] # longer[1]
      BY <1>7, <2>2, <3>2
    <3>3. QED
      BY <3>1, <3>2
  <2>5. Len(order') <= MaxJobs /\ Elements(order') \subseteq Elements(made')
    BY <1>1, <1>3, <1>4, <2>2 DEF Kept
  <2>6. QED
    BY <1>4, <1>5, <2>2, <2>3, <2>4, <2>5 DEF StoreOK, Rank, OnlyOldestGoes, Kept
<1>10. QED
  BY <1>1, <1>3, <1>8, <1>9

\* A delete takes one job out of the store, and says so.
LEMMA DropStore == ASSUME JobsInv, NEW d \in Deletes, Drop(d) PROVE StoreOK'
<1> DEFINE h == Head(todo[d])
<1>1. /\ order \in Seq(Jobs) /\ made \in Seq(Jobs) /\ Distinct(order) /\ Len(order) <= MaxJobs
      /\ Kept \subseteq Elements(made) /\ MaxJobs \in Nat
      /\ order' = Without(order, h) /\ made' = made /\ status' = status
  BY LimitAssumption DEF JobsInv, StoreOK, Drop, OffDelete
<1>2. h \in Dropped'
  BY DEF Drop, Dropped, JobsInv, DeletesOK
<1> HIDE DEF h
<1>3. /\ order' \in Seq(Jobs) /\ Len(order') <= Len(order)
      /\ Elements(order') = Elements(order) \ {h} /\ Distinct(order')
      /\ \A k \in 1..Len(order') : \E m \in 1..Len(order) :
           order'[k] = order[m] /\ Len(order') - k <= Len(order) - m
  BY <1>1, WithoutFacts
<1>4. Len(order) \in Nat /\ Len(order') \in Nat /\ Len(made) \in Nat
  BY <1>1, <1>3
<1>5. Rank'
  <2> SUFFICES ASSUME NEW k \in 1..Len(order'), NEW i \in 1..Len(made), made[i] = order'[k]
               PROVE  Len(made) - i >= Len(order') - k
    BY <1>1 DEF Rank
  <2>1. PICK m \in 1..Len(order) : order'[k] = order[m] /\ Len(order') - k <= Len(order) - m
    BY <1>3
  <2>2. Len(made) - i >= Len(order) - m
    BY <2>1 DEF JobsInv, StoreOK, Rank
  <2>3. QED
    BY <1>4, <2>1, <2>2
<1>6. OnlyOldestGoes'
  <2> SUFFICES ASSUME NEW i \in 1..Len(made)
               PROVE  made[i] \in Elements(order') \cup Dropped' \/ Len(made) - i >= MaxJobs
    BY <1>1 DEF OnlyOldestGoes, Kept
  <2>1. made[i] \in Elements(order) \cup Dropped \/ Len(made) - i >= MaxJobs
    BY DEF JobsInv, StoreOK, OnlyOldestGoes, Kept
  <2>3. Dropped \subseteq Dropped'
    BY DroppedStays
  <2>4. CASE made[i] = h
    BY <1>2, <2>4
  <2>5. CASE made[i] # h
    BY <1>3, <2>1, <2>3, <2>5
  <2>6. QED
    BY <2>4, <2>5
<1>7. QED
  BY <1>1, <1>3, <1>4, <1>5, <1>6 DEF StoreOK, Kept, JobsInv

\* No other step touches the store's order.
LEMMA StoreStep == ASSUME JobsInv, [Next]_vars PROVE StoreOK'
<1>1. ASSUME UNCHANGED <<order, status, made>>, Dropped \subseteq Dropped' PROVE StoreOK'
  BY <1>1 DEF JobsInv, StoreOK, Rank, OnlyOldestGoes, Kept
<1>2. ASSUME UNCHANGED delVars PROVE Dropped' = Dropped
  BY <1>2 DEF delVars, Dropped
<1>3. ASSUME NEW j \in Jobs, RunJob(j) PROVE StoreOK'
  <2>1. UNCHANGED <<order, made, delVars>>
    BY <1>3, RunJobEffect
  <2>2. status' \in [Jobs -> Statuses] /\ \A k \in Jobs : status[k] # "none" => status'[k] # "none"
    BY <1>3, RunJobEffect DEF JobsInv, StoreOK, Statuses
  <2>3. \A i \in 1..Len(made) : made[i] \in Jobs
    BY DEF JobsInv, StoreOK
  <2>4. QED
    BY <1>2, <2>1, <2>2, <2>3 DEF JobsInv, StoreOK, Rank, OnlyOldestGoes, Kept
<1>4. CASE Enqueue \/ Start
  BY <1>1, <1>2, <1>4 DEF Enqueue, Start, store
<1>5. ASSUME NEW x \in Downloads, Download(x) PROVE StoreOK'
  BY <1>1, <1>2, <1>5, DownloadEffect DEF store
<1>6. ASSUME NEW d \in Deletes, DeleteJob(d) \/ CleanJobs(d) \/ Remove(d) PROVE StoreOK'
  BY <1>1, <1>6, DeleteEffect, DroppedStays DEF store
<1>7. ASSUME NEW j \in Jobs, CleanOutput(j) PROVE StoreOK'
  BY <1>1, <1>2, <1>7 DEF CleanOutput, OffDelete
<1>8. CASE Lifespan
  BY <1>1, <1>2, <1>8, LifespanEffect DEF store
<1>9. CASE Restart
  <2>1. order' = <<>> /\ made' = <<>> /\ status' \in [Jobs -> Statuses]
    BY <1>9 DEF Restart, Statuses
  <2>2. QED
    BY <2>1, LimitAssumption DEF StoreOK, Rank, OnlyOldestGoes, Kept, Elements, Distinct
<1>10. CASE UNCHANGED vars
  BY <1>1, <1>2, <1>10 DEF vars, store
<1>11. QED
  BY <1>3, <1>4, <1>5, <1>6, <1>7, <1>8, <1>9, <1>10, SubmitStore, DropStore DEF Next
-----------------------------------------------------------------------------
(* The pool.                                                                  *)

\* Fewer jobs run than before.
LEMMA FewerRunning ==
  ASSUME PoolOK, Running' \subseteq Running
  PROVE  IsFiniteSet(Running') /\ Cardinality(Running') <= Workers
<1>1. IsFiniteSet(Running') /\ Cardinality(Running') <= Cardinality(Running)
  BY FS_Subset DEF PoolOK
<1>2. Cardinality(Running) \in Nat /\ Cardinality(Running') \in Nat
  BY <1>1, FS_CardinalityType DEF PoolOK
<1>3. QED
  BY <1>1, <1>2, LimitAssumption DEF PoolOK

\* The pool is given a job once.
LEMMA EnqueuePool == ASSUME JobsInv, Enqueue PROVE PoolOK'
<1>1. /\ queue \in Seq(Jobs) /\ half \in Jobs /\ fut[half] = "none" /\ Distinct(queue)
      /\ fut \in [Jobs -> Futures] /\ Elements(queue) = {j \in Jobs : fut[j] = "pending"}
  BY DEF JobsInv, PoolOK, Enqueue
<1>2. fut' = [fut EXCEPT ![half] = "pending"] /\ queue' = Append(queue, half) /\ half' = NoJob
  BY DEF Enqueue
<1>3. half \notin Elements(queue)
  BY <1>1
<1>4. /\ queue' \in Seq(Jobs) /\ Distinct(queue') /\ Elements(queue') = Elements(queue) \cup {half}
  BY <1>1, <1>2, <1>3, AppendFacts
<1>5. fut' \in [Jobs -> Futures] /\ Elements(queue') = {j \in Jobs : fut'[j] = "pending"}
  BY <1>1, <1>2, <1>4 DEF Futures
<1>6. Running' \subseteq Running
  BY <1>1, <1>2 DEF Running
<1>7. /\ \A j \in Jobs : status'[j] = "none" => fut'[j] = "none"
      /\ half' # NoJob => fut'[half'] = "none" /\ status'[half'] # "none"
  BY <1>1, <1>2 DEF Enqueue, store, JobsInv, PoolOK
<1>8. QED
  BY <1>1, <1>2, <1>4, <1>5, <1>6, <1>7, FewerRunning DEF JobsInv, PoolOK

\* A worker is free when it takes a job.
LEMMA StartPool == ASSUME JobsInv, Start PROVE PoolOK'
<1> DEFINE j == Head(queue)
<1>1. /\ queue \in Seq(Jobs) /\ queue # <<>> /\ Distinct(queue)
      /\ fut \in [Jobs -> Futures] /\ Elements(queue) = {k \in Jobs : fut[k] = "pending"}
      /\ IsFiniteSet(Running) /\ Cardinality(Running) < Workers
  BY DEF JobsInv, PoolOK, Start
<1>2. fut' = [fut EXCEPT ![j] = "running"] /\ queue' = Tail(queue) /\ half' = half /\ status' = status
  BY DEF Start, store
<1>3. /\ j \in Jobs /\ j \in Elements(queue) /\ queue' \in Seq(Jobs) /\ Distinct(queue')
      /\ Elements(queue) = Elements(queue') \cup {j} /\ j \notin Elements(queue')
  BY <1>1, <1>2, TailFacts
<1>4. fut[j] = "pending"
  BY <1>1, <1>3
<1> HIDE DEF j
<1>5. fut' \in [Jobs -> Futures] /\ Elements(queue') = {k \in Jobs : fut'[k] = "pending"}
  BY <1>1, <1>2, <1>3 DEF Futures
<1>6. Running' = Running \cup {j} /\ j \notin Running
  BY <1>1, <1>2, <1>3, <1>4 DEF Running
<1>7. IsFiniteSet(Running') /\ Cardinality(Running') = Cardinality(Running) + 1
  BY <1>1, <1>6, FS_AddElement
<1>8. Cardinality(Running') <= Workers
  BY <1>1, <1>7, FS_CardinalityType, LimitAssumption
<1>9. /\ \A k \in Jobs : status'[k] = "none" => fut'[k] = "none"
      /\ half' # NoJob => fut'[half'] = "none" /\ status'[half'] # "none"
  BY <1>1, <1>2, <1>3, <1>4 DEF JobsInv, PoolOK
<1>10. QED
  BY <1>2, <1>3, <1>5, <1>7, <1>8, <1>9 DEF JobsInv, PoolOK

\* The steps that end a future, running or pending, and those that leave the
\* futures alone.
LEMMA PoolStep == ASSUME JobsInv, [Next]_vars PROVE PoolOK'
<1>0. /\ fut \in [Jobs -> Futures] /\ status \in [Jobs -> Statuses]
      /\ queue \in Seq(Jobs) /\ Distinct(queue)
      /\ Elements(queue) = {j \in Jobs : fut[j] = "pending"}
      /\ \A j \in Jobs : status[j] = "none" => fut[j] = "none"
      /\ half \in Jobs \cup {NoJob} /\ (half # NoJob => fut[half] = "none" /\ status[half] # "none")
  BY DEF JobsInv, StoreOK, PoolOK
<1>1. ASSUME UNCHANGED <<half, queue, fut>>, \A j \in Jobs : status'[j] = "none" => status[j] = "none"
      PROVE  PoolOK'
  BY <1>1 DEF JobsInv, PoolOK, Running
<1>2. ASSUME NEW j \in Jobs, Submit(j) PROVE PoolOK'
  <2>1. /\ half' = j /\ UNCHANGED <<queue, fut>> /\ fut[j] = "none"
        /\ \A k \in Jobs : status'[k] = "none" => status[k] = "none"
        /\ status'[j] # "none"
    BY <1>0, <1>2 DEF Submit, pool
  <2>2. QED
    BY <2>1 DEF JobsInv, PoolOK, Running
<1>3. ASSUME NEW j \in Jobs, RunJob(j) PROVE PoolOK'
  <2>1. UNCHANGED <<half, queue>> /\ \A k \in Jobs : status'[k] = "none" => status[k] = "none"
    BY <1>0, <1>3, RunJobEffect
  <2>2. CASE fut' = fut
    BY <1>1, <2>1, <2>2
  <2>3. CASE fut[j] = "running" /\ fut' = [fut EXCEPT ![j] = "done"]
    <3>1. /\ fut' \in [Jobs -> Futures] /\ Running' \subseteq Running
          /\ {k \in Jobs : fut'[k] = "pending"} = {k \in Jobs : fut[k] = "pending"}
          /\ \A k \in Jobs : fut[k] = "none" => fut'[k] = "none"
      BY <1>0, <2>3 DEF Running, Futures
    <3>2. QED
      BY <1>0, <2>1, <3>1, FewerRunning DEF JobsInv, PoolOK
  <2>4. QED
    BY <1>3, <2>2, <2>3, RunJobEffect
<1>4. ASSUME NEW x \in Downloads, Download(x) PROVE PoolOK'
  BY <1>1, <1>4, DownloadEffect DEF pool, store
<1>5. ASSUME NEW d \in Deletes, DeleteJob(d) \/ CleanJobs(d) \/ Remove(d) \/ Drop(d) PROVE PoolOK'
  BY <1>1, <1>5, DeleteEffect DEF pool, store, Drop, OffDelete
<1>6. ASSUME NEW j \in Jobs, CleanOutput(j) PROVE PoolOK'
  BY <1>1, <1>6 DEF CleanOutput, OffDelete, pool
<1>7. CASE Drain \/ Cut
  BY <1>1, <1>7 DEF Drain, Cut, OffLifespan, store
<1>8. ASSUME NEW j \in Jobs, Cancel(j) PROVE PoolOK'
  <2>1. /\ fut[j] = "pending" /\ fut' = [fut EXCEPT ![j] = "cancelled"]
        /\ queue' = Without(queue, j) /\ half' = half /\ status' = status
    BY <1>8 DEF Cancel, OffLifespan, store
  <2>2. queue' \in Seq(Jobs) /\ Distinct(queue') /\ Elements(queue') = Elements(queue) \ {j}
    BY <1>0, <2>1, WithoutFacts
  <2>3. /\ fut' \in [Jobs -> Futures] /\ Running' \subseteq Running
        /\ {k \in Jobs : fut'[k] = "pending"} = {k \in Jobs : fut[k] = "pending"} \ {j}
        /\ \A k \in Jobs : fut[k] = "none" => fut'[k] = "none"
    BY <1>0, <2>1 DEF Running, Futures
  <2>4. QED
    BY <1>0, <2>1, <2>2, <2>3, FewerRunning DEF JobsInv, PoolOK
<1>9. CASE Shutdown
  <2>1. /\ fut' = [j \in Jobs |-> IF fut[j] = "pending" THEN "cancelled" ELSE fut[j]]
        /\ queue' = <<>> /\ half' = half /\ status' = status
    BY <1>9 DEF Shutdown, OffLifespan, store
  <2>2. /\ fut' \in [Jobs -> Futures] /\ Running' \subseteq Running
        /\ {k \in Jobs : fut'[k] = "pending"} = {}
        /\ \A k \in Jobs : fut[k] = "none" => fut'[k] = "none"
    BY <1>0, <2>1 DEF Running, Futures
  <2>3. queue' \in Seq(Jobs) /\ Distinct(queue') /\ Elements(queue') = {}
    BY <2>1 DEF Distinct, Elements
  <2>4. QED
    BY <1>0, <2>1, <2>2, <2>3, FewerRunning DEF JobsInv, PoolOK
<1>10. CASE Restart
  <2>1. /\ fut' = [j \in Jobs |-> "none"] /\ queue' = <<>> /\ half' = NoJob
    BY <1>10 DEF Restart
  <2>2. fut' \in [Jobs -> Futures] /\ Running' \subseteq Running /\ {k \in Jobs : fut'[k] = "pending"} = {}
    BY <1>0, <2>1 DEF Running, Futures
  <2>3. queue' \in Seq(Jobs) /\ Distinct(queue') /\ Elements(queue') = {}
    BY <2>1 DEF Distinct, Elements
  <2>4. QED
    BY <1>0, <2>1, <2>2, <2>3, FewerRunning DEF JobsInv, PoolOK
<1>11. CASE UNCHANGED vars
  BY <1>1, <1>11 DEF vars, store, pool
<1>12. QED
  BY <1>2, <1>3, <1>4, <1>5, <1>6, <1>7, <1>8, <1>9, <1>10, <1>11, EnqueuePool, StartPool
     DEF Next, Lifespan
-----------------------------------------------------------------------------
(* The requests, the fields and the files.                                    *)

\* A delete or cleanup has jobs to remove as long as it is under way.
LEMMA DeletesStep == ASSUME JobsInv, [Next]_vars PROVE DeletesOK'
<1>0. /\ todo \in [Deletes -> Seq(Jobs)] /\ stage \in [Deletes -> {"idle", "drop", "unlink"}]
      /\ \A d \in Deletes : stage[d] # "idle" => todo[d] # <<>>
      /\ deleted \subseteq Jobs /\ order \in Seq(Jobs)
  BY DEF JobsInv, DeletesOK, StoreOK
<1>1. ASSUME UNCHANGED delVars PROVE DeletesOK'
  BY <1>0, <1>1 DEF DeletesOK, delVars
<1>2. ASSUME NEW d \in Deletes, NEW jobs \in Seq(Jobs), Begin(d, jobs) PROVE DeletesOK'
  BY <1>0, <1>2 DEF Begin, DeletesOK
<1>3. ASSUME NEW d \in Deletes, DeleteJob(d) \/ CleanJobs(d) PROVE DeletesOK'
  <2>1. ASSUME NEW j \in Kept PROVE <<j>> \in Seq(Jobs)
    BY <1>0 DEF Kept, Elements
  <2>2. [i \in 1..Len(order) |-> order[Len(order) + 1 - i]] \in Seq(Jobs)
    <3>1. \A i \in 1..Len(order) : order[Len(order) + 1 - i] \in Jobs
      BY <1>0
    <3>2. QED
      BY <1>0, <3>1, IsASeq
  <2>3. QED
    BY <1>2, <1>3, <2>1, <2>2 DEF DeleteJob, CleanJobs
<1>4. ASSUME NEW d \in Deletes, Drop(d) PROVE DeletesOK'
  BY <1>0, <1>4 DEF Drop, DeletesOK
<1>5. ASSUME NEW d \in Deletes, Remove(d) PROVE DeletesOK'
  <2>1. /\ stage[d] = "unlink" /\ todo' = [todo EXCEPT ![d] = Tail(todo[d])]
        /\ deleted' = deleted \cup {Head(todo[d])}
        /\ stage' = [stage EXCEPT ![d] = IF Len(todo[d]) > 1 THEN "drop" ELSE "idle"]
    BY <1>5 DEF Remove
  <2>2. todo[d] \in Seq(Jobs) /\ todo[d] # <<>>
    BY <1>0, <2>1
  <2>3. Head(todo[d]) \in Jobs /\ Tail(todo[d]) \in Seq(Jobs) /\ Len(Tail(todo[d])) = Len(todo[d]) - 1
    BY <2>2, TailFacts
  <2>4. Len(todo[d]) > 1 => Tail(todo[d]) # <<>>
    <3>1. Len(todo[d]) \in Nat
      BY <2>2, LenProperties
    <3>2. \A n \in Nat : n > 1 => n - 1 # 0
      OBVIOUS
    <3>3. Len(todo[d]) > 1 => Len(Tail(todo[d])) # 0
      BY <2>3, <3>1, <3>2, Zenon
    <3>4. QED
      BY <3>3
  <2>5. QED
    BY <1>0, <2>1, <2>3, <2>4 DEF DeletesOK
<1>6. ASSUME NEW j \in Jobs, Submit(j) \/ RunJob(j) \/ CleanOutput(j) PROVE DeletesOK'
  BY <1>1, <1>6, RunJobEffect DEF Submit, CleanOutput
<1>7. ASSUME NEW x \in Downloads, Download(x) PROVE DeletesOK'
  BY <1>1, <1>7, DownloadEffect
<1>8. CASE Enqueue \/ Start
  BY <1>1, <1>8 DEF Enqueue, Start
<1>9. CASE Lifespan
  BY <1>1, <1>9, LifespanEffect
<1>10. CASE Restart
  BY <1>0, <1>10 DEF Restart, DeletesOK
<1>11. CASE UNCHANGED vars
  BY <1>1, <1>11 DEF vars
<1>12. QED
  BY <1>3, <1>4, <1>5, <1>6, <1>7, <1>8, <1>9, <1>10, <1>11 DEF Next

\* A download has a job as long as it is under way.
LEMMA DownloadsStep == ASSUME JobsInv, [Next]_vars PROVE DownloadsOK'
<1>0. DownloadsOK /\ file \in [Jobs -> {"none", "partial", "whole"}] /\ Kept \subseteq Jobs
  BY DEF JobsInv, FieldsOK, StoreOK, Kept, Elements
<1>1. ASSUME UNCHANGED downVars PROVE DownloadsOK'
  BY <1>0, <1>1 DEF DownloadsOK, downVars
<1>2. ASSUME NEW x \in Downloads, Download(x) PROVE DownloadsOK'
  <2> USE <1>0 DEF DownloadsOK
  <2>1. ASSUME NEW j \in Jobs, Ask(x, j) PROVE DownloadsOK'
    BY <2>1 DEF Ask, Moves
  <2>2. CASE NotReady(x)
    BY <2>2 DEF NotReady, Answers
  <2>3. CASE LookAtFile(x)
    BY <2>3 DEF LookAtFile, Moves
  <2>4. CASE BackfillOpens(x) \/ BackfillCloses(x)
    BY <2>4 DEF BackfillOpens, BackfillCloses, Moves
  <2>5. CASE Send(x)
    <3>1. file[asked[x]] \in {"none", "partial", "whole"}
      BY <2>5 DEF Send
    <3>2. QED
      BY <2>5, <3>1 DEF Send, Answers
  <2>6. QED
    BY <1>2, <2>1, <2>2, <2>3, <2>4, <2>5 DEF Download
<1>3. ASSUME NEW j \in Jobs, Submit(j) \/ RunJob(j) \/ CleanOutput(j) PROVE DownloadsOK'
  BY <1>1, <1>3, RunJobEffect DEF Submit, CleanOutput, OffDelete
<1>4. CASE Enqueue \/ Start
  BY <1>1, <1>4 DEF Enqueue, Start
<1>5. ASSUME NEW d \in Deletes, DeleteJob(d) \/ CleanJobs(d) \/ Remove(d) \/ Drop(d) PROVE DownloadsOK'
  BY <1>1, <1>5, DeleteEffect DEF Drop, OffDelete
<1>6. CASE Lifespan
  BY <1>1, <1>6, LifespanEffect
<1>7. CASE Restart
  BY <1>0, <1>7 DEF Restart, DownloadsOK
<1>8. CASE UNCHANGED vars
  BY <1>1, <1>8 DEF vars
<1>9. QED
  BY <1>2, <1>3, <1>4, <1>5, <1>6, <1>7, <1>8 DEF Next

\* The fields of jobs and files have their types.
LEMMA FieldsStep == ASSUME JobsInv, [Next]_vars PROVE FieldsOK'
<1>0. /\ FieldsOK /\ MaxRestarts \in Nat
      /\ \A x \in Downloads : down[x] # "idle" => asked[x] \in Jobs
      /\ \A d \in Deletes : stage[d] # "idle" => Head(todo[d]) \in Jobs
  BY LimitAssumption, TailFacts DEF JobsInv, DownloadsOK, DeletesOK
<1>1. ASSUME UNCHANGED <<result, lock, worker, file, writers, phase, restarts>> PROVE FieldsOK'
  BY <1>0, <1>1 DEF FieldsOK
<1>2. ASSUME NEW j \in Jobs, NEW who \in Jobs \cup Downloads,
             OpenFile(j, who) \/ CloseFile(j, who) \/ Unlink(j)
      PROVE  /\ file' \in [Jobs -> {"none", "partial", "whole"}]
             /\ writers' \in [Jobs -> SUBSET (Jobs \cup Downloads)]
  BY <1>0, <1>2 DEF FieldsOK, OpenFile, CloseFile, Unlink
<1>3. ASSUME NEW j \in Jobs, RunJob(j) PROVE FieldsOK'
  <2> USE <1>0 DEF FieldsOK, OffWorker, At, store, files, process
  <2>1. CASE MarkRunning(j) \/ MarkFailed(j) \/ Returns(j) \/ Raises(j) \/ End(j)
    BY <2>1 DEF MarkRunning, MarkFailed, Returns, Raises, End
  <2>2. CASE SetDone(j) \/ SetResult(j)
    BY <2>2 DEF SetDone, SetResult
  <2>3. CASE WriteOpens(j) \/ WriteCloses(j)
    BY <1>2, <2>3 DEF WriteOpens, WriteCloses
  <2>4. CASE WriteFails(j)
    BY <2>4 DEF WriteFails
  <2>5. QED
    BY <1>3, <2>1, <2>2, <2>3, <2>4 DEF RunJob
<1>4. ASSUME NEW x \in Downloads, Download(x) PROVE FieldsOK'
  <2>1. CASE BackfillOpens(x) \/ BackfillCloses(x)
    <3>1. asked[x] \in Jobs /\ (OpenFile(asked[x], x) \/ CloseFile(asked[x], x))
      BY <1>0, <2>1 DEF BackfillOpens, BackfillCloses, Moves
    <3>2. QED
      BY <1>0, <1>2, <1>4, <3>1, DownloadEffect DEF FieldsOK, store, pool, process
  <2>2. CASE NotReady(x) \/ LookAtFile(x) \/ Send(x) \/ \E j \in Jobs : Ask(x, j)
    BY <1>1, <1>4, <2>2, DownloadEffect DEF NotReady, LookAtFile, Send, Ask, store, pool, process, files
  <2>3. QED
    BY <1>4, <2>1, <2>2 DEF Download
<1>5. ASSUME NEW d \in Deletes, Remove(d) PROVE FieldsOK'
  <2>1. Head(todo[d]) \in Jobs /\ Unlink(Head(todo[d]))
    BY <1>0, <1>5 DEF Remove
  <2>2. QED
    BY <1>0, <1>2, <1>5, <2>1, DeleteEffect DEF FieldsOK, store, pool, process
<1>6. ASSUME NEW d \in Deletes, DeleteJob(d) \/ CleanJobs(d) \/ Drop(d) PROVE FieldsOK'
  BY <1>1, <1>6 DEF DeleteJob, CleanJobs, Begin, Drop, OffDelete, pool, process, files
<1>7. ASSUME NEW j \in Jobs, CleanOutput(j) PROVE FieldsOK'
  BY <1>0, <1>2, <1>7 DEF CleanOutput, OffDelete, FieldsOK, pool, process
<1>8. ASSUME NEW j \in Jobs, Submit(j) PROVE FieldsOK'
  BY <1>1, <1>8 DEF Submit, files, process
<1>9. CASE Enqueue
  BY <1>1, <1>9 DEF Enqueue, store, files, process
<1>10. CASE Start
  <2>1. Head(queue) \in Jobs
    BY <1>10, TailFacts DEF Start, JobsInv, PoolOK
  <2>2. QED
    BY <1>0, <1>10, <2>1 DEF Start, At, FieldsOK, store, files, process
<1>11. CASE Lifespan
  <2>1. phase' \in {"up", "draining", "cutting", "closed"}
    BY <1>0, <1>11 DEF Lifespan, Drain, Cut, Cancel, Shutdown, FieldsOK
  <2>2. QED
    BY <1>0, <1>11, <2>1, LifespanEffect DEF FieldsOK, store, files
<1>12. CASE Restart
  BY <1>0, <1>12 DEF Restart, FieldsOK
<1>13. CASE UNCHANGED vars
  BY <1>1, <1>13 DEF vars, store, pool, files, process
<1>14. QED
  BY <1>3, <1>4, <1>5, <1>6, <1>7, <1>8, <1>9, <1>10, <1>11, <1>12, <1>13 DEF Next
-----------------------------------------------------------------------------
\* The inductive invariant holds in every behaviour.
LEMMA JobsInvHolds == Safety => []JobsInv
<1>1. Init => JobsInv
  <2> SUFFICES ASSUME Init PROVE JobsInv
    OBVIOUS
  <2> USE LimitAssumption DEF Init
  <2>1. StoreOK
    BY DEF StoreOK, Rank, OnlyOldestGoes, Kept, Elements, Distinct, Statuses
  <2>2. PoolOK
    <3>1. Running = {}
      BY DEF Running
    <3>2. IsFiniteSet(Running) /\ Cardinality(Running) = 0
      BY <3>1, FS_EmptySet
    <3>3. QED
      BY <3>2 DEF PoolOK, Elements, Distinct, Futures
  <2>3. DeletesOK /\ DownloadsOK
    BY DEF DeletesOK, DownloadsOK
  <2>4. FieldsOK
    BY DEF FieldsOK
  <2>5. QED
    BY <2>1, <2>2, <2>3, <2>4 DEF JobsInv
<1>2. JobsInv /\ [Next]_vars => JobsInv'
  BY StoreStep, PoolStep, DeletesStep, DownloadsStep, FieldsStep DEF JobsInv
<1>3. QED
  BY <1>1, <1>2, PTL DEF Safety

\* The store forgets a job only on request or when as many younger ones were
\* submitted as it holds, for every size of the store and any requests: the
\* run's EvictsOldest, with the type invariant.
THEOREM OldestIsEvicted == Safety => []EvictsOldest
<1>1. JobsInv => EvictsOldest
  <2> SUFFICES ASSUME JobsInv PROVE EvictsOldest
    OBVIOUS
  <2>1. TypeOK
    BY DEF JobsInv, StoreOK, PoolOK, DeletesOK, DownloadsOK, FieldsOK, Distinct,
           Statuses, Futures, TypeOK
  <2>2. QED
    BY <2>1 DEF JobsInv, StoreOK, OnlyOldestGoes, EvictsOldest
<1>2. QED
  BY <1>1, JobsInvHolds, PTL
-----------------------------------------------------------------------------
(* Deleted jobs, and the end of the lifespan.                                 *)

Known == {j \in Jobs : status[j] # "none"}

\* What requests drop was submitted, and is not in the store afterwards.
DroppedInv ==
  /\ \A d \in Deletes : Elements(todo[d]) \subseteq Known
  /\ deleted \subseteq Known
  /\ Dropped \cap Kept = {}

\* A worker inside _run_job has the future "running"; once no requests are
\* taken no job is half given to the pool, and a closed pool has no queue.
EndInv ==
  /\ \A j \in Jobs : worker[j] \notin {"none", "end"} => fut[j] = "running"
  /\ phase # "up" => half = NoJob
  /\ phase = "closed" => queue = <<>>

\* What was dropped was known.
LEMMA DroppedType == ASSUME JobsInv, DroppedInv PROVE Dropped \subseteq Known
<1>1. ASSUME NEW d \in Deletes, stage[d] = "unlink" PROVE Head(todo[d]) \in Known
  BY <1>1, TailFacts DEF JobsInv, DeletesOK, DroppedInv
<1>2. QED
  BY <1>1 DEF DroppedInv, Dropped

\* A job submitted once is never new again.
LEMMA KnownGrows == ASSUME JobsInv, [Next]_vars PROVE Known \subseteq Known'
<1>0. status \in [Jobs -> Statuses]
  BY DEF JobsInv, StoreOK
<1>1. ASSUME status' = status PROVE Known \subseteq Known'
  BY <1>1 DEF Known
<1>2. ASSUME NEW j \in Jobs, Submit(j) \/ RunJob(j) PROVE Known \subseteq Known'
  BY <1>0, <1>2, RunJobEffect DEF Known, Submit
<1>3. ASSUME NEW j \in Jobs, CleanOutput(j) PROVE Known \subseteq Known'
  BY <1>1, <1>3 DEF CleanOutput, OffDelete
<1>4. CASE Enqueue \/ Start
  BY <1>1, <1>4 DEF Enqueue, Start, store
<1>5. ASSUME NEW x \in Downloads, Download(x) PROVE Known \subseteq Known'
  BY <1>1, <1>5, DownloadEffect DEF store
<1>6. ASSUME NEW d \in Deletes, DeleteJob(d) \/ CleanJobs(d) \/ Drop(d) \/ Remove(d)
      PROVE  Known \subseteq Known'
  BY <1>1, <1>6, DeleteEffect DEF Drop, OffDelete, store
<1>7. CASE Lifespan
  BY <1>1, <1>7, LifespanEffect DEF store
<1>8. CASE Restart
  BY <1>8 DEF Restart, Known
<1>9. CASE UNCHANGED vars
  BY <1>1, <1>9 DEF vars, store
<1>10. QED
  BY <1>2, <1>3, <1>4, <1>5, <1>6, <1>7, <1>8, <1>9 DEF Next

\* Nothing dropped comes back.
LEMMA DroppedStep == ASSUME JobsInv, DroppedInv, [Next]_vars PROVE DroppedInv'
<1>0. /\ Kept \subseteq Known /\ Known \subseteq Known' /\ Dropped \subseteq Known
      /\ order \in Seq(Jobs) /\ Distinct(order)
  <2>1. Elements(made) \subseteq Known
    BY DEF JobsInv, StoreOK, Elements, Known
  <2>2. QED
    BY <2>1, KnownGrows, DroppedType DEF JobsInv, StoreOK
<1>1. ASSUME UNCHANGED delVars, Kept' \cap Known \subseteq Kept PROVE DroppedInv'
  <2>1. Dropped' = Dropped
    BY <1>1 DEF delVars, Dropped
  <2>2. QED
    BY <1>0, <1>1, <2>1 DEF DroppedInv, delVars
<1>2. ASSUME NEW j \in Jobs, Submit(j) PROVE DroppedInv'
  <2> DEFINE longer == Append(order, j)
  <2>1. longer \in Seq(Jobs) /\ longer # <<>> /\ Elements(longer) = Kept \cup {j}
    BY <1>0, AppendFacts DEF Kept
  <2>2. order' = longer \/ order' = Tail(longer)
    BY <1>2 DEF Submit, Newest
  <2> HIDE DEF longer
  <2>3. Elements(Tail(longer)) \subseteq Elements(longer)
    BY <2>1, TailFacts
  <2>4. Kept' \subseteq Kept \cup {j} /\ j \notin Known
    BY <1>2, <2>1, <2>2, <2>3 DEF Submit, Kept, Known
  <2>5. QED
    BY <1>1, <1>2, <2>4 DEF Submit
<1>3. ASSUME NEW j \in Jobs, RunJob(j) \/ CleanOutput(j) PROVE DroppedInv'
  BY <1>1, <1>3, RunJobEffect DEF CleanOutput, Kept
<1>4. CASE Enqueue \/ Start
  BY <1>1, <1>4 DEF Enqueue, Start, store, Kept
<1>5. ASSUME NEW x \in Downloads, Download(x) PROVE DroppedInv'
  BY <1>1, <1>5, DownloadEffect DEF store, Kept
<1>6. ASSUME NEW d \in Deletes, NEW jobs \in Seq(Jobs), Begin(d, jobs), Elements(jobs) \subseteq Kept
      PROVE  DroppedInv'
  <2>1. /\ deleted' = deleted /\ Kept' = Kept /\ todo' = [todo EXCEPT ![d] = jobs]
        /\ stage' = [stage EXCEPT ![d] = "drop"] /\ stage[d] = "idle"
    BY <1>6 DEF Begin, Kept
  <2>2. /\ todo \in [Deletes -> Seq(Jobs)] /\ stage \in [Deletes -> {"idle", "drop", "unlink"}]
    BY DEF JobsInv, DeletesOK
  <2>3. Dropped' \subseteq Dropped
    BY <2>1, <2>2 DEF Dropped
  <2>4. \A e \in Deletes : Elements(todo'[e]) \subseteq Known'
    BY <1>0, <1>6, <2>1, <2>2 DEF DroppedInv
  <2>5. QED
    BY <1>0, <2>1, <2>3, <2>4 DEF DroppedInv
<1>7. ASSUME NEW d \in Deletes, DeleteJob(d) \/ CleanJobs(d) PROVE DroppedInv'
  <2>1. ASSUME NEW j \in Kept PROVE <<j>> \in Seq(Jobs) /\ Elements(<<j>>) \subseteq Kept
    BY <1>0, <2>1 DEF Kept, Elements
  <2> DEFINE back == [i \in 1..Len(order) |-> order[Len(order) + 1 - i]]
  <2>2. back \in Seq(Jobs) /\ Elements(back) \subseteq Kept
    <3>1. \A i \in 1..Len(order) : Len(order) + 1 - i \in 1..Len(order)
      BY <1>0
    <3>2. \A i \in 1..Len(order) : order[Len(order) + 1 - i] \in Jobs \cap Kept
      BY <1>0, <3>1 DEF Kept, Elements
    <3>3. back \in Seq(Jobs) /\ Len(back) = Len(order)
      BY <1>0, <3>2, IsASeq
    <3>4. QED
      BY <3>2, <3>3 DEF Elements
  <2>3. QED
    BY <1>6, <1>7, <2>1, <2>2 DEF DeleteJob, CleanJobs
<1>8. ASSUME NEW d \in Deletes, Drop(d) PROVE DroppedInv'
  <2> DEFINE h == Head(todo[d])
  <2>1. /\ todo' = todo /\ deleted' = deleted /\ order' = Without(order, h)
        /\ stage' = [stage EXCEPT ![d] = "unlink"]
        /\ stage \in [Deletes -> {"idle", "drop", "unlink"}]
    BY <1>8 DEF Drop, JobsInv, DeletesOK
  <2>2. Dropped' \subseteq Dropped \cup {h}
    BY <2>1 DEF Dropped
  <2> HIDE DEF h
  <2>3. Kept' = Kept \ {h}
    BY <1>0, <2>1, WithoutFacts DEF Kept
  <2>4. QED
    BY <1>0, <2>1, <2>2, <2>3 DEF DroppedInv
<1>9. ASSUME NEW d \in Deletes, Remove(d) PROVE DroppedInv'
  <2>1. /\ stage[d] = "unlink" /\ todo' = [todo EXCEPT ![d] = Tail(todo[d])]
        /\ deleted' = deleted \cup {Head(todo[d])} /\ Kept' = Kept
        /\ stage' = [stage EXCEPT ![d] = IF Len(todo[d]) > 1 THEN "drop" ELSE "idle"]
    BY <1>9 DEF Remove, Kept
  <2>2. /\ todo \in [Deletes -> Seq(Jobs)] /\ stage \in [Deletes -> {"idle", "drop", "unlink"}]
        /\ todo[d] \in Seq(Jobs) /\ todo[d] # <<>>
    BY <2>1 DEF JobsInv, DeletesOK
  <2>3. Head(todo[d]) \in Dropped /\ deleted \subseteq Dropped
    BY <2>1 DEF Dropped
  <2>4. Elements(Tail(todo[d])) \subseteq Elements(todo[d])
    BY <2>2, TailFacts
  <2>5. Dropped' \subseteq Dropped
    BY <2>1, <2>2, <2>3 DEF Dropped
  <2>6. \A e \in Deletes : Elements(todo'[e]) \subseteq Known'
    BY <1>0, <2>1, <2>2, <2>4 DEF DroppedInv
  <2>7. QED
    BY <1>0, <2>1, <2>3, <2>5, <2>6 DEF DroppedInv
<1>10. CASE Lifespan
  BY <1>1, <1>10, LifespanEffect DEF store, Kept
<1>11. CASE Restart
  <2>1. /\ order' = <<>> /\ deleted' = deleted /\ todo' = [d \in Deletes |-> <<>>]
    BY <1>11 DEF Restart
  <2>2. QED
    BY <1>0, <2>1 DEF DroppedInv, Kept, Elements
<1>12. CASE UNCHANGED vars
  BY <1>1, <1>12 DEF vars, store, Kept
<1>13. QED
  BY <1>2, <1>3, <1>4, <1>5, <1>7, <1>8, <1>9, <1>10, <1>11, <1>12 DEF Next

\* The shutdown leaves the pool no queue, and nothing can fill it again.
LEMMA EndStep == ASSUME JobsInv, EndInv, [Next]_vars PROVE EndInv'
<1>0. /\ worker \in [Jobs -> {"none", "begin", "work", "store", "result", "write",
                               "writing", "except", "end"}]
      /\ fut \in [Jobs -> Futures] /\ queue \in Seq(Jobs)
      /\ \A j \in Elements(queue) : j \in Jobs /\ fut[j] = "pending"
      /\ half \in Jobs \cup {NoJob} /\ (half # NoJob => fut[half] = "none")
  BY DEF JobsInv, PoolOK, FieldsOK
<1>1. ASSUME UNCHANGED <<worker, fut, half, queue, phase>> PROVE EndInv'
  BY <1>1 DEF EndInv
<1>2. ASSUME NEW j \in Jobs, Submit(j) PROVE EndInv'
  BY <1>2 DEF Submit, EndInv, process
<1>3. ASSUME NEW j \in Jobs, RunJob(j) PROVE EndInv'
  <2>1. UNCHANGED <<half, queue, phase>>
    BY <1>3, RunJobEffect DEF process
  <2>2. /\ \A k \in Jobs : k # j => worker'[k] = worker[k] /\ fut'[k] = fut[k]
        /\ \/ worker[j] \notin {"none", "end"} /\ fut'[j] = fut[j]
           \/ worker'[j] = "end"
    BY <1>0, <1>3 DEF RunJob, MarkRunning, MarkFailed, Returns, Raises, SetDone, SetResult,
       WriteOpens, WriteCloses, WriteFails, End, At, files, store
  <2>3. QED
    BY <2>1, <2>2 DEF EndInv
<1>4. ASSUME NEW j \in Jobs, CleanOutput(j) PROVE EndInv'
  BY <1>1, <1>4 DEF CleanOutput, OffDelete, pool, process
<1>5. CASE Enqueue
  <2>1. /\ half \in Jobs /\ fut[half] = "none" /\ fut' = [fut EXCEPT ![half] = "pending"]
        /\ half' = NoJob /\ UNCHANGED <<worker, phase>>
    BY <1>0, <1>5 DEF Enqueue, process
  <2>2. phase = "up"
    BY <1>5 DEF Enqueue, EndInv
  <2>3. QED
    BY <1>0, <2>1, <2>2 DEF EndInv
<1>6. CASE Start
  <2>1. Head(queue) \in Jobs /\ Head(queue) \in Elements(queue)
    BY <1>0, <1>6, TailFacts DEF Start
  <2>2. QED
    BY <1>0, <1>6, <2>1 DEF Start, At, EndInv, process
<1>7. ASSUME NEW x \in Downloads, Download(x) PROVE EndInv'
  BY <1>1, <1>7, DownloadEffect DEF pool, process
<1>8. ASSUME NEW d \in Deletes, DeleteJob(d) \/ CleanJobs(d) \/ Drop(d) \/ Remove(d) PROVE EndInv'
  BY <1>1, <1>8, DeleteEffect DEF Drop, OffDelete, pool, process
<1>9. CASE Drain \/ Cut
  BY <1>9 DEF Drain, Cut, Quiet, OffLifespan, EndInv
<1>10. ASSUME NEW j \in Jobs, Cancel(j) PROVE EndInv'
  BY <1>0, <1>10 DEF Cancel, OffLifespan, EndInv
<1>11. CASE Shutdown
  BY <1>0, <1>11 DEF Shutdown, OffLifespan, EndInv
<1>12. CASE Restart
  BY <1>12 DEF Restart, EndInv
<1>13. CASE UNCHANGED vars
  BY <1>1, <1>13 DEF vars, pool, process
<1>14. QED
  BY <1>2, <1>3, <1>4, <1>5, <1>6, <1>7, <1>8, <1>9, <1>10, <1>11, <1>12, <1>13
     DEF Next, Lifespan

GoneInv == JobsInv /\ DroppedInv /\ EndInv

\* Nothing known of deleted jobs and of the end is lost by a step.
LEMMA GoneInvHolds == Safety => []GoneInv
<1>1. Init => DroppedInv /\ EndInv
  BY DEF Init, DroppedInv, EndInv, Dropped, Kept, Elements
<1>2. GoneInv /\ [Next]_vars => DroppedInv' /\ EndInv'
  BY DroppedStep, EndStep DEF GoneInv
<1>3. QED
  BY <1>1, <1>2, JobsInvHolds, PTL DEF Safety, GoneInv

\* What is left of a job when it is gone: nobody who could write its file.
LEMMA GoneFacts ==
  ASSUME GoneInv, NEW j \in Jobs, Gone(j)
  PROVE  /\ j \in Known /\ j \notin Kept /\ half # j /\ file[j] = "none" /\ j \in deleted
         /\ fut[j] \notin {"pending", "running"} /\ worker[j] \in {"none", "end"}
         /\ j \notin Elements(queue) /\ \A x \in Downloads : asked[x] # j
<1>1. j \in Dropped
  BY DEF Gone, Dropped
<1>2. QED
  BY <1>1, DroppedType DEF GoneInv, Gone, Over, DroppedInv, EndInv, JobsInv, PoolOK

\* No worker and no download has a job that is gone, and none takes it up.
LEMMA GoneStep ==
  ASSUME GoneInv, [Next]_vars, NEW j \in Jobs, Gone(j)
  PROVE  Gone(j)'
<1>0. /\ j \in Known /\ j \notin Kept /\ half # j /\ file[j] = "none" /\ j \in deleted
      /\ fut[j] \notin {"pending", "running"} /\ worker[j] \in {"none", "end"}
      /\ j \notin Elements(queue) /\ (\A x \in Downloads : asked[x] # j) /\ NoJob # j
      /\ file \in [Jobs -> {"none", "partial", "whole"}] /\ fut \in [Jobs -> Futures]
      /\ asked \in [Downloads -> Jobs \cup {NoJob}]
  BY GoneFacts, NoJobAssumption DEF GoneInv, JobsInv, FieldsOK, PoolOK, DownloadsOK
<1>1. ASSUME j \in deleted', file'[j] = "none", half' # j, fut'[j] \notin {"pending", "running"},
             \A x \in Downloads : asked'[x] # j
      PROVE  Gone(j)'
  BY <1>1 DEF Gone, Over
<1>2. ASSUME UNCHANGED <<deleted, file, half, fut, asked>> PROVE Gone(j)'
  BY <1>0, <1>1, <1>2
<1>3. ASSUME NEW k \in Jobs, Submit(k) PROVE Gone(j)'
  BY <1>0, <1>1, <1>3 DEF Submit, Known, files, pool, downVars, delVars
<1>4. ASSUME NEW k \in Jobs, RunJob(k) PROVE Gone(j)'
  <2>1. UNCHANGED <<half, asked, deleted>>
    BY <1>4, RunJobEffect DEF downVars, delVars
  <2>2. file'[j] = "none" /\ fut'[j] \notin {"pending", "running"}
    <3>1. CASE k = j
      BY <1>0, <1>4, <3>1 DEF RunJob, MarkRunning, MarkFailed, Returns, Raises, SetDone, SetResult,
         WriteOpens, WriteCloses, WriteFails, End, At, files, store
    <3>2. CASE k # j
      BY <1>0, <1>4, <3>2 DEF RunJob, MarkRunning, MarkFailed, Returns, Raises, SetDone, SetResult,
         WriteOpens, WriteCloses, WriteFails, End, OpenFile, CloseFile, files, store
    <3>3. QED
      BY <3>1, <3>2
  <2>3. QED
    BY <1>0, <1>1, <2>1, <2>2
<1>5. ASSUME NEW k \in Jobs, CleanOutput(k) PROVE Gone(j)'
  BY <1>0, <1>1, <1>5 DEF CleanOutput, Unlink, OffDelete, pool, downVars, delVars
<1>6. CASE Enqueue
  BY <1>0, <1>1, <1>6 DEF Enqueue, files, downVars, delVars
<1>7. CASE Start
  <2>1. Head(queue) \in Elements(queue)
    BY <1>7, TailFacts DEF Start, GoneInv, JobsInv, PoolOK
  <2>2. QED
    BY <1>0, <1>1, <1>7, <2>1 DEF Start, files, downVars, delVars
<1>8. ASSUME NEW x \in Downloads, Download(x) PROVE Gone(j)'
  <2>1. UNCHANGED <<deleted, half, fut>>
    BY <1>8, DownloadEffect DEF pool, delVars
  <2>2. file'[j] = "none" /\ \A y \in Downloads : asked'[y] # j
    BY <1>0, <1>8 DEF Download, Ask, NotReady, LookAtFile, BackfillOpens, BackfillCloses, Send,
       Answers, OpenFile, CloseFile, files
  <2>3. QED
    BY <1>0, <1>1, <2>1, <2>2
<1>9. ASSUME NEW d \in Deletes, DeleteJob(d) \/ CleanJobs(d) \/ Drop(d) PROVE Gone(j)'
  BY <1>0, <1>2, <1>9 DEF DeleteJob, CleanJobs, Begin, Drop, OffDelete, files, pool, downVars
<1>10. ASSUME NEW d \in Deletes, Remove(d) PROVE Gone(j)'
  BY <1>0, <1>1, <1>10 DEF Remove, Unlink, OffDelete, pool, downVars
<1>11. CASE Lifespan
  <2>1. UNCHANGED <<deleted, file, half, asked>>
    BY <1>11, LifespanEffect DEF files, downVars, delVars
  <2>2. fut'[j] \notin {"pending", "running"}
    BY <1>0, <1>11 DEF Lifespan, Drain, Cut, Cancel, Shutdown
  <2>3. QED
    BY <1>0, <1>1, <2>1, <2>2
<1>12. CASE Restart
  BY <1>0, <1>1, <1>12 DEF Restart
<1>13. CASE UNCHANGED vars
  BY <1>2, <1>13 DEF vars, files, pool, downVars, delVars
<1>14. QED
  BY <1>3, <1>4, <1>5, <1>6, <1>7, <1>8, <1>9, <1>10, <1>11, <1>12, <1>13 DEF Next

\* A deleted job's file does not come back once those who could write it are
\* done, however requests, workers and restarts overlap: the run's StaysGone.
THEOREM DeletedStaysGone == Safety => StaysGone
<1>1. GoneInv /\ [Next]_vars => [\A j \in Jobs : Gone(j) => Gone(j)']_vars
  BY GoneStep
<1>2. QED
  BY <1>1, GoneInvHolds, PTL DEF Safety, StaysGone

\* No worker begins a job after the shutdown: the run's NoneBeginsClosed.
THEOREM ClosedPoolRests == Safety => NoneBeginsClosed
<1>1. ASSUME GoneInv, [Next]_vars, phase = "closed", NEW j \in Jobs, worker[j] = "none"
      PROVE  worker'[j] = "none"
  <2>1. worker \in [Jobs -> {"none", "begin", "work", "store", "result", "write",
                             "writing", "except", "end"}]
    BY <1>1 DEF GoneInv, JobsInv, FieldsOK
  <2>2. ~Start
    BY <1>1 DEF GoneInv, EndInv, Start
  <2>3. ASSUME NEW k \in Jobs, RunJob(k) PROVE worker'[j] = "none"
    BY <1>1, <2>1, <2>3 DEF RunJob, MarkRunning, MarkFailed, Returns, Raises, SetDone, SetResult,
       WriteOpens, WriteCloses, WriteFails, End, At
  <2>4. ASSUME NEW k \in Jobs, Submit(k) \/ CleanOutput(k) PROVE worker'[j] = "none"
    BY <1>1, <2>4 DEF Submit, CleanOutput, OffDelete, pool
  <2>5. ASSUME NEW x \in Downloads, Download(x) PROVE worker'[j] = "none"
    BY <1>1, <2>5, DownloadEffect DEF pool
  <2>6. ASSUME NEW d \in Deletes, DeleteJob(d) \/ CleanJobs(d) \/ Drop(d) \/ Remove(d)
        PROVE  worker'[j] = "none"
    BY <1>1, <2>6, DeleteEffect DEF Drop, OffDelete, pool
  <2>7. CASE Enqueue \/ Lifespan \/ Restart \/ UNCHANGED vars
    BY <1>1, <2>7, LifespanEffect DEF Enqueue, Restart, vars, pool
  <2>8. QED
    BY <1>1, <2>2, <2>3, <2>4, <2>5, <2>6, <2>7 DEF Next
<1>2. GoneInv /\ [Next]_vars =>
        [phase = "closed" /\ phase' = "closed" =>
           \A j \in Jobs : worker[j] = "none" => worker'[j] = "none"]_vars
  BY <1>1
<1>3. QED
  BY <1>2, GoneInvHolds, PTL DEF Safety, NoneBeginsClosed
=============================================================================
