-------------------------- MODULE SessionHubProofs --------------------------
(* Proofs about SessionHub for any sessions, clients, labels and bounds: a    *)
(* client that has joined is sent every record of its session's history, and  *)
(* none of them twice; and once all is sent and no rename is under way, what  *)
(* it shows is what the history says, if it was sent the records in order.    *)
EXTENDS SessionHub, SequenceTheorems, NaturalsInduction, WellFoundedInduction, TLAPS

Records == [seg : Segments, who : Labels]
States == {"away", "replaying", "live", "renaming", "gone"}
Known == 1..Len(records)

Distinct(seq) == \A i, j \in 1..Len(seq) : seq[i] = seq[j] => i = j

\* The records that scheduled sends carry.
Waiting(q) == [i \in 1..Len(q) |-> q[i].id]

\* The shapes of the variables, and that they name records there are.
Shapes ==
  /\ records \in Seq(Records) /\ Len(records) <= MaxRecords
  /\ history \in [Sessions -> Seq(Nat)]
  /\ \A s \in Sessions : Len(history[s]) <= MaxHistory
  /\ subs \in [Sessions -> SUBSET Clients]
  /\ state \in [Clients -> States] /\ sess \in [Clients -> Sessions]
  /\ replay \in [Clients -> Seq(Nat)] /\ got \in [Clients -> Seq(Nat)]
  /\ owed \in [Clients -> SUBSET Nat] /\ queued \in [Clients -> Seq(Messages)]
  /\ shown \in [Clients -> [Segments -> Labels \cup {NoLabel}]]
  /\ ordered \in [Sessions -> Seq(SUBSET Nat)]
Named ==
  /\ \A s \in Sessions : Elements(history[s]) \cup UNION Elements(ordered[s]) \subseteq Known
  /\ \A c \in Clients : Elements(replay[c]) \cup owed[c] \cup Elements(got[c])
                          \cup Elements(Waiting(queued[c])) \subseteq Known

\* A client is subscribed to its own session and no other, from Join to Leave,
\* and until then it has nothing.
Subscribed ==
  \A c \in Clients :
    /\ Here(c) => c \in subs[sess[c]]
    /\ \A s \in Sessions : c \in subs[s] => s = sess[c] /\ Here(c)
    /\ state[c] = "away" => replay[c] = <<>> /\ got[c] = <<>> /\ queued[c] = <<>>

\* What a client has, what it has to replay and what is scheduled for it hold
\* each record once, and together they hold the history.
Apart(c) ==
  /\ Distinct(got[c]) /\ Distinct(replay[c]) /\ Distinct(Waiting(queued[c]))
  /\ Elements(got[c]) \cap Elements(replay[c]) = {}
  /\ Elements(got[c]) \cap Elements(Waiting(queued[c])) = {}
  /\ Elements(replay[c]) \cap Elements(Waiting(queued[c])) = {}
Whole(c) ==
  Here(c) => Elements(history[sess[c]])
               \subseteq Elements(got[c]) \cup Elements(replay[c]) \cup Elements(Waiting(queued[c]))

HubInv ==
  /\ Shapes /\ Named /\ Subscribed
  /\ \A s \in Sessions : Distinct(history[s])
  /\ \A c \in Clients : Apart(c) /\ Whole(c)
-----------------------------------------------------------------------------
\* A sequence of different elements that gets one more.
LEMMA Grown ==
  ASSUME NEW S, NEW s \in Seq(S), NEW e \in S
  PROVE  /\ Append(s, e) \in Seq(S) /\ Len(Append(s, e)) = Len(s) + 1
         /\ Elements(Append(s, e)) = Elements(s) \cup {e}
         /\ Distinct(s) /\ e \notin Elements(s) => Distinct(Append(s, e))
<1> DEFINE a == Append(s, e)
<1>1. /\ a \in Seq(S) /\ Len(a) = Len(s) + 1 /\ a[Len(s) + 1] = e
      /\ \A i \in 1..Len(s) : a[i] = s[i]
  BY AppendProperties
<1>2. Len(s) \in Nat
  BY LenProperties
<1> HIDE DEF a
<1>3. Elements(a) = Elements(s) \cup {e}
  BY <1>1, <1>2 DEF Elements
<1>4. Distinct(s) /\ e \notin Elements(s) => Distinct(a)
  BY <1>1, <1>2 DEF Distinct, Elements
<1>5. QED
  BY <1>1, <1>3, <1>4 DEF a

\* A sequence that loses its first element.
LEMMA Shrunk ==
  ASSUME NEW S, NEW s \in Seq(S), s # <<>>
  PROVE  /\ Head(s) \in S /\ Tail(s) \in Seq(S) /\ Len(s) > 0
         /\ Elements(s) = {Head(s)} \cup Elements(Tail(s))
         /\ Distinct(s) => Distinct(Tail(s)) /\ Head(s) \notin Elements(Tail(s))
<1> DEFINE t == Tail(s)
           h == Head(s)
<1>1. /\ Len(s) \in Nat \ {0} /\ h = s[1] /\ h \in S
      /\ t \in Seq(S) /\ Len(t) = Len(s) - 1
      /\ \A i \in 1..Len(t) : t[i] = s[i + 1]
  BY HeadTailProperties, LenProperties, EmptySeq
<1> HIDE DEF t, h
<1>2. {h} \cup Elements(t) \subseteq Elements(s)
  BY <1>1 DEF Elements
<1>3. ASSUME NEW i \in 1..Len(s) PROVE s[i] \in {h} \cup Elements(t)
  <2>1. CASE i = 1
    BY <1>1, <2>1
  <2>2. CASE i # 1
    <3>1. i - 1 \in 1..Len(t) /\ t[i - 1] = s[i]
      BY <1>1, <2>2
    <3>2. QED
      BY <3>1 DEF Elements
  <2>3. QED
    BY <2>1, <2>2
<1>4. Elements(s) = {h} \cup Elements(t)
  BY <1>2, <1>3 DEF Elements
<1>5. ASSUME Distinct(s) PROVE Distinct(t) /\ h \notin Elements(t)
  <2>1. ASSUME NEW i \in 1..Len(t), NEW j \in 1..Len(t), t[i] = t[j] PROVE i = j
    <3>1. i + 1 \in 1..Len(s) /\ j + 1 \in 1..Len(s) /\ s[i + 1] = s[j + 1]
      BY <1>1, <2>1
    <3>2. i + 1 = j + 1
      BY <1>5, <3>1 DEF Distinct
    <3>3. QED
      BY <3>2
  <2>2. ASSUME NEW i \in 1..Len(t), t[i] = h PROVE FALSE
    <3>1. i + 1 \in 1..Len(s) /\ 1 \in 1..Len(s) /\ s[i + 1] = s[1]
      BY <1>1, <2>2
    <3>2. i + 1 = 1
      BY <1>5, <3>1 DEF Distinct
    <3>3. QED
      BY <3>2
  <2>3. QED
    BY <2>1, <2>2 DEF Distinct, Elements
<1>6. QED
  BY <1>1, <1>4, <1>5 DEF t, h

\* A history that is trimmed keeps different records, and few enough.
LEMMA Cut ==
  ASSUME NEW s \in Seq(Nat), Len(s) <= MaxHistory + 1
  PROVE  /\ Trimmed(s) \in Seq(Nat) /\ Elements(Trimmed(s)) \subseteq Elements(s)
         /\ Len(Trimmed(s)) <= MaxHistory
         /\ Distinct(s) => Distinct(Trimmed(s))
<1> USE HistoryAssumption
<1>1. CASE ~(Len(s) > MaxHistory)
  BY <1>1, LenProperties DEF Trimmed
<1>2. CASE Len(s) > MaxHistory
  <2> DEFINE m == Len(s) - TrimTo + 1
             t == SubSeq(s, m, Len(s))
  <2>1. Len(s) \in Nat /\ m \in Int /\ m \in 1..Len(s) /\ Len(s) - m + 1 = TrimTo
    BY <1>2, LenProperties
  <2>2. \A i \in m..Len(s) : s[i] \in Nat
    BY <2>1, ElementOfSeq
  <2>3. t \in Seq(Nat) /\ Len(t) = TrimTo /\ \A i \in 1..TrimTo : t[i] = s[m + i - 1]
    <3> HIDE DEF m
    <3>1. QED
      BY <2>1, <2>2, SubSeqProperties
  <2>4. \A i \in 1..TrimTo : m + i - 1 \in 1..Len(s)
    BY <1>2, <2>1
  <2>5. Trimmed(s) = t
    BY <1>2 DEF Trimmed
  <2> HIDE DEF t, m
  <2>6. Elements(t) \subseteq Elements(s)
    BY <2>3, <2>4 DEF Elements
  <2>7. ASSUME Distinct(s), NEW i \in 1..TrimTo, NEW j \in 1..TrimTo, t[i] = t[j] PROVE i = j
    <3>1. m + i - 1 = m + j - 1
      BY <2>3, <2>4, <2>7 DEF Distinct
    <3>2. QED
      BY <2>1, <3>1
  <2>8. QED
    BY <2>3, <2>5, <2>6, <2>7 DEF Distinct
<1>3. QED
  BY <1>1, <1>2, LenProperties

\* Two sequences of different elements, with none in common, one after the
\* other.
LEMMA Together ==
  ASSUME NEW s \in Seq(Nat), NEW t \in Seq(Nat)
  PROVE  /\ s \o t \in Seq(Nat) /\ Elements(s \o t) = Elements(s) \cup Elements(t)
         /\ Distinct(s) /\ Distinct(t) /\ Elements(s) \cap Elements(t) = {} => Distinct(s \o t)
<1> DEFINE u == s \o t
           m == Len(s)
           n == Len(t)
<1>1. /\ u \in Seq(Nat) /\ Len(u) = m + n /\ m \in Nat /\ n \in Nat
      /\ \A i \in 1..m + n : u[i] = IF i <= m THEN s[i] ELSE t[i - m]
  BY ConcatProperties, LenProperties
<1> HIDE DEF u, m, n
<1>2. \A i \in 1..m : i \in 1..m + n /\ u[i] = s[i]
  BY <1>1
<1>3. ASSUME NEW i \in 1..n PROVE m + i \in 1..m + n /\ u[m + i] = t[i]
  <2>1. m + i \in 1..m + n /\ ~(m + i <= m) /\ m + i - m = i
    BY <1>1
  <2>2. QED
    BY <1>1, <2>1
<1>4. \A i \in 1..m + n : \/ i \in 1..m /\ u[i] = s[i]
                          \/ i - m \in 1..n /\ u[i] = t[i - m]
  BY <1>1
<1>5. Elements(u) = Elements(s) \cup Elements(t)
  <2>1. Elements(u) = {u[i] : i \in 1..m + n}
    BY <1>1 DEF Elements
  <2>2. Elements(s) = {s[i] : i \in 1..m} /\ Elements(t) = {t[i] : i \in 1..n}
    BY DEF Elements, m, n
  <2>3. QED
    BY <1>2, <1>3, <1>4, <2>1, <2>2
<1>6. ASSUME Distinct(s), Distinct(t), Elements(s) \cap Elements(t) = {},
             NEW i \in 1..m + n, NEW j \in 1..m + n, u[i] = u[j]
      PROVE  i = j
  <2>1. \A k \in 1..m, l \in 1..n : s[k] # t[l]
    BY <1>6 DEF Elements, m, n
  <2>2. \A k, l \in 1..m : s[k] = s[l] => k = l
    BY <1>6 DEF Distinct, m
  <2>3. \A k, l \in 1..n : t[k] = t[l] => k = l
    BY <1>6 DEF Distinct, n
  <2>4. CASE i \in 1..m /\ u[i] = s[i]
    BY <1>1, <1>4, <1>6, <2>1, <2>2, <2>4
  <2>5. CASE i - m \in 1..n /\ u[i] = t[i - m]
    <3>1. CASE j \in 1..m /\ u[j] = s[j]
      BY <1>6, <2>1, <2>5, <3>1
    <3>2. CASE j - m \in 1..n /\ u[j] = t[j - m]
      <4>1. i - m = j - m
        BY <1>6, <2>3, <2>5, <3>2
      <4>2. QED
        BY <1>1, <4>1
    <3>3. QED
      BY <1>4, <3>1, <3>2
  <2>6. QED
    BY <1>4, <2>4, <2>5
<1>7. QED
  BY <1>1, <1>5, <1>6 DEF u, Distinct

\* What waits when a send is scheduled.
LEMMA WaitsFor ==
  ASSUME NEW q \in Seq(Messages), NEW m \in Messages
  PROVE  Waiting(q) \in Seq(Nat) /\ Waiting(Append(q, m)) = Append(Waiting(q), m.id)
<1> DEFINE w == Waiting(q)
           a == Append(q, m)
<1>1. Len(q) \in Nat /\ \A i \in 1..Len(q) : q[i].id \in Nat
  <2>1. \A i \in 1..Len(q) : q[i] \in Messages
    BY ElementOfSeq
  <2>2. \A e \in Messages : e.id \in Nat
    BY RecordsAssumption DEF Messages, Ids
  <2>3. QED
    BY <2>1, <2>2, LenProperties
<1>2. w \in Seq(Nat) /\ Len(w) = Len(q) /\ \A i \in 1..Len(q) : w[i] = q[i].id
  BY <1>1, IsASeq, LenProperties DEF Waiting
<1>3. m.id \in Nat
  BY RecordsAssumption DEF Messages, Ids
<1>4. /\ Len(a) = Len(q) + 1 /\ a[Len(q) + 1] = m
      /\ \A i \in 1..Len(q) : a[i] = q[i]
  BY AppendProperties
<1>5. /\ Append(w, m.id) \in Seq(Nat) /\ Len(Append(w, m.id)) = Len(q) + 1
      /\ Append(w, m.id)[Len(q) + 1] = m.id
      /\ \A i \in 1..Len(q) : Append(w, m.id)[i] = q[i].id
  <2> HIDE DEF w
  <2>1. QED
    BY <1>2, <1>3, AppendProperties
<1> HIDE DEF a, w
<1>6. /\ Waiting(a) \in Seq(Nat) /\ Len(Waiting(a)) = Len(q) + 1
      /\ \A i \in 1..Len(q) + 1 : Waiting(a)[i] = a[i].id
  <2>1. \A i \in 1..Len(q) + 1 : a[i].id \in Nat
    BY <1>1, <1>3, <1>4
  <2>2. Waiting(a) = [i \in 1..Len(q) + 1 |-> a[i].id]
    BY <1>4 DEF Waiting
  <2>3. QED
    BY <1>1, <2>1, <2>2, IsASeq, LenProperties
<1>7. ASSUME NEW i \in 1..Len(q) + 1 PROVE Waiting(a)[i] = Append(w, m.id)[i]
  <2>1. CASE i = Len(q) + 1
    BY <1>4, <1>5, <1>6, <2>1
  <2>2. CASE i # Len(q) + 1
    <3>1. i \in 1..Len(q)
      BY <1>1, <2>2
    <3>2. QED
      BY <1>4, <1>5, <1>6, <3>1
  <2>3. QED
    BY <2>1, <2>2
<1>8. Waiting(a) = Append(w, m.id)
  BY <1>5, <1>6, <1>7, SeqEqual
<1>9. QED
  BY <1>2, <1>8 DEF a, w

\* What waits when the first send goes.
LEMMA WaitsNoMore ==
  ASSUME NEW q \in Seq(Messages), q # <<>>
  PROVE  /\ Head(q) \in Messages /\ Tail(q) \in Seq(Messages)
         /\ Waiting(q) # <<>> /\ Head(Waiting(q)) = Head(q).id
         /\ Waiting(Tail(q)) = Tail(Waiting(q))
<1> DEFINE w == Waiting(q)
           t == Tail(q)
<1>1. Len(q) \in Nat /\ \A i \in 1..Len(q) : q[i] \in Messages /\ q[i].id \in Nat
  <2>1. \A i \in 1..Len(q) : q[i] \in Messages
    BY ElementOfSeq
  <2>2. \A e \in Messages : e.id \in Nat
    BY RecordsAssumption DEF Messages, Ids
  <2>3. QED
    BY <2>1, <2>2, LenProperties
<1>2. /\ t \in Seq(Messages) /\ Len(t) = Len(q) - 1 /\ \A i \in 1..Len(t) : t[i] = q[i + 1]
      /\ Len(q) # 0 /\ Head(q) = q[1]
  BY HeadTailProperties, EmptySeq, LenProperties
<1>3. w \in Seq(Nat) /\ Len(w) = Len(q) /\ \A i \in 1..Len(q) : w[i] = q[i].id
  BY <1>1, IsASeq, LenProperties DEF Waiting
<1> HIDE DEF t, w
<1>4. w # <<>> /\ Head(w) = q[1].id
  BY <1>1, <1>2, <1>3, EmptySeq
<1>5. /\ Tail(w) \in Seq(Nat) /\ Len(Tail(w)) = Len(q) - 1
      /\ \A i \in 1..Len(Tail(w)) : Tail(w)[i] = w[i + 1]
  BY <1>3, <1>4, HeadTailProperties
<1>6. \A i \in 1..Len(q) - 1 : t[i] = q[i + 1] /\ i + 1 \in 1..Len(q)
  BY <1>1, <1>2
<1>7. /\ Waiting(t) \in Seq(Nat) /\ Len(Waiting(t)) = Len(q) - 1
      /\ \A i \in 1..Len(q) - 1 : Waiting(t)[i] = t[i].id
  <2>1. \A i \in 1..Len(q) - 1 : t[i].id \in Nat
    BY <1>1, <1>6
  <2>2. Waiting(t) = [i \in 1..Len(q) - 1 |-> t[i].id] /\ Len(q) - 1 \in Nat
    BY <1>1, <1>2 DEF Waiting
  <2>3. QED
    BY <2>1, <2>2, IsASeq, LenProperties
<1>8. \A i \in 1..Len(q) - 1 : Waiting(t)[i] = Tail(w)[i]
  BY <1>3, <1>5, <1>6, <1>7
<1>9. Waiting(t) = Tail(w)
  BY <1>5, <1>7, <1>8, SeqEqual
<1>10. QED
  BY <1>1, <1>2, <1>4, <1>9 DEF t, w
-----------------------------------------------------------------------------
\* Nothing is published and nobody has joined.
LEMMA InitInv == Init => HubInv
<1> SUFFICES ASSUME Init PROVE HubInv
  OBVIOUS
<1>1. <<>> \in Seq(Records) /\ <<>> \in Seq(Nat) /\ <<>> \in Seq(Messages) /\ <<>> \in Seq(SUBSET Nat)
      /\ Len(<<>>) = 0
  BY EmptySeq
<1>2. Shapes
  BY <1>1, RecordsAssumption, HistoryAssumption DEF Init, Shapes, States
<1>3. Elements(<<>>) = {} /\ Waiting(<<>>) = <<>> /\ Distinct(<<>>)
  BY <1>1 DEF Elements, Waiting, Distinct
<1>4. Named /\ \A s \in Sessions : Distinct(history[s])
  BY <1>3 DEF Init, Named
<1>5. Subscribed /\ \A c \in Clients : Apart(c) /\ Whole(c)
  BY <1>3 DEF Init, Subscribed, Apart, Whole, Here
<1>6. QED
  BY <1>2, <1>4, <1>5 DEF HubInv

\* broadcast(): a record that there was not goes to the end of the history and
\* to whoever is subscribed.
LEMMA BroadcastStep ==
  ASSUME HubInv, NEW s \in Sessions, NEW seg \in Segments, NEW who \in Labels,
         NEW by \in Clients \cup {NoOne}, Broadcast(s, seg, who, by),
         UNCHANGED clientVars,
         owed' \in [Clients -> SUBSET Nat], \A c \in Clients : owed'[c] \subseteq Known,
         ordered' \in [Sessions -> Seq(SUBSET Nat)],
         \A r \in Sessions : UNION Elements(ordered'[r]) \subseteq Known
  PROVE  HubInv'
<1> DEFINE id == Len(records) + 1
           m == [id |-> id, seg |-> seg, who |-> who, by |-> by]
           r == [seg |-> seg, who |-> who]
<1> USE DEF clientVars
<1>1. /\ id <= MaxRecords /\ records' = Append(records, r)
      /\ history' = [history EXCEPT ![s] = Trimmed(Append(@, id))]
      /\ queued' = [c \in Clients |->
                      IF c \in subs[s] THEN Append(queued[c], m) ELSE queued[c]]
      /\ UNCHANGED <<subs, state, sess, replay, got, shown>>
  BY DEF Broadcast
<1>2. records \in Seq(Records) /\ Len(records) \in Nat /\ id \in Nat /\ id \notin Known
  BY LenProperties DEF HubInv, Shapes, Known
<1>3. r \in Records /\ m \in Messages /\ m.id = id
  BY <1>1, <1>2, RecordsAssumption DEF Records, Messages, Ids
<1> HIDE DEF m, r
<1>4. records' \in Seq(Records) /\ Len(records') = id /\ Known' = Known \cup {id}
  <2>1. records' \in Seq(Records) /\ Len(records') = Len(records) + 1
    BY <1>1, <1>2, <1>3, Grown
  <2>2. QED
    BY <1>2, <2>1 DEF Known
<1> HIDE DEF id
<1>5. /\ history'[s] \in Seq(Nat) /\ Len(history'[s]) <= MaxHistory
      /\ Elements(history'[s]) \subseteq Elements(history[s]) \cup {id}
      /\ Distinct(history'[s])
  <2> DEFINE h == history[s]
             a == Append(h, id)
  <2>1. h \in Seq(Nat) /\ Len(h) <= MaxHistory /\ Distinct(h) /\ Elements(h) \subseteq Known
    BY DEF HubInv, Shapes, Named
  <2>2. history'[s] = Trimmed(a)
    BY <1>1 DEF HubInv, Shapes
  <2> HIDE DEF h
  <2>3. /\ a \in Seq(Nat) /\ Len(a) = Len(h) + 1 /\ Elements(a) = Elements(h) \cup {id}
        /\ Distinct(a)
    BY <1>2, <2>1, Grown
  <2>4. Len(a) <= MaxHistory + 1
    BY <2>1, <2>3, LenProperties, HistoryAssumption
  <2> HIDE DEF a
  <2>5. QED
    BY <2>2, <2>3, <2>4, Cut DEF h
<1>6. history' \in [Sessions -> Seq(Nat)] /\ \A q \in Sessions \ {s} : history'[q] = history[q]
  BY <1>1, <1>5 DEF HubInv, Shapes
<1>7. ASSUME NEW c \in Clients
      PROVE  /\ queued'[c] \in Seq(Messages)
             /\ Distinct(Waiting(queued'[c]))
             /\ Elements(Waiting(queued'[c])) =
                  Elements(Waiting(queued[c])) \cup (IF c \in subs[s] THEN {id} ELSE {})
  <2> DEFINE w == Waiting(queued[c])
  <2>1. queued[c] \in Seq(Messages) /\ Distinct(w) /\ Elements(w) \subseteq Known
    BY DEF HubInv, Shapes, Named, Apart
  <2>2. CASE c \in subs[s]
    <3>1. queued'[c] = Append(queued[c], m)
      BY <1>1, <2>2
    <3>2. w \in Seq(Nat) /\ Waiting(queued'[c]) = Append(w, id) /\ queued'[c] \in Seq(Messages)
      BY <1>3, <2>1, <3>1, WaitsFor, Grown
    <3> HIDE DEF w
    <3>3. Distinct(Append(w, id)) /\ Elements(Append(w, id)) = Elements(w) \cup {id}
      BY <1>2, <2>1, <3>2, Grown
    <3>4. QED
      BY <2>2, <3>2, <3>3 DEF w
  <2>3. CASE c \notin subs[s]
    BY <1>1, <2>1, <2>3
  <2>4. QED
    BY <2>2, <2>3
<1>8. queued' \in [Clients -> Seq(Messages)]
  BY <1>1, <1>7
<1>9. Shapes'
  <2>1. Len(records') <= MaxRecords
    BY <1>1, <1>4
  <2>2. \A q \in Sessions : Len(history'[q]) <= MaxHistory
    BY <1>5, <1>6 DEF HubInv, Shapes
  <2>3. QED
    BY <1>1, <1>4, <1>6, <1>8, <2>1, <2>2 DEF HubInv, Shapes
<1>10. Named'
  <2>1. \A q \in Sessions : Elements(history'[q]) \cup UNION Elements(ordered'[q]) \subseteq Known'
    BY <1>4, <1>5, <1>6 DEF HubInv, Named
  <2>2. \A c \in Clients : Elements(Waiting(queued'[c])) \subseteq Known'
    BY <1>4, <1>7 DEF HubInv, Named
  <2>3. \A c \in Clients : Elements(replay'[c]) \cup owed'[c] \cup Elements(got'[c]) \subseteq Known'
    BY <1>1, <1>4 DEF HubInv, Named
  <2>4. QED
    BY <2>1, <2>2, <2>3 DEF Named
<1>11. Subscribed'
  <2>1. \A c \in Clients : Here(c)' = Here(c)
    BY <1>1 DEF Here
  <2>2. \A c \in Clients : state[c] = "away" => queued'[c] = queued[c]
    BY <1>1 DEF HubInv, Subscribed, Here
  <2>3. \A c \in Clients : state[c] = "away" => replay[c] = <<>> /\ got[c] = <<>> /\ queued'[c] = <<>>
    BY <2>2 DEF HubInv, Subscribed
  <2>4. QED
    BY <1>1, <2>1, <2>3 DEF HubInv, Subscribed
<1>12. ASSUME NEW c \in Clients PROVE Apart(c)' /\ Whole(c)'
  <2>1. id \notin Elements(got[c]) /\ id \notin Elements(replay[c])
    BY <1>2 DEF HubInv, Named
  <2>2. Apart(c)'
    BY <1>1, <1>7, <2>1 DEF HubInv, Apart
  <2>3. ASSUME Here(c)'
        PROVE  Elements(history'[sess[c]])
                 \subseteq Elements(got[c]) \cup Elements(replay[c]) \cup Elements(Waiting(queued'[c]))
    <3>1. Here(c) /\ sess[c] \in Sessions
      BY <1>1, <2>3 DEF Here, HubInv, Shapes
    <3>2. CASE sess[c] = s
      <4>1. c \in subs[s]
        BY <3>1, <3>2 DEF HubInv, Subscribed
      <4>2. QED
        BY <1>5, <1>7, <3>1, <3>2, <4>1 DEF HubInv, Whole
    <3>3. CASE sess[c] # s
      BY <1>6, <1>7, <3>1, <3>3 DEF HubInv, Whole
    <3>4. QED
      BY <3>2, <3>3
  <2>4. QED
    BY <1>1, <2>2, <2>3 DEF Whole
<1>13. \A q \in Sessions : Distinct(history'[q])
  BY <1>5, <1>6 DEF HubInv
<1>14. QED
  BY <1>9, <1>10, <1>11, <1>12, <1>13 DEF HubInv

\* The client is sent a record it has not had.
LEMMA ReceiveStep ==
  ASSUME Shapes, NEW c \in Clients, NEW id \in Nat, NEW seg \in Segments, NEW who \in Labels,
         Receive(c, id, seg, who), Distinct(got[c]), id \notin Elements(got[c])
  PROVE  /\ got' \in [Clients -> Seq(Nat)]
         /\ shown' \in [Clients -> [Segments -> Labels \cup {NoLabel}]]
         /\ Elements(got'[c]) = Elements(got[c]) \cup {id} /\ Distinct(got'[c])
         /\ \A d \in Clients \ {c} : got'[d] = got[d]
<1>1. got[c] \in Seq(Nat) /\ got'[c] = Append(got[c], id) /\ got' = [got EXCEPT ![c] = Append(@, id)]
  BY DEF Shapes, Receive
<1>2. Append(got[c], id) \in Seq(Nat) /\ Elements(Append(got[c], id)) = Elements(got[c]) \cup {id}
      /\ Distinct(Append(got[c], id))
  BY <1>1, Grown
<1>3. shown[c] \in [Segments -> Labels \cup {NoLabel}]
  BY DEF Shapes
<1>4. [shown[c] EXCEPT ![seg] = who] \in [Segments -> Labels \cup {NoLabel}]
  BY <1>3
<1>5. shown' = [shown EXCEPT ![c] = [shown[c] EXCEPT ![seg] = who]]
  BY DEF Receive
<1>6. QED
  BY <1>1, <1>2, <1>4, <1>5 DEF Shapes

\* A client that joins has the history to replay, and nothing else.
LEMMA JoinStep == ASSUME HubInv, NEW c \in Clients, Join(c) PROVE HubInv'
<1> DEFINE s == sess[c]
<1>1. /\ state[c] = "away" /\ state' = [state EXCEPT ![c] = "replaying"]
      /\ subs' = [subs EXCEPT ![s] = @ \cup {c}] /\ replay' = [replay EXCEPT ![c] = history[s]]
      /\ UNCHANGED <<records, history, sess, owed, queued, got, shown, ordered>>
  BY DEF Join
<1>2. s \in Sessions /\ history[s] \in Seq(Nat) /\ Distinct(history[s])
  BY DEF HubInv, Shapes
<1>3. got[c] = <<>> /\ queued[c] = <<>>
  BY <1>1 DEF HubInv, Subscribed
<1>4. Shapes'
  BY <1>1, <1>2 DEF HubInv, Shapes, States
<1>5. Named'
  BY <1>1, <1>2 DEF HubInv, Shapes, Named, Known
<1>6. Subscribed'
  BY <1>1, <1>2 DEF HubInv, Shapes, Subscribed, Here
<1>7. Elements(<<>>) = {} /\ Distinct(<<>>) /\ Waiting(<<>>) = <<>>
  BY EmptySeq DEF Elements, Distinct, Waiting
<1>8. \A d \in Clients : Apart(d)' /\ Whole(d)'
  <2>1. Apart(c)' /\ Whole(c)'
    BY <1>1, <1>2, <1>3, <1>7 DEF HubInv, Shapes, Apart, Whole
  <2>2. \A d \in Clients \ {c} : Apart(d)' /\ Whole(d)'
    BY <1>1 DEF HubInv, Shapes, Apart, Whole, Here
  <2>3. QED
    BY <2>1, <2>2
<1>9. QED
  BY <1>1, <1>4, <1>5, <1>6, <1>8 DEF HubInv

\* A turn of the replay moves a record to what the client has.
LEMMA ReplayStep == ASSUME HubInv, NEW c \in Clients, ReplayNext(c) PROVE HubInv'
<1> DEFINE i == Head(replay[c])
<1>1. /\ replay[c] # <<>> /\ Receive(c, i, records[i].seg, records[i].who)
      /\ replay' = [replay EXCEPT ![c] = Tail(@)]
      /\ UNCHANGED <<records, history, subs, state, sess, owed, queued, ordered>>
  BY DEF ReplayNext
<1>2. replay[c] \in Seq(Nat) /\ Distinct(replay[c]) /\ Elements(replay[c]) \subseteq Known
  BY DEF HubInv, Shapes, Named, Apart
<1>3. /\ i \in Nat /\ Tail(replay[c]) \in Seq(Nat)
      /\ Elements(replay[c]) = {i} \cup Elements(Tail(replay[c]))
      /\ Distinct(Tail(replay[c])) /\ i \notin Elements(Tail(replay[c]))
  BY <1>1, <1>2, Shrunk
<1>4. records[i] \in Records
  BY <1>2, <1>3, ElementOfSeq DEF HubInv, Shapes, Known
<1>5. i \notin Elements(got[c]) /\ i \notin Elements(Waiting(queued[c])) /\ Distinct(got[c])
  BY <1>3 DEF HubInv, Apart
<1> HIDE DEF i
<1>6. /\ got' \in [Clients -> Seq(Nat)] /\ shown' \in [Clients -> [Segments -> Labels \cup {NoLabel}]]
      /\ Elements(got'[c]) = Elements(got[c]) \cup {i} /\ Distinct(got'[c])
      /\ \A d \in Clients \ {c} : got'[d] = got[d]
  BY <1>1, <1>3, <1>4, <1>5, ReceiveStep DEF HubInv, Records
<1>7. replay'[c] = Tail(replay[c]) /\ \A d \in Clients \ {c} : replay'[d] = replay[d]
  BY <1>1 DEF HubInv, Shapes
<1>8. replay' \in [Clients -> Seq(Nat)]
  BY <1>1, <1>3 DEF HubInv, Shapes
<1>9. Shapes'
  BY <1>1, <1>6, <1>8 DEF HubInv, Shapes
<1>10. Named'
  <2>1. Known' = Known /\ Elements(replay'[c]) \cup Elements(got'[c]) \subseteq Known
    BY <1>1, <1>2, <1>3, <1>6, <1>7 DEF HubInv, Named, Known
  <2>2. QED
    BY <1>1, <1>6, <1>7, <2>1 DEF HubInv, Named
<1>11. Subscribed'
  <2>1. state[c] # "away" /\ \A d \in Clients : Here(d)' = Here(d)
    BY <1>1 DEF HubInv, Subscribed, Here, ReplayNext
  <2>2. QED
    BY <1>1, <1>6, <1>7, <2>1 DEF HubInv, Subscribed
<1>12. \A d \in Clients : Apart(d)' /\ Whole(d)'
  <2>1. Apart(c)'
    BY <1>1, <1>3, <1>5, <1>6, <1>7 DEF HubInv, Apart
  <2>2. Whole(c)'
    BY <1>1, <1>3, <1>6, <1>7 DEF HubInv, Whole, Here
  <2>3. \A d \in Clients \ {c} : Apart(d)' /\ Whole(d)'
    BY <1>1, <1>6, <1>7 DEF HubInv, Apart, Whole, Here
  <2>4. QED
    BY <2>1, <2>2, <2>3
<1>13. QED
  BY <1>1, <1>9, <1>10, <1>11, <1>12 DEF HubInv

\* A scheduled send moves a record to what the client has, or finds it gone.
LEMMA SendStep == ASSUME HubInv, NEW c \in Clients, SendNext(c) PROVE HubInv'
<1> DEFINE m == Head(queued[c])
           w == Waiting(queued[c])
<1>1. /\ queued[c] # <<>> /\ queued' = [queued EXCEPT ![c] = Tail(@)]
      /\ IF state[c] = "gone" THEN UNCHANGED <<got, shown>> ELSE Receive(c, m.id, m.seg, m.who)
      /\ UNCHANGED <<records, history, subs, state, sess, replay, owed, ordered>>
  BY DEF SendNext
<1>2. queued[c] \in Seq(Messages) /\ Distinct(w) /\ Elements(w) \subseteq Known
  BY DEF HubInv, Shapes, Named, Apart
<1>3. m \in Messages /\ Tail(queued[c]) \in Seq(Messages)
      /\ w # <<>> /\ Head(w) = m.id /\ Waiting(Tail(queued[c])) = Tail(w)
  BY <1>1, <1>2, WaitsNoMore
<1>4. w \in Seq(Nat)
  BY <1>2, <1>3, WaitsFor
<1> HIDE DEF w
<1>5. /\ m.id \in Nat /\ Elements(w) = {m.id} \cup Elements(Tail(w))
      /\ Distinct(Tail(w)) /\ m.id \notin Elements(Tail(w))
  BY <1>2, <1>3, <1>4, Shrunk
<1>6. m.id \notin Elements(got[c]) /\ m.id \notin Elements(replay[c]) /\ Distinct(got[c])
  BY <1>5 DEF HubInv, Apart, w
<1>7. m.seg \in Segments /\ m.who \in Labels
  BY <1>3 DEF Messages
<1> HIDE DEF m
<1>8. /\ got' \in [Clients -> Seq(Nat)] /\ shown' \in [Clients -> [Segments -> Labels \cup {NoLabel}]]
      /\ Distinct(got'[c]) /\ \A d \in Clients \ {c} : got'[d] = got[d]
      /\ \/ Elements(got'[c]) = Elements(got[c]) \cup {m.id}
         \/ state[c] = "gone" /\ got'[c] = got[c]
  <2>1. CASE state[c] = "gone"
    BY <1>1, <1>6, <2>1 DEF HubInv, Shapes
  <2>2. CASE state[c] # "gone"
    BY <1>1, <1>5, <1>6, <1>7, <2>2, ReceiveStep DEF HubInv
  <2>3. QED
    BY <2>1, <2>2
<1>9. Waiting(queued'[c]) = Tail(w) /\ \A d \in Clients \ {c} : queued'[d] = queued[d]
  BY <1>1, <1>3 DEF HubInv, Shapes
<1>10. queued' \in [Clients -> Seq(Messages)]
  BY <1>1, <1>3 DEF HubInv, Shapes
<1>11. Shapes'
  BY <1>1, <1>8, <1>10 DEF HubInv, Shapes
<1>12. Named'
  <2>1. Known' = Known /\ Elements(got'[c]) \cup Elements(Waiting(queued'[c])) \subseteq Known
    BY <1>1, <1>2, <1>5, <1>8, <1>9 DEF HubInv, Named, Known
  <2>2. \A d \in Clients : Elements(got'[d]) \cup Elements(Waiting(queued'[d])) \subseteq Known
    BY <1>8, <1>9, <2>1 DEF HubInv, Named
  <2>3. QED
    BY <1>1, <2>1, <2>2 DEF HubInv, Named
<1>13. Subscribed'
  <2>1. state[c] # "away" /\ \A d \in Clients : Here(d)' = Here(d)
    BY <1>1 DEF HubInv, Subscribed, Here
  <2>2. QED
    BY <1>1, <1>8, <1>9, <2>1 DEF HubInv, Subscribed
<1>14. \A d \in Clients : Apart(d)' /\ Whole(d)'
  <2>1. Apart(c)'
    <3>1. Elements(got'[c]) \subseteq Elements(got[c]) \cup {m.id} /\ Elements(Tail(w)) \subseteq Elements(w)
      BY <1>5, <1>8
    <3>2. Elements(got[c]) \cap Elements(w) = {} /\ Elements(replay[c]) \cap Elements(w) = {}
          /\ Elements(got[c]) \cap Elements(replay[c]) = {} /\ Distinct(replay[c])
      BY DEF HubInv, Apart, w
    <3>3. QED
      BY <1>1, <1>5, <1>6, <1>8, <1>9, <3>1, <3>2 DEF Apart
  <2>2. Whole(c)'
    BY <1>1, <1>5, <1>8, <1>9 DEF HubInv, Whole, Here, w
  <2>3. \A d \in Clients \ {c} : Apart(d)' /\ Whole(d)'
    BY <1>1, <1>8, <1>9 DEF HubInv, Apart, Whole, Here
  <2>4. QED
    BY <2>1, <2>2, <2>3
<1>15. QED
  BY <1>1, <1>11, <1>12, <1>13, <1>14 DEF HubInv

\* A step that changes no history, no subscription, and nothing of what a client
\* has or is to get.
LEMMA QuietStep ==
  ASSUME HubInv,
         records' \in Seq(Records), Len(records') = Len(records),
         UNCHANGED <<history, subs, sess, replay, queued, got, shown>>,
         state' \in [Clients -> States],
         \A c \in Clients : Here(c)' = Here(c) /\ (state'[c] = "away" => state[c] = "away"),
         owed' \in [Clients -> SUBSET Nat], \A c \in Clients : owed'[c] \subseteq Known,
         ordered' \in [Sessions -> Seq(SUBSET Nat)],
         \A s \in Sessions : UNION Elements(ordered'[s]) \subseteq Known
  PROVE  HubInv'
<1>1. Shapes'
  BY DEF HubInv, Shapes
<1>2. Named'
  BY DEF HubInv, Named, Known
<1>3. Subscribed'
  BY DEF HubInv, Subscribed
<1>4. \A c \in Clients : Apart(c)' /\ Whole(c)'
  BY DEF HubInv, Apart, Whole
<1>5. QED
  BY <1>1, <1>2, <1>3, <1>4 DEF HubInv

\* A rename rewrites records that there are, and leaves as many.
LEMMA RewriteStep ==
  ASSUME HubInv, NEW s \in Sessions, NEW old \in Labels, NEW new \in Labels,
         records' = Rewritten(s, old, new)
  PROVE  /\ Carrying(s, old) \subseteq Known /\ Carrying(s, old) \subseteq Nat
         /\ records' \in Seq(Records) /\ Len(records') = Len(records)
<1> DEFINE hit == Carrying(s, old)
<1>1. Len(records) \in Nat /\ hit \subseteq Known /\ Known \subseteq Nat
  BY LenProperties DEF HubInv, Shapes, Named, Known, Carrying
<1>2. \A i \in 1..Len(records) : records[i] \in Records
  BY ElementOfSeq DEF HubInv, Shapes
<1>3. records' = [i \in 1..Len(records) |->
                    IF i \in hit THEN [records[i] EXCEPT !.who = new] ELSE records[i]]
  BY DEF Rewritten
<1> HIDE DEF hit
<1>4. \A i \in 1..Len(records) :
        (IF i \in hit THEN [records[i] EXCEPT !.who = new] ELSE records[i]) \in Records
  BY <1>2 DEF Records
<1>5. records' \in Seq(Records) /\ Len(records') = Len(records)
  BY <1>1, <1>3, <1>4, IsASeq, LenProperties
<1>6. QED
  BY <1>1, <1>5 DEF hit

\* A broadcast of a client's rename.
LEMMA RenameNextStep == ASSUME HubInv, NEW c \in Clients, RenameNext(c) PROVE HubInv'
<1>1. PICK i \in owed[c] : /\ Broadcast(sess[c], records[i].seg, records[i].who, c)
                           /\ owed' = [owed EXCEPT ![c] = @ \ {i}]
  BY DEF RenameNext
<1>2. UNCHANGED <<clientVars, ordered>> /\ sess[c] \in Sessions
  BY DEF RenameNext, HubInv, Shapes
<1>3. records[i] \in Records
  BY ElementOfSeq DEF HubInv, Shapes, Named, Known
<1>4. owed' \in [Clients -> SUBSET Nat] /\ \A d \in Clients : owed'[d] \subseteq Known
  BY <1>1 DEF HubInv, Shapes, Named
<1>5. ordered' \in [Sessions -> Seq(SUBSET Nat)]
      /\ \A s \in Sessions : UNION Elements(ordered'[s]) \subseteq Known
  BY <1>2 DEF HubInv, Shapes, Named
<1>6. QED
  BY <1>1, <1>2, <1>3, <1>4, <1>5, BroadcastStep DEF Records

\* A broadcast of a rename from /ws/ingest.
LEMMA OrderNextStep == ASSUME HubInv, NEW s \in Sessions, OrderNext(s) PROVE HubInv'
<1> DEFINE h == Head(ordered[s])
           t == Tail(ordered[s])
<1>1. PICK i \in h :
        /\ Broadcast(s, records[i].seg, records[i].who, NoOne)
        /\ ordered' = [ordered EXCEPT ![s] = IF h = {i} THEN t ELSE <<h \ {i}>> \o t]
  BY DEF OrderNext
<1>2. UNCHANGED <<clientVars, owed>> /\ ordered[s] \in Seq(SUBSET Nat) /\ ordered[s] # <<>>
  BY DEF OrderNext, HubInv, Shapes
<1>3. h \in SUBSET Nat /\ t \in Seq(SUBSET Nat) /\ Elements(ordered[s]) = {h} \cup Elements(t)
  BY <1>2, Shrunk
<1>4. h \subseteq Known /\ UNION Elements(t) \subseteq Known
  BY <1>3 DEF HubInv, Named
<1> HIDE DEF h, t
<1>5. records[i] \in Records
  BY <1>1, <1>4, ElementOfSeq DEF HubInv, Shapes, Known
<1> DEFINE v == <<h \ {i}>> \o t
<1>6. v \in Seq(SUBSET Nat) /\ UNION Elements(v) \subseteq Known
  <2>1. <<h \ {i}>> \in Seq(SUBSET Nat) /\ Len(<<h \ {i}>>) = 1 /\ <<h \ {i}>>[1] = h \ {i}
    BY <1>3
  <2>2. /\ v \in Seq(SUBSET Nat) /\ Len(v) = 1 + Len(t)
        /\ \A k \in 1..1 + Len(t) : v[k] = IF k <= 1 THEN <<h \ {i}>>[k] ELSE t[k - 1]
    BY <1>3, <2>1, ConcatProperties
  <2> HIDE DEF v
  <2>3. Len(t) \in Nat
    BY <1>3, LenProperties
  <2>4. ASSUME NEW k \in 1..Len(v) PROVE v[k] \subseteq Known
    <3>1. CASE k = 1
      BY <1>4, <2>1, <2>2, <2>3, <3>1
    <3>2. CASE k # 1
      <4>1. k - 1 \in 1..Len(t) /\ v[k] = t[k - 1]
        BY <2>2, <2>3, <2>4, <3>2
      <4>2. t[k - 1] \in Elements(t)
        BY <4>1 DEF Elements
      <4>3. QED
        BY <1>4, <4>1, <4>2
    <3>3. QED
      BY <3>1, <3>2
  <2>5. QED
    BY <2>2, <2>4 DEF Elements
<1> HIDE DEF v
<1>7. /\ ordered'[s] \in {t, v} /\ \A q \in Sessions \ {s} : ordered'[q] = ordered[q]
      /\ ordered' \in [Sessions -> Seq(SUBSET Nat)]
  BY <1>1, <1>3, <1>6 DEF HubInv, Shapes, v
<1>8. \A q \in Sessions : UNION Elements(ordered'[q]) \subseteq Known
  BY <1>4, <1>6, <1>7 DEF HubInv, Named
<1>9. owed' \in [Clients -> SUBSET Nat] /\ \A d \in Clients : owed'[d] \subseteq Known
  BY <1>2 DEF HubInv, Shapes, Named
<1>10. records[i].seg \in Segments /\ records[i].who \in Labels /\ NoOne \in Clients \cup {NoOne}
  BY <1>5 DEF Records
<1>11. Broadcast(s, records[i].seg, records[i].who, NoOne) /\ UNCHANGED clientVars
  BY <1>1, <1>2
<1>12. QED
  BY <1>7, <1>8, <1>9, <1>10, <1>11, BroadcastStep

\* A client that leaves is no longer there, so it need not have the history.
LEMMA LeaveStep == ASSUME HubInv, NEW c \in Clients, Leave(c) PROVE HubInv'
<1>1. /\ state[c] \in {"replaying", "live"} /\ state' = [state EXCEPT ![c] = "gone"]
      /\ subs' = [subs EXCEPT ![sess[c]] = @ \ {c}] /\ replay' = [replay EXCEPT ![c] = <<>>]
      /\ UNCHANGED <<records, history, sess, owed, queued, got, shown, ordered>>
  BY DEF Leave
<1>2. <<>> \in Seq(Nat) /\ Elements(<<>>) = {} /\ Distinct(<<>>)
  BY EmptySeq DEF Elements, Distinct
<1>3. Shapes'
  BY <1>1, <1>2 DEF HubInv, Shapes, States
<1>4. Named'
  BY <1>1, <1>2 DEF HubInv, Shapes, Named, Known
<1>5. Subscribed'
  BY <1>1 DEF HubInv, Shapes, Subscribed, Here
<1>6. \A d \in Clients : Apart(d)'
  BY <1>1, <1>2 DEF HubInv, Shapes, Apart
<1>7. \A d \in Clients : Whole(d)'
  BY <1>1 DEF HubInv, Shapes, Whole, Here
<1>8. QED
  BY <1>1, <1>3, <1>4, <1>5, <1>6, <1>7 DEF HubInv

\* A history that is dropped holds nothing that could be missed.
LEMMA DropStep == ASSUME HubInv, NEW s \in Sessions, Drop(s) PROVE HubInv'
<1>1. /\ history' = [history EXCEPT ![s] = <<>>]
      /\ UNCHANGED <<records, subs, state, sess, replay, got, shown, owed, queued, ordered>>
  BY DEF Drop, clientVars
<1>2. <<>> \in Seq(Nat) /\ Elements(<<>>) = {} /\ Distinct(<<>>) /\ Len(<<>>) = 0
  BY EmptySeq DEF Elements, Distinct
<1>3. Shapes'
  BY <1>1, <1>2, HistoryAssumption DEF HubInv, Shapes
<1>4. \A q \in Sessions : Elements(history'[q]) \subseteq Elements(history[q]) /\ Distinct(history'[q])
  BY <1>1, <1>2 DEF HubInv, Shapes
<1>5. Named'
  BY <1>1, <1>4 DEF HubInv, Named, Known
<1>6. Subscribed'
  BY <1>1 DEF HubInv, Subscribed, Here
<1>7. \A c \in Clients : Apart(c)' /\ Whole(c)'
  <2>1. \A c \in Clients : sess[c] \in Sessions
    BY DEF HubInv, Shapes
  <2>2. QED
    BY <1>1, <1>4, <2>1 DEF HubInv, Apart, Whole, Here
<1>8. QED
  BY <1>3, <1>4, <1>5, <1>6, <1>7 DEF HubInv

\* Every step of the hub and of its handlers keeps the invariant.
LEMMA NextInv == HubInv /\ [Next]_vars => HubInv'
<1> SUFFICES ASSUME HubInv, [Next]_vars PROVE HubInv'
  OBVIOUS
<1> USE DEF clientVars
<1>0. /\ Shapes /\ \A c \in Clients : owed[c] \subseteq Known
      /\ \A s \in Sessions : UNION Elements(ordered[s]) \subseteq Known
  BY DEF HubInv, Named
<1>1. ASSUME NEW s \in Sessions, NEW seg \in Segments, NEW who \in Labels, Publish(s, seg, who)
      PROVE  HubInv'
  BY <1>0, <1>1, BroadcastStep DEF Publish, Shapes
<1>2. ASSUME NEW c \in Clients, ReplayDone(c) \/ RenameDone(c) PROVE HubInv'
  <2>1. /\ state[c] \in {"replaying", "renaming"} /\ state' = [state EXCEPT ![c] = "live"]
        /\ UNCHANGED <<records, history, subs, sess, replay, owed, queued, got, shown, ordered>>
    BY <1>2 DEF ReplayDone, RenameDone
  <2>2. /\ state' \in [Clients -> States] /\ \A d \in Clients : Here(d)' = Here(d)
        /\ \A d \in Clients : state'[d] = "away" => state[d] = "away"
    BY <1>0, <2>1 DEF Shapes, States, Here
  <2>3. QED
    BY <1>0, <2>1, <2>2, QuietStep DEF Shapes
<1>3. ASSUME NEW c \in Clients, NEW old \in Labels, NEW new \in Labels, Rename(c, old, new)
      PROVE  HubInv'
  <2>1. /\ state[c] = "live" /\ state' = [state EXCEPT ![c] = "renaming"]
        /\ records' = Rewritten(sess[c], old, new)
        /\ owed' = [owed EXCEPT ![c] = Carrying(sess[c], old)]
        /\ UNCHANGED <<history, subs, sess, replay, queued, got, shown, ordered>>
        /\ sess[c] \in Sessions
    BY <1>0, <1>3 DEF Rename, Shapes
  <2>2. Carrying(sess[c], old) \subseteq Known /\ Carrying(sess[c], old) \subseteq Nat
        /\ records' \in Seq(Records) /\ Len(records') = Len(records)
    BY <2>1, RewriteStep
  <2>3. /\ state' \in [Clients -> States] /\ \A d \in Clients : Here(d)' = Here(d)
        /\ \A d \in Clients : state'[d] = "away" => state[d] = "away"
    BY <1>0, <2>1 DEF Shapes, States, Here
  <2>4. owed' \in [Clients -> SUBSET Nat] /\ \A d \in Clients : owed'[d] \subseteq Known
    BY <1>0, <2>1, <2>2 DEF Shapes
  <2>5. QED
    BY <1>0, <2>1, <2>2, <2>3, <2>4, QuietStep DEF Shapes
<1>4. ASSUME NEW s \in Sessions, NEW old \in Labels, NEW new \in Labels, Order(s, old, new)
      PROVE  HubInv'
  <2> DEFINE all == Append(ordered[s], Carrying(s, old))
  <2>1. /\ records' = Rewritten(s, old, new) /\ ordered' = [ordered EXCEPT ![s] = all]
        /\ UNCHANGED <<history, clientVars, owed, queued>>
    BY <1>4 DEF Order
  <2>2. Carrying(s, old) \subseteq Known /\ Carrying(s, old) \subseteq Nat
        /\ records' \in Seq(Records) /\ Len(records') = Len(records)
    BY <2>1, RewriteStep
  <2>3. ordered[s] \in Seq(SUBSET Nat)
    BY <1>0 DEF Shapes
  <2>4. all \in Seq(SUBSET Nat) /\ Elements(all) = Elements(ordered[s]) \cup {Carrying(s, old)}
    BY <2>2, <2>3, Grown
  <2> HIDE DEF all
  <2>5. UNION Elements(all) \subseteq Known
    BY <1>0, <2>2, <2>4
  <2>6. ordered' \in [Sessions -> Seq(SUBSET Nat)]
        /\ \A q \in Sessions : UNION Elements(ordered'[q]) \subseteq Known
    BY <1>0, <2>1, <2>4, <2>5 DEF Shapes
  <2>7. QED
    BY <1>0, <2>1, <2>2, <2>6, QuietStep DEF Shapes, Here
<1>5. CASE UNCHANGED vars
  BY <1>0, <1>5, QuietStep DEF vars, Shapes, Here
<1>6. QED
  BY <1>1, <1>2, <1>3, <1>4, <1>5, JoinStep, ReplayStep, SendStep, RenameNextStep,
     OrderNextStep, LeaveStep, DropStep DEF Next, Handler

\* The invariant of the hub holds for any sessions, clients, labels and bounds.
THEOREM HubInvariant == Safety => []HubInv
<1>1. QED
  BY InitInv, NextInv, PTL DEF Safety

\* A client that has joined is sent every record of its session's history, by
\* the replay or by a broadcast, and none twice.
THEOREM JoinedOnceWithoutGap == Safety => []OnceWithoutGap
<1>1. HubInv => OnceWithoutGap
  <2> SUFFICES ASSUME HubInv PROVE OnceWithoutGap
    OBVIOUS
  <2>1. TypeOK
    <3>1. /\ \A i \in 1..Len(records) : records[i] \in [seg : Segments, who : Labels]
          /\ Len(records) <= MaxRecords
      BY ElementOfSeq DEF HubInv, Shapes, Records
    <3>2. \A s \in Sessions :
            /\ Elements(history[s]) \subseteq 1..Len(records) /\ Len(history[s]) <= MaxHistory
            /\ UNION Elements(ordered[s]) \subseteq 1..Len(records)
      BY DEF HubInv, Shapes, Named, Known
    <3>3. \A c \in Clients : Elements(replay[c]) \cup owed[c] \cup Elements(got[c])
                               \subseteq 1..Len(records)
      BY DEF HubInv, Named, Known
    <3>4. ASSUME NEW c \in Clients PROVE Elements(queued[c]) \subseteq Messages
      <4>1. queued[c] \in Seq(Messages)
        BY DEF HubInv, Shapes
      <4>2. QED
        BY <4>1, ElementOfSeq DEF Elements
    <3>5. QED
      BY <3>1, <3>2, <3>3, <3>4 DEF TypeOK, HubInv, Shapes, States
  <2>2. ASSUME NEW c \in Clients
        PROVE  LET all == got[c] \o Coming(c) IN
               /\ Here(c) => Elements(history[sess[c]]) \subseteq Elements(all)
               /\ \A i, j \in 1..Len(all) : all[i] = all[j] => i = j
    <3> DEFINE g == got[c]
               r == replay[c]
               w == Waiting(queued[c])
    <3>1. g \in Seq(Nat) /\ r \in Seq(Nat) /\ queued[c] \in Seq(Messages)
      BY DEF HubInv, Shapes
    <3>2. w \in Seq(Nat)
      <4>1. CASE queued[c] = <<>>
        BY <4>1, EmptySeq DEF Waiting
      <4>2. CASE queued[c] # <<>>
        BY <3>1, <4>2, WaitsNoMore, WaitsFor
      <4>3. QED
        BY <4>1, <4>2
    <3>3. Coming(c) = r \o w
      BY DEF Coming, Waiting
    <3>4. /\ Distinct(g) /\ Distinct(r) /\ Distinct(w)
          /\ Elements(g) \cap Elements(r) = {} /\ Elements(g) \cap Elements(w) = {}
          /\ Elements(r) \cap Elements(w) = {}
      BY DEF HubInv, Apart
    <3>5. Here(c) => Elements(history[sess[c]]) \subseteq Elements(g) \cup Elements(r) \cup Elements(w)
      BY DEF HubInv, Whole
    <3> HIDE DEF g, r, w
    <3>6. r \o w \in Seq(Nat) /\ Elements(r \o w) = Elements(r) \cup Elements(w) /\ Distinct(r \o w)
      BY <3>1, <3>2, <3>4, Together
    <3> DEFINE v == r \o w
    <3>7. v = r \o w
      OBVIOUS
    <3> HIDE DEF v
    <3>8. /\ Elements(g \o v) = Elements(g) \cup Elements(r) \cup Elements(w)
          /\ Distinct(g \o v)
      <4>1. v \in Seq(Nat) /\ Distinct(v) /\ Elements(g) \cap Elements(v) = {}
        BY <3>4, <3>6, <3>7
      <4>2. Elements(g \o v) = Elements(g) \cup Elements(v) /\ Distinct(g \o v)
        BY <3>1, <3>4, <4>1, Together
      <4>3. QED
        BY <3>6, <3>7, <4>2
    <3>9. got[c] \o Coming(c) = g \o v
      BY <3>3, <3>7 DEF g
    <3>10. QED
      BY <3>5, <3>8, <3>9 DEF Distinct
  <2>3. QED
    BY <2>1, <2>2 DEF OnceWithoutGap
<1>2. QED
  BY <1>1, HubInvariant, PTL
-----------------------------------------------------------------------------
(* What the viewers show.                                                     *)

\* A history is in the order of the records, and no record is in two.
Orderly ==
  /\ \A s \in Sessions : Ascending(history[s])
  /\ \A s, t \in Sessions : s # t => Elements(history[s]) \cap Elements(history[t]) = {}

\* Only a client that renames has records to publish.
Owing == \A c \in Clients : state[c] # "renaming" => owed[c] = {}

\* What a client was sent, or is to be, is in its session's history, or older
\* than all that is there.
Held(c) == Elements(got[c]) \cup Elements(replay[c]) \cup Elements(Waiting(queued[c]))
Placed(c) ==
  Here(c) => \A j \in Held(c) : \/ j \in Elements(history[sess[c]])
                                \/ \A k \in Elements(history[sess[c]]) : j < k

\* A record that a rename of the session has still to publish, and one that
\* none has and that is the newest of its utterance.
Due(s, i) ==
  \/ \E hit \in Elements(ordered[s]) : i \in hit
  \/ \E c \in Clients : sess[c] = s /\ i \in owed[c]
Newest(s, i) ==
  /\ i \in Elements(history[s])
  /\ \A k \in Elements(history[s]) : records[k].seg = records[i].seg => k <= i
Told(s, i) == Newest(s, i) /\ ~Due(s, i)

\* A scheduled send carries a copy of its record, stale only if the record is
\* due again or superseded; and so is what a client shows, if it was sent the
\* records in order.
Copied(c) ==
  \A m \in Elements(queued[c]) :
    /\ m.seg = records[m.id].seg
    /\ Here(c) /\ Told(sess[c], m.id) => m.who = records[m.id].who
Shows(c) ==
  Here(c) /\ Ascending(got[c]) =>
    \A i \in Elements(got[c]) :
      Told(sess[c], i) => shown[c][records[i].seg] = records[i].who

LabelInv == Orderly /\ Owing /\ \A c \in Clients : Placed(c) /\ Copied(c) /\ Shows(c)

\* A larger record at the end, and the history trimmed: it is in order, what was
\* there before is there or older than all that is, and the new record is.
LEMMA InOrder ==
  ASSUME NEW h \in Seq(Nat), NEW id \in Nat, Ascending(h), \A j \in Elements(h) : j < id
  PROVE  LET t == Trimmed(Append(h, id)) IN
         /\ Ascending(t) /\ id \in Elements(t) /\ Elements(t) \subseteq Elements(h) \cup {id}
         /\ \A j \in Elements(h) : j \in Elements(t) \/ \A k \in Elements(t) : j < k
<1> DEFINE a == Append(h, id)
           n == Len(h)
<1> USE HistoryAssumption
<1>1. /\ a \in Seq(Nat) /\ Len(a) = n + 1 /\ n \in Nat /\ a[n + 1] = id
      /\ \A i \in 1..n : a[i] = h[i] /\ h[i] < id /\ h[i] \in Nat
  <2>1. \A i \in 1..n : h[i] \in Elements(h) /\ h[i] \in Nat
    BY ElementOfSeq DEF Elements
  <2>2. QED
    BY <2>1, AppendProperties, LenProperties
<1>2. Elements(a) = Elements(h) \cup {id}
  BY Grown
<1> HIDE DEF a
<1>3. \A i \in 1..n + 1 : a[i] \in Nat
  BY <1>1, ElementOfSeq
<1>4. ASSUME NEW i \in 1..n + 1, NEW j \in 1..n + 1, i < j PROVE a[i] < a[j]
  <2>1. i \in 1..n
    BY <1>1, <1>4
  <2>2. CASE j = n + 1
    BY <1>1, <2>1, <2>2
  <2>3. CASE j \in 1..n
    BY <1>1, <1>4, <2>1, <2>3 DEF Ascending
  <2>4. QED
    BY <1>1, <2>2, <2>3
<1>5. CASE ~(Len(a) > MaxHistory)
  <2>1. Trimmed(a) = a /\ Ascending(a)
    BY <1>1, <1>4, <1>5 DEF Trimmed, Ascending
  <2>2. QED
    BY <1>2, <2>1 DEF a
<1>6. CASE Len(a) > MaxHistory
  <2> DEFINE m == Len(a) - TrimTo + 1
             t == SubSeq(a, m, Len(a))
  <2>1. Len(a) \in Nat /\ m \in Int /\ m \in 1..Len(a) /\ Len(a) - m + 1 = TrimTo
        /\ m + TrimTo - 1 = n + 1
    BY <1>1, <1>6
  <2>2. \A i \in m..Len(a) : a[i] \in Nat
    BY <1>1, <1>3, <2>1
  <2>3. t \in Seq(Nat) /\ Len(t) = TrimTo /\ \A i \in 1..TrimTo : t[i] = a[m + i - 1]
    <3> HIDE DEF m
    <3>1. QED
      BY <2>1, <2>2, SubSeqProperties
  <2>4. Trimmed(a) = t
    BY <1>6 DEF Trimmed
  <2> HIDE DEF t, m
  <2>5. \A i \in 1..TrimTo : m + i - 1 \in 1..n + 1 /\ m <= m + i - 1
    BY <1>1, <2>1
  <2>6. ASSUME NEW i \in 1..n + 1, m <= i PROVE \E k \in 1..TrimTo : t[k] = a[i]
    <3> DEFINE k == i - m + 1
    <3>1. k \in 1..TrimTo /\ m + k - 1 = i
      BY <1>1, <2>1, <2>6
    <3>2. QED
      BY <2>3, <3>1
  <2>7. Ascending(t)
    <3>1. ASSUME NEW i \in 1..TrimTo, NEW j \in 1..TrimTo, i < j PROVE t[i] < t[j]
      <4>1. m + i - 1 < m + j - 1
        BY <2>1, <3>1
      <4>2. QED
        BY <1>4, <2>3, <2>5, <4>1
    <3>2. QED
      BY <2>3, <3>1 DEF Ascending
  <2>8. id \in Elements(t)
    <3>1. n + 1 \in 1..n + 1 /\ m <= n + 1
      BY <1>1, <2>1
    <3>2. QED
      BY <1>1, <2>3, <2>6, <3>1 DEF Elements
  <2>9. Elements(t) \subseteq Elements(a)
    BY <1>1, <2>3, <2>5 DEF Elements
  <2>10. ASSUME NEW j \in Elements(h) PROVE j \in Elements(t) \/ \A k \in Elements(t) : j < k
    <3>1. PICK i \in 1..n : j = h[i]
      BY DEF Elements
    <3>2. i \in 1..n + 1 /\ a[i] = j
      BY <1>1, <3>1
    <3>3. CASE m <= i
      BY <2>3, <2>6, <3>2, <3>3 DEF Elements
    <3>4. CASE ~(m <= i)
      <4>1. \A k \in 1..TrimTo : i < m + k - 1
        BY <2>1, <2>5, <3>2, <3>4
      <4>2. \A k \in 1..TrimTo : j < t[k]
        BY <1>4, <2>3, <2>5, <3>2, <4>1
      <4>3. QED
        BY <2>3, <4>2 DEF Elements
    <3>5. QED
      BY <3>3, <3>4
  <2>11. QED
    BY <1>2, <2>4, <2>7, <2>8, <2>9, <2>10 DEF a
<1>7. QED
  BY <1>5, <1>6

\* A scheduled send is of a record that there is.
LEMMA QueuedAreKnown ==
  ASSUME HubInv, NEW c \in Clients, NEW m \in Elements(queued[c])
  PROVE  m \in Messages /\ m.id \in Known /\ m.id \in Elements(Waiting(queued[c]))
<1>1. queued[c] \in Seq(Messages) /\ Elements(Waiting(queued[c])) \subseteq Known
  BY DEF HubInv, Shapes, Named
<1>2. PICK i \in 1..Len(queued[c]) : m = queued[c][i]
  BY DEF Elements
<1>3. queued[c] # <<>> /\ m \in Messages
  BY <1>1, <1>2, EmptySeq, ElementOfSeq
<1>4. Len(Waiting(queued[c])) = Len(queued[c]) /\ Waiting(queued[c])[i] = m.id
  <2>1. \A k \in 1..Len(queued[c]) : queued[c][k] \in Messages
    BY <1>1, ElementOfSeq
  <2>2. \A e \in Messages : e.id \in Nat
    BY RecordsAssumption DEF Messages, Ids
  <2>3. QED
    BY <1>1, <1>2, <2>1, <2>2, IsASeq, LenProperties DEF Waiting
<1>5. QED
  BY <1>1, <1>2, <1>3, <1>4 DEF Elements

\* A step that sends nothing, and tells no record that was not told or changed.
LEMMA SameSent ==
  ASSUME HubInv, LabelInv, Owing',
         UNCHANGED <<history, sess, replay, queued, got, shown>>,
         \A c \in Clients : Here(c)' = Here(c),
         \A i \in Known : records'[i].seg = records[i].seg,
         \A s \in Sessions, i \in Known : Told(s, i)' => Told(s, i) /\ records'[i].who = records[i].who
  PROVE  LabelInv'
<1>1. Orderly'
  BY DEF LabelInv, Orderly
<1>2. ASSUME NEW c \in Clients PROVE Placed(c)' /\ Copied(c)' /\ Shows(c)'
  <2>1. sess[c] \in Sessions /\ Elements(got[c]) \subseteq Known /\ Placed(c) /\ Copied(c) /\ Shows(c)
    BY DEF HubInv, Shapes, Named, LabelInv
  <2>2. Placed(c)'
    BY <2>1 DEF Placed, Held
  <2>3. Copied(c)'
    BY <2>1, QueuedAreKnown DEF Copied
  <2>4. Shows(c)'
    BY <2>1 DEF Shows
  <2>5. QED
    BY <2>2, <2>3, <2>4
<1>3. QED
  BY <1>1, <1>2 DEF LabelInv

\* A broadcast, and what it may say of the records that are due: the record it
\* publishes again is superseded by its own copy.
LEMMA BroadcastTells ==
  ASSUME HubInv, LabelInv, NEW s \in Sessions, NEW seg \in Segments, NEW who \in Labels,
         NEW by \in Clients \cup {NoOne}, Broadcast(s, seg, who, by), UNCHANGED clientVars, Owing',
         \A r \in Sessions, i \in Known :
           Due(r, i) => Due(r, i)' \/ (r = s /\ records[i].seg = seg)
  PROVE  LabelInv'
<1> DEFINE id == Len(records) + 1
           m == [id |-> id, seg |-> seg, who |-> who, by |-> by]
<1>1. /\ records' = Append(records, [seg |-> seg, who |-> who])
      /\ history' = [history EXCEPT ![s] = Trimmed(Append(@, id))]
      /\ queued' = [c \in Clients |->
                      IF c \in subs[s] THEN Append(queued[c], m) ELSE queued[c]]
      /\ UNCHANGED <<subs, state, sess, replay, got, shown>>
  BY DEF Broadcast, clientVars
<1>2. /\ id \in Nat /\ \A i \in Known : i < id /\ i \in Nat /\ records'[i] = records[i]
      /\ records'[id] = [seg |-> seg, who |-> who]
  <2>1. records \in Seq(Records) /\ Len(records) \in Nat
    BY LenProperties DEF HubInv, Shapes
  <2>2. [seg |-> seg, who |-> who] \in Records
    BY DEF Records
  <2>3. /\ \A i \in 1..Len(records) : records'[i] = records[i]
        /\ records'[Len(records) + 1] = [seg |-> seg, who |-> who]
    BY <1>1, <2>1, <2>2, AppendProperties
  <2>4. QED
    BY <2>1, <2>3 DEF Known
<1>3. m.id = id /\ m.seg = seg /\ m.who = who
  OBVIOUS
<1> HIDE DEF id, m
<1>4. /\ \A r \in Sessions : Elements(history[r]) \subseteq Known
      /\ \A r \in Sessions \ {s} : history'[r] = history[r]
      /\ \A c \in Clients : sess[c] \in Sessions /\ Held(c) \subseteq Known /\ Here(c)' = Here(c)
  BY <1>1 DEF HubInv, Shapes, Named, Held, Here
<1>5. /\ Ascending(history'[s]) /\ id \in Elements(history'[s])
      /\ Elements(history'[s]) \subseteq Elements(history[s]) \cup {id}
      /\ \A j \in Elements(history[s]) :
           j \in Elements(history'[s]) \/ \A k \in Elements(history'[s]) : j < k
  <2> DEFINE h == history[s]
  <2>1. h \in Seq(Nat) /\ Ascending(h) /\ \A j \in Elements(h) : j < id
    BY <1>2, <1>4 DEF HubInv, Shapes, LabelInv, Orderly
  <2>2. history'[s] = Trimmed(Append(h, id))
    BY <1>1 DEF HubInv, Shapes
  <2> HIDE DEF h
  <2>3. QED
    BY <1>2, <2>1, <2>2, InOrder DEF h
<1>6. Orderly'
  <2>1. \A r \in Sessions : Ascending(history'[r])
    BY <1>4, <1>5 DEF LabelInv, Orderly
  <2>2. id \notin Known
    BY <1>2
  <2>3. ASSUME NEW r \in Sessions, NEW t \in Sessions, r # t
        PROVE  Elements(history'[r]) \cap Elements(history'[t]) = {}
    <3>1. Elements(history[r]) \cap Elements(history[t]) = {}
      BY <2>3 DEF LabelInv, Orderly
    <3>2. CASE r = s
      BY <1>4, <1>5, <2>2, <2>3, <3>1, <3>2
    <3>3. CASE t = s
      BY <1>4, <1>5, <2>2, <2>3, <3>1, <3>3
    <3>4. CASE r # s /\ t # s
      BY <1>4, <3>1, <3>4
    <3>5. QED
      BY <3>2, <3>3, <3>4
  <2>4. QED
    BY <2>1, <2>3 DEF Orderly
<1>7. ASSUME NEW r \in Sessions, NEW i \in Known, Told(r, i)' PROVE Told(r, i)
  <2>1. /\ i \in Elements(history'[r]) /\ ~Due(r, i)'
        /\ \A k \in Elements(history'[r]) : records'[k].seg = records'[i].seg => k <= i
    BY <1>7 DEF Told, Newest
  <2>2. i \in Elements(history[r]) /\ i < id
    BY <1>2, <1>4, <1>5, <2>1
  <2>3. CASE r # s
    <3>1. \A k \in Elements(history[r]) : records[k].seg = records[i].seg => k <= i
      BY <1>2, <1>4, <2>1, <2>3
    <3>2. QED
      BY <2>1, <2>2, <2>3, <3>1 DEF Told, Newest
  <2>4. CASE r = s
    <3>1. records[i].seg # seg
      <4>1. ~(id <= i)
        BY <1>2, <2>2
      <4>2. QED
        BY <1>2, <1>5, <2>1, <2>4, <4>1
    <3>2. ASSUME NEW k \in Elements(history[s]), records[k].seg = records[i].seg PROVE k <= i
      <4>1. k \in Known /\ k \in Nat /\ i \in Nat
        BY <1>2, <1>4
      <4>2. CASE k \in Elements(history'[s])
        BY <1>2, <2>1, <2>4, <3>2, <4>1, <4>2
      <4>3. CASE \A l \in Elements(history'[s]) : k < l
        BY <2>1, <2>4, <4>1, <4>3
      <4>4. QED
        BY <1>5, <4>2, <4>3
    <3>3. QED
      BY <2>1, <2>2, <2>4, <3>1, <3>2 DEF Told, Newest
  <2>5. QED
    BY <2>3, <2>4
<1>8. m \in Messages
  BY <1>2, RecordsAssumption DEF Broadcast, Messages, Ids, id, m
<1>9. ASSUME NEW c \in Clients
      PROVE  /\ Held(c)' = Held(c) \cup (IF c \in subs[s] THEN {id} ELSE {})
             /\ Elements(queued'[c]) = Elements(queued[c]) \cup (IF c \in subs[s] THEN {m} ELSE {})
  <2>1. queued[c] \in Seq(Messages)
    BY DEF HubInv, Shapes
  <2>2. CASE c \in subs[s]
    <3> DEFINE w == Waiting(queued[c])
    <3>1. queued'[c] = Append(queued[c], m)
      BY <1>1, <2>2
    <3>2. w \in Seq(Nat) /\ Waiting(queued'[c]) = Append(w, id)
          /\ Elements(queued'[c]) = Elements(queued[c]) \cup {m}
      BY <1>3, <1>8, <2>1, <3>1, WaitsFor, Grown
    <3> HIDE DEF w
    <3>3. Elements(Append(w, id)) = Elements(w) \cup {id}
      BY <1>2, <3>2, Grown
    <3>4. QED
      BY <1>1, <2>2, <3>2, <3>3 DEF Held, w
  <2>3. CASE c \notin subs[s]
    BY <1>1, <2>3 DEF Held
  <2>4. QED
    BY <2>2, <2>3
<1>10. ASSUME NEW c \in Clients PROVE Placed(c)' /\ Copied(c)' /\ Shows(c)'
  <2> DEFINE r == sess[c]
  <2>1. /\ r \in Sessions /\ Placed(c) /\ Copied(c) /\ Shows(c) /\ sess'[c] = r
        /\ Elements(got[c]) \subseteq Known /\ (c \in subs[s] => r = s)
    BY <1>1, <1>4 DEF HubInv, Named, Subscribed, LabelInv
  <2>2. Placed(c)'
    <3> SUFFICES ASSUME Here(c), NEW j \in Held(c)'
                 PROVE  \/ j \in Elements(history'[r])
                        \/ \A k \in Elements(history'[r]) : j < k
      BY <1>4, <2>1 DEF Placed
    <3>1. CASE j \in Held(c)
      <4>1. j \in Elements(history[r]) \/ \A k \in Elements(history[r]) : j < k
        BY <2>1, <3>1 DEF Placed
      <4>2. j < id
        BY <1>2, <1>4, <3>1
      <4>3. QED
        BY <1>4, <1>5, <2>1, <4>1, <4>2
    <3>2. CASE j \notin Held(c)
      BY <1>5, <1>9, <2>1, <3>2
    <3>3. QED
      BY <3>1, <3>2
  <2>3. Copied(c)'
    <3> SUFFICES ASSUME NEW e \in Elements(queued'[c])
                 PROVE  /\ e.seg = records'[e.id].seg
                        /\ Here(c) /\ Told(r, e.id)' => e.who = records'[e.id].who
      BY <1>4, <2>1 DEF Copied
    <3>1. CASE e \in Elements(queued[c])
      <4>1. e.id \in Known /\ records'[e.id] = records[e.id]
        BY <1>2, <3>1, QueuedAreKnown
      <4>2. Told(r, e.id)' => Told(r, e.id)
        BY <1>7, <2>1, <4>1
      <4>3. QED
        BY <2>1, <3>1, <4>1, <4>2 DEF Copied
    <3>2. CASE e \notin Elements(queued[c])
      BY <1>2, <1>3, <1>9, <3>2
    <3>3. QED
      BY <3>1, <3>2
  <2>4. Shows(c)'
    <3> SUFFICES ASSUME Here(c), Ascending(got[c]), NEW i \in Elements(got[c]), Told(r, i)'
                 PROVE  shown[c][records'[i].seg] = records'[i].who
      BY <1>1, <1>4, <2>1 DEF Shows
    <3>1. i \in Known /\ records'[i] = records[i]
      BY <1>2, <2>1
    <3>2. Told(r, i)
      BY <1>7, <2>1, <3>1
    <3>3. QED
      BY <2>1, <3>1, <3>2 DEF Shows
  <2>5. QED
    BY <2>2, <2>3, <2>4
<1>11. QED
  BY <1>6, <1>10 DEF LabelInv

\* What a client is sent last is what it shows; and if it had everything else
\* before, in order, no older record of the utterance was told.
LEMMA ReceiveTells ==
  ASSUME HubInv, LabelInv, NEW c \in Clients, Here(c), NEW id \in Known,
         id \in Held(c), NEW seg \in Segments, NEW who \in Labels,
         Receive(c, id, seg, who), seg = records[id].seg,
         Told(sess[c], id) => who = records[id].who,
         UNCHANGED <<records, history, state, sess, owed, ordered>>
  PROVE  Shows(c)'
<1> DEFINE r == sess[c]
           g == got[c]
<1>1. /\ g \in Seq(Nat) /\ got'[c] = Append(g, id) /\ Elements(g) \subseteq Known
      /\ shown[c] \in [Segments -> Labels \cup {NoLabel}]
      /\ shown'[c] = [shown[c] EXCEPT ![seg] = who]
  BY DEF HubInv, Shapes, Named, Receive
<1>2. id \in Nat /\ Known \subseteq Nat /\ \A i \in Known : records[i].seg \in Segments
  <2>1. \A i \in Known : records[i] \in Records
    BY ElementOfSeq DEF HubInv, Shapes, Known
  <2>2. \A i \in Known : records[i].seg \in Segments
    BY <2>1 DEF Records
  <2>3. Known \subseteq Nat
    BY DEF Known
  <2>4. QED
    BY <2>2, <2>3
<1>3. Placed(c) /\ Shows(c)
  BY DEF LabelInv
<1> SUFFICES ASSUME Ascending(got'[c]), NEW i \in Elements(got'[c]), Told(r, i)
             PROVE  shown'[c][records[i].seg] = records[i].who
  BY DEF Shows, Told, Newest, Due, Here
<1> HIDE DEF g
<1>4. /\ Len(g) \in Nat /\ Len(got'[c]) = Len(g) + 1 /\ got'[c][Len(g) + 1] = id
      /\ \A k \in 1..Len(g) : got'[c][k] = g[k]
      /\ Elements(got'[c]) = Elements(g) \cup {id}
  BY <1>1, <1>2, AppendProperties, LenProperties, Grown
<1>5. Ascending(g) /\ \A k \in Elements(g) : k < id
  <2>1. ASSUME NEW k \in 1..Len(g), NEW l \in 1..Len(g), k < l PROVE g[k] < g[l]
    <3>1. k \in 1..Len(g) + 1 /\ l \in 1..Len(g) + 1
      BY <1>4
    <3>2. QED
      BY <1>4, <2>1, <3>1 DEF Ascending
  <2>2. ASSUME NEW k \in 1..Len(g) PROVE g[k] < id
    <3>1. k \in 1..Len(g) + 1 /\ Len(g) + 1 \in 1..Len(g) + 1 /\ k < Len(g) + 1
      BY <1>4
    <3>2. QED
      BY <1>4, <3>1 DEF Ascending
  <2>3. QED
    BY <2>1, <2>2 DEF Ascending, Elements
<1>6. CASE i = id
  BY <1>1, <1>2, <1>6
<1>7. CASE i # id
  <2>1. i \in Elements(g) /\ i < id /\ i \in Known
    BY <1>1, <1>4, <1>5, <1>7
  <2>2. shown[c][records[i].seg] = records[i].who
    BY <1>3, <1>5, <2>1 DEF Shows, g
  <2>3. records[i].seg # seg
    <3>1. i \in Elements(history[r]) /\ \A k \in Elements(history[r]) : records[k].seg = records[i].seg => k <= i
      BY DEF Told, Newest
    <3>2. id \in Elements(history[r]) \/ id < i
      BY <1>3, <3>1 DEF Placed
    <3>3. ~(id < i) /\ ~(id <= i)
      BY <1>2, <2>1
    <3>4. QED
      BY <3>1, <3>2, <3>3
  <2>4. QED
    BY <1>1, <1>2, <2>1, <2>2, <2>3
<1>8. QED
  BY <1>6, <1>7

\* A turn of the replay: the record as it is now.
LEMMA ReplayTells == ASSUME HubInv, LabelInv, NEW c \in Clients, ReplayNext(c) PROVE LabelInv'
<1> DEFINE i == Head(replay[c])
<1>1. /\ state[c] = "replaying" /\ replay[c] # <<>> /\ Receive(c, i, records[i].seg, records[i].who)
      /\ replay' = [replay EXCEPT ![c] = Tail(@)]
      /\ UNCHANGED <<records, history, subs, state, sess, owed, queued, ordered>>
  BY DEF ReplayNext
<1>2. replay[c] \in Seq(Nat) /\ got[c] \in Seq(Nat) /\ Elements(replay[c]) \subseteq Known
  BY DEF HubInv, Shapes, Named
<1>3. i \in Nat /\ Elements(replay[c]) = {i} \cup Elements(Tail(replay[c]))
  BY <1>1, <1>2, Shrunk
<1>4. i \in Known /\ i \in Held(c) /\ records[i] \in Records /\ Here(c)
  BY <1>1, <1>2, <1>3, ElementOfSeq DEF HubInv, Shapes, Known, Held, Here
<1> HIDE DEF i
<1>5. /\ got'[c] = Append(got[c], i) /\ replay'[c] = Tail(replay[c])
      /\ \A d \in Clients \ {c} : got'[d] = got[d] /\ shown'[d] = shown[d] /\ replay'[d] = replay[d]
  BY <1>1 DEF Receive, HubInv, Shapes
<1>6. Elements(got'[c]) = Elements(got[c]) \cup {i}
  <2>1. Elements(Append(got[c], i)) = Elements(got[c]) \cup {i}
    BY <1>2, <1>3, Grown
  <2>2. QED
    BY <1>5, <2>1
<1>7. \A d \in Clients : Held(d)' = Held(d)
  BY <1>1, <1>3, <1>5, <1>6 DEF Held
<1>8. Orderly' /\ Owing'
  BY <1>1 DEF LabelInv, Orderly, Owing
<1>9. ASSUME NEW d \in Clients PROVE Placed(d)' /\ Copied(d)'
  <2>1. Placed(d) /\ Copied(d)
    BY DEF LabelInv
  <2>2. Placed(d)'
    BY <1>1, <1>7, <2>1 DEF Placed, Here
  <2>3. Copied(d)'
    BY <1>1, <2>1 DEF Copied, Here, Told, Newest, Due
  <2>4. QED
    BY <2>2, <2>3
<1>10. Shows(c)'
  BY <1>1, <1>4, ReceiveTells DEF Records
<1>11. \A d \in Clients \ {c} : Shows(d)'
  BY <1>1, <1>5 DEF LabelInv, Shows, Here, Told, Newest, Due
<1>12. QED
  BY <1>8, <1>9, <1>10, <1>11 DEF LabelInv

\* A scheduled send: the copy that was made of the record.
LEMMA SendTells == ASSUME HubInv, LabelInv, NEW c \in Clients, SendNext(c) PROVE LabelInv'
<1> DEFINE m == Head(queued[c])
           w == Waiting(queued[c])
<1>1. /\ queued[c] # <<>> /\ queued' = [queued EXCEPT ![c] = Tail(@)]
      /\ IF state[c] = "gone" THEN UNCHANGED <<got, shown>> ELSE Receive(c, m.id, m.seg, m.who)
      /\ UNCHANGED <<records, history, subs, state, sess, replay, owed, ordered>>
  BY DEF SendNext
<1>2. queued[c] \in Seq(Messages) /\ got[c] \in Seq(Nat) /\ state[c] \in States /\ state[c] # "away"
  BY <1>1 DEF HubInv, Shapes, Subscribed
<1>3. /\ m \in Elements(queued[c]) /\ Elements(Tail(queued[c])) \subseteq Elements(queued[c])
      /\ w # <<>> /\ Head(w) = m.id /\ Waiting(Tail(queued[c])) = Tail(w)
  BY <1>1, <1>2, Shrunk, WaitsNoMore
<1>4. m \in Messages /\ m.id \in Known /\ m.id \in Elements(w) /\ m.id \in Nat
  BY <1>3, QueuedAreKnown, RecordsAssumption DEF Messages, Ids
<1>5. w \in Seq(Nat)
  BY <1>2, <1>4, WaitsFor
<1> HIDE DEF w, m
<1>6. Elements(Tail(w)) \subseteq Elements(w)
  BY <1>3, <1>5, Shrunk
<1>7. /\ \A d \in Clients \ {c} : got'[d] = got[d] /\ shown'[d] = shown[d] /\ queued'[d] = queued[d]
      /\ queued'[c] = Tail(queued[c])
      /\ got'[c] = got[c] \/ got'[c] = Append(got[c], m.id)
  BY <1>1 DEF Receive, HubInv, Shapes
<1>8. Elements(got'[c]) \subseteq Elements(got[c]) \cup {m.id}
  <2>1. Elements(Append(got[c], m.id)) = Elements(got[c]) \cup {m.id}
    BY <1>2, <1>4, Grown
  <2>2. QED
    BY <1>7, <2>1
<1>9. \A d \in Clients : Held(d)' \subseteq Held(d) /\ Elements(queued'[d]) \subseteq Elements(queued[d])
  <2>1. Held(c)' \subseteq Held(c) /\ Elements(queued'[c]) \subseteq Elements(queued[c])
    BY <1>1, <1>3, <1>4, <1>6, <1>7, <1>8 DEF Held, w
  <2>2. \A d \in Clients \ {c} : Held(d)' = Held(d) /\ queued'[d] = queued[d]
    BY <1>1, <1>7 DEF Held
  <2>3. QED
    BY <2>1, <2>2
<1>10. Orderly' /\ Owing'
  BY <1>1 DEF LabelInv, Orderly, Owing
<1>11. ASSUME NEW d \in Clients PROVE Placed(d)' /\ Copied(d)'
  <2>1. Placed(d) /\ Copied(d)
    BY DEF LabelInv
  <2>2. Placed(d)'
    BY <1>1, <1>9, <2>1 DEF Placed, Here
  <2>3. Copied(d)'
    BY <1>1, <1>9, <2>1 DEF Copied, Here, Told, Newest, Due
  <2>4. QED
    BY <2>2, <2>3
<1>12. Shows(c)'
  <2>1. CASE state[c] = "gone"
    BY <1>1, <2>1 DEF Shows, Here
  <2>2. CASE state[c] # "gone"
    <3>1. Here(c) /\ m.id \in Held(c) /\ Copied(c)
      BY <1>2, <1>4, <2>2 DEF Here, States, Held, LabelInv, w
    <3>2. m.seg = records[m.id].seg /\ (Told(sess[c], m.id) => m.who = records[m.id].who)
      BY <1>3, <3>1 DEF Copied
    <3>3. m.seg \in Segments /\ m.who \in Labels
      BY <1>4 DEF Messages
    <3>4. QED
      BY <1>1, <1>4, <2>2, <3>1, <3>2, <3>3, ReceiveTells
  <2>3. QED
    BY <2>1, <2>2
<1>13. \A d \in Clients \ {c} : Shows(d)'
  BY <1>1, <1>7 DEF LabelInv, Shows, Here, Told, Newest, Due
<1>14. QED
  BY <1>10, <1>11, <1>12, <1>13 DEF LabelInv

\* A client that joins has nothing but the history to replay.
LEMMA JoinTells == ASSUME HubInv, LabelInv, NEW c \in Clients, Join(c) PROVE LabelInv'
<1>1. /\ state[c] = "away" /\ state' = [state EXCEPT ![c] = "replaying"]
      /\ replay' = [replay EXCEPT ![c] = history[sess[c]]]
      /\ UNCHANGED <<records, history, sess, owed, queued, got, shown, ordered>>
  BY DEF Join
<1>2. got[c] = <<>> /\ queued[c] = <<>> /\ Elements(<<>>) = {} /\ Waiting(<<>>) = <<>>
  BY <1>1, EmptySeq DEF HubInv, Subscribed, Elements, Waiting
<1>3. Orderly' /\ Owing'
  BY <1>1 DEF LabelInv, Orderly, Owing, HubInv, Shapes
<1>4. Placed(c)' /\ Copied(c)' /\ Shows(c)'
  BY <1>1, <1>2 DEF HubInv, Shapes, Placed, Held, Copied, Shows
<1>5. ASSUME NEW d \in Clients \ {c} PROVE Placed(d)' /\ Copied(d)' /\ Shows(d)'
  <2>1. Placed(d) /\ Copied(d) /\ Shows(d) /\ Here(d)' = Here(d) /\ replay'[d] = replay[d]
    BY <1>1 DEF LabelInv, Here, HubInv, Shapes
  <2>2. Placed(d)'
    BY <1>1, <2>1 DEF Placed, Held
  <2>3. Copied(d)' /\ Shows(d)'
    BY <1>1, <2>1 DEF Copied, Shows, Told, Newest, Due
  <2>4. QED
    BY <2>2, <2>3
<1>6. QED
  BY <1>3, <1>4, <1>5 DEF LabelInv

\* A client that leaves need show nothing.
LEMMA LeaveTells == ASSUME HubInv, LabelInv, NEW c \in Clients, Leave(c) PROVE LabelInv'
<1>1. /\ state[c] \in {"replaying", "live"} /\ state' = [state EXCEPT ![c] = "gone"]
      /\ replay' = [replay EXCEPT ![c] = <<>>]
      /\ UNCHANGED <<records, history, sess, owed, queued, got, shown, ordered>>
  BY DEF Leave
<1>2. Orderly' /\ Owing'
  BY <1>1 DEF LabelInv, Orderly, Owing, HubInv, Shapes
<1>3. ~Here(c)'
  BY <1>1 DEF Here, HubInv, Shapes
<1>4. Placed(c)' /\ Shows(c)'
  BY <1>3 DEF Placed, Shows
<1>5. Copied(c)'
  BY <1>1, <1>3 DEF LabelInv, Copied
<1>6. ASSUME NEW d \in Clients \ {c} PROVE Placed(d)' /\ Copied(d)' /\ Shows(d)'
  <2>1. Placed(d) /\ Copied(d) /\ Shows(d) /\ Here(d)' = Here(d) /\ replay'[d] = replay[d]
    BY <1>1 DEF LabelInv, Here, HubInv, Shapes
  <2>2. Placed(d)'
    BY <1>1, <2>1 DEF Placed, Held
  <2>3. Copied(d)' /\ Shows(d)'
    BY <1>1, <2>1 DEF Copied, Shows, Told, Newest, Due
  <2>4. QED
    BY <2>2, <2>3
<1>7. QED
  BY <1>2, <1>4, <1>5, <1>6 DEF LabelInv

\* A history that is dropped tells nothing.
LEMMA DropTells == ASSUME HubInv, LabelInv, NEW s \in Sessions, Drop(s) PROVE LabelInv'
<1>1. /\ history' = [history EXCEPT ![s] = <<>>]
      /\ UNCHANGED <<records, subs, state, sess, replay, got, shown, owed, queued, ordered>>
  BY DEF Drop, clientVars
<1>2. history'[s] = <<>> /\ Elements(<<>>) = {} /\ Len(<<>>) = 0
      /\ \A r \in Sessions \ {s} : history'[r] = history[r]
  BY <1>1, EmptySeq DEF Elements, HubInv, Shapes
<1>3. Orderly' /\ Owing'
  <2>1. Owing'
    BY <1>1 DEF LabelInv, Owing
  <2>2. \A r \in Sessions : Ascending(history'[r])
    <3>1. Ascending(history'[s])
      BY <1>2 DEF Ascending
    <3>2. QED
      BY <1>2, <3>1 DEF LabelInv, Orderly
  <2>3. \A r, t \in Sessions : r # t => Elements(history'[r]) \cap Elements(history'[t]) = {}
    BY <1>2 DEF LabelInv, Orderly
  <2>4. QED
    BY <2>1, <2>2, <2>3 DEF Orderly
<1>4. ASSUME NEW c \in Clients PROVE Placed(c)' /\ Copied(c)' /\ Shows(c)'
  <2>1. Placed(c) /\ Copied(c) /\ Shows(c) /\ sess[c] \in Sessions
    BY DEF LabelInv, HubInv, Shapes
  <2>2. Placed(c)'
    BY <1>1, <1>2, <2>1 DEF Placed, Held, Here
  <2>3. \A i : Told(sess[c], i)' => Told(sess[c], i)
    BY <1>1, <1>2, <2>1 DEF Told, Newest, Due
  <2>4. Copied(c)' /\ Shows(c)'
    BY <1>1, <2>1, <2>3 DEF Copied, Shows, Here
  <2>5. QED
    BY <2>2, <2>4
<1>5. QED
  BY <1>3, <1>4 DEF LabelInv

\* A rename rewrites a record only when it makes it due.
LEMMA RewriteTells ==
  ASSUME HubInv, LabelInv, Owing', NEW s \in Sessions, NEW old \in Labels, NEW new \in Labels,
         records' = Rewritten(s, old, new),
         UNCHANGED <<history, sess, replay, queued, got, shown>>,
         \A c \in Clients : Here(c)' = Here(c),
         \A r \in Sessions, i \in Known : Due(r, i) => Due(r, i)',
         \A i \in Carrying(s, old) : Due(s, i)'
  PROVE  LabelInv'
<1>1. ASSUME NEW i \in Known
      PROVE  /\ records'[i].seg = records[i].seg
             /\ i \notin Carrying(s, old) => records'[i] = records[i]
  <2>1. records[i] \in Records
    BY ElementOfSeq DEF HubInv, Shapes, Known
  <2>2. records'[i] = IF i \in Carrying(s, old) THEN [records[i] EXCEPT !.who = new] ELSE records[i]
    BY DEF Rewritten, Known
  <2>3. QED
    BY <2>1, <2>2 DEF Records
<1>2. \A r \in Sessions : Elements(history[r]) \subseteq Known
  BY DEF HubInv, Named
<1>3. ASSUME NEW r \in Sessions, NEW i \in Known, Told(r, i)'
      PROVE  Told(r, i) /\ records'[i].who = records[i].who
  <2>1. Newest(r, i)' /\ ~Due(r, i)'
    BY <1>3 DEF Told
  <2>2. Newest(r, i)
    BY <1>1, <1>2, <2>1 DEF Newest
  <2>3. i \notin Carrying(s, old)
    <3>1. r # s => Elements(history[r]) \cap Elements(history[s]) = {}
      BY DEF LabelInv, Orderly
    <3>2. QED
      BY <2>1, <2>2, <3>1 DEF Carrying, Newest
  <2>4. QED
    BY <1>1, <2>1, <2>2, <2>3 DEF Told
<1>4. QED
  BY <1>1, <1>3, SameSent

\* A client's rename owes a broadcast of each record it rewrote.
LEMMA RenameTells ==
  ASSUME HubInv, LabelInv, NEW c \in Clients, NEW old \in Labels, NEW new \in Labels,
         Rename(c, old, new)
  PROVE  LabelInv'
<1>1. /\ state[c] = "live" /\ state' = [state EXCEPT ![c] = "renaming"]
      /\ records' = Rewritten(sess[c], old, new)
      /\ owed' = [owed EXCEPT ![c] = Carrying(sess[c], old)]
      /\ UNCHANGED <<history, subs, sess, replay, queued, got, shown, ordered>>
  BY DEF Rename
<1>2. /\ sess[c] \in Sessions /\ owed[c] = {} /\ owed'[c] = Carrying(sess[c], old)
      /\ \A d \in Clients \ {c} : owed'[d] = owed[d] /\ state'[d] = state[d]
      /\ state'[c] = "renaming"
  BY <1>1 DEF HubInv, Shapes, LabelInv, Owing
<1>3. Owing' /\ \A d \in Clients : Here(d)' = Here(d)
  <2>1. ASSUME NEW d \in Clients, state'[d] # "renaming" PROVE owed'[d] = {}
    <3>1. d \in Clients \ {c}
      BY <1>2, <2>1
    <3>2. owed'[d] = owed[d] /\ state'[d] = state[d]
      BY <1>2, <3>1
    <3>3. QED
      BY <2>1, <3>2 DEF LabelInv, Owing
  <2>2. Here(c)' = Here(c)
    BY <1>1, <1>2 DEF Here
  <2>3. \A d \in Clients \ {c} : Here(d)' = Here(d)
    BY <1>2 DEF Here
  <2>4. QED
    BY <2>1, <2>2, <2>3 DEF Owing
<1>4. \A r \in Sessions, i \in Known : Due(r, i) => Due(r, i)'
  BY <1>1, <1>2 DEF Due
<1>5. \A i \in Carrying(sess[c], old) : Due(sess[c], i)'
  BY <1>1, <1>2 DEF Due
<1>6. QED
  BY <1>1, <1>2, <1>3, <1>4, <1>5, RewriteTells

\* So does a rename from /ws/ingest.
LEMMA OrderTells ==
  ASSUME HubInv, LabelInv, NEW s \in Sessions, NEW old \in Labels, NEW new \in Labels,
         Order(s, old, new)
  PROVE  LabelInv'
<1> DEFINE all == Append(ordered[s], Carrying(s, old))
<1>1. /\ records' = Rewritten(s, old, new) /\ ordered' = [ordered EXCEPT ![s] = all]
      /\ UNCHANGED <<history, subs, state, sess, replay, got, shown, owed, queued>>
  BY DEF Order, clientVars
<1>2. /\ ordered[s] \in Seq(SUBSET Nat) /\ ordered'[s] = all
      /\ \A r \in Sessions \ {s} : ordered'[r] = ordered[r]
  BY <1>1 DEF HubInv, Shapes
<1>3. Elements(ordered'[s]) = Elements(ordered[s]) \cup {Carrying(s, old)}
  <2>1. Carrying(s, old) \in SUBSET Nat
    BY <1>1, RewriteStep
  <2>2. QED
    BY <1>2, <2>1, Grown
<1>4. Owing' /\ \A d \in Clients : Here(d)' = Here(d)
  BY <1>1 DEF LabelInv, Owing, Here
<1>5. \A r \in Sessions, i \in Known : Due(r, i) => Due(r, i)'
  BY <1>1, <1>2, <1>3 DEF Due
<1>6. \A i \in Carrying(s, old) : Due(s, i)'
  BY <1>3 DEF Due
<1>7. QED
  BY <1>1, <1>4, <1>5, <1>6, RewriteTells

\* A broadcast of a client's rename: the record is due no more, for its copy is
\* newer.
LEMMA RenameNextTells == ASSUME HubInv, LabelInv, NEW c \in Clients, RenameNext(c) PROVE LabelInv'
<1>1. PICK i \in owed[c] : /\ Broadcast(sess[c], records[i].seg, records[i].who, c)
                           /\ owed' = [owed EXCEPT ![c] = @ \ {i}]
  BY DEF RenameNext
<1>2. UNCHANGED <<clientVars, ordered>> /\ sess[c] \in Sessions
  BY DEF RenameNext, HubInv, Shapes
<1>3. records[i] \in Records
  BY ElementOfSeq DEF HubInv, Shapes, Named, Known
<1>4. owed'[c] = owed[c] \ {i} /\ \A d \in Clients \ {c} : owed'[d] = owed[d]
  BY <1>1 DEF HubInv, Shapes
<1>5. Owing'
  BY <1>2, <1>4 DEF LabelInv, Owing, clientVars
<1>6. \A r \in Sessions, k \in Known :
        Due(r, k) => Due(r, k)' \/ (r = sess[c] /\ records[k].seg = records[i].seg)
  BY <1>2, <1>4 DEF Due, clientVars
<1>7. QED
  BY <1>1, <1>2, <1>3, <1>5, <1>6, BroadcastTells DEF Records

\* A sequence with one more at its head.
LEMMA Led ==
  ASSUME NEW S, NEW t \in Seq(S), NEW x \in S
  PROVE  Elements(<<x>> \o t) = {x} \cup Elements(t)
<1> DEFINE v == <<x>> \o t
<1>1. <<x>> \in Seq(S) /\ Len(<<x>>) = 1 /\ <<x>>[1] = x /\ Len(t) \in Nat
  BY LenProperties
<1>2. /\ Len(v) = 1 + Len(t)
      /\ \A k \in 1..1 + Len(t) : v[k] = IF k <= 1 THEN <<x>>[k] ELSE t[k - 1]
  BY <1>1, ConcatProperties
<1> HIDE DEF v
<1>3. v[1] = x /\ 1 \in 1..Len(v)
  BY <1>1, <1>2
<1>4. ASSUME NEW k \in 1..Len(t) PROVE k + 1 \in 1..Len(v) /\ v[k + 1] = t[k]
  <2>1. k + 1 \in 1..1 + Len(t) /\ ~(k + 1 <= 1) /\ (k + 1) - 1 = k
    BY <1>1
  <2>2. QED
    BY <1>2, <2>1
<1>5. ASSUME NEW k \in 1..Len(v), k # 1 PROVE k - 1 \in 1..Len(t) /\ v[k] = t[k - 1]
  BY <1>1, <1>2, <1>5
<1>6. {x} \cup Elements(t) \subseteq Elements(v)
  BY <1>3, <1>4 DEF Elements
<1>7. Elements(v) \subseteq {x} \cup Elements(t)
  BY <1>3, <1>5 DEF Elements
<1>8. QED
  BY <1>6, <1>7 DEF v

\* A broadcast of a rename from /ws/ingest.
LEMMA OrderNextTells == ASSUME HubInv, LabelInv, NEW s \in Sessions, OrderNext(s) PROVE LabelInv'
<1> DEFINE h == Head(ordered[s])
           t == Tail(ordered[s])
<1>1. PICK i \in h :
        /\ Broadcast(s, records[i].seg, records[i].who, NoOne)
        /\ ordered' = [ordered EXCEPT ![s] = IF h = {i} THEN t ELSE <<h \ {i}>> \o t]
  BY DEF OrderNext
<1>2. UNCHANGED <<clientVars, owed>> /\ ordered[s] \in Seq(SUBSET Nat) /\ ordered[s] # <<>>
  BY DEF OrderNext, HubInv, Shapes
<1>3. h \in SUBSET Nat /\ t \in Seq(SUBSET Nat) /\ Elements(ordered[s]) = {h} \cup Elements(t)
  BY <1>2, Shrunk
<1>4. ordered'[s] = (IF h = {i} THEN t ELSE <<h \ {i}>> \o t)
      /\ \A r \in Sessions \ {s} : ordered'[r] = ordered[r]
  BY <1>1 DEF HubInv, Shapes
<1>5. records[i] \in Records
  <2>1. i \in Known
    BY <1>1, <1>3 DEF HubInv, Named
  <2>2. QED
    BY <2>1, ElementOfSeq DEF HubInv, Shapes, Known
<1> HIDE DEF h, t
<1>6. h \ {i} \in SUBSET Nat
  BY <1>3
<1>7. \A hit \in Elements(ordered[s]) :
        \/ hit \in Elements(ordered'[s])
        \/ hit \ {i} \in Elements(ordered'[s])
        \/ hit = {i}
  <2>1. CASE h = {i}
    BY <1>3, <1>4, <2>1
  <2>2. CASE h # {i}
    <3>1. Elements(ordered'[s]) = {h \ {i}} \cup Elements(t)
      BY <1>3, <1>4, <1>6, <2>2, Led
    <3>2. QED
      BY <1>3, <3>1
  <2>3. QED
    BY <2>1, <2>2
<1>8. Owing'
  BY <1>2 DEF LabelInv, Owing, clientVars
<1>9. ASSUME NEW r \in Sessions, NEW k \in Known, Due(r, k)
      PROVE  Due(r, k)' \/ (r = s /\ records[k].seg = records[i].seg)
  <2>1. CASE \E c \in Clients : sess[c] = r /\ k \in owed[c]
    BY <1>2, <2>1 DEF Due, clientVars
  <2>2. ASSUME NEW hit \in Elements(ordered[r]), k \in hit
        PROVE  Due(r, k)' \/ (r = s /\ records[k].seg = records[i].seg)
    <3>1. CASE r = s /\ k # i
      <4>1. \E g \in Elements(ordered'[s]) : k \in g
        BY <1>7, <2>2, <3>1
      <4>2. QED
        BY <3>1, <4>1 DEF Due
    <3>2. CASE r # s
      BY <1>4, <2>2, <3>2 DEF Due
    <3>3. QED
      BY <3>1, <3>2
  <2>3. QED
    BY <1>9, <2>1, <2>2 DEF Due
<1>10. records[i].seg \in Segments /\ records[i].who \in Labels /\ NoOne \in Clients \cup {NoOne}
  BY <1>5 DEF Records
<1>11. Broadcast(s, records[i].seg, records[i].who, NoOne) /\ UNCHANGED clientVars
  BY <1>1, <1>2
<1>12. QED
  BY <1>8, <1>9, <1>10, <1>11, BroadcastTells

\* Nobody shows anything yet.
LEMMA InitLabels == Init => LabelInv
<1> SUFFICES ASSUME Init PROVE LabelInv
  OBVIOUS
<1>1. Elements(<<>>) = {} /\ Waiting(<<>>) = <<>> /\ Len(<<>>) = 0
  BY EmptySeq DEF Elements, Waiting
<1>2. Orderly /\ Owing
  BY <1>1 DEF Init, Orderly, Owing, Ascending
<1>3. \A c \in Clients : Placed(c) /\ Copied(c) /\ Shows(c)
  BY <1>1 DEF Init, Here, Placed, Copied, Shows
<1>4. QED
  BY <1>2, <1>3 DEF LabelInv

\* Every step of the hub and of its handlers keeps what is told and what is due.
LEMMA NextLabels == HubInv /\ LabelInv /\ [Next]_vars => LabelInv'
<1> SUFFICES ASSUME HubInv, LabelInv, [Next]_vars PROVE LabelInv'
  OBVIOUS
<1>1. ASSUME NEW s \in Sessions, NEW seg \in Segments, NEW who \in Labels, Publish(s, seg, who)
      PROVE  LabelInv'
  <2>1. Broadcast(s, seg, who, NoOne) /\ UNCHANGED <<clientVars, owed, ordered>>
    BY <1>1 DEF Publish
  <2>2. Owing' /\ \A r \in Sessions, i \in Known : Due(r, i) => Due(r, i)'
    BY <2>1 DEF LabelInv, Owing, Due, clientVars
  <2>3. QED
    BY <2>1, <2>2, BroadcastTells
<1>2. ASSUME NEW c \in Clients, ReplayDone(c) \/ RenameDone(c) PROVE LabelInv'
  <2>1. /\ state[c] \in {"replaying", "renaming"} /\ state' = [state EXCEPT ![c] = "live"]
        /\ (state[c] = "renaming" => owed[c] = {})
        /\ UNCHANGED <<records, history, subs, sess, replay, owed, queued, got, shown, ordered>>
    BY <1>2 DEF ReplayDone, RenameDone
  <2>2. Owing' /\ \A d \in Clients : Here(d)' = Here(d)
    BY <2>1 DEF LabelInv, HubInv, Shapes, Owing, Here
  <2>3. \A s \in Sessions, i \in Known : Told(s, i)' => Told(s, i)
    BY <2>1 DEF Told, Newest, Due
  <2>4. QED
    BY <2>1, <2>2, <2>3, SameSent
<1>3. CASE UNCHANGED vars
  <2>1. UNCHANGED <<records, history, subs, state, sess, replay, owed, queued, got, shown, ordered>>
    BY <1>3 DEF vars
  <2>2. Owing' /\ \A d \in Clients : Here(d)' = Here(d)
    BY <2>1 DEF LabelInv, Owing, Here
  <2>3. \A s \in Sessions, i \in Known : Told(s, i)' => Told(s, i)
    BY <2>1 DEF Told, Newest, Due
  <2>4. QED
    BY <2>1, <2>2, <2>3, SameSent
<1>4. QED
  BY <1>1, <1>2, <1>3, JoinTells, ReplayTells, SendTells, LeaveTells, DropTells, RenameTells,
     RenameNextTells, OrderTells, OrderNextTells DEF Next, Handler

\* Whoever has none below it, in the sense of the library, is below all.
LEMMA NotLess == \A x, y \in Nat : <<y, x>> \notin OpToRel(<, Nat) => x <= y
<1>1. ASSUME NEW x \in Nat, NEW y \in Nat, <<y, x>> \notin OpToRel(<, Nat) PROVE ~ (y < x)
  BY <1>1 DEF OpToRel
<1>2. \A x, y \in Nat : ~ (y < x) => x <= y
  OBVIOUS
<1>3. QED
  BY <1>1, <1>2

\* Every set of numbers that is not empty and has a bound has a greatest one.
LEMMA GreatestOf ==
  ASSUME NEW n \in Nat, NEW T \in SUBSET (1..n), T # {}
  PROVE  \E x \in T : \A y \in T : y <= x
<1> DEFINE D == {n - x : x \in T}
<1>1. D \in SUBSET Nat /\ D # {}
  <2>1. \A x \in T : n - x \in Nat
    OBVIOUS
  <2>2. QED
    BY <2>1
<1> HIDE DEF D
<1>2. PICK d \in D : \A e \in D : <<e, d>> \notin OpToRel(<, Nat)
  BY <1>1, NatLessThanWellFounded, WFMin
<1>3. \A e \in D : d <= e
  BY <1>1, <1>2, NotLess, Zenon
<1>4. PICK x \in T : d = n - x
  BY DEF D
<1>5. ASSUME NEW y \in T PROVE y <= x
  <2>1. n - x <= n - y
    BY <1>3, <1>4 DEF D
  <2>2. QED
    BY <2>1
<1>6. QED
  BY <1>5

\* A viewer that was sent all, in order, agrees with a history about which
\* nothing is still to be told.
LEMMA ToldIsShown == HubInv /\ LabelInv => ViewAgrees
<1> SUFFICES ASSUME HubInv, LabelInv, NEW c \in Clients, Here(c), Settled(sess[c]),
                    Coming(c) = <<>>, Ascending(got[c]),
                    NEW seg \in Segments, About(sess[c], seg) # {}
             PROVE  shown[c][seg] = Current(sess[c], seg)
  BY DEF ViewAgrees
<1> DEFINE s == sess[c]
           i == CHOOSE i \in About(s, seg) : \A j \in About(s, seg) : j <= i
           w == Waiting(queued[c])
<1>1. s \in Sessions /\ Elements(history[s]) \subseteq Known /\ Len(records) \in Nat
  BY LenProperties DEF HubInv, Shapes, Named
<1>2. i \in About(s, seg) /\ \A j \in About(s, seg) : j <= i
  <2>1. About(s, seg) \in SUBSET (1..Len(records))
    BY <1>1 DEF About, Known
  <2>2. \E k \in About(s, seg) : \A j \in About(s, seg) : j <= k
    BY <1>1, <2>1, GreatestOf
  <2>3. QED
    BY <2>2
<1> HIDE DEF i
<1>3. i \in Elements(history[s]) /\ records[i].seg = seg /\ Newest(s, i)
  BY <1>2 DEF About, Newest
<1>4. ~Due(s, i)
  <2>1. Elements(<<>>) = {}
    BY EmptySeq DEF Elements
  <2>2. QED
    BY <2>1 DEF Due, Settled
<1>5. i \in Elements(got[c])
  <2>1. replay[c] \in Seq(Nat) /\ queued[c] \in Seq(Messages)
    BY DEF HubInv, Shapes
  <2>2. w \in Seq(Nat)
    <3>1. CASE queued[c] = <<>>
      BY <3>1, EmptySeq DEF Waiting
    <3>2. CASE queued[c] # <<>>
      BY <2>1, <3>2, WaitsNoMore, WaitsFor
    <3>3. QED
      BY <3>1, <3>2
  <2>3. replay[c] \o w = <<>>
    BY DEF Coming, Waiting
  <2> HIDE DEF w
  <2>4. Elements(replay[c]) \cup Elements(w) = {}
    <3>1. Elements(replay[c] \o w) = Elements(replay[c]) \cup Elements(w)
      BY <2>1, <2>2, Together
    <3>2. Elements(<<>>) = {}
      BY EmptySeq DEF Elements
    <3>3. QED
      BY <2>3, <3>1, <3>2
  <2>5. QED
    BY <1>3, <2>4 DEF HubInv, Whole, w
<1>6. shown[c][records[i].seg] = records[i].who
  BY <1>3, <1>4, <1>5 DEF LabelInv, Shows, Told
<1>7. QED
  BY <1>3, <1>6 DEF Current, i

\* Concurrent renames, revisions and drops leave every viewer that was sent the
\* records in order agreed with the history, once all is sent.
THEOREM ViewersAgree == Safety => []ViewAgrees
<1>1. HubInv /\ LabelInv /\ [Next]_vars => HubInv' /\ LabelInv'
  BY NextInv, NextLabels
<1>2. QED
  BY <1>1, InitInv, InitLabels, ToldIsShown, PTL DEF Safety
=============================================================================
