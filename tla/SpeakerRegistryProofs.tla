------------------------ MODULE SpeakerRegistryProofs ------------------------
(* Proofs about SpeakerRegistry for any clusters, voices, speakers, batches   *)
(* and bounds: that concurrent trims keep what a speaker needs, that a voice  *)
(* is enrolled once, and that labels lead to the cluster's own voice.         *)
EXTENDS SpeakerRegistry, FiniteSetTheorems, TLAPS

Made == {s \in Speakers : maker[s] # None}

\* Between the match and the assignment of the verdict.
Enrolling == {"add", "select", "trim", "query", "assign"}
Settling == Enrolling \cup {"cache", "verdict"}

\* What an actor has in hand, at each place, is of the kind that it needs there:
\* the speakers it knows, has found or has read are speakers that were created,
\* and the voiceprints that it will delete were added.
InHand(a) ==
  /\ who[a] \in Made \cup {None}
  /\ step[a] \in {"add", "select", "trim", "rename"} => who[a] # None
  /\ step[a] \in {"match", "create"} => on[a] \in Clusters
  /\ step[a] = "trim" => \A p \in read[a] : p \in Nat /\ p < stamp
  /\ step[a] = "assign" => read[a] \subseteq Made
HandsInv ==
  /\ \A a \in Actors : InHand(a)
  /\ \A b \in Batches : on[b] \in Clusters
  /\ step[Command] \in {"create", "add", "select", "trim", "rename", "rebind"} =>
       label[Command] \in Names
  /\ \A m \in Matchers : known[m] \subseteq Made
  /\ \A s \in Speakers : \A p \in prints[s] : p < stamp
  /\ orders = 0 => step[Command] = "idle"

RegistryType == TypeOK /\ HandsInv

\* A label, a verdict and what the stream is about to assign, the match's result
\* among it, are of the voice of the cluster.
OfVoice(s, c) == s \in Speakers => s \in Made /\ sound[s] = voice[c]
StreamOwn ==
  step[Stream] \in Settling =>
    /\ OfVoice(who[Stream], on[Stream]) /\ OfVoice(label[Stream], on[Stream])
    /\ OfVoice(result, on[Stream])
LabelInv ==
  /\ StreamOwn
  /\ step[Stream] = "create" => result = None
  /\ \A c \in Clusters : OfVoice(cache[c], c) /\ OfVoice(verdict[c], c)

\* The newest voiceprint of a speaker is in nobody's list of those to delete.
Trimmers(s) == {a \in Actors : who[a] = s /\ step[a] = "trim"}
Safe(s, q) ==
  /\ \A p \in prints[s] : p <= q
  /\ \A a \in Trimmers(s) : \A p \in read[a] : p < q
NewestStays == \A s \in Speakers : prints[s] # {} => \E q \in prints[s] : Safe(s, q)

\* So a speaker without voiceprints is one that its creator has not added them
\* to, and nobody knows it.
EmptyIsNew ==
  \A s \in present : prints[s] = {} =>
    who[maker[s]] = s /\ step[maker[s]] \in {"add", "failed"}
KnownHasPrints ==
  /\ \A m \in Matchers : \A s \in known[m] \cap present : prints[s] # {}
  /\ \A a \in Actors : step[a] = "assign" => \A s \in read[a] \cap present : prints[s] # {}
KeepInv == NewestStays /\ EmptyIsNew /\ KnownHasPrints

\* Once some of those who are at a speaker have deleted what they have read, it
\* has at most max_per_speaker voiceprints and one for each of the others.
Doomed(B) == UNION {read[b] : b \in B}
Bounded ==
  \A s \in Speakers : \A B \in SUBSET Trimmers(s) :
    Cardinality(prints[s] \ Doomed(B)) <= MaxPrints + Cardinality(Untrimmed(s) \ B)

\* A matcher that nobody else's refresh can overwrite knows everyone it has
\* enrolled whenever it looks for a match, and enrols voices new to it.
Alone(a) == a \in Batches \/ (a = Stream /\ orders = 0)
Mine(a) == {s \in present : maker[s] = a}
Knows(a) ==
  /\ step[a] = "start" => Mine(a) = {}
  /\ step[a] = "assign" => Mine(a) \subseteq read[a]
  /\ step[a] \in {"idle", "match", "create", "cache", "verdict"} => Mine(a) \subseteq known[a]
  /\ step[a] = "create" => \A s \in known[a] : sound[s] # voice[on[a]]
EnrolInv ==
  /\ \A a \in Matchers : Alone(a) => Knows(a)
  /\ OneEnrolmentPerVoice
-----------------------------------------------------------------------------
(* Sets of numbers.                                                           *)

\* Whoever has none below it, in the sense of the library, is below all.
LEMMA NotLess == \A x, y \in Nat : <<y, x>> \notin OpToRel(<, Nat) => x <= y
<1>1. ASSUME NEW x \in Nat, NEW y \in Nat, <<y, x>> \notin OpToRel(<, Nat) PROVE ~ (y < x)
  BY <1>1 DEF OpToRel
<1>2. \A x, y \in Nat : ~ (y < x) => x <= y
  OBVIOUS
<1>3. QED
  BY <1>1, <1>2

\* Every set of numbers that is not empty has a least one.
LEMMA LeastOf ==
  ASSUME NEW T \in SUBSET Nat, T # {}
  PROVE  \E x \in T : \A y \in T : x <= y
<1>1. PICK x \in T : \A y \in T : <<y, x>> \notin OpToRel(<, Nat)
  BY NatLessThanWellFounded, WFMin
<1>2. QED
  BY <1>1, NotLess, Zenon

\* Those that have fewer than k newer ones are at most k.
LEMMA FewNewest ==
  ASSUME NEW S \in SUBSET Nat, IsFiniteSet(S), NEW k \in Nat \ {0}
  PROVE  Cardinality({p \in S : Cardinality({q \in S : q > p}) < k}) <= k
<1> DEFINE Newer(p) == {q \in S : q > p}
           T == {p \in S : Cardinality(Newer(p)) < k}
<1>1. T \in SUBSET S /\ IsFiniteSet(T) /\ Cardinality(T) \in Nat
  BY FS_Subset, FS_CardinalityType
<1>2. CASE T = {}
  <2>1. Cardinality(T) = 0
    BY <1>2, FS_EmptySet, Zenon
  <2>2. QED
    BY <2>1
<1>3. CASE T # {}
  <2>1. PICK x \in T : \A y \in T : x <= y
    BY <1>1, <1>3, LeastOf
  <2>2. Newer(x) \in SUBSET S /\ IsFiniteSet(Newer(x)) /\ Cardinality(Newer(x)) \in Nat
    BY FS_Subset, FS_CardinalityType
  <2>3. T \ {x} \in SUBSET Newer(x)
    <3>1. ASSUME NEW y \in T, y # x PROVE y \in S /\ y > x
      <4>1. y \in Nat /\ x \in Nat /\ x <= y
        BY <2>1, <3>1
      <4>2. QED
        BY <3>1, <4>1
    <3>2. QED
      BY <3>1
  <2>4. Cardinality(T \ {x}) <= Cardinality(Newer(x)) /\ Cardinality(T \ {x}) = Cardinality(T) - 1
    BY <1>1, <2>1, <2>2, <2>3, FS_Subset, FS_RemoveElement
  <2>5. Cardinality(Newer(x)) < k
    BY <2>1
  <2> HIDE DEF T, Newer
  <2>6. Cardinality(T) <= k
    BY <1>1, <2>2, <2>4, <2>5
  <2>7. QED
    BY <2>6 DEF T, Newer
<1>4. QED
  BY <1>2, <1>3
-----------------------------------------------------------------------------
(* Types.                                                                     *)

\* A rename command has found the speaker of a cluster with its label, or not.
Heard(l, n, c) ==
  /\ At(Command, "idle", IF Found(l, c) # None THEN "rename"
                         ELSE IF l \in Clusters THEN "create" ELSE "refused")
  /\ who' = [who EXCEPT ![Command] = Found(l, c)]
  /\ cache' = IF c = None THEN cache ELSE [cache EXCEPT ![c] = n]
LEMMA OrderHeard ==
  ASSUME NEW l, NEW n, Order(l, n)
  PROVE  \E c \in IF Named(l) = {} THEN {None} ELSE Named(l) : Heard(l, n, c)
BY Zenon DEF Order, Heard

\* Every step leaves every variable of its type.
LEMMA TypeNext == RegistryType /\ [Next]_vars => TypeOK'
<1> SUFFICES ASSUME RegistryType, [Next]_vars PROVE TypeOK'
  OBVIOUS
<1> USE ActorAssumption, BoundAssumption, LabelAssumption
       DEF RegistryType, TypeOK, HandsInv, InHand, Made,
       Actors, Matchers, Labels, Steps, At, OffDb, vars, db, resolver, local, counts, MatcherOf
<1>1. ASSUME NEW a \in Matchers, Open(a) PROVE TypeOK'
  <2>1. Centroids \subseteq Speakers
    BY DEF Centroids
  <2>2. QED
    BY <1>1, <2>1 DEF Open
<1>2. ASSUME NEW c \in Clusters, Resolve(c) PROVE TypeOK'
  BY <1>2 DEF Resolve
<1>3. ASSUME NEW a \in Matchers, MatchKnown(a) PROVE TypeOK'
  <2>1. PICK s \in SameVoice(a) :
          who' = [who EXCEPT ![a] = s] /\ label' = [label EXCEPT ![a] = Shown(s)]
    BY <1>3 DEF MatchKnown, Matched
  <2>2. s \in Speakers /\ Shown(s) \in Labels
    BY <2>1 DEF SameVoice, Shown
  <2>3. QED
    BY <1>3, <2>1, <2>2 DEF MatchKnown, Matched
<1>4. ASSUME NEW a \in Matchers, MatchNone(a) PROVE TypeOK'
  BY <1>4 DEF MatchNone, Matched
<1>5. ASSUME NEW a \in Matchers, MatchUnknown(a) PROVE TypeOK'
  BY <1>5 DEF MatchUnknown, Matched
<1>6. ASSUME NEW a \in Actors, Create(a) PROVE TypeOK'
  BY <1>6 DEF Create
<1>7. ASSUME NEW a \in Actors, Add(a) PROVE TypeOK'
  BY <1>7 DEF Add
<1>8. ASSUME NEW a \in Actors, AddRefused(a) PROVE TypeOK'
  BY <1>8 DEF AddRefused
<1>9. ASSUME NEW a \in Actors, Select(a) PROVE TypeOK'
  <2>1. Stale(who[a]) \subseteq 0..MaxStamp
    BY <1>9 DEF Select, Stale
  <2>2. QED
    BY <1>9, <2>1 DEF Select
<1>10. ASSUME NEW a \in Actors, Trim(a) PROVE TypeOK'
  BY <1>10 DEF Trim
<1>11. ASSUME NEW a \in Actors, Query(a) PROVE TypeOK'
  <2>1. Centroids \subseteq Speakers
    BY DEF Centroids
  <2>2. QED
    BY <1>11, <2>1 DEF Query
<1>12. ASSUME NEW a \in Actors, Assign(a) PROVE TypeOK'
  BY <1>12 DEF Assign
<1>13. CASE Cache
  BY <1>13 DEF Cache
<1>14. CASE Verdict
  BY <1>14 DEF Verdict
<1>15. ASSUME NEW a \in Batches, NextLabel(a) PROVE TypeOK'
  <2>1. CASE left[a] = {} /\ At(a, "cache", "done") /\ UNCHANGED <<on, left>>
    BY <1>15, <2>1 DEF NextLabel
  <2>2. ASSUME NEW c \in left[a], At(a, "cache", "match"), on' = [on EXCEPT ![a] = c],
               left' = [left EXCEPT ![a] = @ \ {c}]
        PROVE TypeOK'
    <3>1. c \in Clusters
      BY <2>2
    <3>2. QED
      BY <1>15, <2>2, <3>1 DEF NextLabel
  <2>3. QED
    BY <1>15, <2>1, <2>2 DEF NextLabel
<1>16. ASSUME NEW l \in Labels, NEW n \in Names, l \in Speakers => maker[l] # None, Order(l, n)
       PROVE TypeOK'
  <2>1. PICK c \in IF Named(l) = {} THEN {None} ELSE Named(l) : Heard(l, n, c)
    BY <1>16, OrderHeard
  <2>2. Found(l, c) \in Speakers \cup {None}
    BY <2>1 DEF Found, Named
  <2>3. step' \in [Actors -> Steps] /\ cache' \in [Clusters -> Labels \cup {None}]
    BY <2>1 DEF Heard
  <2>4. QED
    BY <1>16, <2>1, <2>2, <2>3 DEF Order, Heard
<1>17. CASE Rename
  BY <1>17 DEF Rename
<1>18. CASE Rebind
  BY <1>18 DEF Rebind
<1>19. ASSUME NEW s \in Speakers, Forget(s) PROVE TypeOK'
  BY <1>19 DEF Forget, Deleted
<1>20. ASSUME NEW s \in Speakers, Delete(s) PROVE TypeOK'
  BY <1>20 DEF Delete, Deleted
<1>21. ASSUME NEW s \in Speakers, NEW n \in Names, Patch(s, n) PROVE TypeOK'
  BY <1>21 DEF Patch
<1>22. ASSUME NEW a \in Actors, Fail(a) PROVE TypeOK'
  BY <1>22 DEF Fail
<1>23. CASE UNCHANGED vars
  BY <1>23
<1>24. QED
  BY <1>1, <1>2, <1>3, <1>4, <1>5, <1>6, <1>7, <1>8, <1>9, <1>10, <1>11, <1>12, <1>13, <1>14,
     <1>15, <1>16, <1>17, <1>18, <1>19, <1>20, <1>21, <1>22, <1>23
     DEF Next, Resolver, Match, Batch, Commands, Page, Enrol, Matchers, Actors

\* ... and every actor with what it needs where it is.
LEMMA HandsNext == RegistryType /\ LabelInv /\ TypeOK' /\ [Next]_vars => HandsInv'
<1> SUFFICES ASSUME RegistryType, LabelInv, TypeOK', [Next]_vars PROVE HandsInv'
  OBVIOUS
<1> USE ActorAssumption, BoundAssumption, LabelAssumption
       DEF RegistryType, TypeOK, HandsInv, InHand, Made,
       Actors, Matchers, Labels, Steps, At, OffDb, vars, db, resolver, local, counts, MatcherOf
<1>1. ASSUME NEW a \in Matchers, Open(a) PROVE HandsInv'
  <2>1. Centroids \subseteq Made
    BY DEF Centroids
  <2>2. QED
    BY <1>1, <2>1 DEF Open
<1>2. ASSUME NEW c \in Clusters, Resolve(c) PROVE HandsInv'
  BY <1>2 DEF Resolve
<1>3. ASSUME NEW a \in Matchers, MatchKnown(a) PROVE HandsInv'
  <2>1. PICK s \in SameVoice(a) : who' = [who EXCEPT ![a] = s]
    BY <1>3 DEF MatchKnown, Matched
  <2>2. s \in Made
    BY <2>1 DEF SameVoice
  <2>3. QED
    BY <1>3, <2>1, <2>2 DEF MatchKnown, Matched
<1>4. ASSUME NEW a \in Matchers, MatchNone(a) PROVE HandsInv'
  BY <1>4 DEF MatchNone, Matched
<1>5. ASSUME NEW a \in Matchers, MatchUnknown(a) PROVE HandsInv'
  BY <1>5 DEF MatchUnknown, Matched
<1>6. ASSUME NEW a \in Actors, Create(a) PROVE HandsInv'
  BY <1>6 DEF Create
<1>7. ASSUME NEW a \in Actors, Add(a) PROVE HandsInv'
  BY <1>7 DEF Add
<1>8. ASSUME NEW a \in Actors, AddRefused(a) PROVE HandsInv'
  BY <1>8 DEF AddRefused
<1>9. ASSUME NEW a \in Actors, Select(a) PROVE HandsInv'
  <2>1. Stale(who[a]) \subseteq prints[who[a]]
    BY DEF Stale
  <2>2. \A p \in Stale(who[a]) : p \in Nat /\ p < stamp
    BY <1>9, <2>1 DEF Select
  <2>3. QED
    BY <1>9, <2>2 DEF Select
<1>10. ASSUME NEW a \in Actors, Trim(a) PROVE HandsInv'
  BY <1>10 DEF Trim
<1>11. ASSUME NEW a \in Actors, Query(a) PROVE HandsInv'
  <2>1. Centroids \subseteq Made
    BY DEF Centroids
  <2>2. QED
    BY <1>11, <2>1 DEF Query
<1>12. ASSUME NEW a \in Actors, Assign(a) PROVE HandsInv'
  BY <1>12 DEF Assign
<1>13. CASE Cache
  BY <1>13 DEF Cache
<1>14. CASE Verdict
  BY <1>14 DEF Verdict
<1>15. ASSUME NEW a \in Batches, NextLabel(a) PROVE HandsInv'
  BY <1>15 DEF NextLabel
<1>16. ASSUME NEW l \in Labels, NEW n \in Names, l \in Speakers => maker[l] # None, Order(l, n)
       PROVE HandsInv'
  <2>1. PICK c \in IF Named(l) = {} THEN {None} ELSE Named(l) : Heard(l, n, c)
    BY <1>16, OrderHeard
  <2>2. Found(l, c) \in Made \cup {None}
    BY <1>16, <2>1 DEF Found, Named, LabelInv, OfVoice
  <2>3. QED
    BY <1>16, <2>1, <2>2 DEF Order, Heard
<1>17. CASE Rename
  BY <1>17 DEF Rename
<1>18. CASE Rebind
  BY <1>18 DEF Rebind
<1>19. ASSUME NEW s \in Speakers, Forget(s) PROVE HandsInv'
  BY <1>19 DEF Forget, Deleted
<1>20. ASSUME NEW s \in Speakers, Delete(s) PROVE HandsInv'
  BY <1>20 DEF Delete, Deleted
<1>21. ASSUME NEW s \in Speakers, NEW n \in Names, Patch(s, n) PROVE HandsInv'
  BY <1>21 DEF Patch
<1>22. ASSUME NEW a \in Actors, Fail(a) PROVE HandsInv'
  BY <1>22 DEF Fail
<1>23. CASE UNCHANGED vars
  BY <1>23
<1>24. QED
  BY <1>1, <1>2, <1>3, <1>4, <1>5, <1>6, <1>7, <1>8, <1>9, <1>10, <1>11, <1>12, <1>13, <1>14,
     <1>15, <1>16, <1>17, <1>18, <1>19, <1>20, <1>21, <1>22, <1>23
     DEF Next, Resolver, Match, Batch, Commands, Page, Enrol, Matchers, Actors

-----------------------------------------------------------------------------
(* Labels, and what stays.                                                    *)

\* Speakers that are found or created are of the voice of the cluster at hand,
\* and a command only puts names in the place of labels.
LEMMA LabelNext == RegistryType /\ RegistryType' /\ LabelInv /\ [Next]_vars => LabelInv'
<1> SUFFICES ASSUME RegistryType, RegistryType', LabelInv, [Next]_vars PROVE LabelInv'
  OBVIOUS
<1> USE ActorAssumption, LabelAssumption
       DEF RegistryType, TypeOK, HandsInv, InHand, Made, Actors, Matchers, Labels,
       At, OffDb, vars, db, resolver, local, counts, MatcherOf, Settling, Enrolling, LabelInv, StreamOwn, OfVoice
<1>1. ASSUME NEW a \in Matchers, Open(a) PROVE LabelInv'
  BY <1>1 DEF Open
<1>2. ASSUME NEW c \in Clusters, Resolve(c) PROVE LabelInv'
  BY <1>2 DEF Resolve
<1>3. ASSUME NEW a \in Matchers, MatchKnown(a) PROVE LabelInv'
  <2>1. PICK s \in SameVoice(a) :
          who' = [who EXCEPT ![a] = s] /\ label' = [label EXCEPT ![a] = Shown(s)]
    BY <1>3 DEF MatchKnown, Matched
  <2>2. s \in Made /\ sound[s] = voice[on[a]] /\ (Shown(s) \in Speakers => Shown(s) = s)
    BY <2>1 DEF SameVoice, Shown
  <2>3. QED
    BY <1>3, <2>1, <2>2 DEF MatchKnown, Matched
<1>4. ASSUME NEW a \in Matchers, MatchNone(a) PROVE LabelInv'
  BY <1>4 DEF MatchNone, Matched
<1>5. ASSUME NEW a \in Matchers, MatchUnknown(a) PROVE LabelInv'
  BY <1>5 DEF MatchUnknown, Matched
<1>6. ASSUME NEW a \in Actors, Create(a) PROVE LabelInv'
  BY <1>6 DEF Create
<1>7. ASSUME NEW a \in Actors, Add(a) PROVE LabelInv'
  BY <1>7 DEF Add
<1>8. ASSUME NEW a \in Actors, AddRefused(a) PROVE LabelInv'
  BY <1>8 DEF AddRefused
<1>9. ASSUME NEW a \in Actors, Select(a) PROVE LabelInv'
  BY <1>9 DEF Select
<1>10. ASSUME NEW a \in Actors, Trim(a) PROVE LabelInv'
  BY <1>10 DEF Trim
<1>11. ASSUME NEW a \in Actors, Query(a) PROVE LabelInv'
  BY <1>11 DEF Query
<1>12. ASSUME NEW a \in Actors, Assign(a) PROVE LabelInv'
  BY <1>12 DEF Assign
<1>13. CASE Cache
  BY <1>13 DEF Cache
<1>14. CASE Verdict
  BY <1>14 DEF Verdict
<1>15. ASSUME NEW a \in Batches, NextLabel(a) PROVE LabelInv'
  BY <1>15 DEF NextLabel
<1>16. ASSUME NEW l \in Labels, NEW n \in Names, l \in Speakers => maker[l] # None, Order(l, n)
       PROVE LabelInv'
  BY <1>16 DEF Order
<1>17. CASE Rename
  BY <1>17 DEF Rename
<1>18. CASE Rebind
  BY <1>18 DEF Rebind
<1>19. ASSUME NEW s \in Speakers, Forget(s) PROVE LabelInv'
  BY <1>19 DEF Forget, Deleted
<1>20. ASSUME NEW s \in Speakers, Delete(s) PROVE LabelInv'
  BY <1>20 DEF Delete, Deleted
<1>21. ASSUME NEW s \in Speakers, NEW n \in Names, Patch(s, n) PROVE LabelInv'
  BY <1>21 DEF Patch
<1>22. ASSUME NEW a \in Actors, Fail(a) PROVE LabelInv'
  BY <1>22 DEF Fail
<1>23. CASE UNCHANGED vars
  BY <1>23
<1>24. QED
  BY <1>1, <1>2, <1>3, <1>4, <1>5, <1>6, <1>7, <1>8, <1>9, <1>10, <1>11, <1>12, <1>13, <1>14,
     <1>15, <1>16, <1>17, <1>18, <1>19, <1>20, <1>21, <1>22, <1>23
     DEF Next, Resolver, Match, Batch, Commands, Page, Enrol, Matchers, Actors

\* A step that adds no voiceprint, and leaves no actor fewer at a speaker.
Loosened ==
  \A s \in Speakers :
    /\ prints'[s] \subseteq prints[s]
    /\ Trimmers(s)' \subseteq Trimmers(s) /\ Untrimmed(s) \subseteq Untrimmed(s)'
    /\ \A b \in Trimmers(s)' : read'[b] = read[b]
LEMMA LoosenedNewest ==
  ASSUME NewestStays, Loosened, UNCHANGED prints
  PROVE  NewestStays'
BY DEF NewestStays, Safe, Loosened

\* The newest voiceprint is in nobody's list: a list is of those that have newer
\* ones, and stays so whoever adds or trims.
LEMMA NewestNext ==
  RegistryType /\ RegistryType' /\ NewestStays /\ [Next]_vars => NewestStays'
<1> SUFFICES ASSUME RegistryType, RegistryType', NewestStays, [Next]_vars PROVE NewestStays'
  OBVIOUS
<1> USE ActorAssumption, BoundAssumption
       DEF RegistryType, TypeOK, HandsInv, InHand, Made, Actors, Matchers,
       At, OffDb, vars, db, resolver, local, counts, MatcherOf, NewestStays, Safe, Trimmers
<1>1. ASSUME NEW a \in Matchers, Open(a) PROVE NewestStays'
  BY <1>1 DEF Open
<1>2. ASSUME NEW c \in Clusters, Resolve(c) PROVE NewestStays'
  BY <1>2 DEF Resolve
<1>3. ASSUME NEW a \in Matchers, MatchKnown(a) PROVE NewestStays'
  BY <1>3 DEF MatchKnown, Matched
<1>4. ASSUME NEW a \in Matchers, MatchNone(a) PROVE NewestStays'
  BY <1>4 DEF MatchNone, Matched
<1>5. ASSUME NEW a \in Matchers, MatchUnknown(a) PROVE NewestStays'
  BY <1>5 DEF MatchUnknown, Matched
<1>6. ASSUME NEW a \in Actors, Create(a) PROVE NewestStays'
  BY <1>6 DEF Create
<1>7. ASSUME NEW a \in Actors, Add(a) PROVE NewestStays'
  BY <1>7 DEF Add
<1>8. ASSUME NEW a \in Actors, AddRefused(a) PROVE NewestStays'
  BY <1>8 DEF AddRefused
<1>9. ASSUME NEW a \in Actors, Select(a) PROVE NewestStays'
  <2>1. /\ UNCHANGED <<prints, who>> /\ read' = [read EXCEPT ![a] = Stale(who[a])]
        /\ step' = [step EXCEPT ![a] = "trim"]
    BY <1>9 DEF Select
  <2>2. ASSUME NEW s \in Speakers, NEW p \in Stale(s) PROVE \E q \in prints[s] : q > p
    <3>1. Cardinality({q \in prints[s] : q > p}) >= MaxPrints
      BY DEF Stale
    <3>2. {q \in prints[s] : q > p} = {} => Cardinality({q \in prints[s] : q > p}) = 0
      BY FS_EmptySet, Zenon
    <3>3. QED
      BY <3>1, <3>2
  <2>3. ASSUME NEW s \in Speakers, NEW q \in prints[s], Safe(s, q) PROVE Safe(s, q)'
    <3>1. \A p \in Stale(s) : p < q
      <4>1. ASSUME NEW p \in Stale(s) PROVE p < q
        <5>1. PICK r \in prints[s] : r > p
          BY <2>2
        <5>2. r <= q /\ p \in Nat /\ r \in Nat /\ q \in Nat
          BY <2>3 DEF Stale
        <5>3. QED
          BY <5>1, <5>2
      <4>2. QED
        BY <4>1
    <3>2. QED
      BY <2>1, <2>3, <3>1
  <2>4. QED
    BY <2>1, <2>3
<1>10. ASSUME NEW a \in Actors, Trim(a) PROVE NewestStays'
  BY <1>10 DEF Trim
<1>11. ASSUME NEW a \in Actors, Query(a) PROVE NewestStays'
  BY <1>11 DEF Query
<1>12. ASSUME NEW a \in Actors, Assign(a) PROVE NewestStays'
  BY <1>12 DEF Assign
<1>13. CASE Cache
  BY <1>13 DEF Cache
<1>14. CASE Verdict
  BY <1>14 DEF Verdict
<1>15. ASSUME NEW a \in Batches, NextLabel(a) PROVE NewestStays'
  <2>1. Loosened /\ UNCHANGED prints
    BY <1>15 DEF NextLabel, Loosened, Untrimmed
  <2>2. QED
    BY <2>1, LoosenedNewest
<1>16. ASSUME NEW l \in Labels, NEW n \in Names, l \in Speakers => maker[l] # None, Order(l, n)
       PROVE NewestStays'
  BY <1>16 DEF Order
<1>17. CASE Rename
  BY <1>17 DEF Rename
<1>18. CASE Rebind
  BY <1>18 DEF Rebind
<1>19. ASSUME NEW s \in Speakers, Forget(s) PROVE NewestStays'
  BY <1>19 DEF Forget, Deleted
<1>20. ASSUME NEW s \in Speakers, Delete(s) PROVE NewestStays'
  BY <1>20 DEF Delete, Deleted
<1>21. ASSUME NEW s \in Speakers, NEW n \in Names, Patch(s, n) PROVE NewestStays'
  <2>1. Loosened /\ UNCHANGED prints
    BY <1>21 DEF Patch, Loosened, Untrimmed
  <2>2. QED
    BY <2>1, LoosenedNewest
<1>22. ASSUME NEW a \in Actors, Fail(a) PROVE NewestStays'
  BY <1>22 DEF Fail
<1>23. CASE UNCHANGED vars
  BY <1>23
<1>24. QED
  BY <1>1, <1>2, <1>3, <1>4, <1>5, <1>6, <1>7, <1>8, <1>9, <1>10, <1>11, <1>12, <1>13, <1>14,
     <1>15, <1>16, <1>17, <1>18, <1>19, <1>20, <1>21, <1>22, <1>23
     DEF Next, Resolver, Match, Batch, Commands, Page, Enrol, Matchers, Actors

\* A trim leaves the newest voiceprint.
LEMMA TrimLeaves ==
  ASSUME RegistryType, NewestStays, NEW a \in Actors, Trim(a)
  PROVE  \A s \in Speakers : prints[s] # {} => prints'[s] # {}
<1>1. step[a] = "trim" /\ prints' = [prints EXCEPT ![who[a]] = @ \ read[a]]
  BY DEF Trim, At
<1>2. ASSUME NEW s \in Speakers, prints[s] # {} PROVE prints'[s] # {}
  <2>1. PICK q \in prints[s] : Safe(s, q)
    BY <1>2 DEF NewestStays
  <2>2. q \in Nat /\ (who[a] = s => q \notin read[a])
    BY <1>1, <2>1 DEF Safe, Trimmers, RegistryType, TypeOK
  <2>3. QED
    BY <1>1, <2>1, <2>2 DEF RegistryType, TypeOK
<1>3. QED
  BY <1>2

\* Only a speaker just created has no voiceprint yet.
LEMMA EmptyNext ==
  RegistryType /\ RegistryType' /\ NewestStays /\ EmptyIsNew /\ [Next]_vars => EmptyIsNew'
<1> SUFFICES ASSUME RegistryType, RegistryType', NewestStays, EmptyIsNew, [Next]_vars
             PROVE EmptyIsNew'
  OBVIOUS
<1> USE ActorAssumption, BoundAssumption
       DEF RegistryType, TypeOK, HandsInv, InHand, Made, Actors, Matchers,
       At, OffDb, vars, db, resolver, local, counts, MatcherOf, EmptyIsNew
<1>1. ASSUME NEW a \in Matchers, Open(a) PROVE EmptyIsNew'
  BY <1>1 DEF Open
<1>2. ASSUME NEW c \in Clusters, Resolve(c) PROVE EmptyIsNew'
  BY <1>2 DEF Resolve
<1>3. ASSUME NEW a \in Matchers, MatchKnown(a) PROVE EmptyIsNew'
  BY <1>3 DEF MatchKnown, Matched
<1>4. ASSUME NEW a \in Matchers, MatchNone(a) PROVE EmptyIsNew'
  BY <1>4 DEF MatchNone, Matched
<1>5. ASSUME NEW a \in Matchers, MatchUnknown(a) PROVE EmptyIsNew'
  BY <1>5 DEF MatchUnknown, Matched
<1>6. ASSUME NEW a \in Actors, Create(a) PROVE EmptyIsNew'
  BY <1>6 DEF Create
<1>7. ASSUME NEW a \in Actors, Add(a) PROVE EmptyIsNew'
  BY <1>7 DEF Add
<1>8. ASSUME NEW a \in Actors, AddRefused(a) PROVE EmptyIsNew'
  BY <1>8 DEF AddRefused
<1>9. ASSUME NEW a \in Actors, Select(a) PROVE EmptyIsNew'
  BY <1>9 DEF Select
<1>10. ASSUME NEW a \in Actors, Trim(a) PROVE EmptyIsNew'
  <2>1. \A s \in Speakers : prints[s] # {} => prints'[s] # {}
    BY <1>10, TrimLeaves
  <2>2. QED
    BY <1>10, <2>1 DEF Trim
<1>11. ASSUME NEW a \in Actors, Query(a) PROVE EmptyIsNew'
  BY <1>11 DEF Query
<1>12. ASSUME NEW a \in Actors, Assign(a) PROVE EmptyIsNew'
  BY <1>12 DEF Assign
<1>13. CASE Cache
  BY <1>13 DEF Cache
<1>14. CASE Verdict
  BY <1>14 DEF Verdict
<1>15. ASSUME NEW a \in Batches, NextLabel(a) PROVE EmptyIsNew'
  BY <1>15 DEF NextLabel
<1>16. ASSUME NEW l \in Labels, NEW n \in Names, l \in Speakers => maker[l] # None, Order(l, n)
       PROVE EmptyIsNew'
  BY <1>16 DEF Order
<1>17. CASE Rename
  BY <1>17 DEF Rename
<1>18. CASE Rebind
  BY <1>18 DEF Rebind
<1>19. ASSUME NEW s \in Speakers, Forget(s) PROVE EmptyIsNew'
  BY <1>19 DEF Forget, Deleted
<1>20. ASSUME NEW s \in Speakers, Delete(s) PROVE EmptyIsNew'
  BY <1>20 DEF Delete, Deleted
<1>21. ASSUME NEW s \in Speakers, NEW n \in Names, Patch(s, n) PROVE EmptyIsNew'
  BY <1>21 DEF Patch
<1>22. ASSUME NEW a \in Actors, Fail(a) PROVE EmptyIsNew'
  BY <1>22 DEF Fail
<1>23. CASE UNCHANGED vars
  BY <1>23
<1>24. QED
  BY <1>1, <1>2, <1>3, <1>4, <1>5, <1>6, <1>7, <1>8, <1>9, <1>10, <1>11, <1>12, <1>13, <1>14,
     <1>15, <1>16, <1>17, <1>18, <1>19, <1>20, <1>21, <1>22, <1>23
     DEF Next, Resolver, Match, Batch, Commands, Page, Enrol, Matchers, Actors

\* A refresh reads the speakers that have voiceprints, and they keep some.
LEMMA KnownNext ==
  RegistryType /\ RegistryType' /\ NewestStays /\ EmptyIsNew /\ KnownHasPrints /\ [Next]_vars => KnownHasPrints'
<1> SUFFICES ASSUME RegistryType, RegistryType', NewestStays, EmptyIsNew, KnownHasPrints, [Next]_vars
             PROVE KnownHasPrints'
  OBVIOUS
<1> USE ActorAssumption, BoundAssumption
       DEF RegistryType, TypeOK, HandsInv, InHand, Made, Actors, Matchers,
       At, OffDb, vars, db, resolver, local, counts, MatcherOf, KnownHasPrints
<1>1. ASSUME NEW a \in Matchers, Open(a) PROVE KnownHasPrints'
  BY <1>1 DEF Open, Centroids
<1>2. ASSUME NEW c \in Clusters, Resolve(c) PROVE KnownHasPrints'
  BY <1>2 DEF Resolve
<1>3. ASSUME NEW a \in Matchers, MatchKnown(a) PROVE KnownHasPrints'
  BY <1>3 DEF MatchKnown, Matched
<1>4. ASSUME NEW a \in Matchers, MatchNone(a) PROVE KnownHasPrints'
  BY <1>4 DEF MatchNone, Matched
<1>5. ASSUME NEW a \in Matchers, MatchUnknown(a) PROVE KnownHasPrints'
  BY <1>5 DEF MatchUnknown, Matched
<1>6. ASSUME NEW a \in Actors, Create(a) PROVE KnownHasPrints'
  BY <1>6 DEF Create
<1>7. ASSUME NEW a \in Actors, Add(a) PROVE KnownHasPrints'
  BY <1>7 DEF Add
<1>8. ASSUME NEW a \in Actors, AddRefused(a) PROVE KnownHasPrints'
  BY <1>8 DEF AddRefused
<1>9. ASSUME NEW a \in Actors, Select(a) PROVE KnownHasPrints'
  BY <1>9 DEF Select
<1>10. ASSUME NEW a \in Actors, Trim(a) PROVE KnownHasPrints'
  <2>1. \A s \in Speakers : prints[s] # {} => prints'[s] # {}
    BY <1>10, TrimLeaves
  <2>2. QED
    BY <1>10, <2>1 DEF Trim
<1>11. ASSUME NEW a \in Actors, Query(a) PROVE KnownHasPrints'
  BY <1>11 DEF Query, Centroids
<1>12. ASSUME NEW a \in Actors, Assign(a) PROVE KnownHasPrints'
  BY <1>12 DEF Assign
<1>13. CASE Cache
  BY <1>13 DEF Cache
<1>14. CASE Verdict
  BY <1>14 DEF Verdict
<1>15. ASSUME NEW a \in Batches, NextLabel(a) PROVE KnownHasPrints'
  BY <1>15 DEF NextLabel
<1>16. ASSUME NEW l \in Labels, NEW n \in Names, l \in Speakers => maker[l] # None, Order(l, n)
       PROVE KnownHasPrints'
  BY <1>16 DEF Order
<1>17. CASE Rename
  BY <1>17 DEF Rename
<1>18. CASE Rebind
  BY <1>18 DEF Rebind
<1>19. ASSUME NEW s \in Speakers, Forget(s) PROVE KnownHasPrints'
  BY <1>19 DEF Forget, Deleted
<1>20. ASSUME NEW s \in Speakers, Delete(s) PROVE KnownHasPrints'
  BY <1>20 DEF Delete, Deleted
<1>21. ASSUME NEW s \in Speakers, NEW n \in Names, Patch(s, n) PROVE KnownHasPrints'
  BY <1>21 DEF Patch
<1>22. ASSUME NEW a \in Actors, Fail(a) PROVE KnownHasPrints'
  BY <1>22 DEF Fail
<1>23. CASE UNCHANGED vars
  BY <1>23
<1>24. QED
  BY <1>1, <1>2, <1>3, <1>4, <1>5, <1>6, <1>7, <1>8, <1>9, <1>10, <1>11, <1>12, <1>13, <1>14,
     <1>15, <1>16, <1>17, <1>18, <1>19, <1>20, <1>21, <1>22, <1>23
     DEF Next, Resolver, Match, Batch, Commands, Page, Enrol, Matchers, Actors

-----------------------------------------------------------------------------
(* Enrolments.                                                                *)

\* A matcher that enrols reads the registry before it matches again.
LEMMA EnrolNext ==
  RegistryType /\ RegistryType' /\ EmptyIsNew /\ EnrolInv /\ [Next]_vars => EnrolInv'
<1> SUFFICES ASSUME RegistryType, RegistryType', EmptyIsNew, EnrolInv, [Next]_vars PROVE EnrolInv'
  OBVIOUS
<1> USE ActorAssumption
       DEF RegistryType, TypeOK, HandsInv, InHand, Made, Actors, Matchers,
       At, OffDb, vars, db, resolver, local, counts, MatcherOf, EnrolInv, Knows, Alone, Mine, OneEnrolmentPerVoice
<1>1. ASSUME NEW a \in Matchers, Open(a) PROVE EnrolInv'
  BY <1>1 DEF Open
<1>2. ASSUME NEW c \in Clusters, Resolve(c) PROVE EnrolInv'
  BY <1>2 DEF Resolve
<1>3. ASSUME NEW a \in Matchers, MatchKnown(a) PROVE EnrolInv'
  BY <1>3 DEF MatchKnown, Matched
<1>4. ASSUME NEW a \in Matchers, MatchNone(a) PROVE EnrolInv'
  BY <1>4 DEF MatchNone, Matched
<1>5. ASSUME NEW a \in Matchers, MatchUnknown(a) PROVE EnrolInv'
  BY <1>5 DEF MatchUnknown, Matched, SameVoice
<1>6. ASSUME NEW a \in Actors, Create(a) PROVE EnrolInv'
  BY <1>6 DEF Create
<1>7. ASSUME NEW a \in Actors, Add(a) PROVE EnrolInv'
  BY <1>7 DEF Add
<1>8. ASSUME NEW a \in Actors, AddRefused(a) PROVE EnrolInv'
  BY <1>8 DEF AddRefused
<1>9. ASSUME NEW a \in Actors, Select(a) PROVE EnrolInv'
  BY <1>9 DEF Select
<1>10. ASSUME NEW a \in Actors, Trim(a) PROVE EnrolInv'
  BY <1>10 DEF Trim
<1>11. ASSUME NEW a \in Actors, Query(a) PROVE EnrolInv'
  <2>1. /\ step[a] = "query" /\ step' = [step EXCEPT ![a] = "assign"] /\ read' = [read EXCEPT ![a] = Centroids]
        /\ UNCHANGED <<known, on, voice, maker, present, sound, orders>>
    BY <1>11 DEF Query
  <2>2. Mine(a) \subseteq Centroids
    BY <2>1 DEF EmptyIsNew, Centroids
  <2>3. QED
    BY <2>1, <2>2
<1>12. ASSUME NEW a \in Actors, Assign(a) PROVE EnrolInv'
  BY <1>12 DEF Assign
<1>13. CASE Cache
  BY <1>13 DEF Cache
<1>14. CASE Verdict
  BY <1>14 DEF Verdict
<1>15. ASSUME NEW a \in Batches, NextLabel(a) PROVE EnrolInv'
  BY <1>15 DEF NextLabel
<1>16. ASSUME NEW l \in Labels, NEW n \in Names, l \in Speakers => maker[l] # None, Order(l, n)
       PROVE EnrolInv'
  BY <1>16 DEF Order
<1>17. CASE Rename
  BY <1>17 DEF Rename
<1>18. CASE Rebind
  BY <1>18 DEF Rebind
<1>19. ASSUME NEW s \in Speakers, Forget(s) PROVE EnrolInv'
  BY <1>19 DEF Forget, Deleted
<1>20. ASSUME NEW s \in Speakers, Delete(s) PROVE EnrolInv'
  BY <1>20 DEF Delete, Deleted
<1>21. ASSUME NEW s \in Speakers, NEW n \in Names, Patch(s, n) PROVE EnrolInv'
  BY <1>21 DEF Patch
<1>22. ASSUME NEW a \in Actors, Fail(a) PROVE EnrolInv'
  BY <1>22 DEF Fail
<1>23. CASE UNCHANGED vars
  BY <1>23
<1>24. QED
  BY <1>1, <1>2, <1>3, <1>4, <1>5, <1>6, <1>7, <1>8, <1>9, <1>10, <1>11, <1>12, <1>13, <1>14,
     <1>15, <1>16, <1>17, <1>18, <1>19, <1>20, <1>21, <1>22, <1>23
     DEF Next, Resolver, Match, Batch, Commands, Page, Enrol, Matchers, Actors

-----------------------------------------------------------------------------
(* How many voiceprints a speaker has.                                        *)

\* Actors and voiceprints are finitely many.
LEMMA Finite ==
  ASSUME TypeOK, NEW s \in Speakers
  PROVE  /\ IsFiniteSet(prints[s]) /\ prints[s] \in SUBSET Nat
         /\ \A A \in SUBSET Actors : IsFiniteSet(A) /\ Cardinality(A) \in Nat
         /\ \A P \in SUBSET prints[s] : IsFiniteSet(P) /\ Cardinality(P) \in Nat
<1>1. IsFiniteSet(0..MaxStamp) /\ prints[s] \in SUBSET (0..MaxStamp)
  BY BoundAssumption, FS_Interval DEF TypeOK
<1>2. IsFiniteSet(prints[s])
  BY <1>1, FS_Subset
<1>3. IsFiniteSet(Actors)
  <2>1. IsFiniteSet(Batches \cup {Stream}) /\ IsFiniteSet((Batches \cup {Stream}) \cup {Command})
    BY ActorAssumption, FS_AddElement
  <2>2. Actors = (Batches \cup {Stream}) \cup {Command}
    BY DEF Actors
  <2>3. QED
    BY <2>1, <2>2
<1>4. QED
  BY <1>1, <1>2, <1>3, FS_Subset, FS_CardinalityType

\* Such a step keeps the bound.
LEMMA LoosenedBound ==
  ASSUME TypeOK, TypeOK', Bounded, Loosened
  PROVE  Bounded'
<1>1. SUFFICES ASSUME NEW s \in Speakers, NEW B \in SUBSET Trimmers(s)'
               PROVE Cardinality(prints'[s] \ Doomed(B)') <= MaxPrints + Cardinality(Untrimmed(s)' \ B)
  BY DEF Bounded
<1>2. Doomed(B)' = Doomed(B) /\ B \in SUBSET Trimmers(s)
  BY DEF Doomed, Loosened
<1>3. Cardinality(prints[s] \ Doomed(B)) <= MaxPrints + Cardinality(Untrimmed(s) \ B)
  BY <1>2 DEF Bounded
<1>4. /\ prints'[s] \ Doomed(B) \in SUBSET (prints[s] \ Doomed(B))
      /\ prints[s] \ Doomed(B) \in SUBSET prints[s]
      /\ Untrimmed(s) \ B \in SUBSET (Untrimmed(s)' \ B)
      /\ Untrimmed(s)' \ B \in SUBSET Actors
  BY DEF Loosened, Untrimmed
<1>5. /\ Cardinality(prints'[s] \ Doomed(B)) <= Cardinality(prints[s] \ Doomed(B))
      /\ Cardinality(Untrimmed(s) \ B) <= Cardinality(Untrimmed(s)' \ B)
  BY <1>4, Finite, FS_Subset
<1>6. /\ Cardinality(prints'[s] \ Doomed(B)) \in Nat /\ Cardinality(prints[s] \ Doomed(B)) \in Nat
      /\ Cardinality(Untrimmed(s) \ B) \in Nat /\ Cardinality(Untrimmed(s)' \ B) \in Nat
  BY <1>4, Finite DEF Untrimmed
<1>7. QED
  BY <1>2, <1>3, <1>5, <1>6, BoundAssumption

\* Whoever adds one has it to trim.
LEMMA AddBound ==
  ASSUME RegistryType, RegistryType', Bounded, NEW a \in Actors, Add(a)
  PROVE  Bounded'
<1>1. SUFFICES ASSUME NEW s \in Speakers, NEW B \in SUBSET Trimmers(s)'
               PROVE Cardinality(prints'[s] \ Doomed(B)') <= MaxPrints + Cardinality(Untrimmed(s)' \ B)
  BY DEF Bounded
<1>2. /\ step[a] = "add" /\ step' = [step EXCEPT ![a] = "select"] /\ UNCHANGED <<who, read>>
      /\ prints' = [prints EXCEPT ![who[a]] = @ \cup {stamp}]
  BY DEF Add, At, local
<1>3. Doomed(B)' = Doomed(B) /\ B \in SUBSET Trimmers(s) /\ a \notin B
  BY <1>2 DEF Doomed, Trimmers, RegistryType, TypeOK
<1>4. Cardinality(prints[s] \ Doomed(B)) <= MaxPrints + Cardinality(Untrimmed(s) \ B)
  BY <1>3 DEF Bounded
<1>5. /\ IsFiniteSet(prints[s] \ Doomed(B)) /\ Cardinality(prints[s] \ Doomed(B)) \in Nat
      /\ IsFiniteSet(prints'[s] \ Doomed(B)) /\ Cardinality(prints'[s] \ Doomed(B)) \in Nat
      /\ IsFiniteSet(Untrimmed(s) \ B) /\ Cardinality(Untrimmed(s) \ B) \in Nat
  <2>1. prints[s] \ Doomed(B) \in SUBSET prints[s] /\ Untrimmed(s) \ B \in SUBSET Actors
    BY DEF Untrimmed
  <2>2. prints'[s] \ Doomed(B) \in SUBSET prints'[s]
    OBVIOUS
  <2>3. IsFiniteSet(prints'[s])
    <3>1. IsFiniteSet(0..MaxStamp)
      BY BoundAssumption, FS_Interval
    <3>2. prints'[s] \in SUBSET (0..MaxStamp)
      BY DEF RegistryType, TypeOK
    <3>3. QED
      BY <3>1, <3>2, FS_Subset
  <2>4. QED
    BY <2>1, <2>2, <2>3, Finite, FS_Subset, FS_CardinalityType DEF RegistryType
<1>6. CASE s = who[a]
  <2>1. prints'[s] \ Doomed(B) \in SUBSET ((prints[s] \ Doomed(B)) \cup {stamp})
    BY <1>2, <1>6 DEF RegistryType, TypeOK
  <2>2. Cardinality(prints'[s] \ Doomed(B)) <= Cardinality(prints[s] \ Doomed(B)) + 1
    <3>1. /\ IsFiniteSet((prints[s] \ Doomed(B)) \cup {stamp})
          /\ Cardinality((prints[s] \ Doomed(B)) \cup {stamp}) \in
               {Cardinality(prints[s] \ Doomed(B)), Cardinality(prints[s] \ Doomed(B)) + 1}
      BY <1>5, FS_AddElement
    <3>2. Cardinality(prints'[s] \ Doomed(B)) <= Cardinality((prints[s] \ Doomed(B)) \cup {stamp})
      BY <2>1, <3>1, FS_Subset
    <3>3. QED
      BY <1>5, <3>1, <3>2
  <2>3. Untrimmed(s)' \ B = (Untrimmed(s) \ B) \cup {a} /\ a \notin Untrimmed(s) \ B
    BY <1>2, <1>3, <1>6 DEF Untrimmed, RegistryType, TypeOK
  <2>4. Cardinality(Untrimmed(s)' \ B) = Cardinality(Untrimmed(s) \ B) + 1
    BY <1>5, <2>3, FS_AddElement
  <2>5. QED
    BY <1>3, <1>4, <1>5, <2>2, <2>4, BoundAssumption
<1>7. CASE s # who[a]
  <2>1. prints'[s] = prints[s] /\ Untrimmed(s)' = Untrimmed(s)
    BY <1>2, <1>7 DEF Untrimmed, RegistryType, TypeOK
  <2>2. QED
    BY <1>3, <1>4, <2>1
<1>8. QED
  BY <1>6, <1>7

\* Who selects leaves the newest max_per_speaker.
LEMMA SelectBound ==
  ASSUME RegistryType, RegistryType', Bounded, NEW a \in Actors, Select(a)
  PROVE  Bounded'
<1>1. SUFFICES ASSUME NEW s \in Speakers, NEW B \in SUBSET Trimmers(s)'
               PROVE Cardinality(prints'[s] \ Doomed(B)') <= MaxPrints + Cardinality(Untrimmed(s)' \ B)
  BY DEF Bounded
<1>2. /\ step[a] = "select" /\ step' = [step EXCEPT ![a] = "trim"] /\ UNCHANGED <<who, prints>>
      /\ read' = [read EXCEPT ![a] = Stale(who[a])]
  BY DEF Select, At, OffDb, db
<1>3. Untrimmed(s)' = Untrimmed(s)
  BY <1>2 DEF Untrimmed, RegistryType, TypeOK
<1>4. CASE a \notin B
  <2>1. Doomed(B)' = Doomed(B) /\ B \in SUBSET Trimmers(s)
    BY <1>2, <1>4 DEF Doomed, Trimmers, RegistryType, TypeOK
  <2>2. QED
    BY <1>2, <1>3, <2>1 DEF Bounded
<1>5. CASE a \in B
  <2>1. who[a] = s /\ read'[a] = Stale(s)
    BY <1>2, <1>5 DEF Trimmers, RegistryType, TypeOK
  <2> DEFINE N == {p \in prints[s] : Cardinality({q \in prints[s] : q > p}) < MaxPrints}
  <2>2. prints[s] \ Stale(s) \subseteq N
    <3>1. \A p \in prints[s] : Cardinality({q \in prints[s] : q > p}) \in Nat
      BY Finite DEF RegistryType
    <3>2. QED
      BY <3>1, BoundAssumption DEF Stale
  <2>3. Stale(s) \subseteq Doomed(B)'
    BY <1>5, <2>1 DEF Doomed
  <2>4. prints'[s] \ Doomed(B)' \in SUBSET N
    BY <1>2, <2>2, <2>3
  <2>5. Cardinality(N) <= MaxPrints
    BY Finite, FewNewest, BoundAssumption DEF RegistryType
  <2>6. N \in SUBSET prints[s] /\ IsFiniteSet(N) /\ Cardinality(N) \in Nat
    BY Finite DEF RegistryType
  <2>7. Cardinality(prints'[s] \ Doomed(B)') <= Cardinality(N)
    BY <2>4, <2>6, FS_Subset
  <2>8. Cardinality(prints'[s] \ Doomed(B)') \in Nat /\ Cardinality(Untrimmed(s)' \ B) \in Nat
    <3>1. prints'[s] \ Doomed(B)' \in SUBSET prints[s] /\ Untrimmed(s)' \ B \in SUBSET Actors
      BY <1>2 DEF Untrimmed
    <3>2. QED
      BY <3>1, Finite DEF RegistryType
  <2> HIDE DEF N
  <2>9. QED
    BY <2>5, <2>6, <2>7, <2>8, BoundAssumption
<1>6. QED
  BY <1>4, <1>5

\* Who has trimmed has deleted what he had read.
LEMMA TrimBound ==
  ASSUME RegistryType, RegistryType', Bounded, NEW a \in Actors, Trim(a)
  PROVE  Bounded'
<1>1. SUFFICES ASSUME NEW s \in Speakers, NEW B \in SUBSET Trimmers(s)'
               PROVE Cardinality(prints'[s] \ Doomed(B)') <= MaxPrints + Cardinality(Untrimmed(s)' \ B)
  BY DEF Bounded
<1>2. /\ step[a] = "trim" /\ step'[a] \in {"query", "rebind"} /\ UNCHANGED who
      /\ \A b \in Actors : b # a => step'[b] = step[b] /\ read'[b] = read[b]
      /\ prints' = [prints EXCEPT ![who[a]] = @ \ read[a]]
  BY DEF Trim, At, RegistryType, TypeOK
<1>3. Doomed(B)' = Doomed(B) /\ B \in SUBSET Trimmers(s) /\ a \notin B
  BY <1>2 DEF Doomed, Trimmers
<1>4. CASE s = who[a]
  <2>1. B \cup {a} \in SUBSET Trimmers(s)
    BY <1>2, <1>3, <1>4 DEF Trimmers
  <2>2. Cardinality(prints[s] \ Doomed(B \cup {a})) <= MaxPrints + Cardinality(Untrimmed(s) \ (B \cup {a}))
    BY <2>1 DEF Bounded
  <2>3. Doomed(B \cup {a}) = Doomed(B) \cup read[a]
    BY DEF Doomed
  <2>4. prints'[s] \ Doomed(B)' = prints[s] \ Doomed(B \cup {a})
    <3>1. prints'[s] = prints[s] \ read[a]
      BY <1>2, <1>4 DEF RegistryType, TypeOK
    <3>2. QED
      BY <1>3, <2>3, <3>1
  <2>5. Untrimmed(s)' \ B = Untrimmed(s) \ (B \cup {a})
    BY <1>2, <1>4 DEF Untrimmed
  <2>6. QED
    BY <2>2, <2>4, <2>5
<1>5. CASE s # who[a]
  <2>1. prints'[s] = prints[s] /\ Untrimmed(s)' = Untrimmed(s)
    BY <1>2, <1>5 DEF Untrimmed, RegistryType, TypeOK
  <2>2. QED
    BY <1>3, <2>1 DEF Bounded
<1>6. QED
  BY <1>4, <1>5

\* Every step keeps the bound: all but those of the three lemmas are loose.
LEMMA BoundedNext == RegistryType /\ RegistryType' /\ Bounded /\ [Next]_vars => Bounded'
<1> SUFFICES ASSUME RegistryType, RegistryType', Bounded, [Next]_vars PROVE Bounded'
  OBVIOUS
<1> USE ActorAssumption
       DEF RegistryType, TypeOK, HandsInv, InHand, Made, Actors, Matchers,
       At, OffDb, vars, db, resolver, local, counts, MatcherOf, Trimmers, Untrimmed
<1>1. ASSUME NEW a \in Matchers, Open(a) PROVE Bounded'
  <2>1. Loosened
    BY <1>1 DEF Loosened, Open
  <2>2. QED
    BY <2>1, LoosenedBound
<1>2. ASSUME NEW c \in Clusters, Resolve(c) PROVE Bounded'
  <2>1. Loosened
    BY <1>2 DEF Loosened, Resolve
  <2>2. QED
    BY <2>1, LoosenedBound
<1>3. ASSUME NEW a \in Matchers, MatchKnown(a) PROVE Bounded'
  <2>1. Loosened
    BY <1>3 DEF Loosened, MatchKnown, Matched
  <2>2. QED
    BY <2>1, LoosenedBound
<1>4. ASSUME NEW a \in Matchers, MatchNone(a) PROVE Bounded'
  <2>1. Loosened
    BY <1>4 DEF Loosened, MatchNone, Matched
  <2>2. QED
    BY <2>1, LoosenedBound
<1>5. ASSUME NEW a \in Matchers, MatchUnknown(a) PROVE Bounded'
  <2>1. Loosened
    BY <1>5 DEF Loosened, MatchUnknown, Matched
  <2>2. QED
    BY <2>1, LoosenedBound
<1>6. ASSUME NEW a \in Actors, Create(a) PROVE Bounded'
  <2>1. Loosened
    BY <1>6 DEF Loosened, Create
  <2>2. QED
    BY <2>1, LoosenedBound
<1>7. ASSUME NEW a \in Actors, Add(a) PROVE Bounded'
  BY <1>7, AddBound
<1>8. ASSUME NEW a \in Actors, AddRefused(a) PROVE Bounded'
  <2>1. Loosened
    BY <1>8 DEF Loosened, AddRefused
  <2>2. QED
    BY <2>1, LoosenedBound
<1>9. ASSUME NEW a \in Actors, Select(a) PROVE Bounded'
  BY <1>9, SelectBound
<1>10. ASSUME NEW a \in Actors, Trim(a) PROVE Bounded'
  BY <1>10, TrimBound
<1>11. ASSUME NEW a \in Actors, Query(a) PROVE Bounded'
  <2>1. Loosened
    BY <1>11 DEF Loosened, Query
  <2>2. QED
    BY <2>1, LoosenedBound
<1>12. ASSUME NEW a \in Actors, Assign(a) PROVE Bounded'
  <2>1. Loosened
    BY <1>12 DEF Loosened, Assign
  <2>2. QED
    BY <2>1, LoosenedBound
<1>13. CASE Cache
  <2>1. Loosened
    BY <1>13 DEF Loosened, Cache
  <2>2. QED
    BY <2>1, LoosenedBound
<1>14. CASE Verdict
  <2>1. Loosened
    BY <1>14 DEF Loosened, Verdict
  <2>2. QED
    BY <2>1, LoosenedBound
<1>15. ASSUME NEW a \in Batches, NextLabel(a) PROVE Bounded'
  <2>1. Loosened
    BY <1>15 DEF Loosened, NextLabel
  <2>2. QED
    BY <2>1, LoosenedBound
<1>16. ASSUME NEW l \in Labels, NEW n \in Names, l \in Speakers => maker[l] # None, Order(l, n)
       PROVE Bounded'
  <2>1. Loosened
    BY <1>16 DEF Loosened, Order
  <2>2. QED
    BY <2>1, LoosenedBound
<1>17. CASE Rename
  <2>1. Loosened
    BY <1>17 DEF Loosened, Rename
  <2>2. QED
    BY <2>1, LoosenedBound
<1>18. CASE Rebind
  <2>1. Loosened
    BY <1>18 DEF Loosened, Rebind
  <2>2. QED
    BY <2>1, LoosenedBound
<1>19. ASSUME NEW s \in Speakers, Forget(s) PROVE Bounded'
  <2>1. Loosened
    BY <1>19 DEF Loosened, Forget, Deleted
  <2>2. QED
    BY <2>1, LoosenedBound
<1>20. ASSUME NEW s \in Speakers, Delete(s) PROVE Bounded'
  <2>1. Loosened
    BY <1>20 DEF Loosened, Delete, Deleted
  <2>2. QED
    BY <2>1, LoosenedBound
<1>21. ASSUME NEW s \in Speakers, NEW n \in Names, Patch(s, n) PROVE Bounded'
  <2>1. Loosened
    BY <1>21 DEF Loosened, Patch
  <2>2. QED
    BY <2>1, LoosenedBound
<1>22. ASSUME NEW a \in Actors, Fail(a) PROVE Bounded'
  <2>1. Loosened
    BY <1>22 DEF Loosened, Fail
  <2>2. QED
    BY <2>1, LoosenedBound
<1>23. CASE UNCHANGED vars
  <2>1. Loosened
    BY <1>23 DEF Loosened
  <2>2. QED
    BY <2>1, LoosenedBound
<1>24. QED
  BY <1>1, <1>2, <1>3, <1>4, <1>5, <1>6, <1>7, <1>8, <1>9, <1>10, <1>11, <1>12, <1>13, <1>14,
     <1>15, <1>16, <1>17, <1>18, <1>19, <1>20, <1>21, <1>22, <1>23
     DEF Next, Resolver, Match, Batch, Commands, Page, Enrol, Matchers, Actors

-----------------------------------------------------------------------------
(* The theorems.                                                              *)

RegistryInv == RegistryType /\ LabelInv /\ KeepInv /\ Bounded /\ EnrolInv

\* Nobody has begun.
LEMMA InitInv == Init => RegistryInv
<1> SUFFICES ASSUME Init PROVE RegistryInv
  OBVIOUS
<1>1. (CHOOSE v \in Voices : TRUE) \in Voices
  BY VoiceAssumption
<1>2. RegistryType
  <2>1. /\ on \in [Actors -> Clusters \cup {None}] /\ \A b \in Batches : on[b] \in Clusters
        /\ \A a \in Actors : step[a] \in {"idle", "start"} /\ step[Command] = "idle"
        /\ step \in [Actors -> Steps]
    BY ActorAssumption DEF Init, Actors, Steps
  <2>2. voice \in [Clusters -> Voices] /\ sound \in [Speakers -> Voices]
    BY <1>1 DEF Init
  <2>3. /\ stamp \in 0..MaxStamp /\ orders \in 0..MaxOrders /\ edits \in 0..MaxEdits
        /\ present \subseteq Made /\ left \in [Batches -> SUBSET Clusters]
    BY BoundAssumption DEF Init
  <2>4. /\ maker = [s \in Speakers |-> None] /\ present = {} /\ name = [s \in Speakers |-> None]
        /\ prints = [s \in Speakers |-> {}] /\ known = [m \in Matchers |-> {}]
        /\ cache = [c \in Clusters |-> None] /\ verdict = [c \in Clusters |-> None]
        /\ who = [a \in Actors |-> None] /\ label = [a \in Actors |-> None]
        /\ read = [a \in Actors |-> {}] /\ shown = FALSE /\ orders = 0 /\ result = None
    BY DEF Init
  <2>5. TypeOK
    BY <2>1, <2>2, <2>3, <2>4 DEF TypeOK, Labels, Made
  <2>6. HandsInv
    BY <2>1, <2>4, ActorAssumption DEF HandsInv, InHand, Made, Actors, Matchers
  <2>7. QED
    BY <2>5, <2>6 DEF RegistryType
<1>3. LabelInv /\ KeepInv /\ EnrolInv
  BY LabelAssumption, ActorAssumption
     DEF Init, LabelInv, StreamOwn, OfVoice, Settling, Enrolling, KeepInv, NewestStays, EmptyIsNew,
         KnownHasPrints, EnrolInv, Knows, Mine, Alone, OneEnrolmentPerVoice, Matchers, Actors
<1>4. Bounded
  <2>1. SUFFICES ASSUME NEW s \in Speakers, NEW B \in SUBSET Trimmers(s)
                 PROVE Cardinality(prints[s] \ Doomed(B)) <= MaxPrints + Cardinality(Untrimmed(s) \ B)
    BY DEF Bounded
  <2>2. prints[s] \ Doomed(B) = {} /\ Untrimmed(s) \ B \in SUBSET Actors
    BY DEF Init, Untrimmed
  <2>3. Cardinality(prints[s] \ Doomed(B)) = 0 /\ Cardinality(Untrimmed(s) \ B) \in Nat
    BY <1>2, <2>2, Finite, FS_EmptySet DEF RegistryType
  <2>4. QED
    BY <2>3, BoundAssumption
<1>5. QED
  BY <1>2, <1>3, <1>4 DEF RegistryInv

\* The invariants hold together.
LEMMA NextInv == RegistryInv /\ [Next]_vars => RegistryInv'
<1> SUFFICES ASSUME RegistryInv, [Next]_vars PROVE RegistryInv'
  OBVIOUS
<1>1. RegistryType'
  BY TypeNext, HandsNext DEF RegistryInv, RegistryType
<1>2. LabelInv' /\ Bounded'
  BY <1>1, LabelNext, BoundedNext DEF RegistryInv
<1>3. KeepInv'
  BY <1>1, NewestNext, EmptyNext, KnownNext DEF RegistryInv, KeepInv
<1>4. EnrolInv'
  BY <1>1, EnrolNext DEF RegistryInv, KeepInv
<1>5. QED
  BY <1>1, <1>2, <1>3, <1>4 DEF RegistryInv

\* Concurrent trims leave every speaker what it needs, and no more than it may
\* have and those at it have not trimmed yet.
THEOREM TrimsKeepPrints == Safety => []PrintsKept
<1>1. RegistryInv => PrintsKept
  <2> SUFFICES ASSUME RegistryInv PROVE PrintsKept
    OBVIOUS
  <2>1. ASSUME NEW s \in Speakers PROVE Cardinality(prints[s]) <= MaxPrints + Cardinality(Untrimmed(s))
    <3>1. Cardinality(prints[s] \ Doomed({})) <= MaxPrints + Cardinality(Untrimmed(s) \ {})
      BY DEF RegistryInv, Bounded
    <3>2. prints[s] \ Doomed({}) = prints[s] /\ Untrimmed(s) \ {} = Untrimmed(s)
      BY DEF Doomed
    <3>3. QED
      BY <3>1, <3>2
  <2>2. QED
    BY <2>1 DEF RegistryInv, RegistryType, KeepInv, EmptyIsNew, PrintsKept
<1>2. QED
  BY <1>1, InitInv, NextInv, PTL DEF Safety

\* A batch job, or a stream without commands, enrols no voice twice, whatever the
\* others do to the registry meanwhile.
THEOREM VoiceEnrolledOnce == Safety => []OneEnrolmentPerVoice
<1>1. RegistryInv => OneEnrolmentPerVoice
  BY DEF RegistryInv, EnrolInv
<1>2. QED
  BY <1>1, InitInv, NextInv, PTL DEF Safety

\* What a rename follows from a label is of the voice of the label's cluster.
THEOREM LabelIsOfVoice == Safety => []LabelsOwnVoice
<1>1. RegistryInv => LabelsOwnVoice
  BY DEF RegistryInv, LabelInv, OfVoice, LabelsOwnVoice
<1>2. QED
  BY <1>1, InitInv, NextInv, PTL DEF Safety
=============================================================================
