--------------------------- MODULE SpeakerRegistry ---------------------------
(* The speaker registry (registry/store.py) and those who use one database at  *)
(* the same time: the pipeline thread of a live stream, which resolves cluster *)
(* labels (_RegistryResolver of pipeline/streaming.py), the rename commands    *)
(* for that stream, which run on the event loop beside it, batch jobs          *)
(* (SpeakerMatcher.assign_local_labels) and the registry page, which renames  *)
(* and deletes.                                                                *)
(*                                                                             *)
(* A step ends where another thread or process can come in between: at the     *)
(* commits and queries of the store and at the assignments to the resolver's   *)
(* dictionaries and the matcher's centroids.  Embeddings are abstracted to     *)
(* voices the encoder tells apart: a cluster and a speaker of the same voice   *)
(* match; two different voices are a low-confidence match or none.             *)
EXTENDS Naturals, FiniteSets

CONSTANTS Clusters,   \* labels of the clustering
          Voices,
          Speakers,   \* registry ids that may be given out
          Names,      \* display names
          None,       \* None
          Batches,    \* batch jobs
          AutoEnrol,  \* matchers with auto_enroll_unknown
          Stream, Command, \* the stream's pipeline thread, its rename command
          MaxPrints,  \* max_per_speaker
          MaxStamp,   \* bound: voiceprints ever added
          MaxOrders,  \* bound: rename and forget commands
          MaxEdits    \* bound: edits on the registry page

ASSUME ActorAssumption ==
  /\ Stream # Command
  /\ {Stream, Command} \cap Batches = {}
  /\ AutoEnrol \subseteq Batches \cup {Stream}
  /\ None \notin Batches \cup {Stream, Command}
  /\ IsFiniteSet(Batches)
\* create_speaker makes an id at random: no label of the clustering is one, and
\* nobody names a speaker by one.
ASSUME LabelAssumption ==
  /\ Speakers \cap (Clusters \cup Names) = {}
  /\ None \notin Clusters \cup Speakers \cup Names
ASSUME VoiceAssumption == Voices # {}
ASSUME BoundAssumption ==
  MaxPrints \in Nat \ {0} /\ {MaxStamp, MaxOrders, MaxEdits} \subseteq Nat

Actors == {Stream, Command} \cup Batches
Matchers == {Stream} \cup Batches       \* each has a SpeakerMatcher
Labels == Clusters \cup Speakers \cup Names

VARIABLES
  voice,   \* the voice of a cluster
  maker,   \* who created a speaker; None for an id not given out yet
  present, \* the rows of table speakers
  name,    \* display_name
  sound,   \* the voice of its voiceprints
  prints,  \* the rows of table voiceprints, numbered as they were added
  stamp,
  known,   \* _centroids: the speakers a matcher knows
  cache,   \* _resolved: the label of a cluster
  verdict, \* the speaker_id in _verdicts
  result,  \* the speaker_id of the stream's last MatchResult
  step,    \* how far an actor is
  on,      \* the cluster (Command: the label) it works on
  who,     \* the speaker it has found or created
  label,   \* the label it will use for it
  read,    \* what it read: prints to trim, or speakers for _centroids
  shown,   \* history: the command's label was a cluster's, and the stream at rest
  left,    \* clusters a batch job has still to resolve
  orders, edits

db == <<maker, present, name, sound, prints, stamp>>
resolver == <<known, cache, verdict, result>>
local == <<on, who, label, read, left>>
counts == <<orders, edits, shown>>
vars == <<voice, db, resolver, step, local, counts>>

MatcherOf(a) == IF a = Command THEN Stream ELSE a

Init ==
  /\ voice \in [Clusters -> Voices]
  /\ maker = [s \in Speakers |-> None]
  /\ present = {}
  /\ name = [s \in Speakers |-> None]
  /\ sound \in [Speakers -> {CHOOSE v \in Voices : TRUE}]
  /\ prints = [s \in Speakers |-> {}]
  /\ stamp = 0
  /\ known = [m \in Matchers |-> {}]
  /\ cache = [c \in Clusters |-> None]
  /\ verdict = [c \in Clusters |-> None]
  /\ result = None
  /\ step = [a \in Actors |-> IF a = Command THEN "idle" ELSE "start"]
  /\ on \in {f \in [Actors -> Clusters \cup {None}] :
               \A a \in Actors : f[a] = None <=> a \notin Batches}
  /\ left = [b \in Batches |-> Clusters \ {on[b]}]
  /\ who = [a \in Actors |-> None]
  /\ label = [a \in Actors |-> None]
  /\ read = [a \in Actors |-> {}]
  /\ shown = FALSE /\ orders = 0 /\ edits = 0
-----------------------------------------------------------------------------
At(a, from, to) == step[a] = from /\ step' = [step EXCEPT ![a] = to]
OffDb == UNCHANGED <<voice, db, counts>>
-----------------------------------------------------------------------------
(* Matching.                                                                  *)

\* SpeakerMatcher() reads the centroids: nobody else has the matcher yet.
Centroids == {s \in present : prints[s] # {}}
Open(m) ==
  /\ At(m, "start", IF m = Stream THEN "idle" ELSE "match")
  /\ known' = [known EXCEPT ![m] = Centroids]
  /\ UNCHANGED <<cache, verdict, result, local>> /\ OffDb

\* resolve() of a label that is not cached, and cached answers change nothing.
Resolve(c) ==
  /\ At(Stream, "idle", "match")
  /\ cache[c] = None
  /\ on' = [on EXCEPT ![Stream] = c]
  /\ UNCHANGED <<resolver, who, label, read, left>> /\ OffDb

SameVoice(a) == {s \in known[a] : sound[s] = voice[on[a]]}
\* label_for: the display name, which is None for a speaker deleted since, or
\* the id.
Shown(s) == IF s \in present /\ name[s] # None THEN name[s] ELSE s

\* match() has the speaker's id for a KNOWN verdict, and none for the others; the
\* batch's results are used at once, the stream's for its verdict.
Matched(a, s) ==
  /\ who' = [who EXCEPT ![a] = s]
  /\ result' = IF a = Stream THEN s ELSE result
  /\ UNCHANGED <<known, cache, verdict, on, read, left>> /\ OffDb
MatchKnown(a) ==
  /\ At(a, "match", "add")
  /\ \E s \in SameVoice(a) : Matched(a, s) /\ label' = [label EXCEPT ![a] = Shown(s)]

MatchNoneStale(a) ==  \* as MatchNone, with the result of the cluster before
  /\ At(a, "match", "cache")
  /\ SameVoice(a) = {}
  /\ label' = [label EXCEPT ![a] = on[a]]
  /\ UNCHANGED <<resolver, on, who, read, left>> /\ OffDb
\* LOW_CONFIDENCE, or UNKNOWN without auto_enroll_unknown: the cluster's label.
MatchNone(a) ==
  /\ At(a, "match", "cache")
  /\ SameVoice(a) = {}
  /\ a \notin AutoEnrol \/ known[a] # {}
  /\ Matched(a, None) /\ label' = [label EXCEPT ![a] = on[a]]

MatchUnknown(a) ==
  /\ At(a, "match", "create")
  /\ SameVoice(a) = {}
  /\ a \in AutoEnrol
  /\ Matched(a, None) /\ UNCHANGED label
-----------------------------------------------------------------------------
(* Enrolling: create_speaker, add_voiceprint with its trim, _refresh.         *)

\* create_speaker; a command creates it with its new name.
Create(a) ==
  /\ At(a, "create", "add")
  /\ \E s \in Speakers :
       /\ maker[s] = None
       /\ maker' = [maker EXCEPT ![s] = a]
       /\ present' = present \cup {s}
       /\ name' = [name EXCEPT ![s] = IF a = Command THEN label[a] ELSE None]
       /\ sound' = [sound EXCEPT ![s] = voice[on[a]]]
       /\ who' = [who EXCEPT ![a] = s]
       /\ label' = [label EXCEPT ![a] = IF a = Command THEN @ ELSE s]
  /\ UNCHANGED <<voice, prints, stamp, resolver, on, read, left, counts>>

\* The insert of add_voiceprint; the foreign key refuses a deleted speaker,
\* and the error ends the stream, the job or the command.
Add(a) ==
  /\ stamp < MaxStamp
  /\ who[a] \in present
  /\ At(a, "add", "select")
  /\ stamp' = stamp + 1
  /\ prints' = [prints EXCEPT ![who[a]] = @ \cup {stamp}]
  /\ UNCHANGED <<voice, maker, present, name, sound, resolver, local, counts>>
AddRefused(a) ==
  /\ who[a] \notin present
  /\ At(a, "add", "failed")
  /\ UNCHANGED <<resolver, local>> /\ OffDb

\* _trim_voiceprints: read which are stale, all but the newest, then delete.
StaleAll(s) == {p \in prints[s] : Cardinality({q \in prints[s] : q >= p}) >= MaxPrints}
Stale(s) == {p \in prints[s] : Cardinality({q \in prints[s] : q > p}) >= MaxPrints}
Select(a) ==
  /\ At(a, "select", "trim")
  /\ read' = [read EXCEPT ![a] = Stale(who[a])]
  /\ UNCHANGED <<resolver, on, who, label, left>> /\ OffDb
TrimNoRefresh(a) ==  \* as Trim, without the _refresh of the matcher
  /\ At(a, "trim", IF a = Command THEN "rebind" ELSE "cache")
  /\ prints' = [prints EXCEPT ![who[a]] = @ \ read[a]]
  /\ read' = [read EXCEPT ![a] = {}]
  /\ UNCHANGED <<voice, maker, present, name, sound, stamp, resolver, on, who, label,
                 left, counts>>
Trim(a) ==
  /\ At(a, "trim", IF a = Command THEN "rebind" ELSE "query")
  /\ prints' = [prints EXCEPT ![who[a]] = @ \ read[a]]
  /\ read' = [read EXCEPT ![a] = {}]
  /\ UNCHANGED <<voice, maker, present, name, sound, stamp, resolver, on, who, label,
                 left, counts>>

\* _refresh(): a query, then the assignment.  A matcher is shared by its
\* stream's pipeline and commands.
Query(a) ==
  /\ At(a, "query", "assign")
  /\ read' = [read EXCEPT ![a] = Centroids]
  /\ UNCHANGED <<resolver, on, who, label, left>> /\ OffDb
Assign(a) ==
  /\ At(a, "assign", IF a = Command THEN "idle" ELSE "cache")
  /\ known' = [known EXCEPT ![MatcherOf(a)] = read[a]]
  /\ read' = [read EXCEPT ![a] = {}]
  /\ UNCHANGED <<cache, verdict, result, on, who, label, left>> /\ OffDb

Enrol(a) ==
  Create(a) \/ Add(a) \/ AddRefused(a) \/ Select(a) \/ Trim(a) \/ Query(a) \/ Assign(a)
-----------------------------------------------------------------------------
(* The end of a resolution.                                                   *)

\* resolve() caches the label, then the verdict: the speaker_id of the match,
\* whoever enrolled that speaker, and none for a speaker enrolled just now.
Cache ==
  /\ At(Stream, "cache", "verdict")
  /\ cache' = [cache EXCEPT ![on[Stream]] = label[Stream]]
  /\ UNCHANGED <<known, verdict, result, local>> /\ OffDb
Verdict ==
  /\ At(Stream, "verdict", "idle")
  /\ verdict' = [verdict EXCEPT ![on[Stream]] = result]
  /\ UNCHANGED <<known, cache, result, local>> /\ OffDb

\* assign_local_labels goes on to the next cluster.
NextLabel(b) ==
  /\ step[b] = "cache"
  /\ \/ /\ left[b] = {} /\ At(b, "cache", "done") /\ UNCHANGED <<on, left>>
     \/ \E c \in left[b] :
          /\ At(b, "cache", "match")
          /\ on' = [on EXCEPT ![b] = c]
          /\ left' = [left EXCEPT ![b] = @ \ {c}]
  /\ UNCHANGED <<resolver, who, label, read>> /\ OffDb
-----------------------------------------------------------------------------
(* The rename and forget commands, one at a time on the event loop.           *)

\* rename(): walk the labels back to a cluster, rebind it, and take the
\* speaker of its verdict; else a label that is an id; else enrol the cluster
\* of that label; else ValueError, which ends the microphone's handler.
Found(l, c) == IF c # None /\ verdict[c] # None THEN verdict[c]
               ELSE IF l \in Speakers THEN l ELSE None
Named(l) == {c \in Clusters : cache[c] = l}
Order(l, n) ==
  /\ orders < MaxOrders
  /\ step[Stream] # "start"
  /\ \E c \in IF Named(l) = {} THEN {None} ELSE Named(l) :
       /\ At(Command, "idle", IF Found(l, c) # None THEN "rename"
                              ELSE IF l \in Clusters THEN "create" ELSE "refused")
       /\ who' = [who EXCEPT ![Command] = Found(l, c)]
       /\ cache' = IF c = None THEN cache ELSE [cache EXCEPT ![c] = n]
  /\ on' = [on EXCEPT ![Command] = l]
  /\ label' = [label EXCEPT ![Command] = n]
  /\ shown' = (Named(l) # {} /\ step[Stream] = "idle")
  /\ orders' = orders + 1
  /\ UNCHANGED <<voice, db, known, verdict, result, read, left, edits>>

\* rename_speaker: an UPDATE that matches no row is no error.
Rename ==
  /\ At(Command, "rename", "query")
  /\ name' = IF who[Command] \in present
             THEN [name EXCEPT ![who[Command]] = label[Command]] ELSE name
  /\ UNCHANGED <<voice, maker, present, sound, prints, stamp, resolver, local, counts>>

Rebind ==
  /\ At(Command, "rebind", "query")
  /\ cache' = [cache EXCEPT ![on[Command]] = label[Command]]
  /\ UNCHANGED <<known, verdict, result, local>> /\ OffDb

\* delete_speaker: the row and, by its statement or ON DELETE CASCADE, the prints.
Deleted(s) ==
  /\ present' = present \ {s}
  /\ prints' = [prints EXCEPT ![s] = {}]
  /\ UNCHANGED <<voice, maker, name, sound, stamp, resolver, local, shown>>
Forget(s) ==
  /\ orders < MaxOrders /\ orders' = orders + 1
  /\ step[Stream] # "start"
  /\ maker[s] # None
  /\ At(Command, "idle", "query")
  /\ Deleted(s) /\ UNCHANGED edits
-----------------------------------------------------------------------------
(* The registry page, and errors.                                             *)

Delete(s) ==
  /\ edits < MaxEdits /\ edits' = edits + 1
  /\ s \in present
  /\ Deleted(s) /\ UNCHANGED <<step, orders>>
Patch(s, n) ==
  /\ edits < MaxEdits /\ edits' = edits + 1
  /\ s \in present
  /\ name' = [name EXCEPT ![s] = n]
  /\ UNCHANGED <<voice, maker, present, sound, prints, stamp, resolver, step, local,
                 orders, shown>>

\* A statement fails (a database locked for 15 s, a store that the ended stream
\* has closed) or the process ends: the stream, job or command is over.
Fail(a) ==
  /\ step[a] \in {"create", "add", "select", "trim", "query", "rename"}
  /\ step' = [step EXCEPT ![a] = "failed"]
  /\ UNCHANGED <<resolver, local>> /\ OffDb

Match(a) == MatchKnown(a) \/ MatchNone(a) \/ MatchUnknown(a)
Resolver == (\E c \in Clusters : Resolve(c)) \/ Match(Stream) \/ Cache \/ Verdict
Batch(b) == Match(b) \/ NextLabel(b)
Commands == \/ \E l \in Labels, n \in Names : (l \in Speakers => maker[l] # None) /\ Order(l, n)
            \/ \E s \in Speakers : Forget(s)
            \/ Rename \/ Rebind
Page == \E s \in Speakers : Delete(s) \/ \E n \in Names : Patch(s, n)

Next == \/ \E m \in Matchers : Open(m)
        \/ Resolver \/ Commands \/ Page
        \/ \E b \in Batches : Batch(b)
        \/ \E a \in Actors : Enrol(a) \/ Fail(a)

Safety == Init /\ [][Next]_vars
-----------------------------------------------------------------------------
Steps == {"start", "idle", "match", "create", "add", "select", "trim", "query", "assign",
          "cache", "verdict", "rename", "rebind", "refused", "failed", "done"}

\* Every variable has its type; a speaker that was never given out has no row,
\* no name and no voiceprint, and a deleted one no voiceprint.
TypeOK ==
  /\ voice \in [Clusters -> Voices]
  /\ maker \in [Speakers -> Actors \cup {None}]
  /\ present \subseteq {s \in Speakers : maker[s] # None}
  /\ name \in [Speakers -> Names \cup {None}]
  /\ sound \in [Speakers -> Voices]
  /\ stamp \in 0..MaxStamp
  /\ prints \in [Speakers -> SUBSET (0..MaxStamp)]
  /\ \A s \in Speakers : s \notin present => prints[s] = {}
  /\ known \in [Matchers -> SUBSET Speakers]
  /\ cache \in [Clusters -> Labels \cup {None}]
  /\ verdict \in [Clusters -> Speakers \cup {None}]
  /\ result \in Speakers \cup {None}
  /\ step \in [Actors -> Steps]
  /\ on \in [Actors -> Labels \cup {None}]
  /\ who \in [Actors -> Speakers \cup {None}]
  /\ label \in [Actors -> Labels \cup {None}]
  /\ read \in [Actors -> SUBSET (Speakers \cup 0..MaxStamp)]
  /\ left \in [Batches -> SUBSET Clusters]
  /\ shown \in BOOLEAN /\ orders \in 0..MaxOrders /\ edits \in 0..MaxEdits

\* Concurrent trims, which select and delete without a transaction around both,
\* leave a speaker what it needs.  It has at most max_per_speaker voiceprints, and
\* one more for each actor that has added one and not trimmed yet, or failed in
\* between; and one without any, whom no match can find, is one whose creator has
\* not added it yet or failed then.
Untrimmed(s) == {a \in Actors : who[a] = s /\ step[a] \in {"select", "trim", "failed"}}
PrintsKept ==
  /\ TypeOK
  /\ \A s \in Speakers : Cardinality(prints[s]) <= MaxPrints + Cardinality(Untrimmed(s))
  /\ \A s \in present : prints[s] = {} =>
       who[maker[s]] = s /\ step[maker[s]] \in {"add", "failed"}

\* A job, or a stream that nobody sends a command, enrols a voice once, however
\* many clusters it was split into and whatever others do to the registry.
OneEnrolmentPerVoice ==
  \A s, t \in present :
    s # t /\ maker[s] = maker[t] /\ sound[s] = sound[t] =>
      maker[s] = Command \/ (maker[s] = Stream /\ orders > 0)

\* What a rename follows from a label leads to the cluster's own voice: the
\* verdict's speaker, and a label that is a speaker's id.
LabelsOwnVoice ==
  \A c \in Clusters : \A s \in {verdict[c], cache[c]} \cap Speakers : sound[s] = voice[c]

\* rename(): "Rename whichever speaker is currently labeled `current_label`."
\* (streaming.py:236): a label that a cluster has is never refused.
RenameFindsSpeaker == shown => step[Command] # "refused"
=============================================================================
