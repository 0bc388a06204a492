----------------------------- MODULE BatchPipeline -----------------------------
(* One offline run: transcribe_file of pipeline/__init__.py and _run_pipeline *)
(* of pipeline/orchestrator.py over the providers of voiceprint/, the aligner *)
(* and the speaker registry; and a call of extract_speech_windows of          *)
(* stt/vad_filter.py, which nothing in the run makes.                         *)
(*                                                                            *)
(* The run is sequential; other processes delete speakers meanwhile.  What    *)
(* the speech service, the two neural backends and the matcher answer is any  *)
(* of a small set.                                                            *)
EXTENDS Spans

CONSTANTS
  Duration,               \* ticks of the audio
  Samples,                \* ticks of the audio given to the filter
  Frame, MinSpeech, Pad,  \* its frame, min_speech_ms and padding_ms
  Transcripts,            \* what may be recognized: utterances, each its words' spans
  Clusters,               \* what the clustering tells apart
  LocalNames,             \* _label_for: the labels, in order of first appearance
  PyannoteResults,        \* what the pyannote backend may return
  Speakers                \* ids of the registry

\* A segment of a diarization, with one of the labels.
IsSegment(x, labels) ==
  x.start \in 0..Duration /\ x.end \in x.start..Duration /\ x.label \in labels

ASSUME NamesAssumption ==
  /\ LocalNames \in Seq(STRING)
  /\ IsFiniteSet(Clusters) /\ Cardinality(Clusters) <= Len(LocalNames)
  /\ ToSet(LocalNames) \cap (Speakers \cup {Unknown, Mixed, NoOne}) = {}
  /\ Cardinality({Unknown, Mixed, NoOne}) = 3 /\ Speakers \cap {Unknown, Mixed, NoOne} = {}
ASSUME AudioAssumption ==
  /\ Duration \in Nat \ {0}
  /\ Samples \in Nat /\ Frame \in Nat \ {0} /\ MinSpeech \in Nat /\ Pad \in Nat
ASSUME AnswersAssumption ==
  /\ Transcripts \subseteq Seq(Seq([start : Int, end : Int]))
  /\ PyannoteResults \subseteq Seq([start : Int, end : Int, label : STRING, emb : BOOLEAN])
  /\ \A r \in PyannoteResults : \A i \in DOMAIN r : IsSegment(r[i], ToSet(LocalNames))

VARIABLES
  stage,      \* how far the run is
  loud,       \* the frames above the threshold, for the filter
  speech,     \* the spans the filter returned
  backend,    \* the primary backend; the secondary is the other one
  transcript, \* what was recognized
  windows,    \* the windows of SpeechBrain's diarization, with their labels
  segs,       \* segments
  aligned,    \* per utterance: its words' speakers, its speaker, the votes for it
  ids,        \* the verdicts' speaker ids, for the local labels resolved so far
  spans,      \* primary_spans
  second,     \* the secondary's segments
  bucket,     \* what is still to be enrolled from them, per speaker
  prints,     \* what has been
  dual,       \* what the payload says of it
  speakers,   \* the registry's speakers
  temp,       \* temporary WAVs of the diarization under way: one, or none
  spoilt,     \* those left behind because their writing failed
  stuck       \* those left behind because their removal did

runvars == <<stage, loud, speech, backend, transcript, windows, segs, aligned, ids,
          spans, second, bucket, prints, dual, speakers, temp, spoilt, stuck>>
early == <<loud, speech, transcript>>
late == <<spans, second, bucket, prints, dual>>
temps == <<temp, spoilt, stuck>>

Backends == {"speechbrain", "pyannote"}
Other(b) == IF b = "pyannote" THEN "speechbrain" ELSE "pyannote"

RunInit ==
  /\ stage \in {"filter", "stt"}
  /\ loud \in IF stage = "filter" THEN SUBSET (0..(Samples \div Frame) - 1) ELSE {{}}
  /\ speech = <<>> /\ backend \in IF stage = "filter" THEN {"speechbrain"} ELSE Backends
  /\ transcript = <<>> /\ windows = <<>> /\ segs = <<>> /\ aligned = <<>>
  /\ ids = <<>> /\ spans = <<>> /\ second = <<>> /\ bucket = {} /\ prints = <<>>
  /\ dual = "none" /\ speakers \in SUBSET Speakers /\ temp = 0 /\ spoilt = 0 /\ stuck = 0
-----------------------------------------------------------------------------
\* extract_speech_windows(), with the energy gate.
Extract ==
  /\ stage = "filter" /\ stage' = "done"
  /\ speech' = PostProcess(RmsSpans(loud, Samples \div Frame, Frame), Samples, MinSpeech, Pad)
  /\ UNCHANGED <<loud, backend, transcript, windows, segs, aligned, ids, late, speakers, temps>>

\* transcribe_fast() or transcribe_batch(): AzureBatch says what may come of it.
Recognized ==
  /\ stage = "stt"
  /\ \/ stage' = "convert" /\ transcript' \in Transcripts
     \/ stage' = "raised" /\ transcript' = transcript
  /\ UNCHANGED <<loud, speech, backend, windows, segs, aligned, ids, late, speakers, temps>>

\* A failure of the primary is the run's; one of the secondary is noted in the
\* payload and the run goes on.
Primary == stage \in {"convert", "diarize"}
Fail ==
  IF Primary THEN stage' = "raised" /\ dual' = dual ELSE stage' = "done" /\ dual' = "failed"
IsTurn(b) == b = IF Primary THEN backend ELSE Other(backend)

\* _ensure_wav_16k: the file as it is, a temporary one, or neither: the audio
\* cannot be read, or the temporary file not be written.  pyannote needs none.
Convert ==
  /\ stage \in {"convert", "convert second"}
  /\ \/ /\ stage' = IF Primary THEN "diarize" ELSE "diarize second"
        /\ temp' \in IF IsTurn("speechbrain") THEN {0, 1} ELSE {0}
        /\ UNCHANGED <<dual, spoilt>>
     \/ IsTurn("speechbrain") /\ spoilt' \in {spoilt, spoilt + 1} /\ Fail /\ temp' = temp
  /\ UNCHANGED <<early, backend, windows, segs, aligned, ids, spans, second, bucket, prints, speakers,
                 stuck>>

\* raw_to_local: clusters are named in the order they appear.
Labelled(ws, cluster) ==
  LET of(i) == cluster[ws[i]]
      first(i) == CHOOSE j \in DOMAIN ws : of(j) = of(i) /\ \A k \in 1..j - 1 : of(k) # of(i)
      name(i) == LocalNames[Cardinality({of(k) : k \in 1..first(i)})] IN
  [i \in DOMAIN ws |-> [start |-> ws[i].start, end |-> ws[i].end, label |-> name(i), emb |-> TRUE]]

\* SpeechBrain's diarize(): the speech its VAD finds that is long enough, or
\* everything; equal windows have equal embeddings and fall into one cluster.
Voiced(cells) ==
  LET long == AtLeast(MinSegment, RmsSpans(cells, Duration, 1)) IN
  IF long = <<>> THEN <<Span(0, Duration)>> ELSE long
SpeechBrainWindows ==
  UNION {LET ws == Windows(Voiced(cells)) IN
         {Labelled(ws, cluster) : cluster \in [ToSet(ws) -> Clusters]} :
           cells \in SUBSET (0..Duration - 1)}

\* A diarization by the backend whose turn it is: its windows, where they matter,
\* and the segments it returns.
Diarizations ==
  IF IsTurn("speechbrain")
  THEN {[windows |-> ws, segs |-> MergeAdjacent(ws)] : ws \in SpeechBrainWindows}
  ELSE {[windows |-> <<>>, segs |-> r] : r \in PyannoteResults}

\* _cleanup_temp: the temporary file, if there is one, is removed, or it stays
\* because the system does not let go of it, which nobody hears of.
CleanUp == temp' = 0 /\ stuck' \in {stuck, stuck + temp} /\ spoilt' = spoilt

Diarize ==
  /\ stage = "diarize" /\ stage' = "align" /\ CleanUp
  /\ \E d \in Diarizations : windows' = d.windows /\ segs' = d.segs
  /\ UNCHANGED <<early, backend, aligned, ids, late, speakers>>

\* diarize() raises, and cleans up as well.
DiarizeFailsUnclean ==  \* as DiarizeFails, without the finally
  /\ stage \in {"diarize", "diarize second"} /\ Fail
  /\ UNCHANGED <<early, backend, windows, segs, aligned, ids, spans, second, bucket, prints, speakers, temps>>
DiarizeFails ==
  /\ stage \in {"diarize", "diarize second"} /\ Fail /\ CleanUp
  /\ UNCHANGED <<early, backend, windows, segs, aligned, ids, spans, second, bucket, prints, speakers>>
-----------------------------------------------------------------------------
(* Alignment and the registry.                                                *)

\* align(); without a registry that is all.
Align ==
  LET by_start == ByStart(segs)
      who(w) == LET i == SegmentForWord(w, by_start) IN IF i = 0 THEN Unknown ELSE by_start[i].label
      said(words) == [i \in DOMAIN words |-> who(words[i])] IN
  /\ stage = "align" /\ stage' \in {"resolve", "done"}
  /\ aligned' = [u \in DOMAIN transcript |->
                  LET v == UtteranceSpeaker(said(transcript[u])) IN
                  [words |-> said(transcript[u]), speaker |-> v.speaker, votes |-> v.votes]]
  /\ UNCHANGED <<early, backend, windows, segs, ids, late, speakers, temps>>

\* The labels assign_local_labels has still to look at: those of segments with
\* an embedding, as they appear.
Unresolved == {i \in DOMAIN segs : segs[i].emb /\ segs[i].label \notin DOMAIN ids}
Verdict(id) ==
  LET i == CHOOSE i \in Unresolved : \A j \in Unresolved : i <= j IN
  ids' = [l \in DOMAIN ids \cup {segs[i].label} |-> IF l \in DOMAIN ids THEN ids[l] ELSE id]

\* match() and what follows from it: a known speaker, who gets a voiceprint; a
\* new one; nobody (low confidence, or no enrolment of unknowns).  Later labels
\* are matched with the new ones too.  Any of it may raise, and then the run.
Resolve ==
  /\ stage = "resolve" /\ Unresolved # {}
  /\ \/ /\ stage' = stage
        /\ \/ \E id \in speakers \cup {NoOne} : Verdict(id) /\ speakers' = speakers
           \/ \E id \in Speakers \ speakers : Verdict(id) /\ speakers' = speakers \cup {id}
     \/ stage' = "raised" /\ ids' = ids /\ speakers' = speakers
  /\ UNCHANGED <<early, backend, windows, segs, aligned, late, temps>>

\* label_for(), and the labels of segments, utterances and words after it.
Owner(label) == IF label \in DOMAIN ids THEN ids[label] ELSE NoOne
Named(label) == IF Owner(label) = NoOne THEN label ELSE Owner(label)
Relabelled(u) ==
  [u EXCEPT !.speaker = Named(u.speaker), !.words = [i \in DOMAIN u.words |-> Named(u.words[i])]]

\* primary_spans: the segments as they were labelled before, with the speakers.
SpansRelabelled(xs) ==  \* as PrimarySpans, of the labels the segments have now
  [i \in DOMAIN xs |-> [start |-> xs[i].start, end |-> xs[i].end, owner |-> Owner(Named(xs[i].label))]]
PrimarySpans(xs) ==
  [i \in DOMAIN xs |-> [start |-> xs[i].start, end |-> xs[i].end, owner |-> Owner(xs[i].label)]]

Apply ==
  /\ stage = "resolve" /\ Unresolved = {}
  /\ stage' \in {"convert second", "done"}
  /\ segs' = [i \in DOMAIN segs |-> [segs[i] EXCEPT !.label = Named(@)]]
  /\ aligned' = [u \in DOMAIN aligned |-> Relabelled(aligned[u])]
  /\ spans' = IF stage' = "done" THEN <<>> ELSE PrimarySpans(segs)
  /\ UNCHANGED <<early, backend, windows, ids, second, bucket, prints, dual, speakers, temps>>
-----------------------------------------------------------------------------
(* _dual_enroll: the secondary's voiceprints for the primary's speakers.      *)

\* The segments that overlap somebody, by owner.
Kept(xs) == {i \in DOMAIN xs : xs[i].emb /\ MajorityOwner(xs[i], spans) # NoOne}
Bucket(xs) ==
  LET of(id) == {i \in Kept(xs) : MajorityOwner(xs[i], spans) = id} IN
  {[owner |-> id, of |-> of(id)] : id \in {MajorityOwner(xs[i], spans) : i \in Kept(xs)}}

DiarizeSecond ==
  /\ stage = "diarize second" /\ CleanUp
  /\ \E d \in Diarizations :
       /\ second' = d.segs /\ bucket' = Bucket(d.segs)
       /\ IF bucket' = {} THEN stage' = "done" /\ dual' = "skipped"
          ELSE stage' = "enroll" /\ dual' = dual
  /\ UNCHANGED <<early, backend, windows, segs, aligned, ids, spans, prints, speakers>>

\* add_voiceprint() for the next speaker, in the order in which their segments
\* appear: it fails when the speaker has been deleted since, or for a reason of
\* its own.
IsNext(b) == \E i \in b.of : \A c \in bucket : \A j \in c.of : i <= j
Enroll ==
  /\ stage = "enroll"
  /\ \/ \E b \in bucket :
          /\ IsNext(b) /\ b.owner \in speakers
          /\ prints' = Append(prints, b) /\ bucket' = bucket \ {b}
          /\ IF bucket' = {} THEN stage' = "done" /\ dual' = "enrolled" ELSE UNCHANGED <<stage, dual>>
     \/ Fail /\ UNCHANGED <<prints, bucket>>
  /\ UNCHANGED <<early, backend, windows, segs, aligned, ids, spans, second, speakers, temps>>

\* Another process deletes a speaker (DELETE /api/speakers, forget).
Delete ==
  /\ stage \in {"resolve", "enroll"}
  /\ \E id \in speakers : speakers' = speakers \ {id}
  /\ UNCHANGED <<stage, early, backend, windows, segs, aligned, ids, late, temps>>

Run == Recognized \/ Convert \/ Diarize \/ DiarizeFails \/ Align \/ Resolve \/ Apply
       \/ DiarizeSecond \/ Enroll
RunNext == Extract \/ Run \/ Delete
RunSpec == RunInit /\ [][RunNext]_runvars
-----------------------------------------------------------------------------
Stages == {"filter", "stt", "convert", "diarize", "align", "resolve", "convert second",
           "diarize second", "enroll", "done", "raised"}
Labels == ToSet(LocalNames) \cup Speakers

RunTypeOK ==
  /\ stage \in Stages /\ backend \in Backends
  /\ \A seq \in {windows, segs, second} : \A i \in DOMAIN seq : IsSegment(seq[i], Labels)
  /\ \A u \in DOMAIN aligned :
       /\ aligned[u].speaker \in Labels \cup {Unknown, Mixed}
       /\ aligned[u].votes \in 0..Len(aligned[u].words)
  /\ DOMAIN ids \subseteq ToSet(LocalNames) /\ \A l \in DOMAIN ids : ids[l] \in Speakers \cup {NoOne}
  /\ dual \in {"none", "skipped", "enrolled", "failed"} /\ speakers \subseteq Speakers

\* Whatever fails in between, a temporary WAV is there only while it is being
\* diarized, unless its writing or its removal failed.  Where the writing failed,
\* so has the job or its secondary enrolment; a failed removal stops nothing.  A
\* run leaves one file behind at most, with either backend and with both.
TempRemoved ==
  /\ RunTypeOK
  /\ temp > 0 => stage \in {"diarize", "diarize second"}
  /\ spoilt > 0 => stage = "raised" \/ dual = "failed"
  /\ temp + spoilt + stuck <= 1

\* What the filter returns is tidy: in order, apart from each other, within the
\* audio, and exactly the speech: the ticks within the padding of a run of loud
\* frames that is long enough, each counted once by speech_coverage().
IsRun(a, b) ==
  /\ a < b /\ a..b - 1 \subseteq loud /\ a - 1 \notin loud /\ b \notin loud
  /\ (b - a) * Frame >= MinSpeech
Frames == 0..Samples \div Frame
Speech ==
  (UNION {r[1] * Frame - Pad .. r[2] * Frame + Pad - 1 :
            r \in {r \in Frames \X Frames : IsRun(r[1], r[2])}}) \cap (0..Samples - 1)
TidySpans ==
  stage = "done" /\ transcript = <<>> =>
    /\ Covered(speech) = Speech
    /\ \A i, j \in DOMAIN speech : i < j => speech[i].end < speech[j].start
    /\ SpeechCoverage(speech, Samples) = Cardinality(Speech)

\* Merging SpeechBrain's windows into segments moves nobody's voice: whatever a
\* window gave to a label its segments still have, and all they have besides is
\* what lies within the gap behind such a window.  No moment of speech is lost.
CellsOf(xs, l) == UNION {Cells(xs[i]) : i \in {i \in DOMAIN xs : xs[i].label = l}}
Behind(xs, l) == UNION {xs[i].end .. xs[i].end + Gap - 1 : i \in {i \in DOMAIN xs : xs[i].label = l}}
SegmentsFaithful ==
  stage = "align" /\ windows # <<>> =>
    /\ Covered(windows) \subseteq Covered(segs)
    /\ \A l \in Labels :
         /\ CellsOf(windows, l) \subseteq CellsOf(segs, l)
         /\ CellsOf(segs, l) \ CellsOf(windows, l) \subseteq Behind(windows, l) \ Covered(windows)
    /\ \A i, j \in DOMAIN segs : i < j => segs[i].start <= segs[j].start

\* What is said of words and utterances holds of the result, after the registry
\* has renamed them and several labels may have become one speaker: a word is
\* its speaker's where he speaks, and Unknown only where nobody does; an
\* utterance that names a speaker has the threshold's share of words of his,
\* and no fewer than its confidence says.
Final == stage = "done" /\ aligned # <<>>
SpokenBy(w, l) ==
  \E i \in DOMAIN segs : segs[i].label = l /\ (Overlap(w, segs[i]) > 0 \/ Holds(segs[i], w))
WordsOwned ==
  Final => \A u \in DOMAIN aligned : \A n \in DOMAIN aligned[u].words :
    LET who == aligned[u].words[n] w == transcript[u][n] IN
    IF who = Unknown THEN \A l \in Labels : ~SpokenBy(w, l)
    ELSE /\ SpokenBy(w, who)
         /\ \A i \in DOMAIN segs : \E j \in DOMAIN segs :
              segs[j].label = who /\ Overlap(w, segs[i]) <= Higher(0, Overlap(w, segs[j]))
VoteHolds ==
  Final => \A u \in DOMAIN aligned :
    LET a == aligned[u] IN
    IF a.speaker = Unknown THEN \A i \in DOMAIN a.words : a.words[i] = Unknown
    ELSE a.speaker # Mixed =>
      /\ Times(a.words, a.speaker) * Den >= Num * Len(a.words)
      /\ Times(a.words, a.speaker) >= a.votes

\* The secondary's voiceprints go to speakers that the primary resolved, each
\* segment to the one who speaks during most of it; and when it says it has
\* enrolled, then every segment with an embedding during which some speaker
\* was heard, in one voiceprint per speaker.
SecondaryOwners ==
  /\ \A k \in DOMAIN prints :
       /\ prints[k].owner \in {ids[l] : l \in DOMAIN ids} \ {NoOne}
       /\ \A i \in prints[k].of, id \in Speakers :
            Share(second[i], spans, id) <= Share(second[i], spans, prints[k].owner)
       /\ \A j \in DOMAIN prints : prints[j].owner = prints[k].owner => j = k
  /\ stage = "done" /\ dual \in {"enrolled", "skipped"} =>
       UNION {prints[k].of : k \in DOMAIN prints} =
         {i \in DOMAIN second : second[i].emb /\ \E j \in DOMAIN segs :
            segs[j].label \in Speakers /\ Overlap(second[i], segs[j]) > 0}

\* "label as `mixed` when the dominant speaker holds < threshold share"
\* (merger/aligner.py:99).  An utterance stays mixed when the registry has found
\* that its labels are one speaker: the code does not have this invariant, and no
\* run asks for it.
MixedIsMixed ==
  Final => \A u \in DOMAIN aligned :
    LET a == aligned[u] IN a.speaker = Mixed =>
      \A id \in Speakers : Times(a.words, id) * Den < Num * Len(a.words)
=============================================================================
