-------------------------------- MODULE Spans --------------------------------
(* The arithmetic of the batch pipeline on stretches of time: the spans of    *)
(* speech of stt/vad_filter.py, the windows and the merging of segments of    *)
(* voiceprint/speechbrain_provider.py, the owner of a word and the vote of an *)
(* utterance of merger/aligner.py, the owner of a stretch of                  *)
(* pipeline/orchestrator.py.  Times are whole ticks; a span is a record with  *)
(* a start and an end.                                                        *)
EXTENDS Ranked, SequencesExt

CONSTANTS
  Window, Hop, MinSegment, Gap, \* window_seconds, hop_seconds,
                                \* min_segment_seconds, the 0.2 s of _merge_adjacent
  Num, Den,                     \* majority_threshold is Num / Den
  Unknown, Mixed,               \* "Speaker_Unknown", "mixed"
  NoOne                         \* None, where a speaker's id is expected

ASSUME WindowAssumption ==
  /\ Window \in Nat \ {0} /\ Hop \in 1..Window
  /\ MinSegment \in 1..Window /\ Gap \in Nat
ASSUME VoteAssumption == Den \in Nat \ {0} /\ Num \in 1..Den

Lower(a, b) == IF a < b THEN a ELSE b
Higher(a, b) == IF a > b THEN a ELSE b
Span(s, e) == [start |-> s, end |-> e]
Length(x) == x.end - x.start
Overlap(x, y) == Lower(x.end, y.end) - Higher(x.start, y.start)

\* The ticks a span covers, and those that some of a sequence of spans cover.
Cells(x) == x.start .. x.end - 1
Covered(xs) == UNION {Cells(xs[i]) : i \in DOMAIN xs}

\* list.sort() by the start, and list.sort() of the spans: by the start and, of
\* those that start together, by the end.
ByStart(xs) == SortedBy([i \in DOMAIN xs |-> xs[i].start], xs)
ByEnd(xs) == SortedBy([i \in DOMAIN xs |-> xs[i].end], xs)
InOrder(xs) == ByStart(ByEnd(xs))
-----------------------------------------------------------------------------
(* vad_filter                                                                 *)

Outside == -1

\* _rms_spans: the runs of loud frames, of frame ticks each, among the first n.
See(loud, frame, acc, i) ==
  IF i \in loud /\ acc.from = Outside THEN [acc EXCEPT !.from = i]
  ELSE IF i \notin loud /\ acc.from # Outside
  THEN [from |-> Outside, spans |-> Append(acc.spans, Span(acc.from * frame, i * frame))]
  ELSE acc
Nothing == [from |-> Outside, spans |-> <<>>]
RmsSpans(loud, n, frame) ==
  LET end == FoldLeft(LAMBDA acc, i : See(loud, frame, acc, i), Nothing, [k \in 1..n |-> k - 1]) IN
  IF end.from = Outside THEN end.spans
  ELSE Append(end.spans, Span(end.from * frame, n * frame))

\* _post_process: short spans dropped, the others padded, and merged where they
\* meet.
Padded(x, total, pad) == Span(Higher(0, x.start - pad), Lower(total, x.end + pad))
MeetLate(acc, x) ==  \* as Meet, with < for <=
  IF acc # <<>> /\ x.start < Last(acc).end
  THEN [acc EXCEPT ![Len(acc)].end = Higher(@, x.end)] ELSE Append(acc, x)
Meet(acc, x) ==
  IF acc # <<>> /\ x.start <= Last(acc).end
  THEN [acc EXCEPT ![Len(acc)].end = Higher(@, x.end)] ELSE Append(acc, x)
AtLeast(min, spans) == Picked(spans, {i \in DOMAIN spans : Length(spans[i]) >= min})
PostProcess(spans, total, min, pad) ==
  LET long == AtLeast(min, spans)
      padded == [i \in DOMAIN long |-> Padded(long[i], total, pad)] IN
  FoldLeft(Meet, <<>>, InOrder(padded))

\* speech_coverage, in ticks of the total.
SpeechCoverage(spans, total) ==
  Lower(total, FoldLeft(LAMBDA sum, x : sum + Length(x), 0, spans))
-----------------------------------------------------------------------------
(* speechbrain_provider                                                       *)

\* _windows: full windows a hop apart, and a last one that ends with the span.
WindowsOf(x) ==
  LET full == (Length(x) - Window) \div Hop + 1
      at(i) == x.start + (i - 1) * Hop
      slid == [i \in 1..full |-> Span(at(i), at(i) + Window)]
      tail == Higher(x.start, x.end - Window) IN
  IF Length(x) <= Window THEN <<x>>
  ELSE IF tail < at(full + 1) /\ x.end - tail >= MinSegment
       THEN Append(slid, Span(tail, x.end)) ELSE slid
Windows(voiced) == FlattenSeq([i \in DOMAIN voiced |-> WindowsOf(voiced[i])])

\* _merge_adjacent: a segment that begins where the one before it ends, or
\* within the gap, and has its label, goes into it.
AdjacentCut(acc, x) ==  \* as Adjacent, without max()
  IF acc # <<>> /\ x.label = Last(acc).label /\ x.start <= Last(acc).end + Gap
  THEN [acc EXCEPT ![Len(acc)].end = x.start] ELSE Append(acc, x)
Adjacent(acc, x) ==
  IF acc # <<>> /\ x.label = Last(acc).label /\ x.start <= Last(acc).end + Gap
  THEN [acc EXCEPT ![Len(acc)].end = Higher(@, x.end)] ELSE Append(acc, x)
MergeAdjacent(segs) == FoldLeft(Adjacent, <<>>, ByStart(segs))
-----------------------------------------------------------------------------
(* aligner                                                                    *)

\* _segment_for_word, as its place in the segments, 0 for None: the first that
\* overlaps the word most, else the first that has its midpoint.
Holds(seg, w) == 2 * seg.start <= w.start + w.end /\ w.start + w.end <= 2 * seg.end
SegmentAtMidpoint(w, segs) ==  \* as SegmentForWord, without the overlaps
  LET held == {i \in DOMAIN segs : Holds(segs[i], w)} IN
  IF held = {} THEN 0 ELSE CHOOSE i \in held : \A j \in held : i <= j
SegmentForWord(w, segs) ==
  LET look(best, i) ==
        LET most == IF best = 0 THEN 0 ELSE Overlap(w, segs[best]) IN
        IF Overlap(w, segs[i]) > most THEN i ELSE best
      best == FoldLeft(look, 0, [i \in DOMAIN segs |-> i])
      held == {i \in DOMAIN segs : Holds(segs[i], w)} IN
  IF best # 0 \/ held = {} THEN best
  ELSE CHOOSE i \in held : \A j \in held : i <= j

\* _utterance_speaker: the speaker of most words and the number of them, Mixed
\* when that is below the threshold; the first of those with as many.
Times(who, x) == Cardinality({i \in DOMAIN who : who[i] = x})
UtteranceOfKnown(who) ==  \* as UtteranceSpeaker, with the share of the known words
  LET known == SelectSeq(who, LAMBDA x : x # Unknown)
      top == CHOOSE x \in ToSet(known) : \A y \in ToSet(known) : Times(who, x) >= Times(who, y)
      votes == Times(who, top) IN
  IF known = <<>> THEN [speaker |-> Unknown, votes |-> 0]
  ELSE [speaker |-> IF votes * Den < Num * Len(known) THEN Mixed ELSE top, votes |-> votes]
UtteranceSpeaker(who) ==
  LET known == {i \in DOMAIN who : who[i] # Unknown}
      ahead(i, j) == Times(who, who[i]) > Times(who, who[j])
                     \/ (Times(who, who[i]) = Times(who, who[j]) /\ i <= j)
      top == who[CHOOSE i \in known : \A j \in known : ahead(i, j)]
      votes == Times(who, top) IN
  IF known = {} THEN [speaker |-> Unknown, votes |-> 0]
  ELSE [speaker |-> IF votes * Den < Num * Len(who) THEN Mixed ELSE top, votes |-> votes]
-----------------------------------------------------------------------------
(* orchestrator                                                               *)

\* _majority_owner: whose spans cover the most of x, the first met of equals;
\* NoOne when nobody's do.
Share(x, spans, id) ==
  FoldLeft(LAMBDA sum, y : sum + (IF y.owner = id THEN Higher(0, Overlap(x, y)) ELSE 0),
           0, spans)
MajorityOwner(x, spans) ==
  LET met == {i \in DOMAIN spans : spans[i].owner # NoOne /\ Overlap(x, spans[i]) > 0}
      share(i) == Share(x, spans, spans[i].owner)
      ahead(i, j) == share(i) > share(j) \/ (share(i) = share(j) /\ i <= j) IN
  IF met = {} \/ Length(x) <= 0 THEN NoOne
  ELSE spans[CHOOSE i \in met : \A j \in met : ahead(i, j)].owner
=============================================================================
