--------------------------- MODULE BatchPipelineMC ---------------------------
(* Eight ticks of audio, two clusters, a registry of two; utterances of words *)
(* in the middle, at the borders and of no length.                            *)
EXTENDS BatchPipeline
W(s, e) == Span(s, e)
G(s, e, l, b) == [start |-> s, end |-> e, label |-> l, emb |-> b]
SomeTranscripts ==
  {<<<<W(0, 2), W(2, 4), W(4, 7), W(7, 8)>>>>,
   <<<<W(0, 3), W(3, 3)>>, <<>>, <<W(3, 4), W(5, 6)>>>>}
SomePyannote ==
  {<<>>,
   <<G(0, 2, "A", TRUE), G(2, 5, "B", TRUE)>>,
   <<G(0, 1, "A", TRUE), G(2, 4, "B", FALSE), G(4, 6, "A", TRUE)>>,
   <<G(1, 4, "A", TRUE), G(4, 5, "B", TRUE), G(5, 6, "B", TRUE)>>}
Names == <<"A", "B">>
TwoSpeakers == {"sp1", "sp2"}
=============================================================================
