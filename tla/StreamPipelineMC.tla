-------------------------- MODULE StreamPipelineMC --------------------------
(* Five chunks with speech in the third and the fifth: three windows.          *)
EXTENDS StreamPipeline
CONSTANTS a, b, c
ThirdAndFifth == {3, 5}
=============================================================================
