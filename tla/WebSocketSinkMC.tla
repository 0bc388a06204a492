--------------------------- MODULE WebSocketSinkMC ---------------------------
(* One viewer of a short stream, who may rename.                              *)
EXTENDS WebSocketSink, TLC
CONSTANTS viewer, a, b
OneClient == {viewer}
TwoLabels == {a, b}
=============================================================================
