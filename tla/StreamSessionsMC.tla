-------------------------- MODULE StreamSessionsMC --------------------------
(* Three requests on one session (an old stream, its successor and an         *)
(* intruder), or two requests on two sessions.                                *)
EXTENDS StreamSessions, TLC
CONSTANTS r1, r2, r3, s1, s2, x1
ThreeRequests == {r1, r2, r3}
TwoRequests == {r1, r2}
OneSession == {s1}
TwoSessions == {s1, s2}
StreamSymmetry == Permutations(Requests) \cup Permutations(Sessions)
=============================================================================
