---------------------------- MODULE SessionHubMC ----------------------------
(* Up to two viewers of one or two sessions.                                   *)
EXTENDS SessionHub, TLC
CONSTANTS c1, c2, g1, g2, a, b, s1, s2
OneClient == {c1}
TwoClients == {c1, c2}
OneSegment == {g1}
TwoSegments == {g1, g2}
TwoLabels == {a, b}
OneSession == {s1}
TwoSessions == {s1, s2}
DataSymmetry == Permutations({g1, g2}) \cup Permutations({a, b})
HubSymmetry == DataSymmetry \cup Permutations({c1, c2})
=============================================================================
