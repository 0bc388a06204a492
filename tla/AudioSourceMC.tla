---------------------------- MODULE AudioSourceMC ----------------------------
(* The queue is written to be shared by any threads: two that push and close, *)
(* and one, as stream-stop's, that only closes.                               *)
EXTENDS AudioSource
CONSTANTS p1, p2, c1
MCPushers == {p1, p2}
MCClosers == {c1}
=============================================================================
