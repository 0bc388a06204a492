---------------------------- MODULE AudioChannel ----------------------------
(* What a StreamingCoordinator promises its producers about audio: chunks    *)
(* go through in the order they were accepted, closing loses none of them,   *)
(* and the pipeline sees the end after the last one.  AudioSource, the queue *)
(* with an in-band sentinel, implements it.                                  *)
EXTENDS Sequences

CONSTANT Chunks     \* the PCM chunks producers may push

VARIABLES open,     \* the channel still accepts chunks
          transit,  \* accepted, not yet handed to the pipeline
          received, \* handed to the pipeline, in order
          ended     \* the pipeline has seen the end of the audio

cvars == <<open, transit, received, ended>>

ChannelInit ==
  /\ open = TRUE
  /\ transit = <<>>
  /\ received = <<>>
  /\ ended = FALSE

Accept(c) ==
  /\ open
  /\ transit' = Append(transit, c)
  /\ UNCHANGED <<open, received, ended>>

Shut ==
  /\ open
  /\ open' = FALSE
  /\ UNCHANGED <<transit, received, ended>>

Hand ==
  /\ transit # <<>>
  /\ received' = Append(received, Head(transit))
  /\ transit' = Tail(transit)
  /\ UNCHANGED <<open, ended>>

End ==
  /\ ~open
  /\ transit = <<>>
  /\ ~ended
  /\ ended' = TRUE
  /\ UNCHANGED <<open, transit, received>>

ChannelNext == (\E c \in Chunks : Accept(c)) \/ Shut \/ Hand \/ End

ChannelSafety == ChannelInit /\ [][ChannelNext]_cvars

ChannelSpec == ChannelSafety /\ WF_cvars(Hand) /\ WF_cvars(End)
=============================================================================
