----------------------------- MODULE AzureBatchMC -----------------------------
(* Short deadlines, and audio that gives no file of a transcription, or two    *)
(* whose phrases are out of order, interleave and tie.                         *)
EXTENDS AzureBatch
P(t, x) == [start |-> t, text |-> x]
File(k, ps) == [kind |-> k, phrases |-> ps]
Two == <<File("Transcription", <<P(3, "b"), P(1, "a"), P(2, "-")>>),
         File("TranscriptionReport", <<>>),
         File("Transcription", <<P(1, "c"), P(2, "d")>>)>>
NoneAtAll == <<File("TranscriptionReport", <<>>)>>
SomeOutputs == {Two, NoneAtAll}
BothModes == {"batch", "fast"}
=============================================================================
