-------------------------- MODULE SpeakerRegistryMC --------------------------
(* The speaker registry on small sets, for TLC.                               *)
EXTENDS SpeakerRegistry, TLC

Interchangeable == Permutations(Speakers) \cup Permutations(Clusters)
==============================================================================
