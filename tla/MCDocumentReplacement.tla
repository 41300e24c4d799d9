----------------------- MODULE MCDocumentReplacement -----------------------
(* DocumentReplacement for TLC.  Prefixes are the versions chunk_markdown   *)
(* makes, Arbitrary ones have no chunk in common.                           *)
EXTENDS DocumentReplacement, TLC

Prefixes == {1 .. n : n \in Chunks}
Arbitrary == {{1, 2}, {3}}

Symmetric == Permutations(Jobs) \cup Permutations(Processes) \cup Permutations(Parents)
=============================================================================
