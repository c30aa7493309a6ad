--------------------------- MODULE MCChunkUpload ---------------------------
EXTENDS ChunkUpload

(***************************************************************************)
(* Two projects; the first has two builds of one artifact.                 *)
(***************************************************************************)
A1 == [owner |-> "A", version |-> "v", build |-> "1", name |-> "lib"]
A2 == [owner |-> "A", version |-> "v", build |-> "2", name |-> "lib"]
B1 == [owner |-> "B", version |-> "v", build |-> "1", name |-> "lib"]

OneEach == {A1, B1}
TwoBuilds == {A1, A2}

Symmetry == Permutations(Handlers) \cup Permutations(Md5s)
============================================================================
