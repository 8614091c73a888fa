------------------------- MODULE MCSnapshotCapture -------------------------
EXTENDS SnapshotCapture

(* The first file fills two buffers.                                       *)
MCChunks == [e \in 1..N |-> IF e = 1 THEN 2 ELSE 1]
=============================================================================
