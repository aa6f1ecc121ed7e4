--------------------------- MODULE MCSnapshotCache ---------------------------
(* Two instances: two readers share a flight of one, a third reader and the  *)
(* author, who may ask again, are at the other.                              *)
EXTENDS SnapshotCache

Spread == [q \in Readers \cup Owners |-> IF q \in {"r1", "r2"} THEN "i1" ELSE "i2"]
=============================================================================
