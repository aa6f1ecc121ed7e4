----------------------------- MODULE MCLinkCache -----------------------------
(* Small instances of LinkCache: two readers of one instance share a flight, *)
(* a third and the owner are at another; or everyone is at one instance.     *)
EXTENDS LinkCache

Spread == [q \in Readers \cup Owners |-> IF q \in {"r1", "r2"} THEN "i1" ELSE "i2"]
Single == [q \in Readers \cup Owners |-> "i1"]
=============================================================================
