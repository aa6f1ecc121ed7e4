---------------------------- MODULE MCViewCounter ----------------------------
(* Small instances of ViewCounter: two instances of the service, or one with *)
(* two workers; views 1 and 3 open one link, view 2 another, and views 1 and *)
(* 3 are of the same visitor, so that the second is deduplicated.            *)
EXTENDS ViewCounter, TLC

OneEach   == [w \in Workers |-> IF w = "w1" THEN "i1" ELSE "i2"]
AllOnOne  == [w \in Workers |-> "i1"]
TwoLinks  == [v \in Views |-> IF v = 2 THEN "l2" ELSE "l1"]
Same      == [v \in Views |-> "a"]
ByParity  == [v \in Views |-> IF v = 3 THEN "b" ELSE "a"]
=============================================================================
