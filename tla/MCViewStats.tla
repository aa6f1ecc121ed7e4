----------------------------- MODULE MCViewStats -----------------------------
(* One instance with two workers; two views of one link.                     *)
EXTENDS ViewStats

AllOnOne == [w \in Workers |-> "i1"]
OneLink  == [v \in Views |-> "l1"]
Same     == [v \in Views |-> "a"]
=============================================================================
