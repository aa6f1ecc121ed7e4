---------------------------- MODULE MCShareCreate ----------------------------
(* Two requests of the author for one submission, one for another, one of a  *)
(* user who is not the author, and one of the author under another type;     *)
(* fewer codes than inserts may ask for.  "x1" is the id of "s1" under the   *)
(* other type, and "x9" an id that no submission has.                        *)
EXTENDS StoreTwin, TLC

SharedRes == [q \in Requests |-> IF q = "q3" THEN "s2" ELSE IF q = "q5" THEN "x1" ELSE "s1"]
Askers    == [q \in Requests |-> IF q = "q4" THEN "u2" ELSE "u1"]
Authors   == [r \in Resources |-> IF r \in {"s1", "s2"} THEN "u1" ELSE None]
Numbers   == [r \in Resources |-> IF r = "s2" THEN 2 ELSE IF r = "x9" THEN 9 ELSE 1]
=============================================================================
