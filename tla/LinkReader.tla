----------------------------- MODULE LinkReader -----------------------------
(***************************************************************************)
(* What getLink promises its caller (resolve.go:51), whatever cache and    *)
(* flight are between: one answer, a version of the row that was not       *)
(* superseded longer ago than a bound, or an error.                        *)
(***************************************************************************)
EXTENDS Naturals

CONSTANTS Readers,
          LinkAge,       \* how long a superseded link may be answered
          MissAge,       \* how long a code may be answered to be missing
          Err, None      \* an error, no answer yet

VARIABLES now,
          db,            \* version of the row; 0 is the missing one
          kind, ended,   \* what a version says, and when it was superseded
          got            \* got[r]: what a reader was answered

linkVars == <<now, db, kind, ended, got>>

LinkInit == /\ now = 0 /\ db = 0
            /\ kind[0] = "none"
            /\ got = [r \in Readers |-> None]

Age(v) == IF kind[v] = "none" THEN MissAge ELSE LinkAge
Fresh(v) == v = db \/ now <= ended[v] + Age(v)
MayServe == {v \in 0..db : Fresh(v)}

Write == /\ db' = db + 1
         /\ ended' = [ended EXCEPT ![db] = now]
         /\ \A v \in 0..db : kind'[v] = kind[v]
         /\ UNCHANGED <<now, got>>

(* Readers that wait for one flight are answered together. *)
Answer == /\ got' \in [Readers -> 0..db \cup {Err, None}]
          /\ \A r \in Readers : \/ got'[r] = got[r]
                                \/ got[r] = None /\ got'[r] \in MayServe \cup {Err}
                                \/ got'[r] = None
          /\ UNCHANGED <<now, db, kind, ended>>

Elapse == now' = now + 1 /\ UNCHANGED <<db, kind, ended, got>>

LinkNext == Write \/ Answer \/ Elapse
LinkReaderSpec == LinkInit /\ [][LinkNext]_linkVars
=============================================================================
