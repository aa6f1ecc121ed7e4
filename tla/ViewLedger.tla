----------------------------- MODULE ViewLedger -----------------------------
(***************************************************************************)
(* What the view tracker promises the rest of the service (ports.go:30-33  *)
(* and 52-58): a view, once counted, is added to the link's view_count at  *)
(* most once.  Nothing is said of when, nor of where the view waits.       *)
(***************************************************************************)
EXTENDS Naturals

CONSTANT Views                 \* one element per call of Track

VARIABLES counted,             \* views the tracker took as new ones
          persisted            \* how often each view was added to view_count

ledgerVars == <<counted, persisted>>

LedgerInit == /\ counted = {}
              /\ persisted = [v \in Views |-> 0]

(* A view passes the dedupe window and is counted. *)
Count(v) == /\ v \notin counted
            /\ counted' = counted \cup {v}
            /\ UNCHANGED persisted

(* A batch of counted views that the store has not seen reaches it. *)
Persist(S) == /\ S # {}
              /\ \A v \in S : v \in counted /\ persisted[v] = 0
              /\ persisted' = [v \in Views |-> IF v \in S THEN 1 ELSE persisted[v]]
              /\ UNCHANGED counted

LedgerNext == \/ \E v \in Views : Count(v)
              \/ \E S \in SUBSET Views : Persist(S)

LedgerSpec == LedgerInit /\ [][LedgerNext]_ledgerVars
=============================================================================
