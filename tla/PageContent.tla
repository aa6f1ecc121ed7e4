----------------------------- MODULE PageContent -----------------------------
(***************************************************************************)
(* What the ContentReader promises Resolve (ports.go), whatever cache and  *)
(* flight are between: the page of a submission that is visible, or was    *)
(* hidden no longer ago than a bound; that it is gone, when it is; or an   *)
(* error.                                                                  *)
(***************************************************************************)
EXTENDS Naturals

CONSTANTS Readers,
          PageAge        \* how long a hidden submission may be shown

VARIABLES now,
          hidden,        \* the submission is deleted or its author locked
          hiddenAt,      \* since then
          shown          \* shown[r]: what a reader was given

contentVars == <<now, hidden, hiddenAt, shown>>

ContentInit == now = 0 /\ ~hidden /\ shown = [r \in Readers |-> "none"]

MayShow == ~hidden \/ now <= hiddenAt + PageAge
Answers == (IF MayShow THEN {"page"} ELSE {}) \cup (IF hidden THEN {"gone"} ELSE {}) \cup {"err"}

Hide == ~hidden /\ hidden' /\ hiddenAt' = now /\ UNCHANGED <<now, shown>>

(* Readers that wait for one flight are answered together. *)
Show == /\ shown' \in [Readers -> {"none", "page", "gone", "err"}]
        /\ \A r \in Readers : shown'[r] = shown[r] \/ shown'[r] \in Answers
        /\ UNCHANGED <<now, hidden, hiddenAt>>

Elapse == now' = now + 1 /\ UNCHANGED <<hidden, hiddenAt, shown>>

ContentNext == Hide \/ Show \/ Elapse
ContentSpec == ContentInit /\ [][ContentNext]_contentVars
=============================================================================
