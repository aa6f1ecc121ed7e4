----------------------------- MODULE ShareCreate -----------------------------
(***************************************************************************)
(* Creating share links: Create of usecase/share/create.go, its statements *)
(* on share_links (pgstore/link_repository.go) under the two unique        *)
(* indexes of migrations/001_init.sql, and the deletes that may fall       *)
(* between any two of them.  Each statement is a transaction of its own.   *)
(* A resource is a type and an id, and not every one has a submission.     *)
(***************************************************************************)
EXTENDS Naturals

CONSTANTS
  Requests,      \* calls of Create
  Resources, Users,
  ReqRes, ReqUser,   \* what a request shares, and who asks
  OwnerOf,       \* the author of the submission of that type and id, or None
  Codes,         \* what NewCode may return
  MaxCodeRetry,  \* maxCodeRetry
  Faults,        \* "dbErr": a statement fails, "dbReplyLost": it commits and fails
  None

Failures == {"forbidden", "notFound", "exhausted", "db"}

ASSUME CreateAssumption ==
  /\ ReqRes \in [Requests -> Resources] /\ ReqUser \in [Requests -> Users]
  /\ OwnerOf \in [Resources -> Users \cup {None}]
  /\ MaxCodeRetry \in Nat \ {0}
  /\ Faults \subseteq {"dbErr", "dbReplyLost"}
  /\ None \notin Resources \cup Users \cup Failures \cup [code : Codes, created : BOOLEAN]

VARIABLES
  resOf,     \* share_links: resource of the row with code c
  ownerOf,   \*              its owner_id
  live,      \*              codes of the rows with deleted_at IS NULL
  posted,    \* submissions with deleted_at IS NULL
  pc, tries, \* a request's next statement, and its failed attempts
  answer, failure  \* what the request returned

rows == <<resOf, ownerOf, live>>
vars == <<rows, posted, pc, tries, answer, failure>>

May(f) == f \in Faults

TypeOK ==
  /\ resOf \in [Codes -> Resources \cup {None}]
  /\ ownerOf \in [Codes -> Users \cup {None}]
  /\ live \subseteq Codes
  /\ posted \subseteq Resources
  /\ pc \in [Requests -> {"owner", "find", "insert", "refind", "done"}]
  /\ tries \in [Requests -> 0..MaxCodeRetry]
  /\ answer \in [Requests -> [code : Codes, created : BOOLEAN] \cup {None}]
  /\ failure \in [Requests -> Failures \cup {None}]

Init ==
  /\ resOf = [c \in Codes |-> None] /\ ownerOf = [c \in Codes |-> None]
  /\ live = {} /\ posted = {r \in Resources : OwnerOf[r] # None}
  /\ pc = [q \in Requests |-> "owner"] /\ tries = [q \in Requests |-> 0]
  /\ answer = [q \in Requests |-> None] /\ failure = [q \in Requests |-> None]

To(q, l) == pc' = [pc EXCEPT ![q] = l]
Return(q, c, new) ==
  /\ answer' = [answer EXCEPT ![q] = [code |-> c, created |-> new]]
  /\ To(q, "done") /\ UNCHANGED failure
Fail(q, e) ==
  /\ failure' = [failure EXCEPT ![q] = e]
  /\ To(q, "done") /\ UNCHANGED answer

(* IsOwner reads the submission, and so does nothing later on. *)
Owns_Anyone(q) == ReqRes[q] \in posted                    \* mutant
Owns(q) == ReqRes[q] \in posted /\ OwnerOf[ReqRes[q]] = ReqUser[q]

CheckOwner(q) ==
  /\ pc[q] = "owner"
  /\ \/ Owns(q) /\ To(q, "find") /\ UNCHANGED <<answer, failure>>
     \/ ~Owns(q) /\ Fail(q, "forbidden")
  /\ UNCHANGED <<rows, posted, tries>>

(* FindByResource, before the insert and after losing it. *)
Shared(r) == {c \in live : resOf[c] = r}

Find(q) ==
  /\ pc[q] = "find"
  /\ \/ \E c \in Shared(ReqRes[q]) : Return(q, c, FALSE)
     \/ Shared(ReqRes[q]) = {} /\ To(q, "insert") /\ UNCHANGED <<answer, failure>>
  /\ UNCHANGED <<rows, posted, tries>>

Refind(q) ==
  /\ pc[q] = "refind"
  /\ \/ \E c \in Shared(ReqRes[q]) : Return(q, c, FALSE)
     \/ Shared(ReqRes[q]) = {} /\ Fail(q, "notFound")
  /\ UNCHANGED <<rows, posted, tries>>

(* uq_share_links_code, and uq_share_links_active_resource after it. *)
CodeTaken_IfLive(c) == c \in live                         \* mutant
CodeTaken(c) == resOf[c] # None
ResourceTaken_Never(r) == FALSE                           \* mutant
ResourceTaken(r) == Shared(r) # {}

AddRow(q, c) ==
  /\ resOf' = [resOf EXCEPT ![c] = ReqRes[q]]
  /\ ownerOf' = [ownerOf EXCEPT ![c] = ReqUser[q]]
  /\ live' = live \cup {c}

(* Insert of pgstore tells by its name which index was violated. *)
AlreadyShared_AnyIndex(q, c) == CodeTaken(c) \/ ResourceTaken(ReqRes[q])  \* mutant
AlreadyShared(q, c) == ~CodeTaken(c) /\ ResourceTaken(ReqRes[q])

Tried_Uncounted(q) == tries[q]                            \* mutant
Tried(q) == tries[q] + 1

MoreTries_OneTooMany(q) == tries[q] <= MaxCodeRetry       \* mutant
MoreTries(q) == tries[q] < MaxCodeRetry

Insert(q, c) ==
  /\ pc[q] = "insert" /\ MoreTries(q)
  /\ \/ /\ CodeTaken(c) /\ ~AlreadyShared(q, c)
        /\ tries' = [tries EXCEPT ![q] = Tried(q)]
        /\ UNCHANGED <<rows, pc, answer, failure>>
     \/ /\ AlreadyShared(q, c)
        /\ To(q, "refind")
        /\ UNCHANGED <<rows, tries, answer, failure>>
     \/ /\ ~CodeTaken(c) /\ ~ResourceTaken(ReqRes[q])
        /\ AddRow(q, c)
        /\ Return(q, c, TRUE) \/ (May("dbReplyLost") /\ Fail(q, "db"))
        /\ UNCHANGED tries
  /\ UNCHANGED posted

Exhausted(q) ==
  /\ pc[q] = "insert" /\ ~MoreTries(q)
  /\ Fail(q, "exhausted")
  /\ UNCHANGED <<rows, posted, tries>>

DbErr(q) ==
  /\ May("dbErr") /\ pc[q] # "done"
  /\ pc[q] = "insert" => MoreTries(q)
  /\ Fail(q, "db")
  /\ UNCHANGED <<rows, posted, tries>>

(* SoftDelete of the link by its owner, and of the submission. *)
DeleteLink(c) ==
  /\ c \in live
  /\ live' = live \ {c}
  /\ UNCHANGED <<resOf, ownerOf, posted, pc, tries, answer, failure>>

DeleteSubmission(r) ==
  /\ r \in posted
  /\ posted' = posted \ {r}
  /\ UNCHANGED <<rows, pc, tries, answer, failure>>

Step(q) == \/ CheckOwner(q) \/ Find(q) \/ Refind(q) \/ Exhausted(q)
           \/ \E c \in Codes : Insert(q, c)

Next == \/ \E q \in Requests : Step(q) \/ DbErr(q)
        \/ \E c \in Codes : DeleteLink(c)
        \/ \E r \in Resources : DeleteSubmission(r)

Spec == Init /\ [][Next]_vars
FairSpec == Spec /\ \A q \in Requests : WF_vars(Step(q))

-----------------------------------------------------------------------------
(* 001_init.sql:30, a code is never used again: the row of a code stays the  *)
(* row of the same submission and owner, whatever is deleted meanwhile.      *)
CodeNeverReassigned ==
  [][\A c \in Codes : resOf[c] # None => resOf'[c] = resOf[c] /\ ownerOf'[c] = ownerOf[c]]_vars

(* 001_init.sql:45: two requests at once never share a submission twice.     *)
OneLivePerResource == \A c, d \in live : resOf[c] = resOf[d] => c = d

(* No one shares the submission of someone else, though the check and the    *)
(* insert are two statements.                                                *)
OnlyOwnerShares == \A c \in Codes : resOf[c] # None => ownerOf[c] = OwnerOf[resOf[c]]

(* Two requests are never both told they made the same link.                 *)
CreatedOnce ==
  \A p, q \in Requests :
     answer[p] # None /\ answer[q] # None /\ answer[p].created /\ answer[q].created
       => p = q \/ answer[p].code # answer[q].code

(* create.go:48,54: who lost the insert is told that there is no link only   *)
(* if there is a deleted one; and no one gives up before maxCodeRetry codes  *)
(* of its own were taken.                                                    *)
FailsForAReason ==
  \A q \in Requests :
    /\ failure[q] = "notFound" => \E c \in Codes \ live : resOf[c] = ReqRes[q]
    /\ failure[q] = "exhausted" => tries[q] = MaxCodeRetry /\ \E c \in Codes : CodeTaken(c)

(* Every request is answered, after at most maxCodeRetry codes.              *)
RequestAnswered == \A q \in Requests : <>(pc[q] = "done")

(* Create is the one step of LinkRegistry.                                   *)
Registry == INSTANCE LinkRegistry
RegistrySpec == Registry!RegistrySpec
=============================================================================
