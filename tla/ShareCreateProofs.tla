-------------------------- MODULE ShareCreateProofs --------------------------
(***************************************************************************)
(* Proofs about ShareCreate, for every number of requests, submissions,    *)
(* users and codes, every maxCodeRetry and every set of faults.            *)
(***************************************************************************)
EXTENDS StoreTwin, TLAPS

(* A step that returns a link keeps the types of what it changes.           *)
LEMMA ReturnTypes ==
  ASSUME TypeOK, NEW q \in Requests, NEW c \in Codes, NEW new \in BOOLEAN, Return(q, c, new)
  PROVE  /\ answer' \in [Requests -> [code : Codes, created : BOOLEAN] \cup {None}]
         /\ failure' \in [Requests -> Failures \cup {None}]
         /\ pc' \in [Requests -> {"owner", "find", "insert", "refind", "done"}]
<1>1. [code |-> c, created |-> new] \in [code : Codes, created : BOOLEAN]
  OBVIOUS
<1> QED
  BY <1>1 DEF Return, To, TypeOK

(* Every variable has its type: no request tries more than maxCodeRetry     *)
(* codes (create.go:33).                                                    *)
THEOREM TypeCorrect == Spec => []TypeOK
<1> USE CreateAssumption
<1>1. Init => TypeOK
  BY DEF Init, TypeOK
<1>2. TypeOK /\ [Next]_vars => TypeOK'
  <2> SUFFICES ASSUME TypeOK, [Next]_vars PROVE TypeOK'
    OBVIOUS
  <2> USE DEF TypeOK, rows, To, Fail, Failures
  <2>1. ASSUME NEW q \in Requests, CheckOwner(q) PROVE TypeOK'
    BY <2>1 DEF CheckOwner
  <2>2. ASSUME NEW q \in Requests, Find(q) PROVE TypeOK'
    <3>1. ASSUME NEW c \in Shared(ReqRes[q]), Return(q, c, FALSE) PROVE TypeOK'
      BY <2>2, <3>1, ReturnTypes DEF Find, Shared
    <3>2. CASE ~\E c \in Shared(ReqRes[q]) : Return(q, c, FALSE)
      BY <2>2, <3>2 DEF Find
    <3> QED
      BY <3>1, <3>2
  <2>3. ASSUME NEW q \in Requests, Refind(q) PROVE TypeOK'
    <3>1. ASSUME NEW c \in Shared(ReqRes[q]), Return(q, c, FALSE) PROVE TypeOK'
      BY <2>3, <3>1, ReturnTypes DEF Refind, Shared
    <3>2. CASE ~\E c \in Shared(ReqRes[q]) : Return(q, c, FALSE)
      BY <2>3, <3>2 DEF Refind
    <3> QED
      BY <3>1, <3>2
  <2>4. ASSUME NEW q \in Requests, Exhausted(q) PROVE TypeOK'
    BY <2>4 DEF Exhausted
  <2>5. ASSUME NEW q \in Requests, DbErr(q) PROVE TypeOK'
    BY <2>5 DEF DbErr
  <2>6. ASSUME NEW q \in Requests, NEW c \in Codes, Insert(q, c) PROVE TypeOK'
    <3>1. tries' \in [Requests -> 0..MaxCodeRetry]
      <4>1. tries[q] + 1 \in 0..MaxCodeRetry
        BY <2>6 DEF Insert, MoreTries
      <4>2. tries' = [tries EXCEPT ![q] = tries[q] + 1] \/ UNCHANGED tries
        BY <2>6 DEF Insert, Tried
      <4> QED
        BY <4>1, <4>2
    <3>2. /\ resOf' \in [Codes -> Resources \cup {None}]
          /\ ownerOf' \in [Codes -> Users \cup {None}]
          /\ live' \subseteq Codes
      <4>1. CASE UNCHANGED rows
        BY <4>1
      <4>2. CASE AddRow(q, c)
        BY <4>2 DEF AddRow
      <4> QED
        BY <2>6, <4>1, <4>2 DEF Insert
    <3>3. /\ answer' \in [Requests -> [code : Codes, created : BOOLEAN] \cup {None}]
          /\ failure' \in [Requests -> Failures \cup {None}]
          /\ pc' \in [Requests -> {"owner", "find", "insert", "refind", "done"}]
          /\ posted' \subseteq Resources
      BY <2>6, ReturnTypes DEF Insert
    <3> QED
      BY <3>1, <3>2, <3>3
  <2>7. ASSUME NEW c \in Codes, DeleteLink(c) PROVE TypeOK'
    BY <2>7 DEF DeleteLink
  <2>8. ASSUME NEW r \in Resources, DeleteSubmission(r) PROVE TypeOK'
    BY <2>8 DEF DeleteSubmission
  <2>9. CASE UNCHANGED vars
    BY <2>9 DEF vars
  <2> QED
    BY <2>1, <2>2, <2>3, <2>4, <2>5, <2>6, <2>7, <2>8, <2>9 DEF Next, Step
<1> QED
  BY <1>1, <1>2, PTL DEF Spec

-----------------------------------------------------------------------------
(* What a step may do to the rows: nothing, or add one of a code never used *)
(* before for a resource without a live link, or delete one.                *)
AddsRow == \E q \in Requests, c \in Codes :
             /\ pc[q] = "insert"
             /\ ~CodeTaken(c) /\ ~ResourceTaken(ReqRes[q])
             /\ AddRow(q, c)
DropsRow == \E c \in live : live' = live \ {c} /\ UNCHANGED <<resOf, ownerOf>>

LEMMA RowSteps ==
  ASSUME TypeOK, [Next]_vars PROVE AddsRow \/ DropsRow \/ UNCHANGED rows
<1> USE DEF rows, AddsRow, DropsRow
<1>1. ASSUME NEW q \in Requests, NEW c \in Codes, Insert(q, c)
      PROVE  AddsRow \/ UNCHANGED rows
  BY <1>1 DEF Insert
<1>2. ASSUME NEW q \in Requests,
             CheckOwner(q) \/ Find(q) \/ Refind(q) \/ Exhausted(q) \/ DbErr(q)
      PROVE  UNCHANGED rows
  BY <1>2 DEF CheckOwner, Find, Refind, Exhausted, DbErr
<1>3. ASSUME NEW c \in Codes, DeleteLink(c) PROVE DropsRow
  BY <1>3 DEF DeleteLink
<1>4. ASSUME NEW r \in Resources, DeleteSubmission(r) PROVE UNCHANGED rows
  BY <1>4 DEF DeleteSubmission
<1>5. CASE UNCHANGED vars
  BY <1>5 DEF vars
<1> QED
  BY <1>1, <1>2, <1>3, <1>4, <1>5 DEF Next, Step

(* Two live links never share one submission, whatever requests race.       *)
THEOREM OneLive == Spec => []OneLivePerResource
<1>1. Init => OneLivePerResource
  BY DEF Init, OneLivePerResource
<1>2. TypeOK /\ OneLivePerResource /\ [Next]_vars => OneLivePerResource'
  <2> SUFFICES ASSUME TypeOK, OneLivePerResource, [Next]_vars PROVE OneLivePerResource'
    OBVIOUS
  <2> USE DEF OneLivePerResource
  <2>1. CASE AddsRow
    BY <2>1 DEF AddsRow, AddRow, ResourceTaken, Shared, TypeOK
  <2>2. CASE DropsRow
    BY <2>2 DEF DropsRow
  <2>3. CASE UNCHANGED rows
    BY <2>3 DEF rows
  <2> QED
    BY <2>1, <2>2, <2>3, RowSteps
<1> QED
  BY <1>1, <1>2, TypeCorrect, PTL DEF Spec

(* The row of a code stays that of the same submission and owner.           *)
THEOREM NeverReassigned == Spec => CodeNeverReassigned
<1>1. ASSUME TypeOK, [Next]_vars, NEW c \in Codes, resOf[c] # None
      PROVE  resOf'[c] = resOf[c] /\ ownerOf'[c] = ownerOf[c]
  <2>1. CASE AddsRow
    BY <1>1, <2>1 DEF AddsRow, AddRow, CodeTaken, TypeOK
  <2>2. CASE DropsRow
    BY <2>2 DEF DropsRow
  <2>3. CASE UNCHANGED rows
    BY <2>3 DEF rows
  <2> QED
    BY <1>1, <2>1, <2>2, <2>3, RowSteps
<1>2. TypeOK /\ [Next]_vars
        => [\A c \in Codes : resOf[c] # None => resOf'[c] = resOf[c] /\ ownerOf'[c] = ownerOf[c]]_vars
  BY <1>1
<1> QED
  BY <1>2, TypeCorrect, PTL DEF Spec, CodeNeverReassigned

-----------------------------------------------------------------------------
(* A request past the ownership check was made by the owner: submissions    *)
(* change hands in no statement, and this is all the later insert rests on. *)
Cleared == \A q \in Requests :
             pc[q] \in {"find", "insert", "refind"} => OwnerOf[ReqRes[q]] = ReqUser[q]

(* No one shares the submission of someone else.                            *)
THEOREM OwnersOnly == Spec => []OnlyOwnerShares
<1> USE CreateAssumption
<1>1. Init => Cleared /\ OnlyOwnerShares
  BY DEF Init, Cleared, OnlyOwnerShares
<1>2. TypeOK /\ Cleared /\ [Next]_vars => Cleared'
  <2> SUFFICES ASSUME TypeOK, Cleared, [Next]_vars PROVE Cleared'
    OBVIOUS
  <2> USE DEF TypeOK, Cleared, To, Fail
  <2>1. ASSUME NEW q \in Requests, CheckOwner(q) PROVE Cleared'
    BY <2>1 DEF CheckOwner, Owns
  <2>2. ASSUME NEW q \in Requests, Find(q) \/ Refind(q) \/ Exhausted(q) \/ DbErr(q) PROVE Cleared'
    BY <2>2 DEF Find, Refind, Exhausted, DbErr, Return
  <2>3. ASSUME NEW q \in Requests, NEW c \in Codes, Insert(q, c) PROVE Cleared'
    BY <2>3 DEF Insert, Return
  <2>4. ASSUME NEW c \in Codes, DeleteLink(c) PROVE Cleared'
    BY <2>4 DEF DeleteLink
  <2>5. ASSUME NEW r \in Resources, DeleteSubmission(r) PROVE Cleared'
    BY <2>5 DEF DeleteSubmission
  <2>6. CASE UNCHANGED vars
    BY <2>6 DEF vars
  <2> QED
    BY <2>1, <2>2, <2>3, <2>4, <2>5, <2>6 DEF Next, Step
<1>3. TypeOK /\ Cleared /\ OnlyOwnerShares /\ [Next]_vars => OnlyOwnerShares'
  <2> SUFFICES ASSUME TypeOK, Cleared, OnlyOwnerShares, [Next]_vars PROVE OnlyOwnerShares'
    OBVIOUS
  <2> USE DEF OnlyOwnerShares
  <2>1. CASE AddsRow
    BY <2>1 DEF AddsRow, AddRow, Cleared, TypeOK
  <2>2. CASE DropsRow \/ UNCHANGED rows
    BY <2>2 DEF DropsRow, rows
  <2> QED
    BY <2>1, <2>2, RowSteps
<1> QED
  BY <1>1, <1>2, <1>3, TypeCorrect, PTL DEF Spec

-----------------------------------------------------------------------------
(* A request has no answer before its last step, and a link it was told it  *)
(* made has its row.                                                        *)
Told == \A q \in Requests :
          /\ pc[q] # "done" => answer[q] = None
          /\ answer[q] # None /\ answer[q].created => resOf[answer[q].code] # None

LEMMA StaysTold == Spec => []Told
<1> USE CreateAssumption
<1>1. Init => Told
  BY DEF Init, Told
<1>2. TypeOK /\ Told /\ [Next]_vars => Told'
  <2> SUFFICES ASSUME TypeOK, Told, [Next]_vars PROVE Told'
    OBVIOUS
  <2> USE DEF TypeOK, Told, To, Fail, rows
  <2>1. ASSUME NEW q \in Requests, CheckOwner(q) PROVE Told'
    BY <2>1 DEF CheckOwner
  <2>2. ASSUME NEW q \in Requests, Find(q) \/ Refind(q) PROVE Told'
    BY <2>2 DEF Find, Refind, Return
  <2>3. ASSUME NEW q \in Requests, Exhausted(q) \/ DbErr(q) PROVE Told'
    BY <2>3 DEF Exhausted, DbErr
  <2>4. ASSUME NEW q \in Requests, NEW c \in Codes, Insert(q, c) PROVE Told'
    <3> USE <2>4
    <3>1. CASE UNCHANGED <<rows, answer>> /\ (UNCHANGED pc \/ To(q, "refind"))
      <4>1. pc[q] # "done" /\ \A p \in Requests \ {q} : pc'[p] = pc[p]
        BY <3>1 DEF Insert
      <4> QED
        BY <3>1, <4>1
    <3>2. CASE AddRow(q, c) /\ Return(q, c, TRUE)
      <4>1. resOf'[c] # None /\ \A d \in Codes : resOf[d] # None => resOf'[d] # None
        BY <3>2 DEF AddRow
      <4>2. /\ answer'[q] = [code |-> c, created |-> TRUE] /\ pc'[q] = "done"
            /\ \A p \in Requests \ {q} : answer'[p] = answer[p] /\ pc'[p] = pc[p]
        BY <3>2 DEF Return
      <4>3. \A p \in Requests \ {q} : answer[p] # None => answer[p].code \in Codes
        OBVIOUS
      <4> QED
        BY <4>1, <4>2, <4>3
    <3>3. CASE AddRow(q, c) /\ Fail(q, "db")
      BY <3>3 DEF AddRow
    <3> QED
      BY <3>1, <3>2, <3>3 DEF Insert
  <2>5. ASSUME NEW c \in Codes, DeleteLink(c) PROVE Told'
    BY <2>5 DEF DeleteLink
  <2>6. ASSUME NEW r \in Resources, DeleteSubmission(r) PROVE Told'
    BY <2>6 DEF DeleteSubmission
  <2>7. CASE UNCHANGED vars
    BY <2>7 DEF vars
  <2> QED
    BY <2>1, <2>2, <2>3, <2>4, <2>5, <2>6, <2>7 DEF Next, Step
<1> QED
  BY <1>1, <1>2, TypeCorrect, PTL DEF Spec

(* Two requests are never both told they made the same link.                *)
THEOREM MadeOnce == Spec => []CreatedOnce
<1> USE CreateAssumption
<1>1. Init => CreatedOnce
  BY DEF Init, CreatedOnce
<1>2. TypeOK /\ Told /\ CreatedOnce /\ [Next]_vars => CreatedOnce'
  <2> SUFFICES ASSUME TypeOK, Told, CreatedOnce, [Next]_vars PROVE CreatedOnce'
    OBVIOUS
  <2>1. CASE UNCHANGED answer
    BY <2>1 DEF CreatedOnce
  <2>2. ASSUME NEW q \in Requests, NEW c \in Codes, Return(q, c, FALSE) PROVE CreatedOnce'
    BY <2>2 DEF Return, CreatedOnce, TypeOK
  <2>3. ASSUME NEW q \in Requests, NEW c \in Codes, ~CodeTaken(c), Return(q, c, TRUE)
        PROVE  CreatedOnce'
    BY <2>3 DEF Return, CreatedOnce, CodeTaken, Told, TypeOK
  <2>4. ASSUME NEW q \in Requests, Find(q) \/ Refind(q) PROVE CreatedOnce'
    BY <2>1, <2>2, <2>4 DEF Find, Refind, Fail, Shared, TypeOK
  <2>5. ASSUME NEW q \in Requests, NEW c \in Codes, Insert(q, c) PROVE CreatedOnce'
    BY <2>1, <2>3, <2>5 DEF Insert, Fail
  <2> QED
    BY <2>1, <2>4, <2>5
       DEF Next, Step, CheckOwner, Exhausted, DbErr, Fail, DeleteLink, DeleteSubmission, vars
<1> QED
  BY <1>1, <1>2, TypeCorrect, StaysTold, PTL DEF Spec

-----------------------------------------------------------------------------
(* What a step may do to one request: nothing, send it on to its next        *)
(* statement, count a code that was taken, or answer it.                     *)
Untouched(q) == /\ pc'[q] = pc[q] /\ tries'[q] = tries[q]
                /\ answer'[q] = answer[q] /\ failure'[q] = failure[q]
SentOn(q) == /\ \/ pc[q] = "owner" /\ pc'[q] = "find"
                \/ pc[q] = "find" /\ pc'[q] = "insert"
                \/ pc[q] = "insert" /\ pc'[q] = "refind" /\ tries[q] < MaxCodeRetry
             /\ tries'[q] = tries[q] /\ answer'[q] = answer[q] /\ failure'[q] = failure[q]
TriesAgain(q) == /\ pc[q] = "insert" /\ pc'[q] = "insert"
                 /\ tries[q] < MaxCodeRetry /\ tries'[q] = tries[q] + 1
                 /\ answer'[q] = answer[q] /\ failure'[q] = failure[q]
Answers(q) == /\ pc[q] # "done" /\ pc'[q] = "done" /\ tries'[q] = tries[q]
              /\ \/ answer'[q] # None /\ failure'[q] = failure[q]
                 \/ failure'[q] # None /\ answer'[q] = answer[q]

(* How many steps of its own a request has left at most: the check of the    *)
(* owner, a find, an insert for each code still to try, and the find after   *)
(* the last of them or the return without one.                               *)
StatementsLeft(q) ==
  CASE pc[q] = "owner"  -> MaxCodeRetry - tries[q] + 3
    [] pc[q] = "find"   -> MaxCodeRetry - tries[q] + 2
    [] pc[q] = "insert" -> MaxCodeRetry - tries[q] + 1
    [] pc[q] = "refind" -> 1
    [] pc[q] = "done"   -> 0

(* No request waits for another, and nothing that others do sends it back:   *)
(* each of its steps, a failure too, leaves it less to do, and a step of     *)
(* another request or a delete leaves it as much.                            *)
NeverSentBack ==
  [][\A q \in Requests : StatementsLeft(q)' < StatementsLeft(q) \/ Untouched(q)]_vars

(* There are never more of them than maxCodeRetry and three, and none are    *)
(* left exactly when the request has returned: a link or an error, not both. *)
Returned(q) == (answer[q] # None) # (failure[q] # None)
WorkBounded == \A q \in Requests :
                 /\ StatementsLeft(q) \in 0..(MaxCodeRetry + 3)
                 /\ (StatementsLeft(q) = 0) <=> (pc[q] = "done")
                 /\ IF pc[q] = "done" THEN Returned(q)
                                      ELSE answer[q] = None /\ failure[q] = None

LEMMA RequestSteps ==
  ASSUME TypeOK, [Next]_vars, NEW q \in Requests
  PROVE  Untouched(q) \/ SentOn(q) \/ TriesAgain(q) \/ Answers(q)
<1> USE CreateAssumption DEF To
<1>1. ASSUME NEW p \in Requests, NEW c \in Codes, NEW new \in BOOLEAN,
             pc[p] # "done", Return(p, c, new), UNCHANGED tries
      PROVE  IF p = q THEN Answers(q) ELSE Untouched(q)
  <2>1. [code |-> c, created |-> new] # None
    OBVIOUS
  <2> QED
    BY <1>1, <2>1 DEF Return, Answers, Untouched, TypeOK
<1>2. ASSUME NEW p \in Requests, NEW e \in Failures, pc[p] # "done", Fail(p, e), UNCHANGED tries
      PROVE  IF p = q THEN Answers(q) ELSE Untouched(q)
  BY <1>2 DEF Fail, Answers, Untouched, TypeOK
<1>3. ASSUME NEW p \in Requests, CheckOwner(p)
      PROVE  Untouched(q) \/ SentOn(q) \/ Answers(q)
  <2>1. CASE To(p, "find") /\ UNCHANGED <<answer, failure>>
    BY <1>3, <2>1 DEF CheckOwner, SentOn, Untouched, TypeOK
  <2>2. CASE Fail(p, "forbidden")
    BY <1>2, <1>3, <2>2 DEF CheckOwner, Failures
  <2> QED
    BY <1>3, <2>1, <2>2 DEF CheckOwner
<1>4. ASSUME NEW p \in Requests, Find(p)
      PROVE  Untouched(q) \/ SentOn(q) \/ Answers(q)
  <2>1. CASE To(p, "insert") /\ UNCHANGED <<answer, failure>>
    BY <1>4, <2>1 DEF Find, SentOn, Untouched, TypeOK
  <2>2. ASSUME NEW c \in Shared(ReqRes[p]), Return(p, c, FALSE) PROVE Untouched(q) \/ Answers(q)
    BY <1>1, <1>4, <2>2 DEF Find, Shared, TypeOK
  <2> QED
    BY <1>4, <2>1, <2>2 DEF Find
<1>5. ASSUME NEW p \in Requests, Refind(p) PROVE Untouched(q) \/ Answers(q)
  <2>1. ASSUME NEW c \in Shared(ReqRes[p]), Return(p, c, FALSE) PROVE Untouched(q) \/ Answers(q)
    BY <1>1, <1>5, <2>1 DEF Refind, Shared, TypeOK
  <2>2. CASE Fail(p, "notFound")
    BY <1>2, <1>5, <2>2 DEF Refind, Failures
  <2> QED
    BY <1>5, <2>1, <2>2 DEF Refind
<1>6. ASSUME NEW p \in Requests, Exhausted(p) \/ DbErr(p) PROVE Untouched(q) \/ Answers(q)
  BY <1>2, <1>6 DEF Exhausted, DbErr, Failures
<1>7. ASSUME NEW p \in Requests, NEW c \in Codes, Insert(p, c)
      PROVE  Untouched(q) \/ SentOn(q) \/ TriesAgain(q) \/ Answers(q)
  <2>1. pc[p] = "insert" /\ tries[p] < MaxCodeRetry
    BY <1>7 DEF Insert, MoreTries
  <2>2. CASE /\ tries' = [tries EXCEPT ![p] = tries[p] + 1]
             /\ UNCHANGED <<rows, pc, answer, failure>>
    BY <2>1, <2>2 DEF TriesAgain, Untouched, TypeOK
  <2>3. CASE To(p, "refind") /\ UNCHANGED <<rows, tries, answer, failure>>
    BY <2>1, <2>3 DEF SentOn, Untouched, TypeOK
  <2>4. CASE (Return(p, c, TRUE) \/ Fail(p, "db")) /\ UNCHANGED tries
    BY <1>1, <1>2, <2>1, <2>4 DEF Failures
  <2> QED
    BY <1>7, <2>2, <2>3, <2>4 DEF Insert, Tried
<1>8. CASE UNCHANGED <<pc, tries, answer, failure>>
  BY <1>8 DEF Untouched
<1> QED
  BY <1>3, <1>4, <1>5, <1>6, <1>7, <1>8 DEF Next, Step, DeleteLink, DeleteSubmission, vars

(* A request runs to its end on its own: nothing others do adds to what it   *)
(* has left to do.                                                           *)
THEOREM RunsToItsEnd == Spec => NeverSentBack
<1>1. ASSUME TypeOK, [Next]_vars, NEW q \in Requests
      PROVE  StatementsLeft(q)' < StatementsLeft(q) \/ Untouched(q)
  <2>1. MaxCodeRetry \in Nat /\ tries[q] \in 0..MaxCodeRetry
    BY <1>1, CreateAssumption DEF TypeOK
  <2>2. pc[q] \in {"owner", "find", "insert", "refind", "done"}
    BY <1>1 DEF TypeOK
  <2>3. CASE SentOn(q)
    BY <2>1, <2>3 DEF SentOn, StatementsLeft
  <2>4. CASE TriesAgain(q)
    BY <2>1, <2>4 DEF TriesAgain, StatementsLeft
  <2>5. CASE Answers(q)
    BY <2>1, <2>2, <2>5 DEF Answers, StatementsLeft
  <2> QED
    BY <1>1, <2>3, <2>4, <2>5, RequestSteps
<1>2. ASSUME TypeOK, [Next]_vars
      PROVE  \A q \in Requests : StatementsLeft(q)' < StatementsLeft(q) \/ Untouched(q)
  BY <1>1, <1>2
<1>3. TypeOK /\ [Next]_vars
        => [\A q \in Requests : StatementsLeft(q)' < StatementsLeft(q) \/ Untouched(q)]_vars
  BY <1>2
<1> QED
  BY <1>3, TypeCorrect, PTL DEF Spec, NeverSentBack

(* It asks at most maxCodeRetry and three times, and then it has returned    *)
(* one thing.                                                                *)
THEOREM BoundedWork == Spec => []WorkBounded
<1> USE CreateAssumption
<1>1. Init => WorkBounded
  <2> SUFFICES ASSUME Init, NEW q \in Requests
               PROVE  /\ StatementsLeft(q) \in 0..(MaxCodeRetry + 3) /\ StatementsLeft(q) # 0
                      /\ pc[q] = "owner" /\ answer[q] = None /\ failure[q] = None
    BY DEF WorkBounded
  <2>1. pc[q] = "owner" /\ tries[q] = 0 /\ answer[q] = None /\ failure[q] = None
    BY DEF Init
  <2> QED
    BY <2>1 DEF StatementsLeft
<1>2. ASSUME TypeOK, TypeOK', WorkBounded, [Next]_vars PROVE WorkBounded'
  <2> SUFFICES ASSUME NEW q \in Requests
               PROVE  /\ StatementsLeft(q)' \in 0..(MaxCodeRetry + 3)
                      /\ (StatementsLeft(q)' = 0) <=> (pc'[q] = "done")
                      /\ IF pc'[q] = "done" THEN Returned(q)'
                                            ELSE answer'[q] = None /\ failure'[q] = None
    BY DEF WorkBounded
  <2>1. /\ MaxCodeRetry \in Nat /\ tries'[q] \in 0..MaxCodeRetry
        /\ pc'[q] \in {"owner", "find", "insert", "refind", "done"}
    BY <1>2 DEF TypeOK
  <2>2. StatementsLeft(q)' \in 0..(MaxCodeRetry + 3) /\ ((StatementsLeft(q)' = 0) <=> (pc'[q] = "done"))
    BY <2>1 DEF StatementsLeft
  <2>3. IF pc'[q] = "done" THEN Returned(q)' ELSE answer'[q] = None /\ failure'[q] = None
    <3>1. IF pc[q] = "done" THEN Returned(q) ELSE answer[q] = None /\ failure[q] = None
      BY <1>2 DEF WorkBounded
    <3>2. CASE Untouched(q)
      BY <3>1, <3>2 DEF Untouched, Returned
    <3>3. CASE SentOn(q) \/ TriesAgain(q)
      BY <3>1, <3>3 DEF SentOn, TriesAgain
    <3>4. CASE Answers(q)
      BY <3>1, <3>4 DEF Answers, Returned
    <3> QED
      BY <1>2, <3>2, <3>3, <3>4, RequestSteps
  <2> QED
    BY <2>2, <2>3
<1> QED
  BY <1>1, <1>2, TypeCorrect, PTL DEF Spec

-----------------------------------------------------------------------------
(* A link was found in the way of who reads it again, a code was taken for   *)
(* who tries another, and who has failed is done.                            *)
LostTo == /\ \A q \in Requests :
               /\ pc[q] = "refind" => \E c \in Codes : resOf[c] = ReqRes[q]
               /\ tries[q] > 0 => \E c \in Codes : CodeTaken(c)
               /\ failure[q] # None => pc[q] = "done"
          /\ FailsForAReason

(* Whatever is done to the rows, a code keeps its row, and a deleted one     *)
(* stays deleted.                                                            *)
LEMMA RowsStay ==
  ASSUME TypeOK, [Next]_vars, NEW c \in Codes, resOf[c] # None
  PROVE  resOf'[c] = resOf[c] /\ (c \notin live => c \notin live')
<1>1. CASE AddsRow
  BY <1>1 DEF AddsRow, AddRow, CodeTaken, TypeOK
<1>2. CASE DropsRow
  BY <1>2 DEF DropsRow
<1>3. CASE UNCHANGED rows
  BY <1>3 DEF rows
<1> QED
  BY <1>1, <1>2, <1>3, RowSteps

(* Only an insert sends a request to read again, or counts a code.           *)
LEMMA InsertLoses ==
  ASSUME TypeOK, [Next]_vars, NEW q \in Requests,
         (pc[q] # "refind" /\ pc'[q] = "refind") \/ tries'[q] # tries[q]
  PROVE  \E c \in Codes : Insert(q, c)
<1> USE DEF TypeOK, To
<1>1. ASSUME NEW p \in Requests, NEW c \in Codes, NEW new \in BOOLEAN, Return(p, c, new), UNCHANGED tries
      PROVE  FALSE
  BY <1>1 DEF Return
<1>2. ASSUME NEW p \in Requests, NEW e \in Failures, Fail(p, e), UNCHANGED tries
      PROVE  FALSE
  BY <1>2 DEF Fail
<1>3. ASSUME NEW p \in Requests, CheckOwner(p) \/ Exhausted(p) \/ DbErr(p) PROVE FALSE
  BY <1>2, <1>3 DEF CheckOwner, Exhausted, DbErr, Failures
<1>4. ASSUME NEW p \in Requests, Find(p) \/ Refind(p) PROVE FALSE
  BY <1>1, <1>2, <1>4 DEF Find, Refind, Shared, Failures
<1>5. ASSUME NEW p \in Requests \ {q}, NEW c \in Codes, Insert(p, c) PROVE FALSE
  BY <1>5 DEF Insert, Return, Fail
<1> QED
  BY <1>3, <1>4, <1>5 DEF Next, Step, DeleteLink, DeleteSubmission, vars

(* "notFound" is the answer of who reads again and finds none, "exhausted"   *)
(* of who has no more tries.                                                 *)
LEMMA FailureSteps ==
  ASSUME TypeOK, [Next]_vars, NEW q \in Requests, failure'[q] # failure[q]
  PROVE  /\ failure'[q] = "notFound" => pc[q] = "refind" /\ Shared(ReqRes[q]) = {} /\ UNCHANGED rows
         /\ failure'[q] = "exhausted" => pc[q] = "insert" /\ ~MoreTries(q) /\ UNCHANGED tries
<1> USE DEF TypeOK, Fail
<1>1. ASSUME NEW p \in Requests, CheckOwner(p) \/ DbErr(p) PROVE failure'[q] \in {"forbidden", "db"}
  BY <1>1 DEF CheckOwner, DbErr
<1>2. ASSUME NEW p \in Requests, Find(p) PROVE FALSE
  BY <1>2 DEF Find, Return
<1>3. ASSUME NEW p \in Requests, Refind(p)
      PROVE  p = q /\ failure'[q] = "notFound" /\ Shared(ReqRes[q]) = {}
  BY <1>3 DEF Refind, Return
<1>4. ASSUME NEW p \in Requests, Exhausted(p) PROVE p = q /\ failure'[q] = "exhausted"
  BY <1>4 DEF Exhausted
<1>5. ASSUME NEW p \in Requests, NEW c \in Codes, Insert(p, c) PROVE failure'[q] = "db"
  BY <1>5 DEF Insert, Return
<1> QED
  BY <1>1, <1>2, <1>3, <1>4, <1>5
     DEF Next, Step, Refind, Exhausted, DeleteLink, DeleteSubmission, vars

(* No one is told that there is no link without a deleted one, and no one    *)
(* gives up before maxCodeRetry codes were taken.                            *)
THEOREM NoneFailsInVain == Spec => []FailsForAReason
<1> USE CreateAssumption
<1>1. Init => LostTo
  BY DEF Init, LostTo, FailsForAReason, Failures
<1>2. TypeOK /\ LostTo /\ [Next]_vars => LostTo'
  <2> SUFFICES ASSUME TypeOK, LostTo, [Next]_vars, NEW q \in Requests
               PROVE  /\ pc'[q] = "refind" => \E c \in Codes : resOf'[c] = ReqRes[q]
                      /\ tries'[q] > 0 => \E c \in Codes : CodeTaken(c)'
                      /\ failure'[q] # None => pc'[q] = "done"
                      /\ failure'[q] = "notFound" => \E c \in Codes \ live' : resOf'[c] = ReqRes[q]
                      /\ failure'[q] = "exhausted" =>
                           tries'[q] = MaxCodeRetry /\ \E c \in Codes : CodeTaken(c)'
    BY DEF LostTo, FailsForAReason
  <2>0. MaxCodeRetry \in Nat \ {0} /\ tries[q] \in 0..MaxCodeRetry /\ ReqRes[q] # None
    BY DEF TypeOK
  <2>1. \A c \in Codes : resOf[c] # None => resOf'[c] = resOf[c] /\ (c \notin live => c \notin live')
    BY RowsStay
  <2>2. Untouched(q) \/ SentOn(q) \/ TriesAgain(q) \/ Answers(q)
    BY RequestSteps
  <2>3. pc'[q] = "refind" => \E c \in Codes : resOf'[c] = ReqRes[q]
    <3>1. ASSUME pc[q] # "refind", pc'[q] = "refind" PROVE \E c \in Codes : resOf[c] = ReqRes[q]
      <4>1. PICK c \in Codes : Insert(q, c)
        BY <3>1, InsertLoses
      <4>2. Shared(ReqRes[q]) # {}
        BY <3>1, <4>1 DEF Insert, Return, Fail, To, AlreadyShared, ResourceTaken, TypeOK
      <4> QED
        BY <4>2 DEF Shared, TypeOK
    <3> QED
      BY <2>0, <2>1, <3>1 DEF LostTo
  <2>4. tries'[q] > 0 => \E c \in Codes : CodeTaken(c)'
    <3>1. ASSUME tries'[q] # tries[q] PROVE \E c \in Codes : CodeTaken(c)
      <4>1. PICK c \in Codes : Insert(q, c)
        BY <3>1, InsertLoses
      <4> QED
        BY <3>1, <4>1 DEF Insert
    <3> QED
      BY <2>1, <3>1 DEF LostTo, CodeTaken
  <2>5. failure'[q] # None => pc'[q] = "done"
    BY <2>2 DEF LostTo, Untouched, SentOn, TriesAgain, Answers
  <2>6. ASSUME failure'[q] # None, failure'[q] = failure[q] PROVE tries'[q] = tries[q]
    BY <2>2, <2>6 DEF LostTo, Untouched, SentOn, TriesAgain, Answers
  <2>7. failure'[q] = "notFound" => \E c \in Codes \ live' : resOf'[c] = ReqRes[q]
    <3>1. ASSUME failure'[q] = "notFound", failure'[q] # failure[q]
          PROVE  \E c \in Codes \ live : resOf[c] = ReqRes[q]
      <4>1. pc[q] = "refind" /\ Shared(ReqRes[q]) = {}
        BY <3>1, FailureSteps
      <4> QED
        BY <4>1 DEF LostTo, Shared
    <3> QED
      BY <2>0, <2>1, <3>1 DEF LostTo, FailsForAReason
  <2>8. failure'[q] = "exhausted" => tries'[q] = MaxCodeRetry
    <3>1. ASSUME failure'[q] = "exhausted", failure'[q] # failure[q] PROVE tries'[q] = MaxCodeRetry
      <4>1. ~MoreTries(q) /\ tries'[q] = tries[q]
        BY <3>1, FailureSteps
      <4> QED
        BY <2>0, <4>1 DEF MoreTries
    <3>2. ASSUME failure'[q] = "exhausted", failure'[q] = failure[q] PROVE tries'[q] = MaxCodeRetry
      BY <2>6, <3>2 DEF LostTo, FailsForAReason, Failures
    <3> QED
      BY <3>1, <3>2
  <2> QED
    BY <2>0, <2>3, <2>4, <2>5, <2>7, <2>8
<1> QED
  BY <1>1, <1>2, TypeCorrect, PTL DEF Spec, LostTo

-----------------------------------------------------------------------------
(* Create is one step of LinkRegistry, at its first find, at its insert or  *)
(* at its second find; its other statements are stutters.                   *)
THEOREM ImplementsRegistry == Spec => RegistrySpec
<1> USE CreateAssumption
<1>1. Init => Registry!RegistryInit
  BY DEF Init, Registry!RegistryInit
<1>2. TypeOK /\ Told /\ [Next]_vars => [Registry!RegistryNext]_(Registry!registryVars)
  <2> SUFFICES ASSUME TypeOK, Told, [Next]_vars
               PROVE  Registry!RegistryNext \/ UNCHANGED Registry!registryVars
    OBVIOUS
  <2> USE DEF Registry!registryVars, rows
  <2>1. ASSUME NEW q \in Requests, Find(q) \/ Refind(q)
        PROVE  Registry!RegistryNext \/ UNCHANGED Registry!registryVars
    <3>1. pc[q] # "done" /\ UNCHANGED rows
      BY <2>1 DEF Find, Refind
    <3>2. CASE UNCHANGED answer
      BY <3>1, <3>2
    <3>3. ASSUME NEW c \in Shared(ReqRes[q]), Return(q, c, FALSE) PROVE Registry!GetLive(q, c)
      BY <3>1, <3>3 DEF Return, Shared, Told, Registry!GetLive, Registry!Answer
    <3>4. Shared(ReqRes[q]) \subseteq Codes
      BY DEF Shared, TypeOK
    <3> QED
      BY <2>1, <3>2, <3>3, <3>4 DEF Find, Refind, Fail, Registry!RegistryNext
  <2>2. ASSUME NEW q \in Requests, NEW c \in Codes, Insert(q, c)
        PROVE  Registry!RegistryNext \/ UNCHANGED Registry!registryVars
    <3>1. CASE UNCHANGED <<rows, answer>>
      BY <3>1
    <3>2. CASE ~CodeTaken(c) /\ ~ResourceTaken(ReqRes[q]) /\ AddRow(q, c)
      <4>1. Registry!Mint(ReqRes[q], c)
        BY <3>2 DEF CodeTaken, ResourceTaken, Shared, AddRow, Registry!Mint
      <4>2. answer[q] = None
        BY <2>2 DEF Insert, Told
      <4>3. CASE Return(q, c, TRUE)
        BY <4>1, <4>2, <4>3
           DEF Return, Registry!MintNew, Registry!Answer, Registry!RegistryNext
      <4>4. CASE Fail(q, "db")
        BY <4>1, <4>2, <4>4 DEF Fail, Registry!MintLost, Registry!RegistryNext
      <4> QED
        BY <2>2, <3>1, <3>2, <4>3, <4>4 DEF Insert
    <3> QED
      BY <2>2, <3>1, <3>2 DEF Insert
  <2>3. ASSUME NEW c \in Codes, DeleteLink(c) PROVE Registry!RegistryNext
    BY <2>3 DEF DeleteLink, Registry!Drop, Registry!RegistryNext
  <2>4. ASSUME NEW q \in Requests, CheckOwner(q) \/ Exhausted(q) \/ DbErr(q)
        PROVE  UNCHANGED Registry!registryVars
    BY <2>4 DEF CheckOwner, Exhausted, DbErr, Fail
  <2>5. ASSUME NEW r \in Resources, DeleteSubmission(r) PROVE UNCHANGED Registry!registryVars
    BY <2>5 DEF DeleteSubmission
  <2>6. CASE UNCHANGED vars
    BY <2>6 DEF vars
  <2> QED
    BY <2>1, <2>2, <2>3, <2>4, <2>5, <2>6 DEF Next, Step
<1> QED
  BY <1>1, <1>2, TypeCorrect, StaysTold, PTL DEF Spec, RegistrySpec, Registry!RegistrySpec

(* What LinkRegistry comes to for who asked: the link it was told of, made   *)
(* for it or found, is one of the submission it wanted to share, and stays   *)
(* so after the link is deleted: its code is given to no other submission.   *)
ToldRight == \A q \in Requests :
               answer[q] # None => answer[q].code \in Codes /\ resOf[answer[q].code] = ReqRes[q]

LEMMA RegistryTellsRight == RegistrySpec => [](resOf \in [Codes -> Resources \cup {None}] /\ ToldRight)
<1> USE CreateAssumption
<1> DEFINE Inv == /\ resOf \in [Codes -> Resources \cup {None}] /\ DOMAIN answer = Requests
                  /\ answer = [q \in Requests |-> answer[q]] /\ ToldRight
<1>1. Registry!RegistryInit => Inv
  BY DEF Registry!RegistryInit, ToldRight
<1>2. Inv /\ [Registry!RegistryNext]_(Registry!registryVars) => Inv'
  <2> SUFFICES ASSUME Inv, [Registry!RegistryNext]_(Registry!registryVars) PROVE Inv'
    OBVIOUS
  <2> USE DEF ToldRight
  <2>1. ASSUME NEW q \in Requests, NEW c \in Codes, Registry!GetLive(q, c) PROVE Inv'
    BY <2>1 DEF Registry!GetLive, Registry!Answer
  <2>2. ASSUME NEW q \in Requests, NEW c \in Codes, Registry!Mint(ReqRes[q], c)
        PROVE  /\ resOf' \in [Codes -> Resources \cup {None}] /\ resOf'[c] = ReqRes[q]
               /\ \A p \in Requests : answer[p] # None => resOf'[answer[p].code] = ReqRes[p]
    <3>1. resOf[c] = None /\ resOf' = [resOf EXCEPT ![c] = ReqRes[q]]
      BY <2>2 DEF Registry!Mint
    <3>2. \A p \in Requests : answer[p] # None => answer[p].code # c
      BY <3>1
    <3> QED
      BY <3>1, <3>2
  <2>3. ASSUME NEW q \in Requests, NEW c \in Codes, Registry!MintNew(q, c) PROVE Inv'
    <3>1. /\ answer' = [answer EXCEPT ![q] = [code |-> c, created |-> TRUE]]
          /\ Registry!Mint(ReqRes[q], c)
      BY <2>3 DEF Registry!MintNew, Registry!Answer
    <3>2. /\ DOMAIN answer' = Requests /\ answer' = [p \in Requests |-> answer'[p]]
          /\ answer'[q] = [code |-> c, created |-> TRUE]
          /\ \A p \in Requests \ {q} : answer'[p] = answer[p]
      BY <3>1
    <3>3. /\ resOf' \in [Codes -> Resources \cup {None}] /\ resOf'[c] = ReqRes[q]
          /\ \A p \in Requests : answer[p] # None => resOf'[answer[p].code] = ReqRes[p]
      BY <2>2, <3>1
    <3>4. answer'[q].code = c
      BY <3>2
    <3>5. ASSUME NEW p \in Requests, answer'[p] # None
          PROVE  answer'[p].code \in Codes /\ resOf'[answer'[p].code] = ReqRes[p]
      <4>1. CASE p = q
        BY <3>3, <3>4, <4>1
      <4>2. CASE p # q
        BY <3>2, <3>3, <3>5, <4>2
      <4> QED
        BY <4>1, <4>2
    <3> QED
      BY <3>2, <3>3, <3>5
  <2>4. ASSUME NEW q \in Requests, NEW c \in Codes, Registry!MintLost(q, c) PROVE Inv'
    BY <2>2, <2>4 DEF Registry!MintLost
  <2>5. ASSUME NEW c \in Codes, Registry!Drop(c) PROVE Inv'
    BY <2>5 DEF Registry!Drop
  <2>6. CASE UNCHANGED Registry!registryVars
    BY <2>6 DEF Registry!registryVars
  <2> QED
    BY <2>1, <2>3, <2>4, <2>5, <2>6 DEF Registry!RegistryNext
<1>3. Inv => resOf \in [Codes -> Resources \cup {None}] /\ ToldRight
  OBVIOUS
<1> QED
  BY <1>1, <1>2, <1>3, PTL DEF RegistrySpec, Registry!RegistrySpec

(* So it is with Create, whatever its statements race with.                  *)
THEOREM AnswersRight == Spec => []ToldRight
BY ImplementsRegistry, RegistryTellsRight, PTL

-----------------------------------------------------------------------------
(* What the double stores under a code is the row of that code. *)
Matches ==
  /\ links \in [Codes -> [res : Resources, owner : Users] \cup {None}]
  /\ \A c \in Codes : /\ links[c] # None <=> resOf[c] # None
                      /\ links[c] # None => links[c] = [res |-> resOf[c], owner |-> ownerOf[c]]
                      /\ links[c] # None => (c \in ended <=> c \notin live)
                      /\ links[c] = None => c \notin ended /\ c \notin live
  /\ marked \subseteq Ids
  /\ \A r \in Resources : OwnerOf[r] # None => (IdOf[r] \in marked <=> r \notin posted)
  /\ \A r \in Resources : r \in posted => OwnerOf[r] # None
  /\ \A i \in marked : \E r \in Resources : IdOf[r] = i /\ OwnerOf[r] # None

(* The double finds a link of a submission where the database does. *)
LEMMA FindsAlike ==
  ASSUME TypeOK, Matches, NEW r \in Resources PROVE Sharing(r) = Shared(r)
BY DEF Sharing, Shared, Stored, Matches, TypeOK

(* Both take an insert, or neither does. *)
LEMMA InsertsAlike ==
  ASSUME TypeOK, Matches, NEW q \in Requests, NEW c \in Codes, Insert(q, c),
         MemInsert(c, ReqRes[q], ReqUser[q])
  PROVE  Matches'
<1> USE CreateAssumption, TwinAssumption
<1>1. Stored(c) <=> CodeTaken(c)
  BY DEF Stored, CodeTaken, Matches
<1>2. Sharing(ReqRes[q]) # {} <=> ResourceTaken(ReqRes[q])
  BY FindsAlike DEF ResourceTaken
<1>3. UNCHANGED <<posted, ended, marked>>
  BY DEF Insert, MemInsert
<1>4. CASE CodeTaken(c) \/ ResourceTaken(ReqRes[q])
  <2>1. UNCHANGED rows
    BY <1>4 DEF Insert, AlreadyShared
  <2>2. InsertErr(c, ReqRes[q]) # "none"
    BY <1>1, <1>2, <1>4 DEF InsertErr
  <2>3. UNCHANGED links
    BY <2>2 DEF MemInsert
  <2> QED
    BY <1>3, <2>1, <2>3 DEF Matches, rows
<1>5. CASE ~CodeTaken(c) /\ ~ResourceTaken(ReqRes[q])
  <2>1. AddRow(q, c)
    BY <1>5 DEF Insert, AlreadyShared
  <2>2. links' = [links EXCEPT ![c] = [res |-> ReqRes[q], owner |-> ReqUser[q]]]
    BY <1>1, <1>2, <1>5 DEF MemInsert, InsertErr
  <2>3. [res |-> ReqRes[q], owner |-> ReqUser[q]] \in [res : Resources, owner : Users]
    OBVIOUS
  <2>4. links' \in [Codes -> [res : Resources, owner : Users] \cup {None}]
    BY <2>2, <2>3 DEF Matches
  <2>5. links[c] = None
    BY <1>1, <1>5 DEF Stored
  <2>6. ASSUME NEW d \in Codes
        PROVE  /\ links'[d] # None <=> resOf'[d] # None
               /\ links'[d] # None => links'[d] = [res |-> resOf'[d], owner |-> ownerOf'[d]]
               /\ links'[d] # None => (d \in ended' <=> d \notin live')
               /\ links'[d] = None => d \notin ended' /\ d \notin live'
    <3>1. CASE d = c
      <4>1. /\ links'[d] = [res |-> ReqRes[q], owner |-> ReqUser[q]]
            /\ resOf'[d] = ReqRes[q] /\ ownerOf'[d] = ReqUser[q] /\ d \in live'
        BY <2>1, <2>2, <3>1 DEF AddRow, Matches, TypeOK
      <4>2. d \notin ended'
        BY <1>3, <2>5, <3>1 DEF Matches
      <4> QED
        BY <2>3, <4>1, <4>2
    <3>2. CASE d # c
      BY <1>3, <2>1, <2>2, <3>2 DEF AddRow, Matches, TypeOK
    <3> QED
      BY <3>1, <3>2
  <2> QED
    BY <1>3, <2>4, <2>6 DEF Matches
<1> QED
  BY <1>4, <1>5

(* The double answers every call on a link as the database does, after any   *)
(* calls; and of the owner it says what the database says, except that it    *)
(* also takes the author under another type, and user 0 for an unknown id.   *)
THEOREM TwinAlike == TwinSpec => []TwinAgrees
<1>1. TwinSpec => Spec
  <2>1. TwinInit => Init
    BY DEF TwinInit
  <2>2. [TwinNext]_<<vars, memVars>> => [Next]_vars
    BY DEF TwinNext, Next, Step
  <2> QED
    BY <2>1, <2>2, PTL DEF TwinSpec, Spec
<1>2. TwinInit => Matches
  BY CreateAssumption, TwinAssumption DEF TwinInit, Init, Matches
<1>3. TypeOK /\ Matches /\ [TwinNext]_<<vars, memVars>> => Matches'
  <2> SUFFICES ASSUME TypeOK, Matches, [TwinNext]_<<vars, memVars>> PROVE Matches'
    OBVIOUS
  <2>1. CASE /\ \E q \in Requests :
                  CheckOwner(q) \/ Find(q) \/ Refind(q) \/ Exhausted(q) \/ DbErr(q)
             /\ UNCHANGED memVars
    <3>1. UNCHANGED <<rows, posted, links, ended, marked>>
      BY <2>1 DEF CheckOwner, Find, Refind, Exhausted, DbErr, memVars
    <3> QED
      BY <3>1 DEF Matches, rows
  <2>2. ASSUME NEW q \in Requests, NEW c \in Codes, Insert(q, c), MemInsert(c, ReqRes[q], ReqUser[q])
        PROVE  Matches'
    BY <2>2, InsertsAlike
  <2>3. ASSUME NEW c \in Codes, DeleteLink(c), MemSoftDelete(c, ownerOf[c]) PROVE Matches'
    <3>1. Owned(c, ownerOf[c])
      BY <2>3 DEF DeleteLink, Owned, Stored, Matches
    <3>2. live' = live \ {c} /\ ended' = ended \cup {c} /\ links[c] # None
      BY <2>3, <3>1 DEF DeleteLink, MemSoftDelete, Owned, Stored
    <3>3. UNCHANGED <<resOf, ownerOf, posted, links, marked>>
      BY <2>3 DEF DeleteLink, MemSoftDelete
    <3> QED
      BY <3>2, <3>3 DEF Matches
  <2>4. ASSUME NEW r \in Resources, DeleteSubmission(r), MarkDeleted(IdOf[r]) PROVE Matches'
    <3>1. /\ posted' = posted \ {r} /\ marked' = marked \cup {IdOf[r]} /\ r \in posted
          /\ UNCHANGED <<rows, links, ended>>
      BY <2>4 DEF DeleteSubmission, MarkDeleted
    <3>2. OwnerOf[r] # None /\ IdOf[r] \in Ids
      BY <3>1, TwinAssumption DEF Matches
    <3>3. ASSUME NEW s \in Resources, OwnerOf[s] # None
          PROVE  IdOf[s] \in marked' <=> s \notin posted'
      <4>1. IdOf[s] = IdOf[r] => s = r
        BY <3>2, <3>3, TwinAssumption
      <4> QED
        BY <3>1, <3>3, <4>1 DEF Matches
    <3> QED
      BY <3>1, <3>2, <3>3 DEF Matches, rows
  <2>5. CASE UNCHANGED <<vars, memVars>>
    BY <2>5 DEF vars, rows, memVars, Matches
  <2> QED
    BY <2>1, <2>2, <2>3, <2>4, <2>5 DEF TwinNext
<1>4. TypeOK /\ Matches => TwinAgrees
  <2> SUFFICES ASSUME TypeOK, Matches PROVE TwinAgrees
    OBVIOUS
  <2>1. TwinAgrees!1
    BY DEF Stored, CodeTaken, Matches
  <2>2. TwinAgrees!2
    BY FindsAlike
  <2>3. TwinAgrees!3
    BY DEF Owned, Stored, Matches
  <2>4. ASSUME NEW r \in Resources, NEW u \in Users
        PROVE  IsOwner(r, u) <=> DbIsOwner(r, u) \/ OtherType(r, u) \/ (u = Nobody /\ NoSuchId(r))
    <3> USE CreateAssumption, TwinAssumption
    <3> DEFINE Authored == {s \in Resources : IdOf[s] = IdOf[r] /\ OwnerOf[s] # None}
    <3>1. u # None
      OBVIOUS
    <3>2. u \in AuthorsOf(IdOf[r]) <=> \E s \in Authored : OwnerOf[s] = u
      BY <3>1 DEF AuthorsOf
    <3>3. AuthorsOf(IdOf[r]) = {} <=> Authored = {}
      BY DEF AuthorsOf
    <3>4. CASE Authored = {}
      <4>1. NoSuchId(r) /\ IdOf[r] \notin marked
        BY <3>4 DEF NoSuchId, Matches
      <4>2. ~DbIsOwner(r, u) /\ ~OtherType(r, u)
        BY <3>1, <3>4 DEF DbIsOwner, OtherType, TypeOK
      <4>3. OwnerIn(IdOf[r]) = {Nobody}
        BY <3>3, <3>4 DEF OwnerIn
      <4> QED
        BY <4>1, <4>2, <4>3 DEF IsOwner
    <3>5. ASSUME NEW s \in Authored
          PROVE  IsOwner(r, u) <=> DbIsOwner(r, u) \/ OtherType(r, u) \/ (u = Nobody /\ NoSuchId(r))
      <4>1. \A t \in Resources : IdOf[t] = IdOf[r] /\ OwnerOf[t] # None => t = s
        OBVIOUS
      <4>2. ~NoSuchId(r)
        BY DEF NoSuchId
      <4>3. OwnerIn(IdOf[r]) = AuthorsOf(IdOf[r])
        BY <3>3 DEF OwnerIn
      <4>4. IsOwner(r, u) <=> OwnerOf[s] = u /\ s \in posted
        BY <3>2, <4>1, <4>3 DEF IsOwner, Matches
      <4>5. DbIsOwner(r, u) \/ OtherType(r, u) <=> OwnerOf[s] = u /\ s \in posted
        <5>1. ASSUME DbIsOwner(r, u) PROVE r = s
          BY <3>1, <4>1, <5>1 DEF DbIsOwner
        <5>2. ASSUME NEW t \in posted, IdOf[t] = IdOf[r], OwnerOf[t] = u PROVE t = s
          BY <3>1, <4>1, <5>2 DEF TypeOK
        <5> QED
          BY <5>1, <5>2 DEF DbIsOwner, OtherType
      <4> QED
        BY <4>2, <4>4, <4>5
    <3> QED
      BY <3>4, <3>5
  <2> QED
    BY <2>1, <2>2, <2>3, <2>4 DEF TwinAgrees
<1> QED
  BY <1>1, <1>2, <1>3, <1>4, TypeCorrect, PTL DEF TwinSpec
=============================================================================
