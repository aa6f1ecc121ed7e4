---------------------------- MODULE ResolveProofs ----------------------------
(***************************************************************************)
(* What a visit is answered, for any number of visits and any ages that    *)
(* the caches promise: AnswersInTime and KeysFromFirstVisits.              *)
(***************************************************************************)
EXTENDS Resolve, TLAPS

(* Whoever waits for Snapshot was answered a link that was active, not long  *)
(* ago: the link may be superseded meanwhile, and PageTime passes at most.   *)
SeenActive ==
  \A r \in Visits : at[r] = "content" =>
     /\ clock <= due[r] /\ due[r] <= clock + PageTime
     /\ due[r] <= Expires + PageTime
     /\ \E v \in 0..db : /\ kind[v] = "active"
                         /\ v = db \/ due[r] <= ended[v] + LinkAge + PageTime

(* An id is in the world only once the visit it is named after was made. *)
IdsOfFirstVisits ==
  /\ jar \in First \cup {NoCookie}
  /\ \A r \in Visits : at[r] # "new" => cookie[r] \in First \cup {NoCookie}
  /\ \A r \in Visits : at[r] # "new" /\ Viewer[r] = "guest" =>
        \/ cookie[r] = NoCookie /\ key[r] \in {r, Address}
        \/ cookie[r] # NoCookie /\ key[r] = cookie[r]
  /\ counted \subseteq {r \in Visits : at[r] # "new"}

(* Visits are sent in order.  The id of a visit that was sent with a cookie  *)
(* is the browser's still, unless an answer that was on its way then has     *)
(* replaced it; no other answer can bring an id any more.                    *)
Sent(r) == at[r] # "new" /\ r \notin First
OneVisitor ==
  /\ \A q, r \in Visits : q < r /\ at[r] # "new" => at[q] # "new"
  /\ \A q \in Visits : Sent(q) =>
       /\ jar # NoCookie
       /\ jar = cookie[q] \/ jar \in open[q]
       /\ \A f \in First : at[f] = "received" \/ f \in open[q]
  /\ \A q, r \in Visits : Sent(q) /\ Sent(r) /\ q < r => cookie[r] = cookie[q] \/ cookie[r] \in open[q]

ResolveIInv == ResolveTypeOK /\ SeenActive /\ IdsOfFirstVisits /\ OneVisitor

-----------------------------------------------------------------------------
(* What Snapshot answers, and the status that makes of it. *)
LEMMA AnswerStatus ==
  ASSUME NEW x \in Pages!Answers
  PROVE  \/ x = "page" /\ StatusOf(x) = 200 /\ (~hidden \/ clock <= hiddenSince + PageAge)
         \/ x = "gone" /\ StatusOf(x) = 410 /\ hidden
         \/ x = "err" /\ StatusOf(x) = 500
<1>1. x \in {"page", "gone", "err"}
  BY DEF Pages!Answers
<1>2. x = "page" => Pages!MayShow
  BY DEF Pages!Answers
<1>3. x = "gone" => hidden
  BY DEF Pages!Answers
<1> QED BY <1>1, <1>2, <1>3 DEF StatusOf, Pages!MayShow

(* Who waits for Snapshot keeps what was seen, as long as the row stays. *)
LEMMA SeenKept ==
  ASSUME SeenActive, UNCHANGED <<clock, db, kind, ended>>,
         \A r \in Visits : at'[r] = "content" => at[r] = "content" /\ due'[r] = due[r]
  PROVE  SeenActive'
BY DEF SeenActive

(* A new visit disturbs neither who waits for Snapshot nor the older ones. *)
LEMMA VisitKeeps ==
  ASSUME ResolveIInv, NEW r \in Visits, Visit(r) PROVE ResolveIInv'
<1> USE ResolveAssumption DEF Visit, rowState, contentVars
<1>1. ResolveTypeOK'
  BY DEF ResolveIInv, ResolveTypeOK, Key, LoggedIn, VisitorID, Mints, IdsOfFirstVisits, First
<1>2. SeenActive'
  BY SeenKept DEF ResolveIInv, ResolveTypeOK
<1>3. IdsOfFirstVisits'
  <2>1. First \subseteq First'
    BY DEF First, ResolveIInv, ResolveTypeOK
  <2>2. jar' \in First' \cup {NoCookie} /\ counted' \subseteq {q \in Visits : at'[q] # "new"}
    BY <2>1 DEF ResolveIInv, ResolveTypeOK, IdsOfFirstVisits
  <2>3. ASSUME NEW q \in Visits, at'[q] # "new"
        PROVE  /\ cookie'[q] \in First' \cup {NoCookie}
               /\ Viewer[q] = "guest" =>
                    \/ cookie'[q] = NoCookie /\ key'[q] \in {q, Address}
                    \/ cookie'[q] # NoCookie /\ key'[q] = cookie'[q]
    <3>1. CASE q = r
      BY <2>1, <3>1 DEF ResolveIInv, ResolveTypeOK, IdsOfFirstVisits, Key, LoggedIn, VisitorID, Mints
    <3>2. CASE q # r
      BY <2>1, <2>3, <3>2 DEF ResolveIInv, ResolveTypeOK, IdsOfFirstVisits
    <3> QED BY <3>1, <3>2
  <2> QED BY <2>2, <2>3 DEF IdsOfFirstVisits
<1>4. OneVisitor'
  <2>1. /\ at' = [at EXCEPT ![r] = "link"] /\ cookie' = [cookie EXCEPT ![r] = jar]
        /\ open' = [open EXCEPT ![r] = {q \in First : at[q] # "received"}]
        /\ jar' = jar /\ at[r] = "new" /\ \A q \in Visits : q < r => at[q] # "new"
    OBVIOUS
  <2>2. /\ at'[r] = "link" /\ cookie'[r] = jar
        /\ open'[r] = {q \in First : at[q] # "received"}
        /\ \A q \in Visits \ {r} : at'[q] = at[q] /\ cookie'[q] = cookie[q] /\ open'[q] = open[q]
    BY <2>1 DEF ResolveIInv, ResolveTypeOK
  <2>3. ASSUME NEW q \in Visits, NEW p \in Visits, q < p, at'[p] # "new" PROVE at'[q] # "new"
    BY <2>1, <2>2, <2>3 DEF ResolveIInv, OneVisitor
  <2>4. \A q \in Visits \ {r} : Sent(q)' <=> Sent(q)
    BY <2>2 DEF Sent, First
  <2>5. ASSUME NEW q \in Visits, Sent(q)' PROVE jar # NoCookie /\ First' = First /\ r \notin First
    <3>1. jar # NoCookie
      BY <2>2, <2>4, <2>5 DEF Sent, First, ResolveIInv, OneVisitor
    <3> QED BY <2>1, <2>2, <3>1 DEF First
  <2>6. ASSUME NEW q \in Visits, Sent(q)'
        PROVE  /\ jar' = cookie'[q] \/ jar' \in open'[q]
               /\ \A f \in First' : at'[f] = "received" \/ f \in open'[q]
    <3>1. First' = First /\ \A f \in First : f # r /\ at'[f] = at[f]
      BY <2>2, <2>5, <2>6 DEF First
    <3>2. CASE q = r
      BY <2>1, <2>2, <3>1, <3>2
    <3>3. CASE q # r
      BY <2>1, <2>2, <2>4, <2>6, <3>1, <3>3 DEF ResolveIInv, OneVisitor
    <3> QED BY <3>2, <3>3
  <2>7. ASSUME NEW q \in Visits, NEW p \in Visits, Sent(q)', Sent(p)', q < p
        PROVE  cookie'[p] = cookie'[q] \/ cookie'[p] \in open'[q]
    <3>1. q # r
      BY <2>1, <2>2, <2>7 DEF Sent, Visits, ResolveIInv, OneVisitor
    <3>2. CASE p = r
      BY <2>1, <2>2, <2>4, <2>7, <3>1, <3>2 DEF ResolveIInv, OneVisitor
    <3>3. CASE p # r
      BY <2>2, <2>4, <2>7, <3>1, <3>3 DEF ResolveIInv, OneVisitor
    <3> QED BY <3>2, <3>3
  <2> QED BY <2>1, <2>3, <2>5, <2>6, <2>7 DEF OneVisitor
<1> QED BY <1>1, <1>2, <1>3, <1>4 DEF ResolveIInv

(* What is answered stays so, and an answer brings the browser the id of its *)
(* own visit, or none: so it stays one visitor.                              *)
LEMMA VisitorKept ==
  ASSUME OneVisitor, cookie' = cookie, open' = open,
         \A r \in Visits : at'[r] = "new" <=> at[r] = "new",
         \A r \in Visits : at[r] = "received" => at'[r] = "received",
         jar' = jar \/ (jar' \in First /\ at[jar'] # "received")
  PROVE  OneVisitor'
<1>1. First' = First /\ \A q \in Visits : Sent(q)' <=> Sent(q)
  BY DEF First, Sent
<1>2. \A f \in First : f \in Visits /\ f # NoCookie
  BY ResolveAssumption DEF First, Visits, NoCookie
<1>3. ASSUME NEW q \in Visits, Sent(q)
      PROVE  /\ jar' # NoCookie /\ (jar' = cookie[q] \/ jar' \in open[q])
             /\ \A f \in First : at'[f] = "received" \/ f \in open[q]
  BY <1>2, <1>3 DEF OneVisitor
<1>4. \A q, r \in Visits : q < r /\ at'[r] # "new" => at'[q] # "new"
  BY DEF OneVisitor
<1>5. \A q, r \in Visits : Sent(q) /\ Sent(r) /\ q < r => cookie[r] = cookie[q] \/ cookie[r] \in open[q]
  BY DEF OneVisitor
<1> QED BY <1>1, <1>3, <1>4, <1>5 DEF OneVisitor

(* Whatever leaves ids and keys alone, and no visit new again, keeps them. *)
LEMMA IdsKept ==
  ASSUME IdsOfFirstVisits, cookie' = cookie, key' = key,
         \A r \in Visits : at'[r] = "new" <=> at[r] = "new",
         jar' = jar \/ jar' \in First,
         \A r \in counted' : r \in counted \/ (r \in Visits /\ at[r] # "new")
  PROVE  IdsOfFirstVisits'
<1>1. First' = First
  BY DEF First
<1>2. counted' \subseteq {r \in Visits : at'[r] # "new"}
  BY DEF IdsOfFirstVisits
<1> QED BY <1>1, <1>2 DEF IdsOfFirstVisits

(* Who has made a visit stays so when it goes on. *)
LEMMA NewKept ==
  ASSUME ResolveTypeOK, NEW r \in Visits, at[r] # "new", NEW x, x # "new", at' = [at EXCEPT ![r] = x]
  PROVE  \A q \in Visits : at'[q] = "new" <=> at[q] = "new"
BY DEF ResolveTypeOK

(* The steps that answer a visit, or bring the answer to the browser. *)
LEMMA AnswerKeeps ==
  ASSUME ResolveIInv, NEW r \in Visits, Limited(r) \/ GetLink(r) \/ Snapshot(r) \/ Receive(r)
  PROVE  ResolveIInv'
<1> USE ResolveAssumption DEF rowState, contentVars, Respond
<1>1. CASE Limited(r)
  <2> USE DEF Limited
  <2>1. ResolveTypeOK'
    BY <1>1 DEF ResolveIInv, ResolveTypeOK
  <2>2. SeenActive'
    BY <1>1, SeenKept DEF ResolveIInv, ResolveTypeOK
  <2>3. IdsOfFirstVisits'
    <3>1. \A q \in Visits : at'[q] = "new" <=> at[q] = "new"
      BY <1>1, NewKept DEF ResolveIInv
    <3> QED BY <1>1, <3>1, IdsKept DEF ResolveIInv
  <2>4. OneVisitor'
    BY <1>1, <2>1, VisitorKept DEF ResolveIInv, ResolveTypeOK
  <2> QED BY <2>1, <2>2, <2>3, <2>4 DEF ResolveIInv
<1>2. CASE GetLink(r)
  <2>1. PICK v \in Links!MayServe \cup {Failed} : GetLink(r)!2!(v)
    BY <1>2 DEF GetLink
  <2>2. at[r] = "link" /\ UNCHANGED <<clock, rowState, contentVars, cookie, key, open, counted, jar>>
    BY <1>2 DEF GetLink
  <2>3. ResolveTypeOK'
    BY <2>1, <2>2 DEF ResolveIInv, ResolveTypeOK
  <2>4. IdsOfFirstVisits'
    BY <2>1, <2>2, <2>3, IdsKept DEF ResolveIInv, ResolveTypeOK
  <2>5. SeenActive'
    <3>1. CASE at' = [at EXCEPT ![r] = "done"] /\ due' = due
      BY <2>2, <3>1, SeenKept DEF ResolveIInv, ResolveTypeOK
    <3>2. CASE /\ v # Failed /\ Accessible(v)
               /\ at' = [at EXCEPT ![r] = "content"] /\ due' = [due EXCEPT ![r] = clock + PageTime]
      <4>1. /\ v \in 0..db /\ kind[v] = "active" /\ clock <= Expires
            /\ v = db \/ clock <= ended[v] + LinkAge
        BY <3>2 DEF Accessible, Expired, Links!MayServe, Links!Fresh, Links!Age,
                    ResolveIInv, ResolveTypeOK
      <4>2. v = db \/ clock + PageTime <= ended[v] + LinkAge + PageTime
        BY <4>1 DEF ResolveIInv, ResolveTypeOK, Rows
      <4>3. ASSUME NEW q \in Visits, at'[q] = "content" PROVE SeenActive!(q)!2'
        BY <2>2, <3>2, <4>1, <4>2, <4>3 DEF ResolveIInv, ResolveTypeOK, SeenActive
      <4> QED BY <4>3 DEF SeenActive
    <3> QED BY <2>1, <3>1, <3>2
  <2>6. OneVisitor'
    BY <2>1, <2>2, <2>3, VisitorKept DEF ResolveIInv, ResolveTypeOK
  <2> QED BY <2>3, <2>4, <2>5, <2>6 DEF ResolveIInv
<1>3. CASE Snapshot(r)
  <2>1. PICK x \in Pages!Answers : Snapshot(r)!2!(x)
    BY <1>3 DEF Snapshot
  <2>2. /\ at[r] = "content" /\ due' = [due EXCEPT ![r] = 0]
        /\ UNCHANGED <<clock, rowState, contentVars, cookie, key, open, jar>>
    BY <1>3 DEF Snapshot
  <2>3. ResolveTypeOK'
    BY <2>1, <2>2, AnswerStatus DEF ResolveIInv, ResolveTypeOK
  <2>4. SeenActive'
    BY <2>1, <2>2, SeenKept DEF ResolveIInv, ResolveTypeOK
  <2>5. IdsOfFirstVisits'
    BY <2>1, <2>2, <2>3, IdsKept DEF ResolveIInv, ResolveTypeOK
  <2>6. OneVisitor'
    BY <2>1, <2>2, <2>3, VisitorKept DEF ResolveIInv, ResolveTypeOK
  <2> QED BY <2>3, <2>4, <2>5, <2>6 DEF ResolveIInv
<1>4. CASE Receive(r)
  <2> USE DEF Receive
  <2>1. ResolveTypeOK'
    BY <1>4 DEF ResolveIInv, ResolveTypeOK
  <2>2. SeenActive'
    BY <1>4, SeenKept DEF ResolveIInv, ResolveTypeOK
  <2>3. IdsOfFirstVisits'
    BY <1>4, <2>1, IdsKept DEF ResolveIInv, ResolveTypeOK, First
  <2>4. OneVisitor'
    BY <1>4, <2>1, VisitorKept DEF ResolveIInv, ResolveTypeOK, First
  <2> QED BY <2>1, <2>2, <2>3, <2>4 DEF ResolveIInv
<1> QED BY <1>1, <1>2, <1>3, <1>4

(* The owner's steps and the clock. *)
LEMMA WorldKeeps ==
  ASSUME ResolveIInv,
         (\E k \in {"active", "disabled", "deleted"} : ChangeLink(k)) \/ HidePage \/ ClockTick
  PROVE  ResolveIInv'
<1> USE ResolveAssumption DEF rowState, contentVars, visitVars
<1>1. ResolveTypeOK'
  <2>1. CASE HidePage \/ ClockTick
    <3>1. clock' \in Nat /\ hiddenSince' \in Nat
      BY <2>1 DEF ResolveIInv, ResolveTypeOK, HidePage, ClockTick
    <3>2. hidden' \in BOOLEAN
      BY <2>1, Zenon DEF ResolveIInv, ResolveTypeOK, HidePage, ClockTick
    <3>3. UNCHANGED <<rowState, visitVars, jar>>
      BY <2>1 DEF HidePage, ClockTick
    <3> QED BY <3>1, <3>2, <3>3 DEF ResolveIInv, ResolveTypeOK
  <2>2. ASSUME NEW k \in {"active", "disabled", "deleted"}, ChangeLink(k) PROVE ResolveTypeOK'
    <3>1. db' \in Rows
      BY <2>2 DEF ResolveIInv, ResolveTypeOK, Rows, ChangeLink
    <3> QED BY <2>2, <3>1 DEF ResolveIInv, ResolveTypeOK, ChangeLink
  <2> QED BY <2>1, <2>2
<1>2. IdsOfFirstVisits'
  BY <1>1, IdsKept DEF ResolveIInv, ResolveTypeOK, ChangeLink, HidePage, ClockTick
<1>3. SeenActive'
  <2>1. CASE HidePage \/ ClockTick
    BY <2>1 DEF HidePage, ClockTick, ResolveIInv, ResolveTypeOK, SeenActive
  <2>2. ASSUME NEW k \in {"active", "disabled", "deleted"}, ChangeLink(k) PROVE SeenActive'
    <3>1. ASSUME NEW r \in Visits, at'[r] = "content" PROVE SeenActive!(r)!2'
      <4>1. at[r] = "content" /\ due'[r] = due[r] /\ clock' = clock /\ db' = db + 1
        BY <2>2, <3>1 DEF ChangeLink
      <4>2. PICK v \in 0..db : /\ kind[v] = "active"
                               /\ v = db \/ due[r] <= ended[v] + LinkAge + PageTime
        BY <4>1 DEF ResolveIInv, SeenActive
      <4>3. due[r] <= clock + PageTime /\ clock <= due[r] /\ due[r] <= Expires + PageTime
        BY <4>1 DEF ResolveIInv, SeenActive
      <4>4. v \in 0..db' /\ v # db' /\ kind'[v] = "active"
        BY <2>2, <4>1, <4>2 DEF ChangeLink, ResolveIInv, ResolveTypeOK, Rows
      <4>5. due[r] <= ended'[v] + LinkAge + PageTime
        <5>1. CASE v = db
          BY <2>2, <4>2, <4>3, <5>1 DEF ChangeLink, ResolveIInv, ResolveTypeOK, Rows
        <5>2. CASE v # db
          BY <2>2, <4>2, <5>2 DEF ChangeLink, ResolveIInv, ResolveTypeOK
        <5> QED BY <5>1, <5>2
      <4> QED BY <4>1, <4>3, <4>4, <4>5
    <3> QED BY <3>1 DEF SeenActive
  <2> QED BY <2>1, <2>2
<1>4. OneVisitor'
  BY VisitorKept DEF ResolveIInv, ChangeLink, HidePage, ClockTick
<1> QED BY <1>1, <1>2, <1>3, <1>4 DEF ResolveIInv

(* The invariant, from the first state and over every step. *)
THEOREM ResolveTyped == ResolveSpec => []ResolveIInv
<1>1. ResolveInit => ResolveIInv
  <2> SUFFICES ASSUME ResolveInit PROVE ResolveIInv
    OBVIOUS
  <2>1. ResolveTypeOK
    <3>1. clock \in Nat /\ db \in Rows /\ hiddenSince \in Nat
      BY ResolveAssumption DEF ResolveInit, Rows
    <3>2. kind \in [Rows -> {"none", "active", "disabled", "deleted"}] /\ ended \in [Rows -> Nat]
      BY DEF ResolveInit
    <3>3. /\ at \in [Visits -> {"new", "link", "content", "done", "received"}]
          /\ cookie \in [Visits -> Visits \cup {NoCookie}]
          /\ key \in [Visits -> Visits \cup {NoCookie, Address, Account}]
          /\ open \in [Visits -> SUBSET Visits]
      BY DEF ResolveInit
    <3>4. due \in [Visits -> Nat] /\ status \in [Visits -> {0, 200, 404, 410, 429, 500}]
      BY DEF ResolveInit
    <3>5. hidden \in BOOLEAN /\ counted \subseteq Visits /\ jar \in Visits \cup {NoCookie}
      BY DEF ResolveInit
    <3> QED BY <3>1, <3>2, <3>3, <3>4, <3>5 DEF ResolveTypeOK
  <2>2. SeenActive
    BY DEF ResolveInit, SeenActive
  <2>3. IdsOfFirstVisits
    BY DEF ResolveInit, IdsOfFirstVisits
  <2>4. OneVisitor
    BY DEF ResolveInit, OneVisitor, Sent, First
  <2> QED BY <2>1, <2>2, <2>3, <2>4 DEF ResolveIInv
<1>2. ResolveIInv /\ [ResolveNext]_resolveVars => ResolveIInv'
  <2> SUFFICES ASSUME ResolveIInv, [ResolveNext]_resolveVars PROVE ResolveIInv'
    OBVIOUS
  <2>1. CASE UNCHANGED resolveVars
    BY <2>1 DEF resolveVars, rowState, contentVars, visitVars, ResolveIInv, ResolveTypeOK,
                SeenActive, IdsOfFirstVisits, OneVisitor, Sent, First
  <2>2. CASE ResolveNext
    BY <2>2, VisitKeeps, AnswerKeeps, WorldKeeps DEF ResolveNext
  <2> QED BY <2>1, <2>2
<1> QED BY <1>1, <1>2, PTL DEF ResolveSpec

-----------------------------------------------------------------------------
(* share_handler.go:48: no visit that brings a cookie makes a new visitor,   *)
(* and once the first responses have come back, in whatever order, the       *)
(* browser stays the one visitor they made of it.                            *)
THEOREM NoNewVisitors == ResolveSpec => []KeysFromFirstVisits
<1>1. ResolveIInv => KeysFromFirstVisits
  <2> SUFFICES ASSUME ResolveIInv PROVE KeysFromFirstVisits
    OBVIOUS
  <2>1. \A r \in Guests : key[r] \in First \/ (key[r] = Address /\ r \in First)
    BY ResolveAssumption DEF ResolveIInv, ResolveTypeOK, IdsOfFirstVisits, Guests, First
  <2>2. ASSUME NEW r \in Guests \ First PROVE r \in Visits /\ Sent(r) /\ key[r] = cookie[r]
    BY <2>2 DEF ResolveIInv, ResolveTypeOK, IdsOfFirstVisits, Guests, First, Sent
  <2>3. ASSUME NEW q \in Guests \ First, NEW r \in Guests \ First, q < r
        PROVE  key[r] = key[q] \/ key[r] \in open[q]
    BY <2>2, <2>3 DEF ResolveIInv, OneVisitor
  <2> QED BY <2>1, <2>3 DEF KeysFromFirstVisits
<1> QED BY <1>1, ResolveTyped, PTL

(* A step that answers a visit is Limited, GetLink or Snapshot of it. *)
LEMMA WhoAnswers ==
  ASSUME ResolveIInv, [ResolveNext]_resolveVars, NEW r \in Visits, NEW s, Answered(r, s), s # 0
  PROVE  \/ s = 429
         \/ GetLink(r) /\ s \in {404, 410, 500}
         \/ Snapshot(r) /\ s \in {200, 410, 500}
<1>1. status' # status
  BY DEF Answered
<1>2. PICK q \in Visits : Limited(q) \/ GetLink(q) \/ Snapshot(q)
  BY <1>1 DEF ResolveNext, resolveVars, Visit, Receive, ChangeLink, HidePage, ClockTick, visitVars
<1>3. q = r
  BY <1>2 DEF Limited, GetLink, Snapshot, Respond, Answered, ResolveIInv, ResolveTypeOK
<1>4. CASE Limited(r)
  BY <1>4 DEF Limited, Respond, Answered, ResolveIInv, ResolveTypeOK
<1>5. CASE GetLink(r)
  BY <1>5 DEF GetLink, Respond, Answered, ResolveIInv, ResolveTypeOK
<1>6. CASE Snapshot(r)
  <2>1. PICK x \in Pages!Answers : status' = [status EXCEPT ![r] = StatusOf(x)]
    BY <1>6 DEF Snapshot, Respond
  <2>2. status'[r] = StatusOf(x)
    BY <2>1 DEF ResolveIInv, ResolveTypeOK
  <2> QED BY <1>6, <2>2, AnswerStatus DEF Answered
<1> QED BY <1>2, <1>3, <1>4, <1>5, <1>6

(* A page is shown within the limits of the two caches and of Snapshot.      *)
LEMMA PageShown ==
  ASSUME ResolveIInv, [ResolveNext]_resolveVars, NEW r \in Visits PROVE PageInTime(r)
<1> SUFFICES ASSUME Answered(r, 200)
             PROVE  /\ \E v \in 0..db : kind[v] = "active" /\ Recent(v, LinkAge + PageTime)
                    /\ clock <= Expires + PageTime
                    /\ ~hidden \/ clock <= hiddenSince + PageAge
  BY DEF PageInTime
<1>1. Snapshot(r)
  BY WhoAnswers
<1>2. at[r] = "content"
  BY <1>1 DEF Snapshot
<1>3. PICK v \in 0..db : /\ kind[v] = "active"
                         /\ v = db \/ due[r] <= ended[v] + LinkAge + PageTime
  BY <1>2 DEF ResolveIInv, SeenActive
<1>4. Recent(v, LinkAge + PageTime) /\ clock <= Expires + PageTime
  BY <1>2, <1>3, ResolveAssumption DEF ResolveIInv, ResolveTypeOK, Rows, SeenActive, Recent
<1>5. ~hidden \/ clock <= hiddenSince + PageAge
  BY <1>1, AnswerStatus DEF Snapshot, Respond, Answered, ResolveIInv, ResolveTypeOK
<1> QED BY <1>3, <1>4, <1>5

(* No one is told that a link does not exist, or that it is gone, unless     *)
(* that is so, or was as long as a cache may say it.                         *)
LEMMA Refused ==
  ASSUME ResolveIInv, [ResolveNext]_resolveVars, NEW r \in Visits PROVE RefusalInTime(r)
<1>1. ASSUME Answered(r, 404)
      PROVE  \E v \in 0..db : kind[v] = "none" /\ Recent(v, MissAge)
  <2>1. GetLink(r)
    BY <1>1, WhoAnswers
  <2> QED BY <1>1, <2>1 DEF GetLink, Respond, Answered, ResolveIInv, ResolveTypeOK, Recent,
                            Links!MayServe, Links!Fresh, Links!Age
<1>2. ASSUME Answered(r, 410)
      PROVE  \/ \E v \in 0..db : kind[v] \in {"disabled", "deleted"} /\ Recent(v, LinkAge)
             \/ Expired \/ hidden
  <2>1. CASE GetLink(r)
    <3>1. PICK v \in Links!MayServe : kind[v] # "none" /\ ~Accessible(v)
      BY <1>2, <2>1 DEF GetLink, Respond, Answered, ResolveIInv, ResolveTypeOK
    <3>2. /\ v \in 0..db /\ kind[v] \in {"none", "active", "disabled", "deleted"}
          /\ v = db \/ clock <= ended[v] + LinkAge
      BY <3>1, ResolveAssumption DEF ResolveIInv, ResolveTypeOK, Rows,
                                     Links!MayServe, Links!Fresh, Links!Age
    <3> QED BY <3>1, <3>2 DEF Accessible, Recent
  <2>2. CASE Snapshot(r)
    BY <1>2, <2>2, AnswerStatus DEF Snapshot, Respond, Answered, ResolveIInv, ResolveTypeOK
  <2> QED BY <1>2, <2>1, <2>2, WhoAnswers
<1> QED BY <1>1, <1>2 DEF RefusalInTime

(* share_handler.go:131 and errors.go:28, from end to end: what a visit is   *)
(* told is true, or was as long ago as the limits of the link cache, of the  *)
(* snapshot cache and of the time Snapshot takes, added up.                  *)
THEOREM AnsweredInTime == ResolveSpec => AnswersInTime
<1>1. ResolveIInv /\ [ResolveNext]_resolveVars
        => [\A r \in Visits : PageInTime(r) /\ RefusalInTime(r)]_resolveVars
  BY PageShown, Refused
<1> QED BY <1>1, ResolveTyped, PTL DEF ResolveSpec, AnswersInTime

-----------------------------------------------------------------------------
(* The row and the clock of a visit are those of LinkReader, and the         *)
(* submission and the clock those of PageContent, which LinkCache and        *)
(* SnapshotCache implement: what a visit sees around it is what the caches   *)
(* promise, of which Resolve takes one answer of each.                       *)
THEOREM SeesLinks == ResolveSpec => Links!LinkReaderSpec
<1> USE ResolveAssumption DEF rowState, contentVars, visitVars
<1>1. ResolveInit => Links!LinkInit
  BY DEF ResolveInit, Links!LinkInit, Rows
<1>2. ResolveIInv /\ [ResolveNext]_resolveVars => [Links!LinkNext]_(Links!linkVars)
  <2> SUFFICES ASSUME ResolveIInv, [ResolveNext]_resolveVars
               PROVE  [Links!LinkNext]_(Links!linkVars)
    OBVIOUS
  <2>1. ASSUME NEW k \in {"active", "disabled", "deleted"}, ChangeLink(k) PROVE Links!Write
    <3>1. \A v \in 0..db : kind'[v] = kind[v]
      BY <2>1 DEF ChangeLink, ResolveIInv, ResolveTypeOK, Rows
    <3> QED BY <2>1, <3>1 DEF ChangeLink, Links!Write
  <2>2. CASE ClockTick
    BY <2>2 DEF ClockTick, Links!LinkNext, Links!Elapse
  <2>3. CASE \/ HidePage \/ UNCHANGED resolveVars
             \/ \E r \in Visits : Visit(r) \/ Limited(r) \/ GetLink(r) \/ Snapshot(r) \/ Receive(r)
    BY <2>3 DEF HidePage, Visit, Limited, GetLink, Snapshot, Receive, resolveVars, Links!linkVars
  <2> QED BY <2>1, <2>2, <2>3 DEF ResolveNext, Links!LinkNext
<1> QED BY <1>1, <1>2, ResolveTyped, PTL DEF ResolveSpec, Links!LinkReaderSpec

THEOREM SeesPages == ResolveSpec => Pages!ContentSpec
<1> USE DEF rowState, contentVars, visitVars
<1>1. ResolveInit => Pages!ContentInit
  BY DEF ResolveInit, Pages!ContentInit
<1>2. [ResolveNext]_resolveVars => [Pages!ContentNext]_(Pages!contentVars)
  <2> SUFFICES ASSUME [ResolveNext]_resolveVars PROVE [Pages!ContentNext]_(Pages!contentVars)
    OBVIOUS
  <2>1. CASE HidePage
    BY <2>1 DEF HidePage, Pages!ContentNext, Pages!Hide
  <2>2. CASE ClockTick
    BY <2>2 DEF ClockTick, Pages!ContentNext, Pages!Elapse
  <2>3. CASE \/ (\E k \in {"active", "disabled", "deleted"} : ChangeLink(k)) \/ UNCHANGED resolveVars
             \/ \E r \in Visits : Visit(r) \/ Limited(r) \/ GetLink(r) \/ Snapshot(r) \/ Receive(r)
    BY <2>3 DEF ChangeLink, Visit, Limited, GetLink, Snapshot, Receive, resolveVars, Pages!contentVars
  <2> QED BY <2>1, <2>2, <2>3 DEF ResolveNext
<1> QED BY <1>1, <1>2, PTL DEF ResolveSpec, Pages!ContentSpec
=============================================================================
