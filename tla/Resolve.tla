------------------------------- MODULE Resolve -------------------------------
(***************************************************************************)
(* A visit to a link from end to end: the two public routes of the router, *)
(* the visitor cookie that shareHandler.page sets, Resolve of              *)
(* usecase/share, and the status the visitor is answered with.  Meanwhile  *)
(* the owner changes the link, it expires, and its submission is hidden.   *)
(*                                                                         *)
(* getLink and Snapshot are the steps LinkReader and PageContent promise;  *)
(* LinkCache and SnapshotCache implement them.  The visits are those of    *)
(* one browser to one link; a visitor id is the number of the visit whose  *)
(* response set it.                                                        *)
(***************************************************************************)
EXTENDS Naturals

CONSTANTS
  MaxVisits,          \* bound: visits of the browser
  Route,              \* Route[r]: "page" or "api", what a visit asks for
  Viewer,             \* Viewer[r]: "guest", "user", "owner" or "bot"
  Expires,            \* ExpiresAt of the link
  LinkAge, MissAge,   \* LinkReader: how old an answer of getLink may be
  PageAge,            \* PageContent: how long a hidden submission may be shown
  PageTime,           \* Snapshot answers that soon
  MaxRow, MaxClock    \* bounds

Visits == 1..MaxVisits

ASSUME ResolveAssumption ==
  /\ MaxVisits \in Nat /\ MaxRow \in Nat \ {0} /\ MaxClock \in Nat
  /\ Route \in [Visits -> {"page", "api"}]
  /\ Viewer \in [Visits -> {"guest", "user", "owner", "bot"}]
  /\ Expires \in Nat /\ LinkAge \in Nat /\ MissAge \in Nat
  /\ PageAge \in Nat /\ PageTime \in Nat

VARIABLES
  clock,
  db, kind, ended,      \* the row, as in LinkReader
  hidden, hiddenSince,     \* the submission, as in PageContent
  at,                   \* a visit's next step
  cookie, key,          \* the cookie it was sent with, and the key of its viewer
  open,                 \* history: first visits with no answer yet when it was sent
  due,                  \* when Snapshot has answered at the latest
  status,               \* the answer
  counted,              \* visits given to Track
  jar                   \* the cookie of the browser

contentVars == <<hidden, hiddenSince>>
rowState    == <<db, kind, ended>>
visitVars   == <<at, cookie, key, open, due, status, counted>>
resolveVars == <<clock, rowState, contentVars, visitVars, jar>>

NoCookie == 0
Address  == MaxVisits + 1      \* IP and User-Agent, without a cookie
Account  == MaxVisits + 2      \* the user id of who is logged in
Unread   == MaxRow + 1
Failed   == MaxRow + 2
Rows     == 0..MaxRow

Links == INSTANCE LinkReader WITH Readers <- Visits, Err <- Failed, None <- Unread,
                                  now <- clock, got <- [r \in Visits |-> Unread]
Pages == INSTANCE PageContent WITH Readers <- Visits, now <- clock, hiddenAt <- hiddenSince,
                                   shown <- [r \in Visits |-> "none"]

ResolveTypeOK ==
  /\ clock \in Nat /\ db \in Rows
  /\ kind \in [Rows -> {"none", "active", "disabled", "deleted"}] /\ ended \in [Rows -> Nat]
  /\ hidden \in BOOLEAN /\ hiddenSince \in Nat
  /\ at \in [Visits -> {"new", "link", "content", "done", "received"}]
  /\ cookie \in [Visits -> Visits \cup {NoCookie}]
  /\ key \in [Visits -> Visits \cup {NoCookie, Address, Account}]
  /\ open \in [Visits -> SUBSET Visits]
  /\ due \in [Visits -> Nat]
  /\ status \in [Visits -> {0, 200, 404, 410, 429, 500}]
  /\ counted \subseteq Visits
  /\ jar \in Visits \cup {NoCookie}

ResolveInit ==
  /\ clock = 0 /\ db = 0
  /\ kind = [v \in Rows |-> "none"] /\ ended = [v \in Rows |-> 0]
  /\ hidden = FALSE /\ hiddenSince = 0
  /\ at = [r \in Visits |-> "new"]
  /\ cookie = [r \in Visits |-> NoCookie] /\ key = [r \in Visits |-> NoCookie]
  /\ open = [r \in Visits |-> {}]
  /\ due = [r \in Visits |-> 0] /\ status = [r \in Visits |-> 0]
  /\ counted = {} /\ jar = NoCookie

-----------------------------------------------------------------------------
(* OptionalAuth: who has no token, or one that is expired, is a guest.       *)
(* viewerFrom: the cookie, which the SSR forwards in a header, or else the   *)
(* address; page gives who came without a cookie a new id.                   *)
Mints_Always(r) == Route[r] = "page"                      \* mutant
Mints(r) == Route[r] = "page" /\ jar = NoCookie

VisitorID(r) == IF Mints(r) THEN r ELSE IF jar # NoCookie THEN jar ELSE Address
LoggedIn(r) == Viewer[r] \in {"user", "owner"}
Key(r) == IF LoggedIn(r) THEN Account ELSE VisitorID(r)

(* The visits that were sent without a cookie. *)
First == {q \in Visits : at[q] # "new" /\ cookie[q] = NoCookie}

Visit(r) ==
  /\ at[r] = "new" /\ \A q \in Visits : q < r => at[q] # "new"
  /\ cookie' = [cookie EXCEPT ![r] = jar]
  /\ key' = [key EXCEPT ![r] = Key(r)]
  /\ open' = [open EXCEPT ![r] = {q \in First : at[q] # "received"}]
  /\ at' = [at EXCEPT ![r] = "link"]
  /\ UNCHANGED <<clock, rowState, contentVars, due, status, counted, jar>>

Respond(r, s) == /\ at' = [at EXCEPT ![r] = "done"]
                 /\ status' = [status EXCEPT ![r] = s]

(* RateLimit stands before the handler. *)
Limited(r) ==
  /\ at[r] = "link"
  /\ Respond(r, 429)
  /\ UNCHANGED <<clock, rowState, contentVars, cookie, key, open, due, counted, jar>>

(* Resolve up to the snapshot: getLink, then Accessible.                     *)
Expired == clock > Expires
Accessible_Forever(v) == kind[v] = "active"               \* mutant
Accessible(v) == kind[v] = "active" /\ ~Expired

GetLink(r) ==
  /\ at[r] = "link"
  /\ \E v \in Links!MayServe \cup {Failed} :
       \/ v = Failed /\ Respond(r, 500) /\ UNCHANGED due
       \/ v # Failed /\ kind[v] = "none" /\ Respond(r, 404) /\ UNCHANGED due
       \/ v # Failed /\ kind[v] # "none" /\ ~Accessible(v) /\ Respond(r, 410) /\ UNCHANGED due
       \/ /\ v # Failed /\ Accessible(v)
          /\ at' = [at EXCEPT ![r] = "content"]
          /\ due' = [due EXCEPT ![r] = clock + PageTime]
          /\ UNCHANGED status
  /\ UNCHANGED <<clock, rowState, contentVars, cookie, key, open, counted, jar>>

(* The rest of it: a submission that is gone takes its links with it.        *)
StatusOf(x) == CASE x = "page" -> 200 [] x = "gone" -> 410 [] OTHER -> 500

IsBot(r) == Viewer[r] = "bot"
CountsViewFrom(r) == Viewer[r] # "owner" /\ ~IsBot(r)

Snapshot(r) ==
  /\ at[r] = "content"
  /\ \E x \in Pages!Answers :
       /\ Respond(r, StatusOf(x))
       /\ counted' = IF x = "page" /\ CountsViewFrom(r) THEN counted \cup {r} ELSE counted
  /\ due' = [due EXCEPT ![r] = 0]
  /\ UNCHANGED <<clock, rowState, contentVars, cookie, key, open, jar>>

(* The response comes to the browser, not in the order of the visits; with   *)
(* the new id, unless the limiter kept the visit from page.                  *)
Receive(r) ==
  /\ at[r] = "done"
  /\ at' = [at EXCEPT ![r] = "received"]
  /\ jar' = IF Route[r] = "page" /\ cookie[r] = NoCookie /\ status[r] # 429 THEN r ELSE jar
  /\ UNCHANGED <<clock, rowState, contentVars, cookie, key, open, due, status, counted>>

-----------------------------------------------------------------------------
(* Create, SetStatus and Delete of the link. *)
ChangeLink(k) ==
  /\ db < MaxRow
  /\ IF kind[db] = "none" THEN k = "active" /\ clock <= Expires ELSE kind[db] # "deleted"
  /\ db' = db + 1
  /\ kind' = [kind EXCEPT ![db + 1] = k]
  /\ ended' = [ended EXCEPT ![db] = clock]
  /\ UNCHANGED <<clock, contentVars, visitVars, jar>>

(* Its submission is deleted, or the account of its author locked. *)
HidePage ==
  /\ ~hidden
  /\ hidden' = TRUE /\ hiddenSince' = clock
  /\ UNCHANGED <<clock, rowState, visitVars, jar>>

ClockTick ==
  /\ clock < MaxClock
  /\ \A r \in Visits : at[r] = "content" => clock < due[r]
  /\ clock' = clock + 1
  /\ UNCHANGED <<rowState, contentVars, visitVars, jar>>

ResolveNext ==
  \/ \E r \in Visits : Visit(r) \/ Limited(r) \/ GetLink(r) \/ Snapshot(r) \/ Receive(r)
  \/ \E k \in {"active", "disabled", "deleted"} : ChangeLink(k)
  \/ HidePage \/ ClockTick

ResolveSpec == ResolveInit /\ [][ResolveNext]_resolveVars

-----------------------------------------------------------------------------
Answered(r, s) == status[r] = 0 /\ status'[r] = s
Recent(v, age) == v = db \/ clock <= ended[v] + age

(* share_handler.go:131, "switching a share off takes effect at once", as    *)
(* far as it holds from end to end: a page is shown only while its link was  *)
(* active no longer ago than the link cache allows and Snapshot took, not    *)
(* past its expiry by more than that, and its submission was visible.        *)
PageInTime(r) ==
  Answered(r, 200) =>
    /\ \E v \in 0..db : kind[v] = "active" /\ Recent(v, LinkAge + PageTime)
    /\ clock <= Expires + PageTime
    /\ ~hidden \/ clock <= hiddenSince + PageAge

(* errors.go:28: 404 is for a code that is not known, or was not as long as  *)
(* that is remembered; 410 for a link that is off, or was as long as a cache *)
(* may say so, that is expired, or whose submission is gone.                 *)
RefusalInTime(r) ==
  /\ Answered(r, 404) => \E v \in 0..db : kind[v] = "none" /\ Recent(v, MissAge)
  /\ Answered(r, 410) =>
       \/ \E v \in 0..db : kind[v] \in {"disabled", "deleted"} /\ Recent(v, LinkAge)
       \/ Expired \/ hidden

(* So whatever a visit is told of the link is true, or was as long ago as    *)
(* the two caches and the call between them allow together.                  *)
AnswersInTime == [][\A r \in Visits : PageInTime(r) /\ RefusalInTime(r)]_resolveVars

(* share_handler.go:48: parallel first visits may each be given an id, but   *)
(* every guest's view is counted under one that such a visit was given, or   *)
(* under the address of a visit without a cookie; and once all of them are   *)
(* answered, in whatever order, the browser stays one visitor: two views of  *)
(* visits with a cookie have two ids only if the later one's was on its way  *)
(* when the earlier was made.                                                *)
Guests == {r \in counted : Viewer[r] = "guest"}
KeysFromFirstVisits ==
  /\ \A r \in Guests : key[r] \in First \/ (key[r] = Address /\ r \in First)
  /\ \A q, r \in Guests \ First : q < r => key[r] = key[q] \/ key[r] \in open[q]
=============================================================================
