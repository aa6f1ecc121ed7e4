----------------------------- MODULE RateLimiter -----------------------------
(***************************************************************************)
(* The limit on public requests: RateLimit of httpapi/middleware asks      *)
(* Allow of redisstore/rate_limiter.go, which counts the requests of a     *)
(* client in one Redis key for each window of the clock.  All instances    *)
(* share the keys, but each computes the window by its own clock.          *)
(*                                                                         *)
(* Keys of two clients have nothing in common, so one client is modelled.  *)
(* Its requests are numbered in the order in which they come.              *)
(*                                                                         *)
(* go-redis sends a pipeline again when its reply does not come, while the *)
(* one sent before may have run, or may still run: a request counts once   *)
(* for each send that Redis executes.                                      *)
(***************************************************************************)
EXTENDS Naturals, FiniteSets

CONSTANTS
  MaxRequests,    \* bound: requests of the client
  Limit,          \* requests in a window (RATE_LIMIT_PER_MIN)
  Window,         \* its length (time.Minute)
  MaxAhead,       \* the clock of an instance is up to that much ahead of time
  Delay,          \* all sends run that soon after the window was computed
  MaxRetries,     \* how often go-redis sends it again (redis.Options, 3)
  MaxLost,        \* bound: replies that do not come
  MaxTime         \* bound

ASSUME LimiterAssumption ==
  /\ MaxRequests \in Nat /\ MaxRetries \in Nat /\ MaxLost \in Nat /\ MaxTime \in Nat
  /\ Limit \in Nat \ {0} /\ Window \in Nat \ {0}
  /\ MaxAhead \in Nat /\ Delay \in Nat

VARIABLES
  now,
  hits,     \* hits[b]: rl:<key>:<b>, 0 when there is no key
  dies,     \* dies[b]: when it expires
  stage,    \* a request's next step
  bucket,   \* the window it counts in
  due,      \* when its sends have run at the latest
  try,      \* how often its pipeline was sent again
  rank,     \* incr.Val()
  astray,   \* sends given up before they ran: they may still run
  ran,      \* sends whose INCR ran
  counted   \* counted[s]: when it did

keyVars     == <<hits, dies>>
askVars     == <<bucket, due>>
sendVars    == <<astray, ran, counted>>
limiterVars == <<now, keyVars, stage, askVars, try, rank, sendVars>>

Requests == 1..MaxRequests
Sends    == Requests \X (0..MaxRetries)
Buckets  == 0..(MaxTime + MaxAhead)
Forever  == MaxTime + Window + 1
Stages   == {"new", "incr", "expire", "allowed", "refused", "open", "uncounted"}

Last(r) == <<r, try[r]>>   \* the one send of a request that may be answered
GaveUp  == {r \in Requests : stage[r] \in {"open", "uncounted"}}
Lost    == {s \in Sends : s[2] < try[s[1]] \/ (s = Last(s[1]) /\ s[1] \in GaveUp)}

LimiterTypeOK ==
  /\ now \in 0..MaxTime
  /\ hits \in [Buckets -> Nat] /\ dies \in [Buckets -> Nat]
  /\ stage \in [Requests -> Stages]
  /\ bucket \in [Requests -> Buckets] /\ due \in [Requests -> Nat]
  /\ try \in [Requests -> 0..MaxRetries] /\ rank \in [Requests -> Nat]
  /\ astray \subseteq Sends /\ ran \subseteq Sends
  /\ counted \in [Sends -> Nat]

LimiterInit ==
  /\ now = 0
  /\ hits = [b \in Buckets |-> 0] /\ dies = [b \in Buckets |-> 0]
  /\ stage = [r \in Requests |-> "new"]
  /\ bucket = [r \in Requests |-> 0] /\ due = [r \in Requests |-> 0]
  /\ try = [r \in Requests |-> 0] /\ rank = [r \in Requests |-> 0]
  /\ astray = {} /\ ran = {}
  /\ counted = [s \in Sends |-> 0]

Goes(r, s) == stage' = [stage EXCEPT ![r] = s]

-----------------------------------------------------------------------------
(* Allow: the window by the clock of the instance that handles the request. *)
Ask(r) ==
  /\ stage[r] = "new" /\ \A q \in Requests : q < r => stage[q] # "new"
  /\ \E ahead \in 0..MaxAhead : bucket' = [bucket EXCEPT ![r] = (now + ahead) \div Window]
  /\ due' = [due EXCEPT ![r] = now + Delay]
  /\ Goes(r, "incr")
  /\ UNCHANGED <<now, keyVars, try, rank, sendVars>>

(* INCR makes a key that has no TTL, or keeps the TTL of the one it finds. *)
Kept(b)  == [dies EXCEPT ![b] = IF hits[b] = 0 THEN Forever ELSE @]
Count(s) ==
  /\ hits' = [hits EXCEPT ![bucket[s[1]]] = @ + 1]
  /\ ran' = ran \cup {s}
  /\ counted' = [counted EXCEPT ![s] = now]

Incr(r) ==
  /\ stage[r] = "incr"
  /\ Count(Last(r))
  /\ dies' = Kept(bucket[r])
  /\ rank' = [rank EXCEPT ![r] = hits[bucket[r]] + 1]
  /\ Goes(r, "expire")
  /\ UNCHANGED <<now, askVars, try, astray>>

Life_Half == Window \div 2                                  \* mutant
Life == Window
Renewed(b) == [dies EXCEPT ![b] = now + Life]

WithinLimit_OneLess(r) == rank[r] < Limit                   \* mutant
WithinLimit(r) == rank[r] <= Limit

(* EXPIRE, and the answer of the pipeline; RateLimit lets the request on, or *)
(* answers 429.                                                              *)
Expire(r) ==
  /\ stage[r] = "expire"
  /\ dies' = Renewed(bucket[r])
  /\ Goes(r, IF WithinLimit(r) THEN "allowed" ELSE "refused")
  /\ UNCHANGED <<now, hits, askVars, try, rank, sendVars>>

(* The reply does not come: the send did not run, or not yet, or its INCR    *)
(* did and its EXPIRE did or did not.                                        *)
NoReply(r) ==
  /\ Cardinality(Lost) < MaxLost
  /\ \/ stage[r] = "incr" /\ astray' = astray \cup {Last(r)} /\ UNCHANGED dies
     \/ stage[r] = "expire" /\ UNCHANGED astray /\ (dies' = Renewed(bucket[r]) \/ UNCHANGED dies)
  /\ UNCHANGED <<now, hits, askVars, rank, ran, counted>>

Resend(r) ==
  /\ try[r] < MaxRetries
  /\ NoReply(r)
  /\ try' = [try EXCEPT ![r] = @ + 1]
  /\ Goes(r, "incr")

(* The retries are used up, or the client has left: the request goes on      *)
(* (fail-open).                                                              *)
Break(r) ==
  /\ NoReply(r)
  /\ Goes(r, IF stage[r] = "incr" THEN "uncounted" ELSE "open")
  /\ UNCHANGED try

(* A send that was given up runs after all; what it answers is not read.  No *)
(* one can tell its two commands from one.                                   *)
Stray(s) ==
  /\ now <= due[s[1]]
  /\ Count(s)
  /\ dies' \in {Kept(bucket[s[1]]), Renewed(bucket[s[1]])}
  /\ astray' = astray \ {s}
  /\ UNCHANGED <<now, stage, askVars, try, rank>>

(* Redis drops a key whose time has come.  Both commands of a pipeline run   *)
(* within one unit of time.                                                  *)
Pass ==
  /\ now < MaxTime
  /\ \A r \in Requests : stage[r] # "expire" /\ (stage[r] = "incr" => now < due[r])
  /\ now' = now + 1
  /\ hits' = [b \in Buckets |-> IF dies[b] <= now + 1 THEN 0 ELSE hits[b]]
  /\ dies' = [b \in Buckets |-> IF dies[b] <= now + 1 THEN 0 ELSE dies[b]]
  /\ UNCHANGED <<stage, askVars, try, rank, sendVars>>

LimiterNext ==
  \/ \E r \in Requests : Ask(r) \/ Incr(r) \/ Expire(r) \/ Resend(r) \/ Break(r)
  \/ \E s \in astray : Stray(s)
  \/ Pass

LimiterSpec == LimiterInit /\ [][LimiterNext]_limiterVars

-----------------------------------------------------------------------------
(* How far a send may run from the time its window stands for. *)
Spread == MaxAhead + Delay

AllowedIn(t) ==
  {r \in Requests : stage[r] = "allowed" /\ t <= counted[Last(r)] /\ counted[Last(r)] < t + Window}

(* rate_limiter.go:17, a fixed window: whatever the clocks, whenever the     *)
(* keys expire and however often a pipeline is sent, a client is given at    *)
(* most twice the limit in the length of a window, and three times when      *)
(* clocks and delays differ by up to a window.                               *)
Windows == IF Spread = 0 THEN 2 ELSE 3
LimitHeld ==
  Spread <= Window => \A t \in 0..now : Cardinality(AllowedIn(t)) <= Windows * Limit

(* ratelimit.go:20: a client is refused only when its other requests, and    *)
(* the sends whose reply was lost, the refused request's own among them,     *)
(* were counted as often as the limit allows in the last window or the       *)
(* spread before it.                                                         *)
Sooner(r) ==
  {s \in ran \ {Last(r)} : /\ counted[s] <= counted[Last(r)]
                           /\ counted[Last(r)] < counted[s] + Window + Spread}
Others(r) == {q \in Requests \ {r} : Last(q) \in Sooner(r) \ Lost}
RefusedJustly ==
  \A r \in Requests : stage[r] = "refused" =>
    Cardinality(Others(r)) + Cardinality(Sooner(r) \cap Lost) >= Limit
=============================================================================
