-------------------------- MODULE RateLimiterProofs --------------------------
(***************************************************************************)
(* The limit of RateLimiter, for every limit, length of a window, spread   *)
(* of the clocks and delay: at most Windows * Limit requests are let on in *)
(* the length of a window, and none is refused without cause.              *)
(***************************************************************************)
EXTENDS RateLimiter, FiniteSetTheorems, TLAPS

(* When a window begins. *)
Opens(b) == b * Window

LEMMA Division ==
  ASSUME NEW n \in Nat
  PROVE  /\ n \div Window \in Nat /\ n \div Window <= n
         /\ Opens(n \div Window) <= n /\ n < Opens(n \div Window) + Window
<1>1. Opens(n \div Window) <= n /\ n < Opens(n \div Window) + Window
  BY LimiterAssumption DEF Opens
<1>2. n \div Window \in Nat
  BY LimiterAssumption
<1>3. ASSUME NEW d \in Nat PROVE d <= d * Window /\ d * Window \in Nat
  BY LimiterAssumption
<1>4. n \div Window <= n
  BY <1>1, <1>2, <1>3 DEF Opens
<1> QED
  BY <1>1, <1>2, <1>4

LEMMA OpensType == ASSUME NEW b \in Nat PROVE Opens(b) \in Nat
BY LimiterAssumption DEF Opens

LEMMA OpensLater ==
  ASSUME NEW b \in Nat, NEW c \in Nat, NEW k \in Nat, b + k <= c
  PROVE  Opens(b) + k * Window <= Opens(c)
<1>1. (b + k) * Window <= c * Window
  BY LimiterAssumption
<1>2. (b + k) * Window = b * Window + k * Window
  BY LimiterAssumption
<1> QED
  BY <1>1, <1>2 DEF Opens

-----------------------------------------------------------------------------
(* A send runs near the window its key stands for. *)
InTime ==
  /\ \A r \in Requests : stage[r] # "new" =>
       /\ due[r] <= now + Delay
       /\ Opens(bucket[r]) + Delay <= due[r] + MaxAhead
       /\ due[r] < Opens(bucket[r]) + Window + Delay
       /\ stage[r] \in {"incr", "expire"} => now <= due[r]
  /\ \A s \in ran :
       /\ counted[s] <= now
       /\ Opens(bucket[s[1]]) <= counted[s] + MaxAhead
       /\ counted[s] < Opens(bucket[s[1]]) + Window + Delay

(* A send runs once, and the last one of a request before it is answered. *)
SendsOnce ==
  /\ astray \cap ran = {}
  /\ \A s \in astray \cup ran :
       /\ stage[s[1]] # "new" /\ s[2] <= try[s[1]]
       /\ stage[s[1]] = "incr" => s[2] # try[s[1]]
  /\ \A r \in Requests : stage[r] \in {"expire", "allowed", "refused"} => Last(r) \in ran

(* The key of a request that was let on lives as long as a window, and all   *)
(* that while counts the request.                                            *)
At(r) == counted[Last(r)]
KeyLives ==
  /\ \A b \in Buckets : hits[b] > 0 => dies[b] > now
  /\ \A r \in Requests :
       /\ stage[r] = "expire" =>
            At(r) = now /\ rank[r] >= 1 /\ rank[r] <= hits[bucket[r]]
       /\ stage[r] = "allowed" =>
            /\ rank[r] \in 1..Limit
            /\ now < At(r) + Window =>
                 rank[r] <= hits[bucket[r]] /\ At(r) + Window <= dies[bucket[r]]

(* So no two of them less than a window apart have one rank. *)
Close(r, q) == At(r) < At(q) + Window /\ At(q) < At(r) + Window
RanksApart ==
  \A r, q \in Requests :
    /\ r # q /\ bucket[r] = bucket[q] /\ Close(r, q)
    /\ stage[r] \in {"expire", "allowed"} /\ stage[q] \in {"expire", "allowed"}
    => rank[r] # rank[q]

(* A key counts no more sends than ran, so that the rank of a request says   *)
(* how many ran before its own.                                              *)
Counting(b) == {s \in ran : bucket[s[1]] = b}
Before(r) == {s \in ran \ {Last(r)} : bucket[s[1]] = bucket[r] /\ counted[s] <= At(r)}
RanksEarned ==
  /\ \A b \in Buckets : hits[b] <= Cardinality(Counting(b))
  /\ \A r \in Requests :
       /\ stage[r] \in {"expire", "refused"} => rank[r] <= Cardinality(Before(r)) + 1
       /\ stage[r] = "refused" => rank[r] > Limit

LimiterIInv == LimiterTypeOK /\ InTime /\ SendsOnce /\ KeyLives /\ RanksApart /\ RanksEarned

LEMMA FiniteSends ==
  ASSUME NEW S, S \subseteq Sends PROVE IsFiniteSet(S) /\ Cardinality(S) \in Nat
<1>1. IsFiniteSet(Requests) /\ IsFiniteSet(0..MaxRetries)
  BY FS_Interval, LimiterAssumption DEF Requests
<1>2. IsFiniteSet(Sends)
  BY <1>1, FS_Product DEF Sends
<1>3. IsFiniteSet(S)
  BY <1>2, FS_Subset
<1> QED
  BY <1>3, FS_CardinalityType

(* The last send of a request is one of its own. *)
LEMMA LastSends ==
  ASSUME LimiterTypeOK, NEW r \in Requests
  PROVE  Last(r) \in Sends /\ Last(r)[1] = r /\ Last(r)[2] = try[r]
BY DEF LimiterTypeOK, Last, Sends

LEMMA SendIsPair ==
  ASSUME NEW s \in Sends PROVE s[1] \in Requests /\ s[2] \in 0..MaxRetries /\ s = <<s[1], s[2]>>
BY DEF Sends

-----------------------------------------------------------------------------
(* Ask: a new request has no sends. *)
LEMMA AskKeeps ==
  ASSUME LimiterIInv, NEW r \in Requests, Ask(r) PROVE LimiterIInv'
<1> USE LimiterAssumption DEF Ask, keyVars, sendVars, Goes
<1>1. PICK ahead \in 0..MaxAhead : bucket' = [bucket EXCEPT ![r] = (now + ahead) \div Window]
  OBVIOUS
<1> DEFINE b == (now + ahead) \div Window
<1>2. now \in Nat /\ ahead \in Nat /\ now + ahead \in Nat
  BY DEF LimiterIInv, LimiterTypeOK
<1>3. /\ b \in Buckets /\ Opens(b) \in Nat
      /\ Opens(b) <= now + MaxAhead /\ now < Opens(b) + Window
  <2>1. b \in Nat /\ b <= now + ahead /\ Opens(b) <= now + ahead /\ now + ahead < Opens(b) + Window
    BY <1>2, Division
  <2>2. Opens(b) \in Nat
    BY <2>1, OpensType
  <2>3. now + ahead <= now + MaxAhead /\ now <= now + ahead /\ now <= MaxTime /\ now \in Nat
    BY <1>2 DEF LimiterIInv, LimiterTypeOK
  <2> HIDE DEF b
  <2> QED
    BY <1>2, <2>1, <2>2, <2>3 DEF Buckets
<1> HIDE DEF b
<1>4. bucket' = [bucket EXCEPT ![r] = b]
  BY <1>1 DEF b
<1>5. LimiterTypeOK'
  BY <1>2, <1>3, <1>4 DEF LimiterIInv, LimiterTypeOK, Stages
<1>6. /\ \A q \in Requests \ {r} : bucket'[q] = bucket[q] /\ due'[q] = due[q] /\ stage'[q] = stage[q]
      /\ \A q \in Requests : Last(q)' = Last(q) /\ At(q)' = At(q)
  BY <1>4 DEF LimiterIInv, LimiterTypeOK, Last, At
<1>7. bucket'[r] = b /\ due'[r] = now + Delay /\ stage[r] = "new" /\ stage'[r] = "incr"
  BY <1>4 DEF LimiterIInv, LimiterTypeOK
<1>8. \A s \in astray \cup ran : s \in Sends /\ s[1] \in Requests \ {r}
  BY <1>7, SendIsPair DEF LimiterIInv, LimiterTypeOK, SendsOnce
<1>9. InTime'
  <2>1. ASSUME NEW q \in Requests PROVE InTime!1!(q)'
    BY <1>2, <1>3, <1>6, <1>7 DEF LimiterIInv, InTime
  <2>2. ASSUME NEW s \in ran PROVE InTime!2!(s)'
    BY <1>6, <1>8 DEF LimiterIInv, InTime
  <2> QED
    BY <2>1, <2>2 DEF InTime
<1>10. SendsOnce'
  BY <1>6, <1>7, <1>8 DEF LimiterIInv, SendsOnce
<1>11. KeyLives' /\ RanksApart'
  BY <1>6, <1>7 DEF LimiterIInv, KeyLives, RanksApart, Close
<1>12. /\ \A c \in Buckets : Counting(c)' = Counting(c)
       /\ \A q \in Requests \ {r} : Before(q)' = Before(q)
  BY <1>6, <1>8 DEF Counting, Before
<1>13. RanksEarned'
  BY <1>6, <1>7, <1>12 DEF LimiterIInv, RanksEarned
<1> QED
  BY <1>5, <1>9, <1>10, <1>11, <1>13 DEF LimiterIInv

-----------------------------------------------------------------------------
(* A send runs: that of a request that waits for it, or one given up before. *)
LEMMA CountRuns ==
  ASSUME LimiterIInv, NEW s \in Sends, Count(s), s \notin ran,
         stage[s[1]] # "new", now <= due[s[1]], UNCHANGED <<now, bucket>>,
         dies' \in {Kept(bucket[s[1]]), Renewed(bucket[s[1]])}
  PROVE  /\ hits' \in [Buckets -> Nat] /\ dies' \in [Buckets -> Nat]
         /\ hits'[bucket[s[1]]] = hits[bucket[s[1]]] + 1
         /\ ran' = ran \cup {s} /\ counted' \in [Sends -> Nat] /\ counted'[s] = now
         /\ \A q \in Sends \ {s} : counted'[q] = counted[q]
         /\ InTime!2'
         /\ \A b \in Buckets :
              /\ hits[b] <= hits'[b]
              /\ hits'[b] > 0 => dies'[b] > now
              /\ \A k \in Nat : hits[b] > 0 /\ k <= dies[b] /\ k <= now + Window => k <= dies'[b]
              /\ hits'[b] <= Cardinality(Counting(b)')
<1> USE LimiterAssumption DEF Count
<1> DEFINE b == bucket[s[1]]
<1>1. /\ s[1] \in Requests /\ b \in Buckets /\ b \in Nat /\ now \in Nat /\ now <= MaxTime
      /\ hits \in [Buckets -> Nat] /\ dies \in [Buckets -> Nat] /\ counted \in [Sends -> Nat]
      /\ ran \subseteq Sends /\ due[s[1]] \in Nat
  <2>1. s[1] \in Requests
    BY SendIsPair
  <2> QED
    BY <2>1 DEF LimiterIInv, LimiterTypeOK, Buckets
<1>2. /\ hits' = [hits EXCEPT ![b] = hits[b] + 1]
      /\ ran' = ran \cup {s} /\ counted' = [counted EXCEPT ![s] = now]
  OBVIOUS
<1>3. \/ dies' = [dies EXCEPT ![b] = IF hits[b] = 0 THEN MaxTime + Window + 1 ELSE dies[b]]
      \/ dies' = [dies EXCEPT ![b] = now + Window]
  BY DEF Kept, Renewed, Life, Forever
<1>4. /\ hits' \in [Buckets -> Nat] /\ dies' \in [Buckets -> Nat] /\ counted' \in [Sends -> Nat]
      /\ counted'[s] = now /\ \A q \in Sends \ {s} : counted'[q] = counted[q]
      /\ hits'[b] = hits[b] + 1 /\ \A c \in Buckets \ {b} : hits'[c] = hits[c] /\ dies'[c] = dies[c]
  BY <1>1, <1>2, <1>3
<1>5. InTime!2'
  <2>1. /\ now <= due[s[1]] /\ due[s[1]] <= now + Delay
        /\ Opens(b) + Delay <= due[s[1]] + MaxAhead /\ due[s[1]] < Opens(b) + Window + Delay
    BY <1>1 DEF LimiterIInv, InTime
  <2>2. Opens(b) \in Nat
    BY <1>1, OpensType
  <2>3. Opens(b) <= now + MaxAhead /\ now < Opens(b) + Window + Delay
    BY <1>1, <2>1, <2>2
  <2>4. ASSUME NEW q \in ran PROVE InTime!2!(q)'
    BY <1>1, <1>4, <2>4 DEF LimiterIInv, InTime
  <2> QED
    BY <1>1, <1>2, <1>4, <2>3, <2>4
<1>6. ASSUME NEW c \in Buckets
      PROVE  /\ hits[c] <= hits'[c]
             /\ hits'[c] > 0 => dies'[c] > now
             /\ \A k \in Nat : hits[c] > 0 /\ k <= dies[c] /\ k <= now + Window => k <= dies'[c]
  <2>1. hits[c] \in Nat /\ dies[c] \in Nat /\ (hits[c] > 0 => dies[c] > now)
    BY <1>1, <1>6 DEF LimiterIInv, KeyLives
  <2>2. CASE c # b
    BY <1>4, <2>1, <2>2
  <2>3. CASE c = b
    <3>1. \/ dies'[b] = IF hits[b] = 0 THEN MaxTime + Window + 1 ELSE dies[b]
          \/ dies'[b] = now + Window
      BY <1>1, <1>3
    <3> QED
      BY <1>1, <1>4, <2>1, <2>3, <3>1
  <2> QED
    BY <2>2, <2>3
<1>7. ASSUME NEW c \in Buckets PROVE hits'[c] <= Cardinality(Counting(c)')
  <2>1. Counting(c) \subseteq Sends /\ hits[c] <= Cardinality(Counting(c))
    BY <1>1 DEF Counting, LimiterIInv, RanksEarned
  <2>2. IsFiniteSet(Counting(c)) /\ Cardinality(Counting(c)) \in Nat
    BY <2>1, FiniteSends
  <2>3. CASE c = b
    <3>1. Counting(c)' = Counting(c) \cup {s} /\ s \notin Counting(c)
      BY <1>2, <2>3 DEF Counting
    <3>2. Cardinality(Counting(c)') = Cardinality(Counting(c)) + 1
      BY <2>2, <3>1, FS_AddElement
    <3> QED
      BY <1>1, <1>4, <2>1, <2>2, <2>3, <3>2
  <2>4. CASE c # b
    <3>1. Counting(c)' = Counting(c)
      BY <1>2, <2>4 DEF Counting
    <3> QED
      BY <1>4, <2>1, <2>4, <3>1
  <2> QED
    BY <2>3, <2>4
<1> QED
  BY <1>2, <1>4, <1>5, <1>6, <1>7

(* It changes nothing for a request that was answered, or soon will be. *)
LEMMA CountSpares ==
  ASSUME LimiterIInv, NEW s \in Sends, Count(s), s \notin ran,
         stage[s[1]] # "new", now <= due[s[1]], UNCHANGED <<now, bucket, try>>,
         dies' \in {Kept(bucket[s[1]]), Renewed(bucket[s[1]])},
         NEW q \in Requests, stage'[q] = stage[q], rank'[q] = rank[q],
         stage[q] \in {"expire", "allowed", "refused"}
  PROVE  /\ At(q)' = At(q) /\ KeyLives!2!(q)'
         /\ stage[q] # "allowed" => rank[q] <= Cardinality(Before(q)') + 1
         /\ stage[q] = "refused" => rank[q] > Limit
<1>1. /\ Last(q)' = Last(q) /\ Last(q) \in Sends /\ Last(q) \in ran /\ Last(q) # s
      /\ bucket'[q] = bucket[q] /\ bucket[q] \in Buckets /\ rank[q] \in Nat
      /\ hits[bucket[q]] \in Nat /\ dies[bucket[q]] \in Nat /\ now \in Nat /\ counted[Last(q)] \in Nat
  BY LastSends DEF Last, LimiterIInv, SendsOnce, LimiterTypeOK
<1>2. /\ At(q)' = At(q) /\ At(q) <= now /\ At(q) \in Nat
  BY <1>1, CountRuns DEF At, LimiterIInv, InTime
<1>3. KeyLives!2!(q)'
  <2>1. KeyLives!2!(q)
    BY DEF LimiterIInv, KeyLives
  <2>2. /\ hits[bucket[q]] <= hits'[bucket[q]] /\ hits'[bucket[q]] \in Nat /\ dies'[bucket[q]] \in Nat
        /\ \A k \in Nat : hits[bucket[q]] > 0 /\ k <= dies[bucket[q]] /\ k <= now + Window
             => k <= dies'[bucket[q]]
    BY <1>1, CountRuns
  <2>3. At(q) + Window \in Nat /\ At(q) + Window <= now + Window
    BY <1>1, <1>2, LimiterAssumption
  <2>4. stage[q] = "allowed" /\ now < At(q) + Window => At(q) + Window <= dies'[bucket[q]]
    BY <1>1, <2>1, <2>2, <2>3
  <2>5. now' = now /\ stage'[q] = stage[q] /\ rank'[q] = rank[q] /\ bucket'[q] = bucket[q]
    BY <1>1
  <2> QED
    BY <1>1, <1>2, <2>1, <2>2, <2>4, <2>5
<1>4. Cardinality(Before(q)) <= Cardinality(Before(q)')
      /\ Cardinality(Before(q)) \in Nat /\ Cardinality(Before(q)') \in Nat
  <2>1. \A p \in ran : counted'[p] = counted[p] /\ p \in ran'
    BY CountRuns DEF LimiterIInv, LimiterTypeOK
  <2>2. Before(q) \subseteq Before(q)'
    BY <1>1, <1>2, <2>1 DEF Before
  <2>3. Before(q)' \subseteq Sends /\ Before(q) \subseteq Sends
    BY CountRuns DEF Before, LimiterIInv, LimiterTypeOK
  <2> QED
    BY <2>2, <2>3, FiniteSends, FS_Subset
<1>5. /\ stage[q] # "allowed" => rank[q] <= Cardinality(Before(q)) + 1
      /\ stage[q] = "refused" => rank[q] > Limit
  BY DEF LimiterIInv, RanksEarned
<1> QED
  BY <1>1, <1>2, <1>3, <1>4, <1>5

(* Incr: the rank is new among those that are less than a window old. *)
LEMMA IncrKeeps ==
  ASSUME LimiterIInv, NEW r \in Requests, Incr(r) PROVE LimiterIInv'
<1> USE DEF Incr, askVars, Goes
<1> DEFINE s == Last(r)
           b == bucket[r]
<1>1. /\ s \in Sends /\ s[1] = r /\ s[2] = try[r] /\ stage[r] = "incr"
      /\ s \notin ran /\ s \notin astray /\ now <= due[r] /\ now \in Nat /\ b \in Buckets
      /\ hits[b] \in Nat
  BY LastSends DEF LimiterIInv, LimiterTypeOK, SendsOnce, InTime
<1>2. /\ Count(s) /\ dies' \in {Kept(b), Renewed(b)} /\ stage[s[1]] # "new" /\ now <= due[s[1]]
      /\ bucket[s[1]] = b /\ UNCHANGED <<now, bucket, due, try, astray>>
  BY <1>1
<1> HIDE DEF s
<1>3. /\ rank'[r] = hits[b] + 1 /\ stage'[r] = "expire"
      /\ \A q \in Requests \ {r} : rank'[q] = rank[q] /\ stage'[q] = stage[q]
      /\ \A q \in Requests : Last(q)' = Last(q)
      /\ Last(r) = s
  BY <1>1 DEF LimiterIInv, LimiterTypeOK, Last, s
<1>4. /\ hits' \in [Buckets -> Nat] /\ dies' \in [Buckets -> Nat] /\ hits'[b] = hits[b] + 1
      /\ ran' = ran \cup {s} /\ counted' \in [Sends -> Nat] /\ counted'[s] = now
      /\ \A q \in Sends \ {s} : counted'[q] = counted[q]
      /\ InTime!2'
      /\ \A c \in Buckets : hits'[c] > 0 => dies'[c] > now
      /\ \A c \in Buckets : hits'[c] <= Cardinality(Counting(c)')
  BY <1>1, <1>2, CountRuns
<1>5. ASSUME NEW q \in Requests \ {r}, stage[q] \in {"expire", "allowed", "refused"}
      PROVE  /\ At(q)' = At(q) /\ KeyLives!2!(q)'
             /\ stage[q] # "allowed" => rank[q] <= Cardinality(Before(q)') + 1
             /\ stage[q] = "refused" => rank[q] > Limit
  BY <1>1, <1>2, <1>3, <1>5, CountSpares
<1>6. At(r)' = now
  BY <1>3, <1>4 DEF At
<1>7. LimiterTypeOK'
  BY <1>1, <1>2, <1>3, <1>4 DEF LimiterIInv, LimiterTypeOK, Stages
<1>8. InTime'
  BY <1>2, <1>3, <1>4 DEF LimiterIInv, InTime
<1>9. SendsOnce'
  <2>1. \A p \in astray \cup ran : p \in Sends /\ p[1] \in Requests
    BY SendIsPair DEF LimiterIInv, LimiterTypeOK
  <2>2. \A p \in astray' \cup ran' :
          /\ stage'[p[1]] # "new" /\ p[2] <= try'[p[1]]
          /\ stage'[p[1]] = "incr" => p[2] # try'[p[1]]
    BY <1>1, <1>2, <1>3, <1>4, <2>1 DEF LimiterIInv, LimiterTypeOK, SendsOnce
  <2>3. \A q \in Requests : stage'[q] \in {"expire", "allowed", "refused"} => Last(q)' \in ran'
    BY <1>3, <1>4 DEF LimiterIInv, SendsOnce
  <2> QED
    BY <1>1, <1>2, <1>4, <2>2, <2>3 DEF LimiterIInv, SendsOnce
<1>10. KeyLives'
  <2>1. KeyLives!2!(r)'
    BY <1>1, <1>2, <1>3, <1>4, <1>6
  <2>2. ASSUME NEW q \in Requests \ {r} PROVE KeyLives!2!(q)'
    BY <1>3, <1>5, <2>2
  <2> QED
    BY <1>2, <1>4, <2>1, <2>2 DEF KeyLives
<1>11. RanksApart'
  <2>1. ASSUME NEW q \in Requests \ {r}, bucket[q] = b, stage[q] \in {"expire", "allowed"},
               now < At(q) + Window
        PROVE  rank[q] <= hits[b]
    BY <2>1 DEF LimiterIInv, KeyLives
  <2>2. \A q \in Requests : rank[q] \in Nat
    BY DEF LimiterIInv, LimiterTypeOK
  <2>3. ASSUME NEW q \in Requests \ {r}, bucket'[q] = b, stage'[q] \in {"expire", "allowed"},
               now < At(q)' + Window
        PROVE  rank'[q] # rank'[r]
    BY <1>1, <1>2, <1>3, <1>5, <2>1, <2>2, <2>3
  <2>4. ASSUME NEW p \in Requests \ {r}, NEW q \in Requests \ {r},
               p # q /\ bucket'[p] = bucket'[q] /\ Close(p, q)',
               stage'[p] \in {"expire", "allowed"} /\ stage'[q] \in {"expire", "allowed"}
        PROVE  rank'[p] # rank'[q]
    BY <1>2, <1>3, <1>5, <2>4 DEF LimiterIInv, RanksApart, Close
  <2> QED
    BY <1>2, <1>6, <2>3, <2>4 DEF RanksApart, Close
<1>12. RanksEarned'
  <2>1. Before(r)' = Counting(b)
    <3>1. \A p \in ran : /\ p # s /\ p \in Sends /\ counted'[p] = counted[p] /\ counted[p] <= now
      BY <1>1, <1>4 DEF LimiterIInv, LimiterTypeOK, InTime
    <3> QED
      BY <1>2, <1>3, <1>4, <1>6, <3>1 DEF Before, Counting
  <2>2. Cardinality(Counting(b)) \in Nat /\ hits[b] <= Cardinality(Counting(b))
    BY <1>1, FiniteSends DEF Counting, LimiterIInv, LimiterTypeOK, RanksEarned
  <2>3. rank'[r] <= Cardinality(Before(r)') + 1
    BY <1>1, <1>3, <2>1, <2>2
  <2> QED
    BY <1>3, <1>4, <1>5, <2>3 DEF RanksEarned
<1> QED
  BY <1>7, <1>8, <1>9, <1>10, <1>11, <1>12 DEF LimiterIInv

(* Stray: every request has its rank already. *)
LEMMA StrayKeeps ==
  ASSUME LimiterIInv, NEW s \in astray, Stray(s) PROVE LimiterIInv'
<1> USE DEF Stray, askVars
<1>1. /\ s \in Sends /\ s[1] \in Requests /\ s \notin ran /\ stage[s[1]] # "new" /\ now <= due[s[1]]
      /\ UNCHANGED <<now, bucket, due, try, stage, rank>>
  BY SendIsPair DEF LimiterIInv, LimiterTypeOK, SendsOnce
<1>2. Count(s) /\ dies' \in {Kept(bucket[s[1]]), Renewed(bucket[s[1]])}
  OBVIOUS
<1>3. /\ hits' \in [Buckets -> Nat] /\ dies' \in [Buckets -> Nat]
      /\ ran' = ran \cup {s} /\ counted' \in [Sends -> Nat]
      /\ InTime!2'
      /\ \A c \in Buckets : hits'[c] > 0 => dies'[c] > now
      /\ \A c \in Buckets : hits'[c] <= Cardinality(Counting(c)')
  BY <1>1, <1>2, CountRuns
<1>4. ASSUME NEW q \in Requests, stage[q] \in {"expire", "allowed", "refused"}
      PROVE  /\ At(q)' = At(q) /\ KeyLives!2!(q)'
             /\ stage[q] # "allowed" => rank[q] <= Cardinality(Before(q)') + 1
             /\ stage[q] = "refused" => rank[q] > Limit
  BY <1>1, <1>2, <1>4, CountSpares
<1>5. LimiterTypeOK'
  BY <1>1, <1>3 DEF LimiterIInv, LimiterTypeOK
<1>6. InTime'
  BY <1>1, <1>3 DEF LimiterIInv, InTime
<1>7. SendsOnce'
  <2>1. Last(s[1])' = Last(s[1]) /\ \A q \in Requests : Last(q)' = Last(q)
    BY <1>1 DEF Last
  <2> QED
    BY <1>1, <1>3, <2>1 DEF LimiterIInv, SendsOnce
<1>8. KeyLives'
  BY <1>1, <1>3, <1>4 DEF KeyLives
<1>9. RanksApart'
  BY <1>1, <1>4 DEF LimiterIInv, RanksApart, Close
<1>10. RanksEarned'
  BY <1>1, <1>3, <1>4 DEF RanksEarned
<1> QED
  BY <1>5, <1>6, <1>7, <1>8, <1>9, <1>10 DEF LimiterIInv

-----------------------------------------------------------------------------
(* No send runs and no key gains: what was earned is kept. *)
LEMMA EarnedKept ==
  ASSUME LimiterIInv, UNCHANGED <<bucket, rank, ran, counted>>,
         \A b \in Buckets : hits'[b] \in Nat /\ hits'[b] <= hits[b],
         \A r \in Requests : stage'[r] \in {"expire", "refused"} =>
           stage[r] \in {"expire", "refused"} /\ try'[r] = try[r],
         \A r \in Requests : stage'[r] = "refused" => rank[r] > Limit
  PROVE  RanksEarned'
<1>1. /\ \A b \in Buckets : Counting(b)' = Counting(b)
      /\ \A r \in Requests : try'[r] = try[r] => Before(r)' = Before(r)
  BY DEF Counting, Before, At, Last
<1>2. \A b \in Buckets : hits[b] \in Nat /\ Cardinality(Counting(b)) \in Nat
  BY FiniteSends DEF LimiterIInv, LimiterTypeOK, Counting
<1> QED
  BY <1>1, <1>2 DEF LimiterIInv, RanksEarned

(* Expire, Resend and Break: a key that gets its TTL lives for a window from *)
(* now.                                                                      *)
LEMMA AnswerKeeps ==
  ASSUME LimiterIInv, NEW r \in Requests, Expire(r) \/ Resend(r) \/ Break(r) PROVE LimiterIInv'
<1> USE LimiterAssumption
<1> DEFINE b == bucket[r]
<1>1. /\ UNCHANGED <<now, hits, bucket, due, rank, ran, counted>>
      /\ b \in Buckets /\ now \in Nat /\ now <= MaxTime /\ \A q \in Requests : bucket[q] \in Buckets
      /\ dies \in [Buckets -> Nat]
  BY DEF Expire, Resend, Break, NoReply, askVars, sendVars, LimiterIInv, LimiterTypeOK
<1>2. /\ \A q \in Requests \ {r} : stage'[q] = stage[q] /\ try'[q] = try[q]
      /\ \/ /\ stage[r] = "incr" /\ stage'[r] \in {"incr", "uncounted"} /\ UNCHANGED dies
            /\ astray' = astray \cup {Last(r)}
         \/ /\ stage[r] = "expire" /\ stage'[r] \in {"incr", "open"} /\ UNCHANGED astray
            /\ dies' = [dies EXCEPT ![b] = now + Window] \/ UNCHANGED dies
         \/ /\ stage[r] = "expire" /\ dies' = [dies EXCEPT ![b] = now + Window]
            /\ stage'[r] = IF rank[r] <= Limit THEN "allowed" ELSE "refused"
            /\ UNCHANGED <<astray, try>>
      /\ try'[r] = try[r] \/ (try[r] < MaxRetries /\ try'[r] = try[r] + 1)
      /\ stage'[r] = "incr" => try'[r] = try[r] + 1
      /\ try' \in [Requests -> 0..MaxRetries]
  BY DEF Expire, Resend, Break, NoReply, Goes, Renewed, Life, WithinLimit, sendVars,
         LimiterIInv, LimiterTypeOK
<1>3. dies' \in [Buckets -> Nat] /\ \A c \in Buckets : dies'[c] = dies[c] \/ (c = b /\ dies'[c] = now + Window)
  BY <1>1, <1>2
<1>4. LimiterTypeOK'
  <2>1. stage' \in [Requests -> Stages]
    BY DEF Expire, Resend, Break, NoReply, Goes, LimiterIInv, LimiterTypeOK, Stages
  <2>2. astray' \subseteq Sends
    BY <1>2, LastSends DEF LimiterIInv, LimiterTypeOK
  <2> QED
    BY <1>1, <1>2, <1>3, <2>1, <2>2 DEF LimiterIInv, LimiterTypeOK
<1>5. \A q \in Requests : q # r \/ stage'[q] \in {"allowed", "refused"} =>
        try'[q] = try[q] /\ Last(q)' = Last(q) /\ At(q)' = At(q)
  BY <1>1, <1>2 DEF Last, At
<1>6. InTime'
  <2>1. ASSUME NEW q \in Requests PROVE InTime!1!(q)'
    BY <1>1, <1>2 DEF LimiterIInv, InTime
  <2> QED
    BY <1>1, <2>1 DEF LimiterIInv, InTime
<1>7. SendsOnce'
  <2>1. Last(r) \in Sends /\ Last(r)[1] = r /\ Last(r)[2] = try[r] /\ try[r] \in Nat
    BY LastSends DEF LimiterIInv, LimiterTypeOK
  <2>2. \A p \in astray \cup ran : p \in Sends /\ p[1] \in Requests /\ p[2] \in Nat
    BY SendIsPair DEF LimiterIInv, LimiterTypeOK
  <2>3. astray' \cap ran' = {}
    BY <1>1, <1>2, <2>1 DEF LimiterIInv, SendsOnce
  <2>4. ASSUME NEW p \in astray' \cup ran' PROVE SendsOnce!2!(p)'
    <3>1. CASE p \in astray \cup ran
      <4>1. p \in Sends /\ p[1] \in Requests /\ p[2] \in Nat /\ stage[p[1]] # "new" /\ p[2] <= try[p[1]]
            /\ (stage[p[1]] = "incr" => p[2] # try[p[1]])
        BY <2>2, <3>1 DEF LimiterIInv, SendsOnce
      <4> QED
        BY <1>2, <2>1, <4>1
    <3>2. CASE p = Last(r)
      BY <1>2, <2>1, <3>2
    <3> QED
      BY <1>1, <1>2, <2>4, <3>1, <3>2
  <2>5. \A q \in Requests : stage'[q] \in {"expire", "allowed", "refused"} => Last(q)' \in ran'
    BY <1>1, <1>2, <1>5 DEF LimiterIInv, SendsOnce
  <2> QED
    BY <2>3, <2>4, <2>5 DEF SendsOnce
<1>8. KeyLives'
  <2>1. \A c \in Buckets : hits'[c] > 0 => dies'[c] > now'
    BY <1>1, <1>3 DEF LimiterIInv, KeyLives
  <2>2. ASSUME NEW q \in Requests PROVE KeyLives!2!(q)'
    <3>1. CASE q # r
      <4>1. stage'[q] = stage[q] /\ dies[bucket[q]] \in Nat /\ At(q)' = At(q)
        BY <1>1, <1>2, <1>5, <3>1 DEF LimiterIInv, LimiterTypeOK
      <4>2. stage[q] = "allowed" => At(q) \in Nat /\ At(q) <= now
        BY LastSends DEF At, LimiterIInv, LimiterTypeOK, SendsOnce, InTime
      <4> QED
        BY <1>1, <1>3, <4>1, <4>2 DEF LimiterIInv, KeyLives
    <3>2. CASE q = r
      <4>1. stage'[q] # "expire"
        BY <1>2, <3>2
      <4>2. ASSUME stage'[q] = "allowed" PROVE KeyLives!2!(q)!2!2'
        <5>1. /\ stage[r] = "expire" /\ rank[r] <= Limit /\ dies' = [dies EXCEPT ![b] = now + Window]
              /\ At(r)' = At(r)
          BY <1>2, <1>5, <3>2, <4>2
        <5>2. /\ At(r) = now /\ rank[r] >= 1 /\ rank[r] <= hits[b] /\ rank[r] \in Nat
          BY <5>1 DEF LimiterIInv, KeyLives, LimiterTypeOK
        <5> QED
          BY <1>1, <3>2, <5>1, <5>2
      <4> QED
        BY <4>1, <4>2
    <3> QED
      BY <3>1, <3>2
  <2> QED
    BY <2>1, <2>2 DEF KeyLives
<1>9. RanksApart'
  <2>1. \A q \in Requests : stage'[q] \in {"expire", "allowed"} =>
          stage[q] \in {"expire", "allowed"} /\ At(q)' = At(q)
    BY <1>2, <1>5
  <2> QED
    BY <1>1, <2>1 DEF LimiterIInv, RanksApart, Close
<1>10. RanksEarned'
  <2>1. \A q \in Requests : stage'[q] = "refused" => rank[q] > Limit
    BY <1>2 DEF LimiterIInv, LimiterTypeOK, RanksEarned
  <2>2. \A q \in Requests : stage'[q] \in {"expire", "refused"} =>
          stage[q] \in {"expire", "refused"} /\ try'[q] = try[q]
    BY <1>2, <1>5
  <2>3. \A c \in Buckets : hits'[c] \in Nat /\ hits'[c] <= hits[c]
    BY <1>1 DEF LimiterIInv, LimiterTypeOK
  <2> QED
    BY <1>1, <2>1, <2>2, <2>3, EarnedKept
<1> QED
  BY <1>4, <1>6, <1>7, <1>8, <1>9, <1>10 DEF LimiterIInv

(* Pass: what was let on less than a window ago keeps its key. *)
LEMMA PassKeeps == ASSUME LimiterIInv, Pass PROVE LimiterIInv'
<1> USE LimiterAssumption DEF Pass, askVars, sendVars
<1>1. /\ now \in Nat /\ now' = now + 1 /\ now' <= MaxTime
      /\ UNCHANGED <<stage, bucket, due, try, rank, astray, ran, counted>>
      /\ \A r \in Requests : stage[r] # "expire" /\ bucket[r] \in Buckets
      /\ \A r \in Requests : Last(r)' = Last(r) /\ At(r)' = At(r)
  BY DEF LimiterIInv, LimiterTypeOK, Last, At
<1>2. \A b \in Buckets : /\ hits[b] \in Nat /\ dies[b] \in Nat
                         /\ hits'[b] = IF dies[b] <= now + 1 THEN 0 ELSE hits[b]
                         /\ dies'[b] = IF dies[b] <= now + 1 THEN 0 ELSE dies[b]
  BY DEF LimiterIInv, LimiterTypeOK
<1>3. LimiterTypeOK'
  <2>1. hits' \in [Buckets -> Nat] /\ dies' \in [Buckets -> Nat]
    BY DEF LimiterIInv, LimiterTypeOK
  <2> QED
    BY <1>1, <2>1 DEF LimiterIInv, LimiterTypeOK
<1>4. InTime'
  <2>1. ASSUME NEW r \in Requests PROVE InTime!1!(r)'
    BY <1>1 DEF LimiterIInv, LimiterTypeOK, InTime
  <2>2. ASSUME NEW s \in ran PROVE InTime!2!(s)'
    BY <1>1 DEF LimiterIInv, LimiterTypeOK, InTime
  <2> QED
    BY <1>1, <2>1, <2>2 DEF InTime
<1>5. SendsOnce'
  BY <1>1 DEF LimiterIInv, SendsOnce
<1>6. KeyLives'
  <2>1. \A b \in Buckets : hits'[b] > 0 => dies'[b] > now'
    BY <1>1, <1>2 DEF LimiterIInv, KeyLives
  <2>2. ASSUME NEW r \in Requests, stage[r] = "allowed", now' < At(r) + Window
        PROVE  rank[r] <= hits'[bucket[r]] /\ At(r) + Window <= dies'[bucket[r]]
    <3>1. At(r) \in Nat
      BY LastSends DEF At, LimiterIInv, LimiterTypeOK
    <3>2. rank[r] <= hits[bucket[r]] /\ At(r) + Window <= dies[bucket[r]]
      BY <1>1, <2>2, <3>1 DEF LimiterIInv, KeyLives
    <3>3. ~(dies[bucket[r]] <= now + 1)
      BY <1>1, <1>2, <2>2, <3>1, <3>2
    <3> QED
      BY <1>1, <1>2, <3>2, <3>3
  <2> QED
    BY <1>1, <2>1, <2>2 DEF LimiterIInv, KeyLives
<1>7. RanksApart'
  BY <1>1 DEF LimiterIInv, RanksApart, Close
<1>8. RanksEarned'
  <2>1. \A b \in Buckets : hits'[b] \in Nat /\ hits'[b] <= hits[b]
    BY <1>2
  <2>2. \A r \in Requests : stage'[r] = "refused" => rank[r] > Limit
    BY <1>1 DEF LimiterIInv, RanksEarned
  <2> QED
    BY <1>1, <2>1, <2>2, EarnedKept
<1> QED
  BY <1>3, <1>4, <1>5, <1>6, <1>7, <1>8 DEF LimiterIInv

(* The invariant, from the first state and over every step. *)
THEOREM LimiterInvariant == LimiterSpec => []LimiterIInv
<1>1. LimiterInit => LimiterIInv
  <2> SUFFICES ASSUME LimiterInit PROVE LimiterIInv
    OBVIOUS
  <2> USE LimiterAssumption
  <2>1. LimiterTypeOK
    BY DEF LimiterInit, LimiterTypeOK, Stages, Buckets
  <2>2. InTime /\ SendsOnce /\ KeyLives /\ RanksApart
    BY DEF LimiterInit, InTime, SendsOnce, KeyLives, RanksApart
  <2>3. RanksEarned
    <3>1. \A b \in Buckets : hits[b] = 0 /\ Cardinality(Counting(b)) \in Nat
      BY FiniteSends DEF LimiterInit, Counting
    <3> QED
      BY <3>1 DEF LimiterInit, RanksEarned
  <2> QED
    BY <2>1, <2>2, <2>3 DEF LimiterIInv
<1>2. LimiterIInv /\ [LimiterNext]_limiterVars => LimiterIInv'
  <2> SUFFICES ASSUME LimiterIInv, [LimiterNext]_limiterVars PROVE LimiterIInv'
    OBVIOUS
  <2>1. CASE UNCHANGED limiterVars
    BY <2>1 DEF limiterVars, keyVars, askVars, sendVars, LimiterIInv, LimiterTypeOK, InTime,
                SendsOnce, KeyLives, RanksApart, RanksEarned, Counting, Before, Close, At, Last
  <2>2. CASE LimiterNext
    BY <2>2, AskKeeps, IncrKeeps, StrayKeeps, AnswerKeeps, PassKeeps DEF LimiterNext
  <2> QED
    BY <2>1, <2>2
<1> QED
  BY <1>1, <1>2, PTL DEF LimiterSpec

-----------------------------------------------------------------------------
(* The windows whose keys may count a request in t .. t + Window - 1.       *)
First(t) == IF t >= Delay THEN (t - Delay) \div Window ELSE 0
Near(t) == First(t) .. (First(t) + Windows - 1)

LEMMA FewWindows ==
  ASSUME LimiterIInv, Spread <= Window, NEW t \in Nat, NEW r \in AllowedIn(t)
  PROVE  bucket[r] \in Near(t)
<1> USE LimiterAssumption
<1> DEFINE lo == First(t)
           b == bucket[r]
<1>1. /\ r \in Requests /\ stage[r] = "allowed" /\ At(r) \in Nat /\ b \in Nat
      /\ t <= At(r) /\ At(r) < t + Window
  BY LastSends DEF AllowedIn, At, LimiterIInv, LimiterTypeOK, Buckets
<1>2. /\ Opens(b) \in Nat /\ Opens(b) <= At(r) + MaxAhead
      /\ At(r) < Opens(b) + Window + Delay
  BY <1>1, OpensType, LastSends DEF LimiterIInv, InTime, SendsOnce, At
<1>3. lo \in Nat /\ Opens(lo) \in Nat
  <2>1. t >= Delay => (t - Delay) \div Window \in Nat
    <3> SUFFICES ASSUME t >= Delay PROVE (t - Delay) \div Window \in Nat
      OBVIOUS
    <3>1. t - Delay \in Nat
      OBVIOUS
    <3> QED BY <3>1, Division
  <2>2. lo \in Nat
    BY <2>1, Zenon DEF First
  <2> HIDE DEF lo
  <2> QED
    BY <2>2, OpensType
<1>4. t >= Delay => Opens(lo) <= t - Delay /\ t - Delay < Opens(lo) + Window
  <2> SUFFICES ASSUME t >= Delay PROVE Opens(lo) <= t - Delay /\ t - Delay < Opens(lo) + Window
    OBVIOUS
  <2>1. t - Delay \in Nat /\ lo = (t - Delay) \div Window
    BY DEF First
  <2> HIDE DEF lo
  <2> QED
    BY <2>1, Division
<1>5. t < Delay => lo = 0
  BY DEF First
<1> HIDE DEF lo
<1>6. lo <= b
  <2> SUFFICES ASSUME b < lo PROVE FALSE
    BY <1>1, <1>3
  <2>1. Opens(b) + 1 * Window <= Opens(lo)
    BY <1>1, <1>3, OpensLater
  <2>2. t >= Delay
    BY <1>1, <1>3, <1>5
  <2> QED
    BY <1>1, <1>2, <1>3, <1>4, <2>1, <2>2
<1>7. b <= lo + Windows - 1
  <2> SUFFICES ASSUME lo + Windows <= b PROVE FALSE
    BY <1>1, <1>3 DEF Windows
  <2>1. Opens(lo) + Windows * Window <= Opens(b)
    BY <1>1, <1>3, OpensLater DEF Windows
  <2>2. Windows * Window = IF Spread = 0 THEN Window + Window ELSE Window + Window + Window
    BY DEF Windows
  <2>3. Windows * Window \in Nat /\ Spread = MaxAhead + Delay
    BY <2>2 DEF Spread
  <2>4. CASE t >= Delay
    BY <1>1, <1>2, <1>3, <1>4, <2>1, <2>2, <2>3, <2>4
  <2>5. CASE t < Delay
    BY <1>1, <1>2, <1>3, <1>5, <2>1, <2>2, <2>3, <2>5
  <2> QED
    BY <2>4, <2>5
<1> QED
  BY <1>1, <1>3, <1>6, <1>7 DEF Near, Windows, lo

(* rate_limiter.go:17: whatever the clocks and the delays, and whenever keys *)
(* expire, a client is given at most Windows * Limit requests in the length  *)
(* of a window.                                                              *)
THEOREM LimitOfWindows == LimiterSpec => []LimitHeld
<1> USE LimiterAssumption
<1>1. ASSUME LimiterIInv, Spread <= Window, NEW t \in 0..now
      PROVE  Cardinality(AllowedIn(t)) <= Windows * Limit
  <2>1. t \in Nat /\ First(t) \in Nat /\ Windows \in Nat \ {0}
    <3>1. t \in Nat
      BY <1>1 DEF LimiterIInv, LimiterTypeOK
    <3>2. First(t) \in Nat
      BY <3>1, Division DEF First
    <3> QED
      BY <3>1, <3>2 DEF Windows
  <2> DEFINE f == [r \in AllowedIn(t) |-> <<bucket[r], rank[r]>>]
             T == Near(t) \X (1..Limit)
  <2>2. /\ IsFiniteSet(Near(t)) /\ Cardinality(Near(t)) = Windows
        /\ IsFiniteSet(1..Limit) /\ Cardinality(1..Limit) = Limit
    <3>1. First(t) \in Int /\ First(t) + Windows - 1 \in Int /\ First(t) + Windows - 1 >= First(t)
      BY <2>1
    <3>2. IsFiniteSet(Near(t)) /\ Cardinality(Near(t)) = Windows
      BY <2>1, <3>1, FS_Interval DEF Near
    <3>3. IsFiniteSet(1..Limit) /\ Cardinality(1..Limit) = Limit
      BY FS_Interval
    <3> QED
      BY <3>2, <3>3
  <2>3. IsFiniteSet(T) /\ Cardinality(T) = Windows * Limit
    BY <2>2, FS_Product
  <2>4. ASSUME NEW r \in AllowedIn(t) PROVE f[r] \in T
    BY <1>1, <2>1, <2>4, FewWindows DEF AllowedIn, LimiterIInv, KeyLives
  <2>5. ASSUME NEW r \in AllowedIn(t), NEW q \in AllowedIn(t), f[r] = f[q] PROVE r = q
    <3>1. Close(r, q)
      <4>1. \A p \in AllowedIn(t) : At(p) \in Nat /\ t <= At(p) /\ At(p) < t + Window
        BY <1>1, LastSends DEF AllowedIn, At, LimiterIInv, LimiterTypeOK
      <4> QED
        BY <2>1, <2>5, <4>1, LimiterAssumption DEF Close
    <3> QED
      BY <1>1, <2>5, <3>1 DEF AllowedIn, LimiterIInv, RanksApart
  <2>6. f \in Injection(AllowedIn(t), T)
    BY <2>4, <2>5 DEF Injection, IsInjective
  <2> QED
    BY <2>3, <2>6, FS_Injection
<1>2. LimiterIInv => LimitHeld
  BY <1>1 DEF LimitHeld
<1> QED
  BY <1>2, LimiterInvariant, PTL

(* ratelimit.go:20: who is refused has used up the limit, with its other     *)
(* requests and with sends whose reply was lost.                             *)
THEOREM NoneRefusedInVain == LimiterSpec => []RefusedJustly
<1> USE LimiterAssumption
<1>1. ASSUME LimiterIInv, NEW r \in Requests, stage[r] = "refused"
      PROVE  Cardinality(Others(r)) + Cardinality(Sooner(r) \cap Lost) >= Limit
  <2> DEFINE A == Sooner(r) \ Lost
             L == Sooner(r) \cap Lost
             f == [s \in A |-> s[1]]
  <2>1. Sooner(r) \subseteq Sends /\ Before(r) \subseteq Sends /\ Last(r) \in ran
    BY <1>1 DEF Sooner, Before, LimiterIInv, LimiterTypeOK, SendsOnce
  <2>2. Before(r) \subseteq Sooner(r)
    <3> SUFFICES ASSUME NEW s \in Before(r) PROVE s \in Sooner(r)
      OBVIOUS
    <3>1. /\ s \in ran /\ s # Last(r) /\ bucket[s[1]] = bucket[r] /\ bucket[r] \in Nat
          /\ counted[s] <= At(r) /\ counted[s] \in Nat /\ At(r) \in Nat
      <4>1. s \in ran /\ s # Last(r) /\ bucket[s[1]] = bucket[r] /\ counted[s] <= At(r)
        BY DEF Before
      <4>2. bucket[r] \in Nat /\ counted[s] \in Nat
        BY <1>1, <4>1 DEF LimiterIInv, LimiterTypeOK, Buckets
      <4>3. At(r) \in Nat
        BY <1>1, LastSends DEF At, LimiterIInv, LimiterTypeOK
      <4> QED
        BY <4>1, <4>2, <4>3
    <3>2. Opens(bucket[r]) \in Nat
      BY <3>1, OpensType
    <3>3. Opens(bucket[r]) <= counted[s] + MaxAhead
      BY <1>1, <3>1 DEF LimiterIInv, InTime
    <3>4. At(r) < Opens(bucket[r]) + Window + Delay
      BY <1>1, <2>1, LastSends DEF LimiterIInv, InTime, At
    <3>5. At(r) < counted[s] + Window + Spread
      BY <3>1, <3>2, <3>3, <3>4 DEF Spread
    <3> QED
      BY <3>1, <3>5 DEF Sooner, At
  <2>3. /\ IsFiniteSet(Sooner(r)) /\ Cardinality(Sooner(r)) \in Nat
        /\ Cardinality(Before(r)) \in Nat /\ Cardinality(Before(r)) <= Cardinality(Sooner(r))
    BY <2>1, <2>2, FiniteSends, FS_Subset
  <2>4. rank[r] \in Nat /\ rank[r] > Limit /\ rank[r] <= Cardinality(Before(r)) + 1
    BY <1>1 DEF LimiterIInv, LimiterTypeOK, RanksEarned
  <2>5. ASSUME NEW s \in A PROVE s = Last(s[1]) /\ s[1] \in Others(r)
    <3>1. s \in ran /\ s \in Sends /\ s # Last(r) /\ s \notin Lost /\ s \in Sooner(r)
      BY <2>1, <2>5 DEF Sooner
    <3>2. s[1] \in Requests /\ s[2] \in Nat /\ s = <<s[1], s[2]>> /\ s[2] <= try[s[1]] /\ try[s[1]] \in Nat
      BY <1>1, <3>1, SendIsPair DEF LimiterIInv, LimiterTypeOK, SendsOnce
    <3>3. s[2] = try[s[1]]
      BY <3>1, <3>2 DEF Lost
    <3>4. s = Last(s[1])
      BY <3>2, <3>3 DEF Last
    <3> QED
      BY <3>1, <3>2, <3>4 DEF Others
  <2>6. f \in Injection(A, Others(r))
    BY <2>5 DEF Injection, IsInjective
  <2>7. IsFiniteSet(Others(r)) /\ Cardinality(Others(r)) \in Nat
    <3>1. IsFiniteSet(Requests)
      BY FS_Interval DEF Requests
    <3> QED
      BY <3>1, FS_Subset, FS_CardinalityType DEF Others
  <2>8. Cardinality(A) \in Nat /\ Cardinality(A) <= Cardinality(Others(r))
    BY <2>1, <2>6, <2>7, FiniteSends, FS_Injection
  <2>9. Cardinality(L) \in Nat /\ Cardinality(Sooner(r)) <= Cardinality(A) + Cardinality(L)
    <3>1. IsFiniteSet(A) /\ IsFiniteSet(L) /\ A \cup L = Sooner(r) /\ A \cap L = {}
      BY <2>1, FiniteSends
    <3>2. Cardinality(A \cup L) = Cardinality(A) + Cardinality(L) - Cardinality(A \cap L)
      BY <3>1, FS_Union
    <3> HIDE DEF A, L
    <3>3. Cardinality(A) \in Nat /\ Cardinality(L) \in Nat
      BY <3>1, FS_CardinalityType
    <3>4. Cardinality(A \cap L) = 0
      BY <3>1, FS_EmptySet
    <3>5. Cardinality(Sooner(r)) = Cardinality(A) + Cardinality(L) - 0
      BY <3>1, <3>2, <3>4
    <3> QED
      BY <3>3, <3>5
  <2> HIDE DEF A, L
  <2>10. Cardinality(Others(r)) + Cardinality(L) >= Limit
    BY <2>3, <2>4, <2>7, <2>8, <2>9
  <2> QED
    BY <2>10 DEF L
<1>2. LimiterIInv => RefusedJustly
  BY <1>1 DEF RefusedJustly
<1> QED
  BY <1>2, LimiterInvariant, PTL
=============================================================================
