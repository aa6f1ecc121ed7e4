--------------------------- MODULE LinkCacheProofs ---------------------------
(***************************************************************************)
(* Proofs about LinkCache, for every number of instances, readers and      *)
(* owners, every TTL, delay and deadline, and every set of faults.         *)
(***************************************************************************)
EXTENDS LinkCache, TLAPS

(* Every variable has its type; no error is ever cached (resolve.go:75).    *)
THEOREM TypeCorrect == Spec => []TypeOK
<1> USE CacheAssumption
<1>1. Init => TypeOK
  BY DEF Init, TypeOK, Versions, Kinds, Empty, NoFlight
<1>2. TypeOK /\ [Next]_vars => TypeOK'
  <2> SUFFICES ASSUME TypeOK, [Next]_vars PROVE TypeOK'
    OBVIOUS
  <2> USE DEF TypeOK, Versions, Kinds, rowVars, readerVars, ownerVars
  <2>1. CASE Create
    BY <2>1 DEF Create, Commit
  <2>2a. ASSUME NEW o \in Owners, NEW k \in Kinds, ChangeFails(o, k) PROVE TypeOK'
    <3>1. opc' \in [Owners -> {"idle", "del", "done"}]
      BY <2>2a DEF ChangeFails
    <3>2. CASE Commit(k) /\ silent' = silent \cup {db + 1}
      <4>1. db + 1 \in Versions /\ db' = db + 1
        BY <3>2 DEF Commit
      <4>2. kind' \in [Versions -> Kinds] /\ ended' \in [Versions -> Nat]
        BY <3>2 DEF Commit
      <4> QED
        BY <2>2a, <3>1, <3>2, <4>1, <4>2 DEF ChangeFails
    <3>3. CASE UNCHANGED rowVars
      BY <2>2a, <3>1, <3>3 DEF ChangeFails
    <3> QED
      BY <2>2a, <3>2, <3>3 DEF ChangeFails
  <2>2. ASSUME NEW o \in Owners, SetStatus(o) \/ Delete(o) PROVE TypeOK'
    <3>1. ASSUME NEW k \in Kinds, Change(o, k) PROVE TypeOK'
      <4>1. db + 1 \in Versions /\ db' = db + 1
        BY <3>1 DEF Change, Commit
      <4>2. kind' \in [Versions -> Kinds] /\ ended' \in [Versions -> Nat]
        BY <3>1 DEF Change, Commit
      <4>3. opc' \in [Owners -> {"idle", "del", "done"}] /\ over' \in [Owners -> Versions]
        BY <3>1, <4>1 DEF Change
      <4> QED
        BY <3>1, <4>1, <4>2, <4>3 DEF Change
    <3> QED
      BY <2>2, <2>2a, <3>1 DEF SetStatus, Delete, ChangeTo
  <2>3. ASSUME NEW o \in Owners, Invalidate(o) PROVE TypeOK'
    <3>1. cache' \in [ver : Versions, exp : Nat]
      BY <2>3 DEF Invalidate, Emptied, Empty
    <3>2. timers' \in [Instances -> SUBSET Nat]
      BY <2>3 DEF Invalidate, Schedule
    <3>3. opc' \in [Owners -> {"idle", "del", "done"}]
      BY <2>3 DEF Invalidate
    <3>4. UNCHANGED <<now, rowVars, flight, readerVars, over>>
      BY <2>3 DEF Invalidate
    <3> QED
      BY <3>1, <3>2, <3>3, <3>4
  <2>4. ASSUME NEW o \in Owners, NextRequest(o) PROVE TypeOK'
    <3>1. /\ opc' \in [Owners -> {"idle", "del", "done"}]
          /\ over' \in [Owners -> Versions]
      BY <2>4 DEF NextRequest
    <3>2. UNCHANGED <<now, rowVars, cache, flight, timers, readerVars>>
      BY <2>4 DEF NextRequest
    <3> QED
      BY <3>1, <3>2
  <2>5. ASSUME NEW i \in Instances, NEW t \in timers[i], DeleteAgain(i, t) PROVE TypeOK'
    <3>1. cache' \in [ver : Versions, exp : Nat] /\ timers' \in [Instances -> SUBSET Nat]
      BY <2>5 DEF DeleteAgain, Emptied, Empty
    <3>2. UNCHANGED <<now, rowVars, flight, readerVars, ownerVars>>
      BY <2>5 DEF DeleteAgain
    <3> QED
      BY <3>1, <3>2
  <2>6. ASSUME NEW r \in Readers, Arrive(r) \/ Leave(r) PROVE TypeOK'
    <3>1. rpc' \in [Readers -> {"idle", "get", "sf", "wait", "done"}] /\ gone' \subseteq Readers
      BY <2>6 DEF Arrive, Leave
    <3>2. UNCHANGED <<now, rowVars, cache, flight, timers, res, ownerVars>>
      BY <2>6 DEF Arrive, Leave
    <3> QED
      BY <3>1, <3>2
  <2>7. ASSUME NEW r \in Readers, GetHit(r) \/ GetMiss(r) PROVE TypeOK'
    <3>1. /\ rpc' \in [Readers -> {"idle", "get", "sf", "wait", "done"}]
          /\ res' \in [Readers -> Versions \cup {Err}]
      BY <2>7 DEF GetHit, GetMiss
    <3>2. UNCHANGED <<now, rowVars, cache, flight, timers, gone, ownerVars>>
      BY <2>7 DEF GetHit, GetMiss
    <3> QED
      BY <3>1, <3>2
  <2>8. ASSUME NEW r \in Readers, Do(r) PROVE TypeOK'
    <3>1. [pc |-> "find", ver |-> 0, due |-> now + DbTimeout]
            \in [pc : {"none", "find", "set"}, ver : Versions, due : Nat]
      OBVIOUS
    <3>2. flight' \in [Instances -> [pc : {"none", "find", "set"}, ver : Versions, due : Nat]]
      BY <2>8, <3>1 DEF Do
    <3>3. rpc' \in [Readers -> {"idle", "get", "sf", "wait", "done"}]
      BY <2>8 DEF Do
    <3>4. UNCHANGED <<now, rowVars, cache, timers, res, gone, ownerVars>>
      BY <2>8 DEF Do
    <3> QED
      BY <3>2, <3>3, <3>4
  <2>9. ASSUME NEW i \in Instances, Find(i) PROVE TypeOK'
    BY <2>9 DEF Find
  <2>10. ASSUME NEW i \in Instances, NEW v \in Versions \cup {Err}, Land(i, v), cache' \in [ver : Versions, exp : Nat]
         PROVE  TypeOK'
    <3>1. flight' \in [Instances -> [pc : {"none", "find", "set"}, ver : Versions, due : Nat]]
      BY <2>10 DEF Land, NoFlight
    <3>2. /\ res' \in [Readers -> Versions \cup {Err}]
          /\ rpc' \in [Readers -> {"idle", "get", "sf", "wait", "done"}]
      BY <2>10 DEF Land
    <3> QED
      BY <2>10, <3>1, <3>2 DEF Land
  <2>11. ASSUME NEW i \in Instances, FindErr(i) \/ FillErr(i) PROVE TypeOK'
    BY <2>10, <2>11 DEF FindErr, FillErr
  <2>12. ASSUME NEW i \in Instances, Fill(i) PROVE TypeOK'
    <3>1. flight[i].ver \in Versions /\ \A ttl \in TTLs(flight[i].ver) : ttl \in Nat
      BY DEF TTLs
    <3>2. cache' \in [ver : Versions, exp : Nat]
      BY <2>12, <3>1 DEF Fill
    <3> QED
      BY <2>10, <2>12, <3>1, <3>2 DEF Fill
  <2>13. ASSUME NEW i \in Instances, Crash(i) PROVE TypeOK'
    BY <2>13 DEF Crash, NoFlight
  <2>14. CASE Tick
    BY <2>14 DEF Tick, Empty
  <2>15. CASE UNCHANGED vars
    BY <2>15 DEF vars
  <2> QED
    BY <2>1, <2>2, <2>3, <2>4, <2>5, <2>6, <2>7, <2>8, <2>9, <2>11, <2>12, <2>13, <2>14, <2>15
       DEF Next, ReaderStep, FlightStep
<1> QED
  BY <1>1, <1>2, PTL DEF Spec

-----------------------------------------------------------------------------
(* A flight is started with its deadline, finds the row before it, and sets *)
(* the cache at most a command's time after it.  The version it holds was   *)
(* the row's when it was read.                                              *)
FlightTimed ==
  \A i \in Instances :
    LET f == flight[i] IN
    /\ f.pc # "none" => f.due <= now + DbTimeout
    /\ f.pc = "find" => now <= f.due
    /\ f.pc = "set" =>
         /\ now <= f.due + CmdTime
         /\ f.ver <= db
         /\ f.ver < db => f.due <= ended[f.ver] + DbTimeout

(* An entry of the present version lives a TTL from now at most, one of a   *)
(* superseded version to its limit at most.                                 *)
CacheTimed ==
  Cached => /\ cache.ver <= db
            /\ cache.ver = db => cache.exp <= now + TTLOf(db)
            /\ cache.ver < db => cache.exp <= Limit(cache.ver)

(* What a commit does to the versions.                                      *)
LEMMA CommitFacts ==
  ASSUME TypeOK, NEW k \in Kinds, Commit(k)
  PROVE  /\ db + 1 \in Versions /\ db' = db + 1
         /\ ended'[db] = now /\ kind'[db + 1] = k
         /\ \A v \in Versions : v # db => ended'[v] = ended[v]
         /\ \A v \in Versions : v <= db => kind'[v] = kind[v]
  BY CacheAssumption DEF Commit, TypeOK, Versions

(* Create, SetStatus and Delete commit a row, or fail and leave it alone;   *)
(* time, cache and flights they always leave alone.                         *)
LEMMA RowChange ==
  ASSUME Create \/ \E o \in Owners : SetStatus(o) \/ Delete(o)
  PROVE  /\ (\E k \in Kinds : Commit(k)) \/ UNCHANGED <<db, kind, ended>>
         /\ UNCHANGED <<now, cache, flight, timers, readerVars>>
<1>1. CASE Create
  BY <1>1 DEF Create, Kinds
<1>2. ASSUME NEW o \in Owners, NEW k \in Kinds, ChangeTo(o, k)
      PROVE  /\ Commit(k) \/ UNCHANGED <<db, kind, ended>>
             /\ UNCHANGED <<now, cache, flight, timers, readerVars>>
  BY <1>2 DEF ChangeTo, Change, ChangeFails, rowVars
<1> QED
  BY <1>1, <1>2 DEF SetStatus, Delete, Kinds

(* The steps that touch neither the row nor the time nor a flight.          *)
LEMMA QuietSteps ==
  ASSUME \/ \E o \in Owners : Invalidate(o) \/ NextRequest(o)
         \/ \E i \in Instances : \E t \in timers[i] : DeleteAgain(i, t)
         \/ \E r \in Readers : Arrive(r) \/ Leave(r) \/ GetHit(r) \/ GetMiss(r)
         \/ UNCHANGED vars
  PROVE  /\ UNCHANGED <<now, db, kind, ended, silent, flight>>
         /\ cache' = Empty \/ UNCHANGED cache
<1>1. ASSUME NEW o \in Owners, Invalidate(o) \/ NextRequest(o)
      PROVE  UNCHANGED <<now, db, kind, ended, silent, flight>> /\ (cache' = Empty \/ UNCHANGED cache)
  BY <1>1 DEF Invalidate, NextRequest, rowVars, Emptied
<1>2. ASSUME NEW i \in Instances, NEW t \in timers[i], DeleteAgain(i, t)
      PROVE  UNCHANGED <<now, db, kind, ended, silent, flight>> /\ (cache' = Empty \/ UNCHANGED cache)
  BY <1>2 DEF DeleteAgain, rowVars, Emptied
<1>3. ASSUME NEW r \in Readers, Arrive(r) \/ Leave(r) \/ GetHit(r) \/ GetMiss(r)
      PROVE  UNCHANGED <<now, db, kind, ended, silent, flight>> /\ (cache' = Empty \/ UNCHANGED cache)
  BY <1>3 DEF Arrive, Leave, GetHit, GetMiss, rowVars
<1>4. CASE UNCHANGED vars
  BY <1>4 DEF vars, rowVars
<1> QED
  BY <1>1, <1>2, <1>3, <1>4

LEMMA FlightsTimed == Spec => []FlightTimed
<1> USE CacheAssumption
<1>1. Init => FlightTimed
  <2> SUFFICES ASSUME Init PROVE FlightTimed
    OBVIOUS
  <2>1. \A i \in Instances : flight[i].pc = "none"
    BY DEF Init, NoFlight
  <2> QED
    BY <2>1 DEF FlightTimed
<1>2. TypeOK /\ FlightTimed /\ [Next]_vars => FlightTimed'
  <2> SUFFICES ASSUME TypeOK, FlightTimed, [Next]_vars PROVE FlightTimed'
    OBVIOUS
  <2> USE DEF FlightTimed
  <2> DEFINE Flights == [pc : {"none", "find", "set"}, ver : Versions, due : Nat]
  <2>0. /\ now \in Nat /\ db \in Nat /\ DbTimeout \in Nat /\ CmdTime \in Nat
        /\ \A i \in Instances : flight[i] \in Flights
        /\ \A v \in Versions : v \in Nat /\ ended[v] \in Nat
    BY DEF TypeOK, Versions
  <2>1. CASE Create \/ \E o \in Owners : SetStatus(o) \/ Delete(o)
    <3>0. CASE UNCHANGED <<db, kind, ended>>
      BY <2>1, <3>0, RowChange
    <3>. SUFFICES ASSUME NEW k \in Kinds, Commit(k) PROVE FlightTimed'
      BY <2>1, <3>0, RowChange
    <3>1. Commit(k)
      OBVIOUS
    <3>2. UNCHANGED <<now, flight>>
      BY <2>1, RowChange
    <3>3. ASSUME NEW i \in Instances, flight[i].pc = "set"
          PROVE  /\ flight[i].ver <= db'
                 /\ flight[i].ver < db' => flight[i].due <= ended'[flight[i].ver] + DbTimeout
      BY <2>0, <3>1, <3>3, CommitFacts
    <3> QED
      BY <2>0, <3>2, <3>3
  <2>2. CASE UNCHANGED <<now, db, kind, ended, flight>>
    BY <2>2
  <2>3. ASSUME NEW r \in Readers, Do(r) PROVE FlightTimed'
    <3>1. UNCHANGED <<now, db, ended>>
      BY <2>3 DEF Do, rowVars
    <3>2. ASSUME NEW i \in Instances
          PROVE  \/ flight'[i] = flight[i]
                 \/ flight'[i] = [pc |-> "find", ver |-> 0, due |-> now + DbTimeout]
      BY <2>3 DEF Do, TypeOK
    <3> QED
      BY <2>0, <3>1, <3>2
  <2>4. ASSUME NEW i \in Instances, Find(i) PROVE FlightTimed'
    <3>1. UNCHANGED <<now, db, ended>> /\ flight[i].pc = "find"
      BY <2>4 DEF Find, rowVars
    <3>2. /\ flight'[i] = [flight[i] EXCEPT !.pc = "set", !.ver = db]
          /\ \A j \in Instances \ {i} : flight'[j] = flight[j]
      BY <2>4 DEF Find, TypeOK
    <3>3. flight'[i].pc = "set" /\ flight'[i].ver = db /\ flight'[i].due = flight[i].due
      BY <2>0, <3>2
    <3>4. /\ flight[i].due \in Nat /\ now <= flight[i].due
          /\ flight[i].due <= now + DbTimeout
      BY <2>0, <3>1
    <3>5. /\ flight'[i].due <= now' + DbTimeout
          /\ now' <= flight'[i].due + CmdTime
          /\ flight'[i].ver = db'
      BY <2>0, <3>1, <3>3, <3>4
    <3>6. ASSUME NEW j \in Instances \ {i} PROVE flight'[j] = flight[j]
      BY <3>2
    <3> QED
      BY <2>0, <3>1, <3>3, <3>5, <3>6
  <2>5. ASSUME NEW i \in Instances, FindErr(i) \/ Fill(i) \/ FillErr(i) \/ Crash(i)
        PROVE  FlightTimed'
    <3>1. UNCHANGED <<now, db, ended>>
      BY <2>5 DEF FindErr, Fill, FillErr, Crash, Land, rowVars
    <3>2. \A j \in Instances : flight'[j] = flight[j] \/ flight'[j] = NoFlight
      BY <2>5 DEF FindErr, Fill, FillErr, Crash, Land, TypeOK
    <3> QED
      BY <3>1, <3>2 DEF NoFlight
  <2>6. CASE Tick
    <3>1. now' = now + 1 /\ UNCHANGED <<db, ended, flight>>
      BY <2>6 DEF Tick, rowVars
    <3>2. ASSUME NEW i \in Instances
          PROVE  /\ flight[i].pc = "find" => now < flight[i].due
                 /\ flight[i].pc = "set" => now < flight[i].due + CmdTime
      BY <2>0, <2>6 DEF Tick, Overtime
    <3> QED
      BY <2>0, <3>1, <3>2
  <2> QED
    BY <2>1, <2>2, <2>3, <2>4, <2>5, <2>6, QuietSteps DEF Next, ReaderStep, FlightStep
<1> QED
  BY <1>1, <1>2, TypeCorrect, PTL DEF Spec

LEMMA TTLNat == ASSUME TypeOK, NEW v \in Versions PROVE TTLOf(v) \in Nat /\ Limit(v) \in Nat
  BY CacheAssumption DEF TTLOf, Limit, TypeOK

LEMMA EmptyCache == ASSUME now \in Nat, cache = Empty PROVE ~Cached
  BY DEF Cached, Empty

LEMMA CacheBounded == Spec => []CacheTimed
<1> USE CacheAssumption
<1>1. Init => CacheTimed
  BY EmptyCache DEF Init, CacheTimed
<1>2. TypeOK /\ FlightTimed /\ CacheTimed /\ [Next]_vars /\ TypeOK' => CacheTimed'
  <2> SUFFICES ASSUME TypeOK, FlightTimed, CacheTimed, [Next]_vars, TypeOK' PROVE CacheTimed'
    OBVIOUS
  <2>0. /\ now \in Nat /\ db \in Nat /\ db \in Versions /\ DbTimeout \in Nat /\ CmdTime \in Nat
        /\ cache.ver \in Versions /\ cache.ver \in Nat /\ cache.exp \in Nat /\ now' \in Nat
    BY DEF TypeOK, Versions
  <2>00. \A c \in Versions : /\ c \in Nat /\ ended[c] \in Nat
                             /\ TTLOf(c) \in Nat /\ Limit(c) \in Nat
    <3>1. \A c \in Versions : c \in Nat /\ ended[c] \in Nat
      BY DEF TypeOK, Versions
    <3> QED
      BY <3>1, TTLNat
  <2>2. ASSUME UNCHANGED <<now, db, kind, ended>>, cache' = Empty \/ UNCHANGED cache
        PROVE  CacheTimed'
    BY <2>0, <2>00, <2>2 DEF CacheTimed, Cached, Empty, Limit, TTLOf
  <2>1. CASE Create \/ \E o \in Owners : SetStatus(o) \/ Delete(o)
    <3>0. CASE UNCHANGED <<db, kind, ended>>
      BY <2>1, <2>2, <3>0, RowChange
    <3>. SUFFICES ASSUME NEW k \in Kinds, Commit(k) PROVE CacheTimed'
      BY <2>1, <3>0, RowChange
    <3>1. Commit(k)
      OBVIOUS
    <3>2. UNCHANGED <<now, cache>>
      BY <2>1, RowChange
    <3>3. ASSUME NEW c \in Versions, c <= db
          PROVE  Limit(c)' = ended'[c] + DbTimeout + CmdTime + TTLOf(c)
      BY <2>0, <3>1, <3>3, CommitFacts DEF TTLOf, Limit
    <3>4. ASSUME NEW c \in Versions, c = cache.ver, Cached
          PROVE  c < db' /\ cache.exp <= Limit(c)'
      <4>1. CASE c = db
        <5>1. ended'[db] = now /\ db' = db + 1 /\ cache.exp <= now + TTLOf(db)
          BY <3>1, <3>4, <4>1, CommitFacts DEF CacheTimed
        <5>2. Limit(c)' = now + DbTimeout + CmdTime + TTLOf(db)
          BY <2>0, <3>3, <4>1, <5>1
        <5> QED
          BY <2>0, <2>00, <4>1, <5>1, <5>2
      <4>2. CASE c < db
        <5>1. ended'[c] = ended[c] /\ db' = db + 1 /\ cache.exp <= Limit(c)
          BY <2>0, <3>1, <3>4, <4>2, CommitFacts DEF CacheTimed
        <5>2. Limit(c)' = Limit(c)
          BY <2>0, <2>00, <3>3, <4>2, <5>1 DEF Limit
        <5> QED
          BY <2>0, <2>00, <4>2, <5>1, <5>2
      <4> QED
        BY <2>0, <2>00, <3>4, <4>1, <4>2 DEF CacheTimed
    <3>5. ASSUME Cached
          PROVE  cache.ver < db' /\ cache.exp <= ended'[cache.ver] + DbTimeout + CmdTime + TTLOf(cache.ver)'
      BY <2>0, <3>2, <3>4, <3>5 DEF Limit
    <3> QED
      BY <2>0, <3>2, <3>5, CommitFacts, <3>1 DEF CacheTimed, Cached, Limit
  <2>3. ASSUME NEW r \in Readers, Do(r) PROVE CacheTimed'
    BY <2>2, <2>3 DEF Do, rowVars
  <2>4. ASSUME NEW i \in Instances, Find(i) \/ FindErr(i) \/ FillErr(i) \/ Crash(i)
        PROVE  CacheTimed'
    BY <2>2, <2>4 DEF Find, FindErr, FillErr, Crash, Land, rowVars
  <2>5. ASSUME NEW i \in Instances, Fill(i) PROVE CacheTimed'
    <3>1. UNCHANGED <<now, db, kind, ended>>
      BY <2>5 DEF Fill, Land, rowVars
    <3>2. PICK v \in Versions : v = flight[i].ver
      BY DEF TypeOK
    <3>3. PICK ttl \in TTLs(v) : cache' = [ver |-> v, exp |-> now + ttl]
      BY <2>5, <3>2 DEF Fill
    <3>4. /\ v <= db
          /\ flight[i].due \in Nat /\ now <= flight[i].due + CmdTime
          /\ v < db => flight[i].due <= ended[v] + DbTimeout
      BY <2>5, <3>2 DEF Fill, FlightTimed, TypeOK
    <3>5. ttl \in Nat /\ ttl <= TTLOf(v)
      BY DEF TTLs, TTLOf
    <3>6. cache'.ver = v /\ cache'.exp = now + ttl
      BY <3>3
    <3>7. v < db => now + ttl <= Limit(v)
      BY <2>0, <2>00, <3>4, <3>5 DEF Limit
    <3>8. v = db => now + ttl <= now + TTLOf(db)
      BY <2>0, <2>00, <3>5
    <3> QED
      BY <3>1, <3>4, <3>6, <3>7, <3>8 DEF CacheTimed, TTLOf, Limit
  <2>6. CASE Tick
    <3>1. now' = now + 1 /\ UNCHANGED <<db, kind, ended>>
      BY <2>6 DEF Tick, rowVars
    <3>2. CASE cache' = Empty
      BY <2>0, <3>2 DEF CacheTimed, Cached, Empty
    <3>3. CASE UNCHANGED cache
      BY <2>0, <2>00, <3>1, <3>3 DEF CacheTimed, Cached, Limit, TTLOf
    <3> QED
      BY <2>6, <3>2, <3>3 DEF Tick
  <2> QED
    BY <2>1, <2>2, <2>3, <2>4, <2>5, <2>6, QuietSteps DEF Next, ReaderStep, FlightStep
<1> QED
  BY <1>1, <1>2, TypeCorrect, FlightsTimed, PTL DEF Spec

(* manage.go:32: whatever fails and whichever fill races the change, a      *)
(* superseded link is out of the cache one flight and one TTL later.        *)
THEOREM StaleBounded == Spec => []StaleBound
<1>1. CacheTimed => StaleBound
  BY DEF CacheTimed, StaleBound
<1> QED
  BY <1>1, CacheBounded, PTL

-----------------------------------------------------------------------------
(* How a request gets its answer: from the cache, or when its flight lands. *)
LEMMA AnswerSteps ==
  ASSUME TypeOK, [Next]_vars, NEW r \in Readers, rpc[r] # "done", rpc'[r] = "done"
  PROVE  \/ GetHit(r)
         \/ /\ rpc[r] = "wait"
            /\ \/ FindErr(Home[r]) /\ res'[r] = Err
               \/ Fill(Home[r]) \/ FillErr(Home[r])
            /\ flight[Home[r]].pc = "set" => res'[r] = flight[Home[r]].ver
<1> USE DEF readerVars
<1>1. ASSUME NEW i \in Instances, NEW v, Land(i, v)
      PROVE  rpc[r] = "wait" /\ i = Home[r] /\ res'[r] = v
  BY <1>1 DEF Land, Waiting, TypeOK
<1>2. ASSUME NEW i \in Instances, FindErr(i) \/ Fill(i) \/ FillErr(i)
      PROVE  /\ rpc[r] = "wait" /\ i = Home[r]
             /\ FindErr(i) => res'[r] = Err /\ flight[i].pc = "find"
             /\ Fill(i) \/ FillErr(i) => res'[r] = flight[i].ver
  BY <1>1, <1>2 DEF FindErr, Fill, FillErr
<1>3. ASSUME NEW q \in Readers, GetHit(q) PROVE q = r
  BY <1>3 DEF GetHit, TypeOK
<1>4. ASSUME NEW q \in Readers, Arrive(q) \/ Leave(q) \/ GetMiss(q) \/ Do(q) PROVE FALSE
  BY <1>4 DEF Arrive, Leave, GetMiss, Do, TypeOK
<1>5. ASSUME NEW i \in Instances, Find(i) \/ Crash(i) PROVE FALSE
  BY <1>5 DEF Find, Crash, TypeOK
<1>6. ASSUME Create \/ \E o \in Owners : SetStatus(o) \/ Delete(o) PROVE FALSE
  BY <1>6, RowChange
<1>7. ASSUME \/ \E o \in Owners : Invalidate(o) \/ NextRequest(o)
             \/ \E i \in Instances : \E t \in timers[i] : DeleteAgain(i, t)
             \/ Tick \/ UNCHANGED vars
      PROVE  FALSE
  BY <1>7 DEF Invalidate, NextRequest, DeleteAgain, Tick, vars
<1> QED
  BY <1>2, <1>3, <1>4, <1>5, <1>6, <1>7 DEF Next, ReaderStep, FlightStep

(* An answer is an error, or a version of the row within its limit.         *)
LEMMA AnswerFresh ==
  ASSUME TypeOK, FlightTimed, CacheTimed, [Next]_vars,
         NEW r \in Readers, rpc[r] # "done", rpc'[r] = "done", res'[r] # Err
  PROVE  /\ res'[r] \in Versions /\ res'[r] <= db
         /\ res'[r] = db \/ now <= Limit(res'[r])
<1>0. now \in Nat /\ db \in Nat /\ \A v \in Versions : v \in Nat /\ ended[v] \in Nat
  BY CacheAssumption DEF TypeOK, Versions
<1>1. CASE GetHit(r)
  <2>1. res'[r] = cache.ver /\ Cached
    BY <1>1 DEF GetHit, TypeOK
  <2>2. cache.ver \in Versions /\ cache.exp \in Nat /\ cache.exp > now
    BY <2>1 DEF Cached, TypeOK
  <2>3. cache.ver <= db /\ (cache.ver = db \/ cache.exp <= Limit(cache.ver))
    BY <1>0, <2>1, <2>2 DEF CacheTimed
  <2>4. Limit(cache.ver) \in Nat
    BY <2>2, TTLNat
  <2> QED
    BY <1>0, <2>1, <2>2, <2>3, <2>4
<1>2. CASE Fill(Home[r]) \/ FillErr(Home[r])
  <2>1. Home[r] \in Instances /\ flight[Home[r]].pc = "set"
    BY <1>2, CacheAssumption DEF Fill, FillErr
  <2>2. PICK v \in Versions : v = flight[Home[r]].ver
    BY <2>1 DEF TypeOK
  <2>3. res'[r] = v
    <3>1. ~GetHit(r)
      BY <1>2 DEF GetHit, Fill, FillErr, Land, Waiting, TypeOK
    <3> QED
      BY <2>1, <2>2, <3>1, AnswerSteps
  <2>4. /\ v <= db /\ flight[Home[r]].due \in Nat
        /\ now <= flight[Home[r]].due + CmdTime
        /\ v < db => flight[Home[r]].due <= ended[v] + DbTimeout
    BY <2>1, <2>2 DEF FlightTimed, TypeOK
  <2>5. TTLOf(v) \in Nat
    BY TTLNat
  <2> QED
    BY <1>0, <2>3, <2>4, <2>5, CacheAssumption DEF Limit
<1> QED
  BY <1>1, <1>2, AnswerSteps

(* No request is answered with a version superseded longer ago than that.   *)
THEOREM Served == Spec => ServedWithinLimit
<1>1. TypeOK /\ FlightTimed /\ CacheTimed /\ [Next]_vars
        => [\A r \in Readers :
              rpc[r] # "done" /\ rpc'[r] = "done" /\ res'[r] # Err
                => res'[r] = db \/ now <= Limit(res'[r])]_vars
  BY AnswerFresh
<1> QED
  BY <1>1, TypeCorrect, FlightsTimed, CacheBounded, PTL DEF Spec, ServedWithinLimit

(* An answer that was given stays what it is until the next request.        *)
LEMMA AnswerKept ==
  ASSUME TypeOK, [Next]_vars, NEW r \in Readers, rpc[r] = "done", rpc'[r] = "done"
  PROVE  res'[r] = res[r]
<1> USE DEF readerVars
<1>1. ASSUME NEW i \in Instances, FindErr(i) \/ Fill(i) \/ FillErr(i) PROVE res'[r] = res[r]
  BY <1>1 DEF FindErr, Fill, FillErr, Land, Waiting, TypeOK
<1>2. ASSUME NEW q \in Readers, GetHit(q) PROVE res'[r] = res[r]
  BY <1>2 DEF GetHit, TypeOK
<1>3. ASSUME NEW q \in Readers, Arrive(q) \/ Leave(q) \/ GetMiss(q) \/ Do(q) PROVE res' = res
  BY <1>3 DEF Arrive, Leave, GetMiss, Do
<1>4. ASSUME NEW i \in Instances, Find(i) \/ Crash(i) PROVE res' = res
  BY <1>4 DEF Find, Crash
<1>5. ASSUME Create \/ \E o \in Owners : SetStatus(o) \/ Delete(o) PROVE res' = res
  BY <1>5, RowChange
<1>6. ASSUME \/ \E o \in Owners : Invalidate(o) \/ NextRequest(o)
             \/ \E i \in Instances : \E t \in timers[i] : DeleteAgain(i, t)
             \/ Tick \/ UNCHANGED vars
      PROVE  res' = res
  BY <1>6 DEF Invalidate, NextRequest, DeleteAgain, Tick, vars
<1> QED
  BY <1>1, <1>2, <1>3, <1>4, <1>5, <1>6 DEF Next, ReaderStep, FlightStep

(* How the row and the time change.                                         *)
LEMMA RowSteps ==
  ASSUME [Next]_vars
  PROVE  \/ UNCHANGED <<now, db, kind, ended>>
         \/ (\E k \in Kinds : Commit(k)) /\ UNCHANGED <<now, readerVars>>
         \/ now' = now + 1 /\ UNCHANGED <<db, kind, ended, readerVars>>
<1>1. ASSUME Create \/ \E o \in Owners : SetStatus(o) \/ Delete(o)
      PROVE  /\ (\E k \in Kinds : Commit(k)) \/ UNCHANGED <<db, kind, ended>>
             /\ UNCHANGED <<now, readerVars>>
  BY <1>1, RowChange
<1>2. CASE Tick
  BY <1>2 DEF Tick, rowVars
<1>3. ASSUME NEW i \in Instances, FlightStep(i) \/ Crash(i) PROVE UNCHANGED <<now, db, kind, ended>>
  BY <1>3 DEF FlightStep, Find, FindErr, Fill, FillErr, Land, Crash, rowVars
<1>4. ASSUME NEW r \in Readers, Do(r) PROVE UNCHANGED <<now, db, kind, ended>>
  BY <1>4 DEF Do, rowVars
<1> QED
  BY <1>1, <1>2, <1>3, <1>4, QuietSteps DEF Next, ReaderStep

(* A reader's answer is a version that has been, or an error.               *)
GotKnown == \A r \in Readers : rpc[r] = "done" /\ res[r] # Err => res[r] <= db

LEMMA AlwaysKnown == Spec => []GotKnown
<1>1. Init => GotKnown
  BY DEF Init, GotKnown
<1>2. TypeOK /\ FlightTimed /\ CacheTimed /\ GotKnown /\ [Next]_vars => GotKnown'
  <2> SUFFICES ASSUME TypeOK, FlightTimed, CacheTimed, GotKnown, [Next]_vars,
                      NEW r \in Readers, rpc'[r] = "done", res'[r] # Err
               PROVE  res'[r] <= db'
    BY DEF GotKnown, Err
  <2>1. res'[r] \in Versions /\ res'[r] <= db
    BY AnswerFresh, AnswerKept DEF GotKnown, TypeOK
  <2>2. db' = db \/ db' = db + 1
    BY RowSteps DEF Commit
  <2> QED
    BY <2>1, <2>2, CacheAssumption DEF TypeOK, Versions
<1> QED
  BY <1>1, <1>2, TypeCorrect, FlightsTimed, CacheBounded, PTL DEF Spec

(* getLink, with a cache, a flight of each instance and every fault in      *)
(* between, does what LinkReader promises in one step.                      *)
THEOREM ImplementsReader == Spec => ReaderSpec
<1> USE CacheAssumption
<1>1. Init => Reader!LinkInit
  BY DEF Init, Reader!LinkInit, Got, Versions
<1>2. TypeOK /\ FlightTimed /\ CacheTimed /\ GotKnown /\ GotKnown' /\ [Next]_vars
        => [Reader!LinkNext]_(Reader!linkVars)
  <2> SUFFICES ASSUME TypeOK, FlightTimed, CacheTimed, GotKnown, GotKnown', [Next]_vars
               PROVE  [Reader!LinkNext]_(Reader!linkVars)
    OBVIOUS
  <2>0. now \in Nat /\ db \in Nat /\ Versions = 0..MaxVersion /\ db \in Versions
    BY DEF TypeOK, Versions
  <2>1. ASSUME NEW k \in Kinds, Commit(k), UNCHANGED <<now, readerVars>> PROVE Reader!LinkNext
    <3>1. Got' = Got
      BY <2>1 DEF Got, readerVars
    <3>2. /\ db' = db + 1 /\ ended' = [ended EXCEPT ![db] = now]
          /\ \A v \in 0..db : kind'[v] = kind[v]
      BY <2>0, <2>1, CommitFacts DEF Commit
    <3> QED
      BY <2>1, <3>1, <3>2 DEF Reader!LinkNext, Reader!Write
  <2>2. ASSUME now' = now + 1, UNCHANGED <<db, kind, ended, readerVars>> PROVE Reader!LinkNext
    <3>1. Got' = Got
      BY <2>2 DEF Got, readerVars
    <3> QED
      BY <2>2, <3>1 DEF Reader!LinkNext, Reader!Elapse
  <2>3. ASSUME UNCHANGED <<now, db, kind, ended>> PROVE Reader!LinkNext
    <3>1. ASSUME NEW r \in Readers PROVE Got'[r] \in 0..db \cup {Err, Unanswered}
      <4>1. Got'[r] = IF rpc'[r] = "done" THEN res'[r] ELSE Unanswered
        BY DEF Got, Unanswered
      <4>2. rpc'[r] = "done" /\ res'[r] # Err => res'[r] \in Versions /\ res'[r] <= db
        BY AnswerFresh, AnswerKept DEF GotKnown, TypeOK
      <4> QED
        BY <2>0, <4>1, <4>2
    <3>2. ASSUME NEW r \in Readers
          PROVE  \/ Got'[r] = Got[r]
                 \/ Got[r] = Unanswered /\ Got'[r] \in Reader!MayServe \cup {Err}
                 \/ Got'[r] = Unanswered
      <4>1. /\ Got'[r] = IF rpc'[r] = "done" THEN res'[r] ELSE Unanswered
            /\ Got[r] = IF rpc[r] = "done" THEN res[r] ELSE Unanswered
        BY DEF Got, Unanswered
      <4>2. CASE rpc[r] = "done"
        BY <4>1, <4>2, AnswerKept
      <4>3. CASE rpc[r] # "done" /\ rpc'[r] = "done" /\ res'[r] # Err
        <5>1. PICK v \in Versions : v = res'[r] /\ v <= db /\ (v = db \/ now <= Limit(v))
          BY <4>3, AnswerFresh
        <5>2. ended[v] \in Nat
          BY DEF TypeOK
        <5>3. v \in Reader!MayServe
          BY <2>0, <5>1, <5>2 DEF Reader!MayServe, Reader!Fresh, Reader!Age, Limit, TTLOf
        <5> QED
          BY <4>1, <4>3, <5>1, <5>3
      <4> QED
        BY <4>1, <4>2, <4>3
    <3>3. Got' \in [Readers -> 0..db \cup {Err, Unanswered}]
      <4>1. Got' = [r \in Readers |-> Got'[r]]
        BY DEF Got
      <4> QED
        BY <3>1, <4>1
    <3> QED
      BY <2>3, <3>2, <3>3 DEF Reader!LinkNext, Reader!Answer
  <2> QED
    BY <2>1, <2>2, <2>3, RowSteps
<1> QED
  BY <1>1, <1>2, TypeCorrect, FlightsTimed, CacheBounded, AlwaysKnown, PTL
     DEF Spec, ReaderSpec, Reader!LinkReaderSpec

(* resolve.go:64: with a database that answers, only the deadline of its    *)
(* flight fails a request, however many clients leave.                      *)
THEOREM NoOneSpills == ASSUME "dbErr" \notin Faults PROVE Spec => NoSpillover
<1>1. ASSUME TypeOK, [Next]_vars,
             NEW r \in Readers, rpc[r] = "wait", rpc'[r] = "done", res'[r] = Err
      PROVE  now >= flight[Home[r]].due
  <2>1. ~GetHit(r)
    BY <1>1 DEF GetHit
  <2>2. FindErr(Home[r]) \/ (flight[Home[r]].pc = "set" /\ res'[r] = flight[Home[r]].ver)
    BY <1>1, <2>1, AnswerSteps DEF Fill, FillErr
  <2>3. flight[Home[r]].ver # Err
    BY <1>1, CacheAssumption DEF TypeOK, Versions, Err
  <2> QED
    BY <1>1, <2>2, <2>3 DEF FindErr, CtxDone, May
<1>2. TypeOK /\ [Next]_vars
        => [\A r \in Readers :
              rpc[r] = "wait" /\ rpc'[r] = "done" /\ res'[r] = Err
                => now >= flight[Home[r]].due]_vars
  BY <1>1
<1> QED
  BY <1>2, TypeCorrect, PTL DEF Spec, NoSpillover

-----------------------------------------------------------------------------
(* When fills end before the second DEL, Redis works and no process dies.   *)
SlowDelete == /\ DbTimeout + CmdTime < SecondDelete
              /\ "redisErr" \notin Faults /\ "crash" \notin Faults

(* Version v has an invalidation to come: an owner who changed it has not   *)
(* sent the DEL, or a second DEL is due once its readers' flights are over. *)
SweepDue(v) ==
  \/ \E o \in Owners : opc[o] = "del" /\ over[o] > v
  \/ \E i \in Instances : \E t \in timers[i] : t >= ended[v] + SecondDelete

(* Until then it may be cached, after that it is not.                       *)
SweptUp(v) == now >= ended[v] + SecondDelete /\ ~(Cached /\ cache.ver = v)
Swept == /\ \A v \in Versions : v < db => ended[v] <= now
         /\ \A v \in Versions : 0 < v /\ v <= db => kind[v] # "none"
         /\ \A v \in Versions : 0 < v /\ Announced(v) => SweepDue(v) \/ SweptUp(v)

LEMMA StaysSwept == ASSUME SlowDelete PROVE Spec => []Swept
<1> USE CacheAssumption
<1>1. Init => Swept
  BY DEF Init, Swept, Versions, Announced
<1>2. TypeOK /\ FlightTimed /\ Swept /\ [Next]_vars => Swept'
  <2> SUFFICES ASSUME TypeOK, FlightTimed, Swept, [Next]_vars PROVE Swept'
    OBVIOUS
  <2>0. /\ now \in Nat /\ db \in Nat /\ DbTimeout \in Nat /\ CmdTime \in Nat /\ SecondDelete \in Nat
        /\ \A v \in Versions : v \in Nat /\ ended[v] \in Nat
        /\ \A i \in Instances : timers[i] \subseteq Nat
    BY DEF TypeOK, Versions
  <2>1. CASE Create
    <3>1. Commit("active") /\ kind[db] = "none" /\ UNCHANGED now
      BY <2>1 DEF Create
    <3>2. db = 0 /\ db' = 1 /\ kind'[1] = "active" /\ ended'[0] = now
      BY <2>0, <3>1, CommitFacts DEF Swept, TypeOK, Kinds
    <3> QED
      BY <2>0, <3>1, <3>2 DEF Swept, Announced
  <2>2a. ASSUME NEW k \in Kinds \ {"none"}, Commit(k), UNCHANGED <<now, cache, timers>>,
                \A q \in Owners : opc[q] = "del" => opc'[q] = "del" /\ over'[q] = over[q],
                \A v \in Versions : Announced(v)' => Announced(v) \/ SweepDue(v)'
         PROVE  Swept'
    <3>2. /\ db' = db + 1 /\ ended'[db] = now /\ kind'[db + 1] = k
          /\ \A v \in Versions : v # db => ended'[v] = ended[v]
          /\ \A v \in Versions : v <= db => kind'[v] = kind[v]
      BY <2>2a, CommitFacts
    <3>4. ASSUME NEW v \in Versions, 0 < v, Announced(v) PROVE SweepDue(v)' \/ SweptUp(v)'
      <4>1. ended'[v] = ended[v]
        BY <2>0, <3>2, <3>4 DEF Announced
      <4> QED
        BY <2>2a, <3>4, <4>1 DEF Swept, SweepDue, SweptUp, Cached
    <3>5. \A v \in Versions : v < db' => v < db \/ v = db
      BY <2>0, <3>2
    <3>6. \A v \in Versions : v < db' => ended'[v] <= now'
      BY <2>0, <2>2a, <3>2, <3>5 DEF Swept
    <3>7. \A v \in Versions : 0 < v /\ v <= db' => kind'[v] # "none"
      <4>1. \A v \in Versions : v <= db' => v <= db \/ v = db + 1
        BY <2>0, <3>2
      <4> QED
        BY <3>2, <4>1 DEF Swept
    <3> QED
      BY <2>2a, <3>4, <3>6, <3>7 DEF Swept
  <2>2. ASSUME NEW o \in Owners, NEW k \in Kinds \ {"none"}, Change(o, k) PROVE Swept'
    <3>1. /\ Commit(k) /\ opc[o] = "idle" /\ UNCHANGED <<now, cache, timers>>
          /\ over' = [over EXCEPT ![o] = db + 1] /\ opc' = [opc EXCEPT ![o] = "del"]
      BY <2>2 DEF Change
    <3>2. opc'[o] = "del" /\ over'[o] = db + 1 /\ db' = db + 1
      BY <3>1 DEF TypeOK, Commit
    <3>3. ASSUME NEW v \in Versions, Announced(v)' PROVE SweepDue(v)'
      <4>1. over'[o] > v
        BY <2>0, <3>2, <3>3 DEF Announced
      <4> QED
        BY <3>2, <4>1 DEF SweepDue
    <3>4. \A q \in Owners : opc[q] = "del" => opc'[q] = "del" /\ over'[q] = over[q]
      BY <3>1 DEF TypeOK
    <3> QED
      BY <2>2a, <3>1, <3>3, <3>4
  <2>2c. ASSUME NEW o \in Owners, NEW k \in Kinds \ {"none"}, ChangeFails(o, k), Commit(k),
                silent' = silent \cup {db + 1}
         PROVE  Swept'
    <3>1. /\ UNCHANGED <<now, cache, timers, over>> /\ opc[o] = "idle"
          /\ opc' = [opc EXCEPT ![o] = "done"] /\ db' = db + 1
      BY <2>2c DEF ChangeFails, Commit
    <3>2. \A q \in Owners : opc[q] = "del" => opc'[q] = "del" /\ over'[q] = over[q]
      BY <3>1 DEF TypeOK
    <3>3. ASSUME NEW v \in Versions, Announced(v)' PROVE Announced(v)
      BY <2>0, <2>2c, <3>1, <3>3 DEF Announced
    <3> QED
      BY <2>2c, <2>2a, <3>1, <3>2, <3>3
  <2>3. ASSUME UNCHANGED <<now, db, kind, ended, silent>>, cache' = Empty \/ UNCHANGED cache,
               \A v \in Versions : v < db /\ SweepDue(v) => SweepDue(v)' \/ SweptUp(v)'
        PROVE  Swept'
    BY <2>0, <2>3 DEF Swept, SweptUp, Cached, Empty, Announced
  <2>4. ASSUME NEW o \in Owners, Invalidate(o) PROVE Swept'
    <3>1. UNCHANGED <<now, db, kind, ended, silent>> /\ (cache' = Empty \/ UNCHANGED cache)
      BY <2>4, QuietSteps
    <3>2. /\ timers' = [timers EXCEPT ![Home[o]] = timers[Home[o]] \cup {now + SecondDelete}]
          /\ \A q \in Owners \ {o} : opc'[q] = opc[q]
          /\ UNCHANGED over
      BY <2>4 DEF Invalidate, Schedule, TypeOK
    <3>3. now + SecondDelete \in timers'[Home[o]] /\ Home[o] \in Instances
      BY <3>2 DEF TypeOK
    <3>4. \A i \in Instances : timers[i] \subseteq timers'[i]
      BY <3>2 DEF TypeOK
    <3>5. ASSUME NEW v \in Versions, v < db, SweepDue(v) PROVE SweepDue(v)'
      <4>1. v < db => now + SecondDelete >= ended[v] + SecondDelete
        BY <2>0 DEF Swept
      <4> QED
        BY <3>1, <3>2, <3>3, <3>4, <3>5, <4>1 DEF SweepDue
    <3>6. \A v \in Versions : v < db /\ SweepDue(v) => SweepDue(v)' \/ SweptUp(v)'
      BY <3>5
    <3> QED
      BY <2>0, <2>3, <3>1, <3>6
  <2>5. ASSUME NEW o \in Owners, NextRequest(o) PROVE Swept'
    <3>1. /\ UNCHANGED <<now, db, kind, ended, silent, cache, timers>>
          /\ opc[o] = "done" /\ \A q \in Owners \ {o} : opc'[q] = opc[q] /\ over'[q] = over[q]
      BY <2>5 DEF NextRequest, rowVars, TypeOK
    <3> QED
      BY <2>3, <3>1 DEF SweepDue
  <2>6. ASSUME NEW i \in Instances, NEW t \in timers[i], DeleteAgain(i, t) PROVE Swept'
    <3>1. UNCHANGED <<now, db, kind, ended, silent, opc, over>> /\ cache' = Empty /\ t <= now
      BY <2>6 DEF DeleteAgain, rowVars, ownerVars, Emptied, SlowDelete, May
    <3>2. ~Cached'
      BY <2>0, <3>1 DEF Cached, Empty
    <3>3. \A j \in Instances : \A s \in timers[j] : s \in timers'[j] \/ s = t
      BY <2>6 DEF DeleteAgain, TypeOK
    <3>4. ASSUME NEW v \in Versions, SweepDue(v) PROVE SweepDue(v)' \/ SweptUp(v)'
      <4>1. t >= ended[v] + SecondDelete => now >= ended[v] + SecondDelete
        BY <2>0, <3>1
      <4> QED
        BY <3>1, <3>2, <3>3, <3>4, <4>1 DEF SweepDue, SweptUp
    <3> QED
      BY <2>0, <2>3, <3>1, <3>4
  <2>7. ASSUME UNCHANGED <<now, db, kind, ended, silent, cache, timers, opc, over>> PROVE Swept'
    BY <2>3, <2>7 DEF SweepDue
  <2>8. ASSUME NEW r \in Readers, Arrive(r) \/ Leave(r) \/ GetHit(r) \/ GetMiss(r) \/ Do(r)
        PROVE  Swept'
    BY <2>7, <2>8 DEF Arrive, Leave, GetHit, GetMiss, Do, rowVars, ownerVars
  <2>9. ASSUME NEW i \in Instances, Find(i) \/ FindErr(i) \/ FillErr(i) PROVE Swept'
    BY <2>7, <2>9 DEF Find, FindErr, FillErr, Land, rowVars, ownerVars
  <2>10. ASSUME NEW i \in Instances, Fill(i) PROVE Swept'
    <3>1. UNCHANGED <<now, db, kind, ended, silent, timers, opc, over>>
      BY <2>10 DEF Fill, Land, rowVars, ownerVars
    <3>2. PICK u \in Versions : u = flight[i].ver
      BY DEF TypeOK
    <3>3. cache'.ver = u
      BY <2>10, <3>2 DEF Fill
    <3>4. /\ flight[i].due \in Nat /\ now <= flight[i].due + CmdTime
          /\ u < db => flight[i].due <= ended[u] + DbTimeout
      BY <2>10, <3>2 DEF Fill, FlightTimed, TypeOK
    <3>5. u < db => ~(now >= ended[u] + SecondDelete)
      BY <2>0, <3>4 DEF SlowDelete
    <3>6. ASSUME NEW v \in Versions, 0 < v, Announced(v) PROVE SweepDue(v)' \/ SweptUp(v)'
      <4>1. SweepDue(v) => SweepDue(v)'
        BY <3>1 DEF SweepDue
      <4>2. SweptUp(v) => v # u
        BY <2>0, <3>5, <3>6 DEF SweptUp, Announced
      <4> QED
        BY <3>1, <3>3, <3>6, <4>1, <4>2 DEF Swept, SweptUp
    <3> QED
      BY <3>1, <3>6 DEF Swept, Announced
  <2>11. ASSUME NEW i \in Instances, Crash(i) PROVE Swept'
    BY <2>11 DEF Crash, May, SlowDelete
  <2>12. CASE Tick
    <3>1. /\ now' = now + 1 /\ UNCHANGED <<db, kind, ended, silent, timers, opc, over>>
          /\ cache' = Empty \/ UNCHANGED cache
      BY <2>12 DEF Tick, rowVars, ownerVars
    <3>2. ASSUME NEW v \in Versions, SweptUp(v) PROVE SweptUp(v)'
      <4>1. cache.exp \in Nat
        BY DEF TypeOK
      <4> QED
        BY <2>0, <3>1, <3>2, <4>1 DEF SweptUp, Cached, Empty
    <3>3. \A v \in Versions : SweepDue(v) => SweepDue(v)'
      BY <3>1 DEF SweepDue
    <3> QED
      BY <2>0, <3>1, <3>2, <3>3 DEF Swept, Announced
  <2>13. CASE UNCHANGED vars
    BY <2>7, <2>13 DEF vars, rowVars, ownerVars
  <2>14. ASSUME NEW o \in Owners, NEW k \in Kinds \ {"none"}, ChangeFails(o, k) PROVE Swept'
    <3>1. CASE UNCHANGED rowVars
      <4>1. /\ UNCHANGED <<now, db, kind, ended, silent, cache, timers, over>> /\ opc[o] = "idle"
            /\ opc' = [opc EXCEPT ![o] = "done"]
        BY <2>14, <3>1 DEF ChangeFails, rowVars
      <4>2. \A q \in Owners : opc[q] = "del" => opc'[q] = "del" /\ over'[q] = over[q]
        BY <4>1 DEF TypeOK
      <4> QED
        BY <2>3, <4>1, <4>2 DEF SweepDue
    <3> QED
      BY <2>14, <2>2c, <3>1 DEF ChangeFails
  <2>15. ASSUME NEW o \in Owners, SetStatus(o) \/ Delete(o) PROVE Swept'
    BY <2>2, <2>14, <2>15 DEF SetStatus, Delete, ChangeTo, Kinds
  <2> QED
    BY <2>1, <2>4, <2>5, <2>6, <2>8, <2>9, <2>10, <2>11, <2>12, <2>13, <2>15
       DEF Next, ReaderStep, FlightStep
<1> QED
  BY <1>1, <1>2, TypeCorrect, FlightsTimed, PTL DEF Spec

(* link_cache.go:109: the delayed double delete does clean up after every   *)
(* concurrent reader of a change that went through, when its delay is       *)
(* longer than a flight and a command.                                      *)
THEOREM CleansUp == ASSUME SlowDelete PROVE Spec => []DoubleDeleteCleans
<1>1. TypeOK /\ Swept => DoubleDeleteCleans
  <2> SUFFICES ASSUME TypeOK, Swept, Cached, 0 < cache.ver, Announced(cache.ver)
               PROVE  \/ \E o \in Owners : opc[o] = "del"
                      \/ \E i \in Instances : timers[i] # {}
    BY DEF DoubleDeleteCleans
  <2>1. SweepDue(cache.ver)
    BY DEF Swept, SweptUp, TypeOK
  <2> QED
    BY <2>1 DEF SweepDue
<1> QED
  BY <1>1, TypeCorrect, StaysSwept, PTL

-----------------------------------------------------------------------------
(* Who waits, waits for a flight of its own instance that is under way and   *)
(* is over a command's time after its deadline at most: none lands, and no   *)
(* process dies, without those who joined it.                                *)
InFlight == \A r \in Readers :
              rpc[r] = "wait" => /\ flight[Home[r]].pc # "none"
                                 /\ now <= flight[Home[r]].due + CmdTime

(* resolve.go:65: who joins a flight waits dbTimeout at most, and those who  *)
(* come later do not put off its deadline.                                   *)
Joined(r) == rpc'[r] = "wait" => IF rpc[r] = "wait"
                                   THEN flight'[Home[r]].due = flight[Home[r]].due
                                   ELSE flight'[Home[r]].due <= now + DbTimeout
WaitFixed == [][\A r \in Readers : Joined(r)]_vars

LEMMA WaitSteps ==
  ASSUME TypeOK, FlightTimed, InFlight, [Next]_vars, NEW r \in Readers, rpc'[r] = "wait"
  PROVE  flight'[Home[r]].pc # "none" /\ Joined(r)
<1> USE CacheAssumption DEF TypeOK, readerVars, Joined
<1> DEFINE Same == rpc'[r] = rpc[r] /\ flight'[Home[r]] = flight[Home[r]]
<1>0. Home[r] \in Instances
  OBVIOUS
<1>1. CASE Same
  BY <1>1 DEF InFlight
<1>2. CASE Do(r)
  <2>1. CASE flight[Home[r]].pc = "none"
    <3>1. flight'[Home[r]] = [pc |-> "find", ver |-> 0, due |-> now + DbTimeout]
      BY <1>0, <1>2, <2>1 DEF Do
    <3> QED
      BY <1>2, <3>1 DEF Do
  <2>2. CASE flight[Home[r]].pc # "none"
    <3>1. flight' = flight /\ rpc[r] = "sf"
      BY <1>2, <2>2 DEF Do
    <3> QED
      BY <1>0, <2>2, <3>1 DEF FlightTimed
  <2> QED
    BY <2>1, <2>2
<1>3. ASSUME NEW q \in Readers \ {r}, Do(q)
      PROVE  rpc'[r] = rpc[r] /\ (Same \/ flight[Home[r]].pc = "none")
  BY <1>0, <1>3 DEF Do
<1>4. ASSUME NEW q \in Readers, Arrive(q) \/ Leave(q) \/ GetHit(q) \/ GetMiss(q) PROVE Same
  BY <1>4 DEF Arrive, Leave, GetHit, GetMiss
<1>5. ASSUME NEW i \in Instances, Find(i)
      PROVE  rpc'[r] = rpc[r] /\ flight'[Home[r]].pc # "none" /\ Joined(r)
  <2>1. rpc'[r] = rpc[r] /\ flight[i].pc = "find"
    BY <1>5 DEF Find
  <2>2. flight'[Home[r]].due = flight[Home[r]].due /\ (Home[r] = i => flight'[i].pc = "set")
    BY <1>0, <1>5 DEF Find
  <2>3. Home[r] # i => flight'[Home[r]] = flight[Home[r]]
    BY <1>0, <1>5 DEF Find
  <2> QED
    BY <2>1, <2>2, <2>3 DEF InFlight
<1>6. ASSUME NEW i \in Instances, FindErr(i) \/ Fill(i) \/ FillErr(i) \/ Crash(i) PROVE Same
  <2>1. Home[r] # i
    BY <1>6 DEF FindErr, Fill, FillErr, Crash, Land, Waiting
  <2> QED
    BY <1>0, <1>6, <2>1 DEF FindErr, Fill, FillErr, Crash, Land, Waiting
<1>7. ASSUME Create \/ \E o \in Owners : SetStatus(o) \/ Delete(o) PROVE Same
  BY <1>7, RowChange
<1>8. ASSUME \/ Tick \/ UNCHANGED vars
             \/ \E o \in Owners : Invalidate(o) \/ NextRequest(o)
             \/ \E i \in Instances : \E t \in timers[i] : DeleteAgain(i, t)
      PROVE  Same
  BY <1>8 DEF Tick, vars, Invalidate, NextRequest, DeleteAgain
<1> QED
  BY <1>1, <1>2, <1>3, <1>4, <1>5, <1>6, <1>7, <1>8 DEF Next, ReaderStep, FlightStep, InFlight

(* No request is left waiting for a flight that is gone.                     *)
THEOREM NoOrphan == Spec => []InFlight
<1>1. Init => InFlight
  BY DEF Init, InFlight
<1>2. TypeOK /\ FlightTimed /\ FlightTimed' /\ TypeOK' /\ InFlight /\ [Next]_vars => InFlight'
  <2> SUFFICES ASSUME TypeOK, FlightTimed, FlightTimed', TypeOK', InFlight, [Next]_vars,
                      NEW r \in Readers, rpc'[r] = "wait"
               PROVE  flight'[Home[r]].pc # "none" /\ now' <= flight'[Home[r]].due + CmdTime
    BY DEF InFlight
  <2>1. /\ Home[r] \in Instances /\ CmdTime \in Nat /\ now' \in Nat /\ flight'[Home[r]].due \in Nat
        /\ flight'[Home[r]].pc \in {"none", "find", "set"}
    BY CacheAssumption DEF TypeOK
  <2>2. flight'[Home[r]].pc # "none"
    BY WaitSteps
  <2> QED
    BY <2>1, <2>2 DEF FlightTimed
<1> QED
  BY <1>1, <1>2, TypeCorrect, FlightsTimed, PTL DEF Spec

(* No request waits longer than dbTimeout and a command's time.              *)
THEOREM WaitBounded == Spec => WaitFixed
<1>1. TypeOK /\ FlightTimed /\ InFlight /\ [Next]_vars => [\A r \in Readers : Joined(r)]_vars
  <2> SUFFICES ASSUME TypeOK, FlightTimed, InFlight, [Next]_vars, NEW r \in Readers PROVE Joined(r)
    OBVIOUS
  <2> QED
    BY WaitSteps DEF Joined
<1> QED
  BY <1>1, TypeCorrect, FlightsTimed, NoOrphan, PTL DEF Spec, WaitFixed
=============================================================================
