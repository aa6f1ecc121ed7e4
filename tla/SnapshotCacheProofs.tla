------------------------- MODULE SnapshotCacheProofs -------------------------
(***************************************************************************)
(* Proofs about SnapshotCache, for every number of instances, readers and  *)
(* requests of the author, every TTL and deadline, and every set of faults.*)
(***************************************************************************)
EXTENDS SnapshotCache, TLAPS

(* Every variable has its type.                                            *)
THEOREM TypeCorrect == Spec => []TypeOK
<1> USE SnapshotAssumption
<1>1. Init => TypeOK
  <2> SUFFICES ASSUME Init PROVE TypeOK
    OBVIOUS
  <2>1. /\ rpc \in [Readers -> {"idle"}] /\ res \in [Readers -> {"none"}]
        /\ opc \in [Owners -> {"idle"}] /\ told \in [Owners -> {"none"}]
    BY DEF Init
  <2>2. flight \in [Instances -> [pc : {"none", "find", "set"}, due : Nat]]
    BY DEF Init, NoFlight
  <2>3. 0 \in Nat
    OBVIOUS
  <2> QED
    BY <2>1, <2>2, <2>3 DEF Init, TypeOK
<1>2. TypeOK /\ [Next]_vars => TypeOK'
  <2> SUFFICES ASSUME TypeOK, [Next]_vars PROVE TypeOK'
    OBVIOUS
  <2> USE DEF TypeOK, rowVars, readerVars, ownerVars
  <2>1. ASSUME NEW o \in Owners, OwnerStep(o) PROVE TypeOK'
    <3>1. UNCHANGED <<now, locked, flight, readerVars, late>>
      BY <2>1 DEF OwnerStep, SoftDelete, NotDeleted, Invalidate, TryAgain
    <3>2. /\ opc' \in [Owners -> {"idle", "del", "done"}]
          /\ told' \in [Owners -> {"none", "deleted", "notFound", "err"}]
      BY <2>1 DEF OwnerStep, SoftDelete, NotDeleted, Invalidate, TryAgain, Reply
    <3>3. deleted' \in BOOLEAN /\ hiddenAt' \in Nat
      BY <2>1 DEF OwnerStep, SoftDelete, NotDeleted, Invalidate, TryAgain, Hide
    <3>4. cache' \in Nat /\ clean' \in BOOLEAN
      <4>1. CASE Del
        BY <4>1 DEF Del, Filling
      <4>2. CASE UNCHANGED <<cache, clean>>
        BY <4>2
      <4> QED
        BY <2>1, <4>1, <4>2 DEF OwnerStep, SoftDelete, NotDeleted, Invalidate, TryAgain
    <3> QED
      BY <3>1, <3>2, <3>3, <3>4
  <2>2. CASE LockAccount
    BY <2>2 DEF LockAccount, Hide
  <2>3. ASSUME NEW r \in Readers, Arrive(r) \/ GetHit(r) \/ GetMiss(r) PROVE TypeOK'
    BY <2>3 DEF Arrive, GetHit, GetMiss
  <2>4. ASSUME NEW r \in Readers, Do(r) PROVE TypeOK'
    <3>1. now + SnapshotTimeout \in Nat /\ Home[r] \in Instances
      OBVIOUS
    <3> QED
      BY <2>4, <3>1 DEF Do
  <2>5. ASSUME NEW i \in Instances, Find(i) PROVE TypeOK'
    BY <2>5 DEF Find
  <2>6. ASSUME NEW i \in Instances, NEW x \in {"page", "gone", "err"}, Land(i, x), cache' \in Nat
        PROVE  TypeOK'
    BY <2>6 DEF Land, NoFlight
  <2>7. ASSUME NEW i \in Instances, FindNone(i) \/ FindErr(i) \/ Fill(i) \/ FillErr(i)
        PROVE  TypeOK'
    <3>1. cache' \in Nat
      BY <2>7 DEF FindNone, FindErr, Fill, FillErr, Expiry
    <3> QED
      BY <2>6, <2>7, <3>1 DEF FindNone, FindErr, Fill, FillErr
  <2>8. ASSUME NEW i \in Instances, Crash(i) PROVE TypeOK'
    BY <2>8 DEF Crash, NoFlight
  <2>9. CASE Tick
    BY <2>9 DEF Tick
  <2>10. CASE UNCHANGED vars
    BY <2>10 DEF vars
  <2> QED
    BY <2>1, <2>2, <2>3, <2>4, <2>5, <2>7, <2>8, <2>9, <2>10 DEF Next, ReaderStep, FlightStep
<1> QED
  BY <1>1, <1>2, PTL DEF Spec

-----------------------------------------------------------------------------
(* A flight about to fill has read a visible row: the submission was hidden  *)
(* no earlier than SnapshotTimeout before its deadline.                      *)
FlightTimed ==
  /\ ~Visible => hiddenAt <= now
  /\ \A i \in Instances :
       LET f == flight[i] IN
       /\ f.pc # "none" => f.due <= now + SnapshotTimeout
       /\ f.pc = "find" => now <= f.due
       /\ f.pc = "set" => /\ now <= f.due + CmdTime
                          /\ ~Visible => f.due <= hiddenAt + SnapshotTimeout

(* What is cached was put there within its flight's time.                    *)
CacheTimed == Cached => /\ cache <= now + SnapshotTTL
                        /\ ~Visible => cache <= Limit

TimeInv == FlightTimed /\ CacheTimed

(* What the steps of the author and of readers leave alone.                  *)
LEMMA OwnerSteps ==
  ASSUME NEW o \in Owners, OwnerStep(o)
  PROVE  /\ UNCHANGED <<now, locked, flight, rpc, res, late>>
         /\ cache' = 0 \/ UNCHANGED cache
         /\ \/ UNCHANGED <<deleted, hiddenAt>>
            \/ ~deleted /\ deleted' = TRUE /\ Hide
BY DEF OwnerStep, SoftDelete, NotDeleted, Invalidate, TryAgain, Del, rowVars, readerVars

LEMMA StaysTimed == Spec => []TimeInv
<1> USE SnapshotAssumption
<1>1. Init => TimeInv
  BY DEF Init, TimeInv, FlightTimed, CacheTimed, Cached, NoFlight, Visible
<1>2. TypeOK /\ TimeInv /\ [Next]_vars => TimeInv'
  <2> SUFFICES ASSUME TypeOK, TimeInv, [Next]_vars PROVE TimeInv'
    OBVIOUS
  <2> USE DEF TimeInv, FlightTimed, CacheTimed, Cached, Visible, Limit
  <2>0. /\ now \in Nat /\ hiddenAt \in Nat /\ cache \in Nat
        /\ deleted \in BOOLEAN /\ locked \in BOOLEAN
        /\ \A i \in Instances : flight[i] \in [pc : {"none", "find", "set"}, due : Nat]
        /\ SnapshotTTL \in Nat /\ SnapshotTimeout \in Nat /\ CmdTime \in Nat
    BY DEF TypeOK
  <2>1. ASSUME UNCHANGED <<now, flight>>, cache' = 0 \/ UNCHANGED cache,
               \/ UNCHANGED rowVars
               \/ ~Visible' /\ Hide
        PROVE  TimeInv'
    <3>1. CASE UNCHANGED rowVars
      BY <2>0, <2>1, <3>1 DEF rowVars
    <3>2. CASE ~Visible' /\ Hide /\ Visible
      BY <2>0, <2>1, <3>2 DEF Hide
    <3>3. CASE ~Visible' /\ Hide /\ ~Visible
      BY <2>0, <2>1, <3>3 DEF Hide
    <3> QED
      BY <2>1, <3>1, <3>2, <3>3
  <2>2. ASSUME NEW o \in Owners, OwnerStep(o) PROVE TimeInv'
    BY <2>1, <2>2, OwnerSteps DEF rowVars
  <2>3. CASE LockAccount
    BY <2>1, <2>3 DEF LockAccount, rowVars
  <2>4. ASSUME NEW r \in Readers, Arrive(r) \/ GetHit(r) \/ GetMiss(r) PROVE TimeInv'
    BY <2>1, <2>4 DEF Arrive, GetHit, GetMiss
  <2>5. ASSUME NEW r \in Readers, Do(r) PROVE TimeInv'
    <3>1. UNCHANGED <<now, deleted, locked, hiddenAt, cache>>
      BY <2>5 DEF Do, rowVars
    <3>2. ASSUME NEW i \in Instances
          PROVE  \/ flight'[i] = flight[i]
                 \/ flight'[i] = [pc |-> "find", due |-> now + SnapshotTimeout]
      BY <2>5 DEF Do, TypeOK
    <3> QED
      BY <2>0, <3>1, <3>2
  <2>6. ASSUME NEW i \in Instances, Find(i) PROVE TimeInv'
    <3>1. /\ UNCHANGED <<now, deleted, locked, hiddenAt, cache>>
          /\ flight[i].pc = "find" /\ Visible
      BY <2>6 DEF Find, rowVars, Selected
    <3>2. /\ flight'[i] = [flight[i] EXCEPT !.pc = "set"]
          /\ \A j \in Instances \ {i} : flight'[j] = flight[j]
      BY <2>6 DEF Find, TypeOK
    <3>3. flight'[i].pc = "set" /\ flight'[i].due = flight[i].due
      BY <2>0, <3>2
    <3> QED
      BY <2>0, <3>1, <3>2, <3>3
  <2>7. ASSUME NEW i \in Instances, FindNone(i) \/ FindErr(i) \/ FillErr(i) \/ Crash(i)
        PROVE  TimeInv'
    <3>1. UNCHANGED <<now, deleted, locked, hiddenAt, cache>>
      BY <2>7 DEF FindNone, FindErr, FillErr, Crash, Land, rowVars
    <3>2. \A j \in Instances : flight'[j] = flight[j] \/ flight'[j] = NoFlight
      BY <2>7 DEF FindNone, FindErr, FillErr, Crash, Land, TypeOK
    <3> QED
      BY <2>0, <3>1, <3>2 DEF NoFlight
  <2>8. ASSUME NEW i \in Instances, Fill(i) PROVE TimeInv'
    <3>1. UNCHANGED <<now, deleted, locked, hiddenAt>> /\ cache' = now + SnapshotTTL
      BY <2>8 DEF Fill, Land, rowVars, Expiry
    <3>2. \A j \in Instances : flight'[j] = flight[j] \/ flight'[j] = NoFlight
      BY <2>8 DEF Fill, Land, TypeOK
    <3>3. ~Visible => cache' <= Limit
      BY <2>0, <2>8, <3>1 DEF Fill
    <3> QED
      BY <2>0, <3>1, <3>2, <3>3 DEF NoFlight
  <2>9. CASE Tick
    <3>1. now' = now + 1 /\ UNCHANGED <<deleted, locked, hiddenAt, cache, flight>>
      BY <2>9 DEF Tick, rowVars
    <3>2. ASSUME NEW i \in Instances
          PROVE  /\ flight[i].pc = "find" => now < flight[i].due
                 /\ flight[i].pc = "set" => now < flight[i].due + CmdTime
      BY <2>0, <2>9 DEF Tick, Overtime
    <3> QED
      BY <2>0, <3>1, <3>2
  <2>10. CASE UNCHANGED vars
    BY <2>1, <2>10 DEF vars
  <2> QED
    BY <2>2, <2>3, <2>4, <2>5, <2>6, <2>7, <2>8, <2>9, <2>10 DEF Next, ReaderStep, FlightStep
<1> QED
  BY <1>1, <1>2, TypeCorrect, PTL DEF Spec

(* Whatever fails, a hidden submission is out of the cache one flight and   *)
(* one TTL later.                                                           *)
THEOREM Bounded == Spec => []SnapshotBound
<1>1. TimeInv => SnapshotBound
  BY DEF TimeInv, CacheTimed, SnapshotBound
<1> QED
  BY <1>1, StaysTimed, PTL

-----------------------------------------------------------------------------
(* How a reader comes to see the page: from the cache, or from a flight     *)
(* that has read the row.                                                   *)
LEMMA PageSteps ==
  ASSUME TypeOK, [Next]_vars, NEW r \in Readers, res[r] # "page", res'[r] = "page"
  PROVE  Cached \/ \E i \in Instances : flight[i].pc = "set"
<1> USE DEF TypeOK, readerVars
<1>1. ASSUME NEW q \in Readers, GetHit(q) PROVE Cached
  BY <1>1 DEF GetHit
<1>2. ASSUME NEW i \in Instances, FindNone(i) \/ FindErr(i) \/ Crash(i) PROVE FALSE
  BY <1>2 DEF FindNone, FindErr, Crash, Land
<1>3. ASSUME NEW i \in Instances, Fill(i) \/ FillErr(i) PROVE flight[i].pc = "set"
  BY <1>3 DEF Fill, FillErr
<1>4. ASSUME UNCHANGED res PROVE FALSE
  BY <1>4
<1>5. ASSUME NEW o \in Owners, OwnerStep(o) PROVE FALSE
  BY <1>5, <1>4, OwnerSteps
<1>6. ASSUME \/ LockAccount \/ Tick \/ UNCHANGED vars
             \/ \E q \in Readers : Arrive(q) \/ GetMiss(q) \/ Do(q)
             \/ \E i \in Instances : Find(i)
      PROVE  FALSE
  BY <1>4, <1>6 DEF LockAccount, Tick, vars, Arrive, GetMiss, Do, Find
<1> QED
  BY <1>1, <1>2, <1>3, <1>5, <1>6 DEF Next, ReaderStep, FlightStep

(* Who is shown the page is shown it within its limit.                      *)
LEMMA ShownFresh ==
  ASSUME TypeOK, TimeInv, [Next]_vars, NEW r \in Readers, res[r] # "page", res'[r] = "page"
  PROVE  Visible \/ now <= Limit
<1> USE SnapshotAssumption DEF TimeInv, FlightTimed, CacheTimed, Limit
<1>0. now \in Nat /\ hiddenAt \in Nat /\ cache \in Nat
  BY DEF TypeOK
<1>1. CASE Cached
  BY <1>0, <1>1 DEF Cached
<1>2. ASSUME NEW i \in Instances, flight[i].pc = "set" PROVE Visible \/ now <= Limit
  <2>1. flight[i].due \in Nat
    BY DEF TypeOK
  <2> QED
    BY <1>0, <1>2, <2>1
<1> QED
  BY <1>1, <1>2, PageSteps

(* No one is shown a submission hidden longer ago than that.                *)
THEOREM Shown == Spec => ShownWithinLimit
<1>1. TypeOK /\ TimeInv /\ [Next]_vars
        => [\A r \in Readers : res[r] # "page" /\ res'[r] = "page" => Visible \/ now <= Limit]_vars
  BY ShownFresh
<1> QED
  BY <1>1, TypeCorrect, StaysTimed, PTL DEF Spec, ShownWithinLimit

(* How the submission and the time change, and what readers are told then.  *)
LEMMA ContentSteps ==
  ASSUME TypeOK, [Next]_vars
  PROVE  \/ UNCHANGED <<now, deleted, locked, hiddenAt>>
         \/ now' = now + 1 /\ UNCHANGED <<deleted, locked, hiddenAt, res>>
         \/ Hide /\ ~Visible' /\ UNCHANGED <<now, res>>
<1> USE DEF rowVars, readerVars
<1>1. ASSUME NEW o \in Owners, OwnerStep(o)
      PROVE  \/ UNCHANGED <<now, deleted, locked, hiddenAt>>
             \/ Hide /\ ~Visible' /\ UNCHANGED <<now, res>>
  BY <1>1, OwnerSteps DEF Visible
<1>2. CASE LockAccount
  BY <1>2 DEF LockAccount, Visible
<1>3. CASE Tick
  BY <1>3 DEF Tick
<1>4. ASSUME NEW r \in Readers, ReaderStep(r) PROVE UNCHANGED <<now, deleted, locked, hiddenAt>>
  BY <1>4 DEF ReaderStep, Arrive, GetHit, GetMiss, Do
<1>5. ASSUME NEW i \in Instances, FlightStep(i) \/ Crash(i)
      PROVE  UNCHANGED <<now, deleted, locked, hiddenAt>>
  BY <1>5 DEF FlightStep, Find, FindNone, FindErr, Fill, FillErr, Crash, Land
<1>6. UNCHANGED vars => UNCHANGED <<now, deleted, locked, hiddenAt>>
  BY DEF vars
<1> QED
  BY <1>1, <1>2, <1>3, <1>4, <1>5, <1>6 DEF Next

LEMMA GoneSteps ==
  ASSUME TypeOK, [Next]_vars, NEW r \in Readers, res'[r] # res[r]
  PROVE  res'[r] \in {"page", "err"} \/ (res'[r] = "gone" /\ ~Visible)
<1> USE DEF TypeOK, readerVars
<1>1. ASSUME NEW q \in Readers, ReaderStep(q) PROVE res'[r] = "page"
  BY <1>1 DEF ReaderStep, Arrive, GetHit, GetMiss, Do
<1>2. ASSUME NEW i \in Instances, FlightStep(i) \/ Crash(i)
      PROVE  res'[r] \in {"page", "err"} \/ (res'[r] = "gone" /\ ~Visible)
  BY <1>2 DEF FlightStep, Find, FindNone, FindErr, Fill, FillErr, Crash, Land, Selected
<1>3. ASSUME NEW o \in Owners, OwnerStep(o) PROVE FALSE
  BY <1>3, OwnerSteps
<1>4. ASSUME LockAccount \/ Tick \/ UNCHANGED vars PROVE FALSE
  BY <1>4 DEF LockAccount, Tick, vars
<1> QED
  BY <1>1, <1>2, <1>3, <1>4 DEF Next

(* Snapshot, with a cache, a flight of each instance and every fault in     *)
(* between, does what PageContent promises in one step.                     *)
THEOREM ImplementsContent == Spec => ContentSpec
<1> USE SnapshotAssumption
<1>1. Init => Content!ContentInit
  BY DEF Init, Content!ContentInit, Visible
<1>2. TypeOK /\ TypeOK' /\ TimeInv /\ [Next]_vars => [Content!ContentNext]_(Content!contentVars)
  <2> SUFFICES ASSUME TypeOK, TypeOK', TimeInv, [Next]_vars
               PROVE  [Content!ContentNext]_(Content!contentVars)
    OBVIOUS
  <2>1. CASE UNCHANGED <<now, deleted, locked, hiddenAt>>
    <3>1. (~Visible)' = ~Visible
      BY <2>1 DEF Visible
    <3>2. res' \in [Readers -> {"none", "page", "gone", "err"}]
      BY DEF TypeOK
    <3>3. ASSUME NEW r \in Readers, res'[r] # res[r] PROVE res'[r] \in Content!Answers
      <4>1. CASE res'[r] = "page"
        <5>1. Visible \/ now <= Limit
          BY <3>3, <4>1, ShownFresh
        <5> QED
          BY <4>1, <5>1 DEF Content!Answers, Content!MayShow, Limit, TypeOK
      <4>2. CASE res'[r] = "gone" /\ ~Visible
        BY <4>2 DEF Content!Answers
      <4>3. CASE res'[r] = "err"
        BY <4>3 DEF Content!Answers
      <4> QED
        BY <3>3, <4>1, <4>2, <4>3, GoneSteps
    <3> QED
      BY <2>1, <3>1, <3>2, <3>3 DEF Content!ContentNext, Content!Show
  <2>2. CASE now' = now + 1 /\ UNCHANGED <<deleted, locked, hiddenAt, res>>
    BY <2>2 DEF Content!ContentNext, Content!Elapse, Visible
  <2>3. CASE Hide /\ ~Visible' /\ UNCHANGED <<now, res>>
    <3>1. CASE Visible
      BY <2>3, <3>1 DEF Content!ContentNext, Content!Hide, Hide
    <3>2. CASE ~Visible
      BY <2>3, <3>2 DEF Content!contentVars, Hide
    <3> QED
      BY <3>1, <3>2
  <2> QED
    BY <2>1, <2>2, <2>3, ContentSteps
<1> QED
  BY <1>1, <1>2, TypeCorrect, StaysTimed, PTL DEF Spec, ContentSpec, Content!ContentSpec

-----------------------------------------------------------------------------
(* A DEL only follows a deletion, and a flight that starts after it does    *)
(* not find the row: so a clean cache stays empty.                          *)
CleanInv == /\ \A o \in Owners : opc[o] = "del" => deleted
            /\ clean => deleted /\ cache = 0 /\ ~Filling

LEMMA StaysClean == Spec => []CleanInv
<1> USE SnapshotAssumption
<1>1. Init => CleanInv
  BY DEF Init, CleanInv
<1>2. TypeOK /\ CleanInv /\ [Next]_vars => CleanInv'
  <2> SUFFICES ASSUME TypeOK, CleanInv, [Next]_vars PROVE CleanInv'
    OBVIOUS
  <2> USE DEF CleanInv, Filling
  <2>1. ASSUME NEW o \in Owners, SoftDelete(o) \/ NotDeleted(o) \/ TryAgain(o) PROVE CleanInv'
    <3>1. UNCHANGED <<cache, clean, flight>> /\ (deleted => deleted')
      BY <2>1 DEF SoftDelete, NotDeleted, TryAgain, rowVars
    <3>2. \A p \in Owners : opc'[p] = "del" => opc[p] = "del" \/ deleted'
      BY <2>1 DEF SoftDelete, NotDeleted, TryAgain, Reply, TypeOK
    <3> QED
      BY <3>1, <3>2
  <2>2. ASSUME NEW o \in Owners, Invalidate(o) PROVE CleanInv'
    <3>1. deleted /\ UNCHANGED <<deleted, flight>>
      BY <2>2 DEF Invalidate, rowVars
    <3>2. \A p \in Owners : opc'[p] = "del" => opc[p] = "del"
      BY <2>2 DEF Invalidate, Reply, TypeOK
    <3>3. Del \/ UNCHANGED <<cache, clean>>
      BY <2>2 DEF Invalidate
    <3>4. clean' => cache' = 0 /\ ~Filling
      <4>1. CASE Del
        <5>1. cache' = 0 /\ (clean' => clean \/ ~Filling)
          BY <4>1, ZenonT(20) DEF Del
        <5> QED
          BY <5>1
      <4>2. CASE UNCHANGED <<cache, clean>>
        BY <4>2
      <4> QED
        BY <3>3, <4>1, <4>2
    <3>5. Filling' <=> Filling
      BY <3>1
    <3> QED
      BY <3>1, <3>2, <3>4, <3>5
  <2>3. CASE LockAccount \/ Tick \/ UNCHANGED vars
    BY <2>3 DEF LockAccount, Tick, vars, rowVars, ownerVars
  <2>4. ASSUME NEW r \in Readers, Arrive(r) \/ GetHit(r) \/ GetMiss(r) PROVE CleanInv'
    BY <2>4 DEF Arrive, GetHit, GetMiss, rowVars, ownerVars
  <2>5. ASSUME NEW r \in Readers, Do(r) PROVE CleanInv'
    <3>1. UNCHANGED <<deleted, cache, clean, opc>>
      BY <2>5 DEF Do, rowVars, ownerVars
    <3>2. \A i \in Instances : flight'[i].pc = "set" => flight[i].pc = "set"
      BY <2>5 DEF Do, TypeOK
    <3> QED
      BY <3>1, <3>2
  <2>6. ASSUME NEW i \in Instances, Find(i) PROVE CleanInv'
    <3>1. ~deleted /\ UNCHANGED <<deleted, clean, opc>>
      BY <2>6 DEF Find, Selected, Visible, rowVars, ownerVars
    <3> QED
      BY <3>1
  <2>7. ASSUME NEW i \in Instances, FindNone(i) \/ FindErr(i) \/ FillErr(i) \/ Crash(i)
        PROVE  CleanInv'
    <3>1. UNCHANGED <<deleted, cache, clean>> /\ \A o \in Owners : opc'[o] = "del" => opc[o] = "del"
      BY <2>7 DEF FindNone, FindErr, FillErr, Crash, Land, rowVars, ownerVars, TypeOK
    <3>2. \A j \in Instances : flight'[j] = flight[j] \/ flight'[j] = NoFlight
      BY <2>7 DEF FindNone, FindErr, FillErr, Crash, Land, TypeOK
    <3> QED
      BY <3>1, <3>2 DEF NoFlight
  <2>8. ASSUME NEW i \in Instances, Fill(i) PROVE CleanInv'
    BY <2>8 DEF Fill, Land, rowVars, ownerVars
  <2> QED
    BY <2>1, <2>2, <2>3, <2>4, <2>5, <2>6, <2>7, <2>8 DEF Next, OwnerStep, ReaderStep, FlightStep
<1> QED
  BY <1>1, <1>2, TypeCorrect, PTL DEF Spec

(* service.go:28, "gone at once", holds from the first DEL on that ran with *)
(* no fill under way.                                                       *)
THEOREM CleanIsGone == Spec => GoneWhenClean
<1>1. ASSUME TypeOK, CleanInv, [Next]_vars, NEW r \in Readers, clean, res[r] # "page"
      PROVE  res'[r] # "page"
  <2>1. ~Cached
    BY <1>1 DEF CleanInv, Cached, TypeOK
  <2> QED
    BY <1>1, <2>1, PageSteps DEF CleanInv, Filling
<1>2. TypeOK /\ CleanInv /\ [Next]_vars
        => [\A r \in Readers : clean /\ res[r] # "page" => res'[r] # "page"]_vars
  BY <1>1
<1> QED
  BY <1>2, TypeCorrect, StaysClean, PTL DEF Spec, GoneWhenClean

-----------------------------------------------------------------------------
(* Who waits, waits for a flight of its own instance that is under way and   *)
(* is over a command's time after its deadline at most: none lands, and no   *)
(* process dies, without those who joined it.                                *)
InFlight == \A r \in Readers :
              rpc[r] = "wait" => /\ flight[Home[r]].pc # "none"
                                 /\ now <= flight[Home[r]].due + CmdTime

(* content_cache.go:74: who joins a flight waits snapshotTimeout at most,    *)
(* and those who come later do not put off its deadline.                     *)
Joined(r) == rpc'[r] = "wait" => IF rpc[r] = "wait"
                                   THEN flight'[Home[r]].due = flight[Home[r]].due
                                   ELSE flight'[Home[r]].due <= now + SnapshotTimeout
WaitFixed == [][\A r \in Readers : Joined(r)]_vars

LEMMA WaitSteps ==
  ASSUME TypeOK, FlightTimed, InFlight, [Next]_vars, NEW r \in Readers, rpc'[r] = "wait"
  PROVE  flight'[Home[r]].pc # "none" /\ Joined(r)
<1> USE SnapshotAssumption DEF TypeOK, readerVars, Joined
<1> DEFINE Same == rpc'[r] = rpc[r] /\ flight'[Home[r]] = flight[Home[r]]
<1>0. Home[r] \in Instances
  OBVIOUS
<1>1. CASE Same
  BY <1>1 DEF InFlight
<1>2. CASE Do(r)
  <2>1. CASE flight[Home[r]].pc = "none"
    <3>1. flight'[Home[r]] = [pc |-> "find", due |-> now + SnapshotTimeout]
      BY <1>0, <1>2, <2>1 DEF Do
    <3> QED
      BY <1>2, <3>1 DEF Do
  <2>2. CASE flight[Home[r]].pc # "none"
    <3>1. flight' = flight /\ rpc[r] = "sf"
      BY <1>2, <2>2 DEF Do
    <3> QED
      BY <1>0, <2>2, <3>1 DEF FlightTimed
  <2> QED
    BY <2>1, <2>2
<1>3. ASSUME NEW q \in Readers \ {r}, Do(q)
      PROVE  rpc'[r] = rpc[r] /\ (Same \/ flight[Home[r]].pc = "none")
  BY <1>0, <1>3 DEF Do
<1>4. ASSUME NEW q \in Readers, Arrive(q) \/ GetHit(q) \/ GetMiss(q) PROVE Same
  BY <1>4 DEF Arrive, GetHit, GetMiss
<1>5. ASSUME NEW i \in Instances, Find(i)
      PROVE  rpc'[r] = rpc[r] /\ flight'[Home[r]].pc # "none" /\ Joined(r)
  <2>1. rpc'[r] = rpc[r] /\ flight[i].pc = "find"
    BY <1>5 DEF Find
  <2>2. flight'[Home[r]].due = flight[Home[r]].due /\ (Home[r] = i => flight'[i].pc = "set")
    BY <1>0, <1>5 DEF Find
  <2>3. Home[r] # i => flight'[Home[r]] = flight[Home[r]]
    BY <1>0, <1>5 DEF Find
  <2> QED
    BY <2>1, <2>2, <2>3 DEF InFlight
<1>6. ASSUME NEW i \in Instances, FindNone(i) \/ FindErr(i) \/ Fill(i) \/ FillErr(i) \/ Crash(i)
      PROVE  Same
  <2>1. Home[r] # i
    BY <1>6 DEF FindNone, FindErr, Fill, FillErr, Crash, Land, Waiting
  <2> QED
    BY <1>0, <1>6, <2>1 DEF FindNone, FindErr, Fill, FillErr, Crash, Land, Waiting
<1>7. ASSUME NEW o \in Owners, OwnerStep(o) PROVE Same
  BY <1>7, OwnerSteps
<1>8. ASSUME LockAccount \/ Tick \/ UNCHANGED vars PROVE Same
  BY <1>8 DEF LockAccount, Tick, vars
<1> QED
  BY <1>1, <1>2, <1>3, <1>4, <1>5, <1>6, <1>7, <1>8 DEF Next, ReaderStep, FlightStep, InFlight

(* No request is left waiting for a flight that is gone.                     *)
THEOREM NoOrphan == Spec => []InFlight
<1>1. Init => InFlight
  BY DEF Init, InFlight
<1>2. TypeOK /\ TypeOK' /\ TimeInv /\ TimeInv' /\ InFlight /\ [Next]_vars => InFlight'
  <2> SUFFICES ASSUME TypeOK, TypeOK', FlightTimed, FlightTimed', InFlight, [Next]_vars,
                      NEW r \in Readers, rpc'[r] = "wait"
               PROVE  flight'[Home[r]].pc # "none" /\ now' <= flight'[Home[r]].due + CmdTime
    BY DEF InFlight, TimeInv
  <2>1. /\ Home[r] \in Instances /\ CmdTime \in Nat /\ now' \in Nat /\ flight'[Home[r]].due \in Nat
        /\ flight'[Home[r]].pc \in {"none", "find", "set"}
    BY SnapshotAssumption DEF TypeOK
  <2>2. flight'[Home[r]].pc # "none"
    BY WaitSteps
  <2> QED
    BY <2>1, <2>2 DEF FlightTimed
<1> QED
  BY <1>1, <1>2, TypeCorrect, StaysTimed, PTL DEF Spec

(* No request waits longer than snapshotTimeout and a command's time.        *)
THEOREM WaitBounded == Spec => WaitFixed
<1>1. TypeOK /\ TimeInv /\ InFlight /\ [Next]_vars => [\A r \in Readers : Joined(r)]_vars
  <2> SUFFICES ASSUME TypeOK, FlightTimed, InFlight, [Next]_vars, NEW r \in Readers PROVE Joined(r)
    BY DEF TimeInv
  <2> QED
    BY WaitSteps DEF Joined
<1> QED
  BY <1>1, TypeCorrect, StaysTimed, NoOrphan, PTL DEF Spec, WaitFixed
=============================================================================
