-------------------------- MODULE ViewCounterProofs --------------------------
(***************************************************************************)
(* Proofs about ViewCounter, for every number of instances, workers, links *)
(* and views, every capacity and batch size.                               *)
(***************************************************************************)
EXTENDS ViewCounter, TLAPS

(* Every variable has its type: the channel never exceeds eventBuffer.      *)
THEOREM TypeCorrect == Spec => []TypeOK
<1> USE CounterAssumption
<1>1. Init => TypeOK
  BY DEF Init, TypeOK, Phases, FlushPcs
<1>2. TypeOK /\ [Next]_vars => TypeOK'
  <2> SUFFICES ASSUME TypeOK, [Next]_vars PROVE TypeOK'
    OBVIOUS
  <2> USE DEF TypeOK, Phases, FlushPcs
  <2>1. ASSUME NEW i \in Instances, NEW v \in Views, Track(i, v) PROVE TypeOK'
    BY <2>1 DEF Track, HasRoom, redisVars, flushVars, workerVars
  <2>2. ASSUME NEW w \in Workers, Take(w) PROVE TypeOK'
    BY <2>2 DEF Take, redisVars, flushVars, historyVars
  <2>3. ASSUME NEW w \in Workers, WorkerExit(w) PROVE TypeOK'
    BY <2>3 DEF WorkerExit, redisVars, flushVars, historyVars
  <2>4. ASSUME NEW w \in Workers, Script(w) \/ ScriptErr(w) PROVE TypeOK'
    <3>1. ev[w] \in Views /\ SeenKey(ev[w]) \in Links \X Visitors
      BY <2>4 DEF Script, ScriptErr, SeenKey
    <3>2. inRedis' \subseteq Views /\ seen' \subseteq Links \X Visitors /\ counted' \subseteq Views
      BY <2>4, <3>1 DEF Script, ScriptErr, CountIt
    <3>3. \/ wpc' = [wpc EXCEPT ![w] = "mark"] /\ ev' = ev
          \/ wpc' = [wpc EXCEPT ![w] = "select"] /\ ev' = [ev EXCEPT ![w] = NoView]
      BY <2>4 DEF Script, ScriptErr, Idle
    <3>4. /\ wpc' \in [Workers -> {"select", "script", "mark", "exited"}]
          /\ ev' \in [Workers -> Views \cup {NoView}]
          /\ \A x \in Workers : wpc'[x] \in {"script", "mark"} => ev'[x] \in Views
      BY <3>1, <3>3
    <3>5. UNCHANGED <<dirty, written, phase, events, flushVars, tracked>>
      BY <2>4 DEF Script, ScriptErr
    <3> QED
      BY <3>2, <3>4, <3>5 DEF flushVars
  <2>5. ASSUME NEW w \in Workers, MarkDirty(w) PROVE TypeOK'
    BY <2>5 DEF MarkDirty, Idle, flushVars, historyVars
  <2>6. ASSUME NEW i \in Instances, Tick(i) \/ FlusherExit(i) PROVE TypeOK'
    BY <2>6 DEF Tick, FlusherExit, To, redisVars, others, workerVars, historyVars
  <2> USE DEF Replied, To, FlushReturn, FlushAgain, AfterGetDel, redisVars, others,
              workerVars, historyVars
  <2>7. ASSUME NEW i \in Instances, Pop(i) \/ PopErr(i) PROVE TypeOK'
    <3>1. CASE Pop(i)
      <4>1. PICK ids \in Batches : /\ dirty' = dirty \ ids
                                  /\ todo' = [todo EXCEPT ![i] = ids]
                                  /\ more' = [more EXCEPT ![i] = (Cardinality(ids) = FlushBatch)]
                                  /\ To(i, IF ids = {} THEN FlushReturn(i) ELSE "getdel")
        BY <3>1 DEF Pop
      <4>2. ids \subseteq Links
        BY DEF Batches
      <4>3. more' \in [Instances -> BOOLEAN]
        BY <4>1
      <4>4. Replied(i) /\ UNCHANGED <<inRedis, seen, others, mark, deltas>>
        BY <3>1 DEF Pop
      <4> QED
        BY <4>1, <4>2, <4>3, <4>4
    <3>2. CASE PopErr(i)
      BY <3>2 DEF PopErr
    <3> QED
      BY <2>7, <3>1, <3>2
  <2>8. ASSUME NEW i \in Instances, NEW l \in Links, GetDel(i, l) \/ GetDelErr(i, l) PROVE TypeOK'
    <3>1. CASE GetDel(i, l)
      BY <3>1 DEF GetDel, Reset, ViewsOf
    <3>2. CASE GetDelErr(i, l)
      BY <3>2 DEF GetDelErr, Reset, ViewsOf
    <3> QED
      BY <2>8, <3>1, <3>2
  <2>9. ASSUME NEW i \in Instances, GetDelDone(i) PROVE TypeOK'
    BY <2>9 DEF GetDelDone
  <2>10. ASSUME NEW i \in Instances, ReAdd(i) PROVE TypeOK'
    BY <2>10 DEF ReAdd
  <2>11. ASSUME NEW i \in Instances, WriteOk(i) PROVE TypeOK'
    <3>1. written' \in [Views -> Nat]
      BY <2>11 DEF WriteOk, AddViews
    <3> QED
      BY <2>11, <3>1 DEF WriteOk
  <2>12. ASSUME NEW i \in Instances, WriteErr(i) PROVE TypeOK'
    <3>1. ASSUME AddViews(i) PROVE written' \in [Views -> Nat]
      BY <3>1 DEF AddViews
    <3>2. written' \in [Views -> Nat]
      BY <2>12, <3>1 DEF WriteErr
    <3> QED
      BY <2>12, <3>2 DEF WriteErr
  <2>13. ASSUME NEW i \in Instances, WriteAborted(i) PROVE TypeOK'
    <3>1. written' \in [Views -> Nat]
      BY <2>13 DEF WriteAborted, AddViews
    <3> QED
      BY <2>13, <3>1 DEF WriteAborted
  <2>14. ASSUME NEW i \in Instances, NEW l \in Links, RestoreIncr(i, l) PROVE TypeOK'
    BY <2>14 DEF RestoreIncr, PutBack, ViewsOf
  <2>15. ASSUME NEW i \in Instances, RestoreMark(i) \/ RestoreDone(i) \/ RestoreErr(i) PROVE TypeOK'
    <3>1. CASE RestoreMark(i)
      BY <3>1 DEF RestoreMark, Remark
    <3>2. CASE RestoreDone(i)
      BY <3>2 DEF RestoreDone
    <3>3. CASE RestoreErr(i)
      BY <3>3 DEF RestoreErr
    <3> QED
      BY <2>15, <3>1, <3>2, <3>3
  <2>16. ASSUME NEW i \in Instances, Shutdown(i) \/ FinalTimeout(i) PROVE TypeOK'
    <3>1. PICK c \in Cancelled(i) : ctx' = [ctx EXCEPT ![i] = c]
      BY <2>16 DEF Shutdown, FinalTimeout
    <3>2. ctx' \in [Instances -> {"live", "inflight", "done"}]
      BY <3>1 DEF Cancelled
    <3> QED
      BY <2>16, <3>2 DEF Shutdown, FinalTimeout
  <2>17. ASSUME NEW i \in Instances, FinalFlush(i) \/ Stopped(i) PROVE TypeOK'
    <3>1. CASE FinalFlush(i)
      BY <3>1 DEF FinalFlush
    <3>2. CASE Stopped(i)
      BY <3>2 DEF Stopped, flushVars
    <3> QED
      BY <2>17, <3>1, <3>2
  <2>18. ASSUME NEW i \in Instances, Crash(i) \/ Start(i) PROVE TypeOK'
    <3>1. phase' \in [Instances -> Phases]
      BY <2>18 DEF Crash, Start
    <3>2. Fresh(i) /\ UNCHANGED <<redisVars, written, historyVars>>
      BY <2>18 DEF Crash, Start
    <3>3. /\ events' \in [Instances -> Seq(Views)]
          /\ \A j \in Instances : Len(events'[j]) <= EventBuffer
      BY <3>2 DEF Fresh
    <3>4. /\ wpc' \in [Workers -> {"select", "script", "mark", "exited"}]
          /\ ev' \in [Workers -> Views \cup {NoView}]
          /\ \A w \in Workers : wpc'[w] \in {"script", "mark"} => ev'[w] \in Views
      BY <3>2 DEF Fresh
    <3> QED
      BY <3>1, <3>2, <3>3, <3>4 DEF Fresh
  <2>19. ASSUME NEW k \in Links \X Visitors, ExpireSeen(k) PROVE TypeOK'
    BY <2>19 DEF ExpireSeen, flushVars
  <2>20. CASE UNCHANGED vars
    BY <2>20 DEF vars, flushVars
  <2> QED
    BY <2>1, <2>2, <2>3, <2>4, <2>5, <2>6, <2>7, <2>8, <2>9, <2>10, <2>11, <2>12, <2>13,
       <2>14, <2>15, <2>16, <2>17, <2>18, <2>19, <2>20
       DEF Next, WorkerStep, FlushStep, LifeStep
<1> QED
  BY <1>1, <1>2, PTL DEF Spec

-----------------------------------------------------------------------------
(* Lemma: the steps that touch neither the channels nor a view on its way to *)
(* Redis; what they leave alone is all QueuedOnce speaks of.                 *)
PathVars == <<events, workerVars, historyVars>>

LEMMA OffPath ==
  ASSUME NEW i \in Instances,
         FlushStep(i) \/ Shutdown(i) \/ FinalFlush(i) \/ FinalTimeout(i) \/ Stopped(i)
  PROVE  UNCHANGED PathVars
<1> USE DEF PathVars, others, workerVars, historyVars
<1>1. CASE Shutdown(i) \/ FinalFlush(i) \/ FinalTimeout(i) \/ Stopped(i)
  BY <1>1 DEF Shutdown, FinalFlush, FinalTimeout, Stopped
<1>2. CASE Tick(i) \/ FlusherExit(i) \/ Pop(i) \/ PopErr(i) \/ GetDelDone(i) \/ ReAdd(i)
  BY <1>2 DEF Tick, FlusherExit, Pop, PopErr, GetDelDone, ReAdd
<1>3. CASE \E l \in Links : GetDel(i, l) \/ GetDelErr(i, l) \/ RestoreIncr(i, l)
  BY <1>3 DEF GetDel, GetDelErr, RestoreIncr
<1>4. CASE WriteOk(i) \/ WriteErr(i) \/ WriteAborted(i)
  BY <1>4 DEF WriteOk, WriteErr, WriteAborted
<1>5. CASE RestoreMark(i) \/ RestoreDone(i) \/ RestoreErr(i)
  BY <1>5 DEF RestoreMark, RestoreDone, RestoreErr
<1> QED
  BY <1>1, <1>2, <1>3, <1>4, <1>5 DEF FlushStep

(* A view is in one channel, once, or in the hands of one worker, and there  *)
(* only until it is counted: the script never counts the same view twice.    *)
THEOREM ViewQueuedOnce == Spec => []QueuedOnce
<1> USE CounterAssumption
<1>1. Init => QueuedOnce
  BY DEF Init, QueuedOnce, Queued, InScript
<1>2. TypeOK /\ QueuedOnce /\ [Next]_vars => QueuedOnce'
  <2> SUFFICES ASSUME TypeOK, QueuedOnce, [Next]_vars PROVE QueuedOnce'
    OBVIOUS
  <2>1. ASSUME NEW i \in Instances, NEW v \in Views, Track(i, v) PROVE QueuedOnce'
    <3> USE DEF Queued, InScript, workerVars
    <3>1. /\ v \notin tracked /\ tracked' = tracked \cup {v}
          /\ UNCHANGED <<workerVars, counted>>
      BY <2>1 DEF Track
    <3>2. CASE events' = events
      BY <3>1, <3>2 DEF QueuedOnce
    <3>3. CASE events' = [events EXCEPT ![i] = Append(@, v)]
      <4>1. ASSUME NEW j \in Instances, j # i PROVE events'[j] = events[j]
        BY <3>3, <4>1 DEF TypeOK
      <4>2. /\ events[i] \in Seq(Views) /\ events'[i] = Append(events[i], v)
            /\ Len(events'[i]) = Len(events[i]) + 1
            /\ events'[i][Len(events[i]) + 1] = v
            /\ \A k \in 1..Len(events[i]) : events'[i][k] = events[i][k]
        BY <3>3 DEF TypeOK
      <4>3. \A j \in Instances, u \in Views : Queued(j, u)' => Queued(j, u) \/ (j = i /\ u = v)
        BY <4>1, <4>2
      <4>4. \A j \in Instances : ~Queued(j, v)
        BY <3>1 DEF QueuedOnce
      <4>5. \A w \in Workers : ~InScript(w, v)
        BY <3>1 DEF QueuedOnce
      <4>6. \A w \in Workers, u \in Views : InScript(w, u)' <=> InScript(w, u)
        BY <3>1
      <4>7. \A j \in Instances : \A m, k \in 1..Len(events'[j]) :
               events'[j][m] = events'[j][k] => m = k
        <5>1. \A k \in 1..Len(events[i]) : events[i][k] # v
          BY <4>4
        <5>2. Len(events[i]) \in Nat
          BY <4>2
        <5>3. ASSUME NEW m \in 1..Len(events'[i]), NEW k \in 1..Len(events'[i]),
                     events'[i][m] = events'[i][k]
              PROVE  m = k
          <6>1. m \in 1..Len(events[i]) \/ m = Len(events[i]) + 1
            BY <4>2, <5>2
          <6>2. k \in 1..Len(events[i]) \/ k = Len(events[i]) + 1
            BY <4>2, <5>2
          <6> HIDE DEF Queued, InScript
          <6> QED
            BY <4>2, <5>1, <5>3, <6>1, <6>2 DEF QueuedOnce
        <5>4. ASSUME NEW j \in Instances, j # i,
                     NEW m \in 1..Len(events'[j]), NEW k \in 1..Len(events'[j]),
                     events'[j][m] = events'[j][k]
              PROVE  m = k
          BY <4>1, <5>4 DEF QueuedOnce
        <5> QED
          BY <5>3, <5>4
      <4> HIDE DEF Queued, InScript
      <4> QED
        BY <3>1, <4>3, <4>4, <4>5, <4>6, <4>7 DEF QueuedOnce
    <3> QED
      BY <2>1, <3>2, <3>3 DEF Track
  <2>2. ASSUME NEW w \in Workers, Take(w) PROVE QueuedOnce'
    <3>1. PICK i \in Instances, e \in Seq(Views), h \in Views :
            /\ i = Home[w] /\ e = events[i] /\ e # <<>> /\ h = Head(e)
            /\ events' = [events EXCEPT ![i] = Tail(e)]
            /\ ev' = [ev EXCEPT ![w] = h]
            /\ wpc' = [wpc EXCEPT ![w] = "script"]
            /\ UNCHANGED <<tracked, counted>>
      <4>1. Home[w] \in Instances /\ events[Home[w]] \in Seq(Views)
        BY DEF TypeOK
      <4>2. Head(events[Home[w]]) \in Views
        BY <2>2, <4>1 DEF Take
      <4> QED
        BY <2>2, <4>1, <4>2 DEF Take, historyVars
    <3>2. /\ Len(e) \in Nat \ {0} /\ h = e[1]
          /\ Len(Tail(e)) = Len(e) - 1
          /\ \A k \in 1..(Len(e) - 1) : Tail(e)[k] = e[k + 1]
      BY <3>1
    <3>3. events'[i] = Tail(e) /\ \A j \in Instances : j # i => events'[j] = events[j]
      BY <3>1 DEF TypeOK
    <3>4. \A j \in Instances, u \in Views : Queued(j, u)' => Queued(j, u)
      <4>1. ASSUME NEW u \in Views, Queued(i, u)' PROVE Queued(i, u)
        <5>1. PICK k \in 1..(Len(e) - 1) : Tail(e)[k] = u
          BY <3>2, <3>3, <4>1 DEF Queued
        <5>2. k + 1 \in 1..Len(e) /\ e[k + 1] = u
          BY <3>2, <5>1
        <5> QED
          BY <3>1, <5>2 DEF Queued
      <4> QED
        BY <3>3, <4>1 DEF Queued
    <3>5. \A u \in Views : Queued(i, u)' => u # h
      <4>1. \A k \in 1..(Len(e) - 1) : k + 1 \in 1..Len(e) /\ 1 \in 1..Len(e) /\ k + 1 # 1
        BY <3>2
      <4>2. \A k \in 1..(Len(e) - 1) : e[k + 1] # e[1]
        BY <3>1, <4>1 DEF QueuedOnce
      <4> QED
        BY <3>2, <3>3, <4>2 DEF Queued
    <3>6. Queued(i, h)
      BY <3>1, <3>2 DEF Queued
    <3>7. \A x \in Workers, u \in Views :
             InScript(x, u)' <=> (IF x = w THEN u = h ELSE InScript(x, u))
      BY <3>1 DEF InScript, TypeOK
    <3>8. \A j \in Instances : \A m, k \in 1..Len(events'[j]) :
             events'[j][m] = events'[j][k] => m = k
      <4>1. \A m, k \in 1..Len(Tail(e)) : Tail(e)[m] = Tail(e)[k] => m = k
        <5>1. \A m, k \in 1..(Len(e) - 1) : e[m + 1] = e[k + 1] => m + 1 = k + 1
          BY <3>1, <3>2 DEF QueuedOnce
        <5> QED
          BY <3>2, <5>1
      <4> QED
        BY <3>3, <4>1 DEF QueuedOnce
    <3>9. \A j \in Instances : ~Queued(j, h)'
      BY <3>4, <3>5, <3>6 DEF QueuedOnce
    <3>10. UNCHANGED <<tracked, counted>>
      BY <3>1
    <3> QED
      BY <3>4, <3>6, <3>7, <3>8, <3>9, <3>10 DEF QueuedOnce
  <2>3. ASSUME NEW w \in Workers, WorkerExit(w) \/ MarkDirty(w) PROVE QueuedOnce'
    <3>1. UNCHANGED <<events, tracked, counted>>
      BY <2>3 DEF WorkerExit, MarkDirty, historyVars
    <3>2. \A x \in Workers, u \in Views : InScript(x, u)' => InScript(x, u)
      BY <2>3 DEF WorkerExit, MarkDirty, Idle, InScript, TypeOK
    <3>3. \A j \in Instances, u \in Views : Queued(j, u)' <=> Queued(j, u)
      BY <3>1 DEF Queued
    <3> QED
      BY <3>1, <3>2, <3>3 DEF QueuedOnce
  <2>4. ASSUME NEW w \in Workers, Script(w) \/ ScriptErr(w) PROVE QueuedOnce'
    <3>1. UNCHANGED <<events, tracked>>
      BY <2>4 DEF Script, ScriptErr
    <3>2. \A x \in Workers, u \in Views : InScript(x, u)' => x # w /\ InScript(x, u)
      BY <2>4 DEF Script, ScriptErr, Idle, InScript, TypeOK
    <3>3. InScript(w, ev[w]) /\ ev[w] \in Views
      BY <2>4 DEF Script, ScriptErr, InScript, TypeOK
    <3>4. counted' = counted \/ counted' = counted \cup {ev[w]}
      BY <2>4 DEF Script, ScriptErr, CountIt
    <3>5. \A j \in Instances, u \in Views : Queued(j, u)' <=> Queued(j, u)
      BY <3>1 DEF Queued
    <3> QED
      BY <3>1, <3>2, <3>3, <3>4, <3>5 DEF QueuedOnce
  <2>5. ASSUME NEW i \in Instances, Crash(i) \/ Start(i) PROVE QueuedOnce'
    <3>1. /\ events' = [events EXCEPT ![i] = <<>>]
          /\ wpc' = [x \in Workers |-> IF Home[x] = i THEN "select" ELSE wpc[x]]
          /\ ev' = [x \in Workers |-> IF Home[x] = i THEN NoView ELSE ev[x]]
          /\ UNCHANGED <<tracked, counted>>
      BY <2>5 DEF Crash, Start, Fresh, historyVars
    <3>2. \A j \in Instances : events'[j] = events[j] \/ events'[j] = <<>>
      BY <3>1 DEF TypeOK
    <3>3. \A j \in Instances, u \in Views : Queued(j, u)' => Queued(j, u)
      BY <3>2 DEF Queued
    <3>4. \A x \in Workers, u \in Views : InScript(x, u)' => InScript(x, u)
      BY <3>1 DEF InScript
    <3>5. \A j \in Instances : \A m, k \in 1..Len(events'[j]) :
             events'[j][m] = events'[j][k] => m = k
      BY <3>2 DEF QueuedOnce
    <3> QED
      BY <3>1, <3>3, <3>4, <3>5 DEF QueuedOnce
  <2>6. CASE UNCHANGED PathVars
    <3>1. UNCHANGED <<events, wpc, ev, tracked, counted>>
      BY <2>6 DEF PathVars, workerVars, historyVars
    <3> QED
      BY <3>1 DEF QueuedOnce, Queued, InScript
  <2>7. ASSUME NEW k \in Links \X Visitors, ExpireSeen(k) PROVE UNCHANGED PathVars
    BY <2>7 DEF ExpireSeen, PathVars
  <2>8. UNCHANGED vars => UNCHANGED PathVars
    BY DEF vars, PathVars
  <2> QED
    BY <2>1, <2>2, <2>3, <2>4, <2>5, <2>6, <2>7, <2>8, OffPath DEF Next, WorkerStep, LifeStep
<1> QED
  BY <1>1, <1>2, TypeCorrect, PTL DEF Spec

-----------------------------------------------------------------------------
(* What a worker may still do follows the life of its process: none is at    *)
(* work in a final flush, and a crash leaves nothing behind.                 *)
LifeOfWorkers ==
  \A i \in Instances :
    /\ phase[i] \in {"final", "stopped"} => \A w \in WorkersOf(i) : wpc[w] = "exited"
    /\ phase[i] = "crashed" => /\ events[i] = <<>>
                               /\ \A w \in WorkersOf(i) : wpc[w] = "select"

LEMMA WorkersFollowLife == Spec => []LifeOfWorkers
<1> USE CounterAssumption
<1>1. Init => LifeOfWorkers
  BY DEF Init, LifeOfWorkers
<1>2. TypeOK /\ LifeOfWorkers /\ [Next]_vars => LifeOfWorkers'
  <2> SUFFICES ASSUME TypeOK, LifeOfWorkers, [Next]_vars PROVE LifeOfWorkers'
    OBVIOUS
  <2> USE DEF LifeOfWorkers, WorkersOf
  <2>1. CASE UNCHANGED <<phase, events, wpc>>
    BY <2>1
  <2>2. ASSUME NEW i \in Instances, NEW v \in Views, Track(i, v) PROVE LifeOfWorkers'
    <3>1. /\ UNCHANGED <<phase, wpc>> /\ phase[i] # "crashed"
          /\ \A j \in Instances : j # i => events'[j] = events[j]
      BY <2>2 DEF Track, Handling, workerVars, TypeOK
    <3> QED
      BY <3>1
  <2>3. ASSUME NEW w \in Workers, WorkerStep(w) PROVE LifeOfWorkers'
    <3>1. /\ UNCHANGED phase
          /\ \A x \in Workers : x # w => wpc'[x] = wpc[x]
          /\ \A j \in Instances : events'[j] = events[j] \/ (j = Home[w] /\ events[j] # <<>>)
      BY <2>3 DEF WorkerStep, Take, WorkerExit, Script, ScriptErr, MarkDirty, Idle, TypeOK
    <3>2. \/ wpc[w] = "select" /\ (events[Home[w]] # <<>> \/ phase[Home[w]] = "draining")
          \/ wpc[w] \in {"script", "mark"}
      BY <2>3 DEF WorkerStep, Take, WorkerExit, Script, ScriptErr, MarkDirty
    <3>3. phase[Home[w]] \notin {"final", "stopped", "crashed"}
      BY <3>2
    <3> QED
      BY <3>1, <3>3
  <2>4. ASSUME NEW i \in Instances, Shutdown(i) \/ FinalFlush(i) \/ FinalTimeout(i) \/ Stopped(i)
        PROVE  LifeOfWorkers'
    <3>1. UNCHANGED <<events, wpc>> /\ \A j \in Instances : j # i => phase'[j] = phase[j]
      BY <2>4 DEF Shutdown, FinalFlush, FinalTimeout, Stopped, workerVars, TypeOK
    <3>2. \/ phase'[i] = "draining"
          \/ phase'[i] \in {"final", "stopped"} /\ \A w \in WorkersOf(i) : wpc[w] = "exited"
      BY <2>4 DEF Shutdown, FinalFlush, FinalTimeout, Stopped, TypeOK
    <3> QED
      BY <3>1, <3>2
  <2>5. ASSUME NEW i \in Instances, Crash(i) \/ Start(i) PROVE LifeOfWorkers'
    <3>1. \A j \in Instances : j # i => phase'[j] = phase[j] /\ events'[j] = events[j]
      BY <2>5 DEF Crash, Start, Fresh, TypeOK
    <3>2. \A w \in Workers : wpc'[w] = IF Home[w] = i THEN "select" ELSE wpc[w]
      BY <2>5 DEF Crash, Start, Fresh
    <3>3. phase'[i] \in {"crashed", "serving"} /\ events'[i] = <<>>
      BY <2>5 DEF Crash, Start, Fresh, TypeOK
    <3> QED
      BY <3>1, <3>2, <3>3
  <2>6. UNCHANGED PathVars /\ UNCHANGED phase => UNCHANGED <<phase, events, wpc>>
    BY DEF PathVars, workerVars
  <2>7. ASSUME NEW i \in Instances, FlushStep(i) PROVE UNCHANGED phase
    BY <2>7 DEF FlushStep, Tick, FlusherExit, Pop, PopErr, GetDel, GetDelErr, GetDelDone, ReAdd,
                WriteOk, WriteErr, WriteAborted, RestoreIncr, RestoreMark, RestoreDone, RestoreErr,
                others
  <2>8. ASSUME NEW k \in Links \X Visitors, ExpireSeen(k) PROVE UNCHANGED <<phase, events, wpc>>
    BY <2>8 DEF ExpireSeen, workerVars
  <2>9. UNCHANGED vars => UNCHANGED <<phase, events, wpc>>
    BY DEF vars, workerVars
  <2> QED
    BY <2>1, <2>2, <2>3, <2>4, <2>5, <2>6, <2>7, <2>8, <2>9, OffPath DEF Next, LifeStep
<1> QED
  BY <1>1, <1>2, TypeCorrect, PTL DEF Spec

(* The first half of a view's way, under every fault.  Track drops it only   *)
(* when the channel is full.  From there on it is in the channel or with a   *)
(* worker until it is counted, found to be a repetition, given up after an   *)
(* error of the script, or left in the memory of a process that died or that *)
(* had stopped; and no view gets on this way except by Track.                *)
OnItsWay(v) == \/ \E i \in Instances : Queued(i, v)
               \/ \E w \in Workers : InScript(w, v)

Followed(v) ==
  /\ v \in tracked' \ tracked =>
       OnItsWay(v)' \/ \E i \in Instances : Len(events[i]) = EventBuffer
  /\ ~OnItsWay(v) /\ OnItsWay(v)' => v \in tracked' \ tracked
  /\ OnItsWay(v) /\ ~OnItsWay(v)' =>
       \/ v \in counted' \ counted
       \/ \E w \in Workers : /\ InScript(w, v)
                             /\ \/ SeenKey(v) \in seen \/ May("redisErr")
                                \/ phase'[Home[w]] = "crashed"
       \/ \E i \in Instances : /\ Queued(i, v)
                               /\ phase'[i] = "crashed" \/ phase[i] = "stopped"

THEOREM EveryViewFollowed == Spec => [][\A v \in Views : Followed(v)]_vars
<1> USE CounterAssumption
<1>1. TypeOK /\ QueuedOnce /\ LifeOfWorkers /\ [Next]_vars => [\A v \in Views : Followed(v)]_vars
  <2> SUFFICES ASSUME TypeOK, QueuedOnce, LifeOfWorkers, [Next]_vars, NEW v \in Views
               PROVE  Followed(v)
    OBVIOUS
  <2>1. ASSUME UNCHANGED tracked, OnItsWay(v)' <=> OnItsWay(v) PROVE Followed(v)
    BY <2>1 DEF Followed
  <2>2. CASE UNCHANGED PathVars
    BY <2>1, <2>2 DEF PathVars, workerVars, historyVars, OnItsWay, Queued, InScript
  <2>3. ASSUME NEW i \in Instances, NEW u \in Views, Track(i, u) PROVE Followed(v)
    <3>1. /\ tracked' = tracked \cup {u} /\ u \notin tracked
          /\ \A w \in Workers : InScript(w, v)' <=> InScript(w, v)
      BY <2>3 DEF Track, workerVars, InScript
    <3>2. events[i] \in Seq(Views) /\ Len(events[i]) \in Nat /\ Len(events[i]) <= EventBuffer
      BY DEF TypeOK
    <3>3. CASE HasRoom(i)
      <4>1. /\ Len(events'[i]) = Len(events[i]) + 1
            /\ events'[i][Len(events[i]) + 1] = u
            /\ \A k \in 1..Len(events[i]) : events'[i][k] = events[i][k]
            /\ \A j \in Instances : j # i => events'[j] = events[j]
        BY <2>3, <3>2, <3>3 DEF Track, TypeOK
      <4>2. Queued(i, v) \/ u = v => Queued(i, v)'
        <5>1. /\ Len(events[i]) + 1 \in 1..Len(events'[i])
              /\ \A k \in 1..Len(events[i]) : k \in 1..Len(events'[i])
          BY <3>2, <4>1
        <5> QED
          BY <4>1, <5>1 DEF Queued
      <4>3. Queued(i, v)' => Queued(i, v) \/ u = v
        <5>1. \A k \in 1..Len(events'[i]) : k \in 1..Len(events[i]) \/ k = Len(events[i]) + 1
          BY <3>2, <4>1
        <5> QED
          BY <4>1, <5>1 DEF Queued
      <4>4. \A j \in Instances : j # i => (Queued(j, v)' <=> Queued(j, v))
        BY <4>1 DEF Queued
      <4> QED
        BY <3>1, <4>2, <4>3, <4>4 DEF Followed, OnItsWay
    <3>4. CASE ~HasRoom(i)
      <4>1. Len(events[i]) = EventBuffer
        BY <3>2, <3>4 DEF HasRoom
      <4>2. events' = events
        BY <2>3, <3>4 DEF Track
      <4>3. OnItsWay(v)' <=> OnItsWay(v)
        BY <3>1, <4>2 DEF OnItsWay, Queued
      <4> QED
        BY <4>1, <4>3 DEF Followed
    <3> QED
      BY <3>3, <3>4
  <2>4. ASSUME NEW w \in Workers, Take(w) PROVE Followed(v)
    <3>1. PICK i \in Instances, e \in Seq(Views), h \in Views :
            /\ i = Home[w] /\ e = events[i] /\ e # <<>> /\ h = Head(e)
            /\ events' = [events EXCEPT ![i] = Tail(e)]
            /\ ev' = [ev EXCEPT ![w] = h]
            /\ wpc' = [wpc EXCEPT ![w] = "script"]
            /\ wpc[w] = "select" /\ UNCHANGED tracked
      <4>1. Home[w] \in Instances /\ events[Home[w]] \in Seq(Views)
        BY DEF TypeOK
      <4>2. Head(events[Home[w]]) \in Views
        BY <2>4, <4>1 DEF Take
      <4> QED
        BY <2>4, <4>1, <4>2 DEF Take, historyVars
    <3>2. /\ Len(e) \in Nat \ {0} /\ h = e[1]
          /\ Len(Tail(e)) = Len(e) - 1
          /\ \A k \in 1..(Len(e) - 1) : Tail(e)[k] = e[k + 1]
      BY <3>1
    <3>3. events'[i] = Tail(e) /\ \A j \in Instances : j # i => events'[j] = events[j]
      BY <3>1 DEF TypeOK
    <3>4. \A x \in Workers : InScript(x, v)' <=> (IF x = w THEN v = h ELSE InScript(x, v))
      BY <3>1 DEF InScript, TypeOK
    <3>5. ~InScript(w, v)
      BY <3>1 DEF InScript
    <3>6. Queued(i, v) => Queued(i, v)' \/ v = h
      <4>1. ASSUME NEW k \in 1..Len(e), e[k] = v, k # 1 PROVE Queued(i, v)'
        <5>1. k - 1 \in 1..(Len(e) - 1) /\ Tail(e)[k - 1] = v
          BY <3>2, <4>1
        <5> QED
          BY <3>2, <3>3, <5>1 DEF Queued
      <4> QED
        BY <3>1, <3>2, <4>1 DEF Queued
    <3>7. Queued(i, v)' \/ v = h => Queued(i, v)
      <4>1. 1 \in 1..Len(e) /\ \A k \in 1..(Len(e) - 1) : k + 1 \in 1..Len(e)
        BY <3>2
      <4> QED
        BY <3>1, <3>2, <3>3, <4>1 DEF Queued
    <3>8. \A j \in Instances : j # i => (Queued(j, v)' <=> Queued(j, v))
      BY <3>3 DEF Queued
    <3>9. OnItsWay(v)' <=> OnItsWay(v)
      BY <3>4, <3>5, <3>6, <3>7, <3>8 DEF OnItsWay
    <3> QED
      BY <2>1, <3>1, <3>9
  <2>5. ASSUME NEW w \in Workers, WorkerExit(w) \/ MarkDirty(w) PROVE Followed(v)
    <3>1. UNCHANGED <<events, tracked>>
      BY <2>5 DEF WorkerExit, MarkDirty, historyVars
    <3>2. \A x \in Workers : InScript(x, v)' <=> InScript(x, v)
      BY <2>5 DEF WorkerExit, MarkDirty, Idle, InScript, TypeOK
    <3> QED
      BY <2>1, <3>1, <3>2 DEF OnItsWay, Queued
  <2>6. ASSUME NEW w \in Workers, Script(w) \/ ScriptErr(w) PROVE Followed(v)
    <3>1. UNCHANGED <<events, tracked>>
      BY <2>6 DEF Script, ScriptErr
    <3>2. \A x \in Workers : InScript(x, v)' <=> x # w /\ InScript(x, v)
      BY <2>6 DEF Script, ScriptErr, Idle, InScript, TypeOK
    <3>3. InScript(w, v) => v \in counted' \ counted \/ SeenKey(v) \in seen \/ May("redisErr")
      BY <2>6 DEF Script, ScriptErr, CountIt, InScript, QueuedOnce
    <3> QED
      BY <3>1, <3>2, <3>3 DEF Followed, OnItsWay, Queued
  <2>7. ASSUME NEW i \in Instances, Crash(i) \/ Start(i) PROVE Followed(v)
    <3>1. UNCHANGED tracked /\ \A j \in Instances : j # i => events'[j] = events[j]
      BY <2>7 DEF Crash, Start, Fresh, historyVars, TypeOK
    <3>2. /\ events'[i] = <<>>
          /\ \A x \in Workers : InScript(x, v)' <=> Home[x] # i /\ InScript(x, v)
      BY <2>7 DEF Crash, Start, Fresh, InScript, TypeOK
    <3>3. \A j \in Instances : Queued(j, v)' <=> j # i /\ Queued(j, v)
      BY <3>1, <3>2 DEF Queued
    <3>4. \/ phase'[i] = "crashed"
          \/ phase[i] = "stopped" /\ \A x \in Workers : Home[x] = i => ~InScript(x, v)
          \/ ~Queued(i, v) /\ \A x \in Workers : Home[x] = i => ~InScript(x, v)
      <4>1. CASE Crash(i)
        BY <4>1 DEF Crash, TypeOK
      <4>2. CASE Start(i)
        <5>1. phase[i] \in {"stopped", "crashed"}
          BY <4>2 DEF Start, Running
        <5>2. \A x \in Workers : Home[x] = i => ~InScript(x, v)
          BY <5>1 DEF LifeOfWorkers, WorkersOf, InScript
        <5>3. phase[i] = "crashed" => ~Queued(i, v)
          BY DEF LifeOfWorkers, Queued
        <5> QED
          BY <5>1, <5>2, <5>3
      <4> QED
        BY <2>7, <4>1, <4>2
    <3> QED
      BY <3>1, <3>2, <3>3, <3>4 DEF Followed, OnItsWay
  <2>8. ASSUME NEW k \in Links \X Visitors, ExpireSeen(k) PROVE UNCHANGED PathVars
    BY <2>8 DEF ExpireSeen, PathVars
  <2>9. UNCHANGED vars => UNCHANGED PathVars
    BY DEF vars, PathVars
  <2> QED
    BY <2>2, <2>3, <2>4, <2>5, <2>6, <2>7, <2>8, <2>9, OffPath DEF Next, WorkerStep, LifeStep
<1> QED
  BY <1>1, TypeCorrect, ViewQueuedOnce, WorkersFollowLife, PTL DEF Spec

-----------------------------------------------------------------------------
(* From the script on, a view is in Redis, with one flush, or in the         *)
(* database, and there once, unless a commit of AddViews may look failed.    *)
HeldVars == <<inRedis, deltas, written, counted>>

(* Lemma: the only steps that move a view between those places, or write it. *)
LEMMA HeldSteps ==
  ASSUME [Next]_vars
  PROVE  \/ UNCHANGED HeldVars
         \/ \E w \in Workers : Script(w) \/ ScriptErr(w)
         \/ \E i \in Instances :
              \/ \E l \in Links : GetDel(i, l) \/ GetDelErr(i, l) \/ RestoreIncr(i, l)
              \/ WriteOk(i) \/ WriteErr(i) \/ WriteAborted(i) \/ RestoreErr(i)
              \/ Crash(i) \/ Start(i)
<1> USE DEF HeldVars, redisVars, flushVars, historyVars
<1>1. ASSUME NEW i \in Instances,
             \/ Tick(i) \/ FlusherExit(i) \/ Pop(i) \/ PopErr(i) \/ GetDelDone(i) \/ ReAdd(i)
             \/ RestoreMark(i) \/ RestoreDone(i)
      PROVE  UNCHANGED HeldVars
  <2>1. CASE Tick(i) \/ FlusherExit(i) \/ Pop(i) \/ PopErr(i) \/ GetDelDone(i) \/ ReAdd(i)
    BY <2>1 DEF Tick, FlusherExit, Pop, PopErr, GetDelDone, ReAdd, others
  <2>2. CASE RestoreMark(i) \/ RestoreDone(i)
    BY <2>2 DEF RestoreMark, RestoreDone, others
  <2> QED
    BY <1>1, <2>1, <2>2
<1>2. ASSUME NEW i \in Instances, Shutdown(i) \/ FinalFlush(i) \/ FinalTimeout(i) \/ Stopped(i)
      PROVE  UNCHANGED HeldVars
  BY <1>2 DEF Shutdown, FinalFlush, FinalTimeout, Stopped
<1>3. ASSUME NEW w \in Workers, Take(w) \/ WorkerExit(w) \/ MarkDirty(w)
      PROVE  UNCHANGED HeldVars
  BY <1>3 DEF Take, WorkerExit, MarkDirty
<1>4. ASSUME NEW i \in Instances, NEW v \in Views, Track(i, v) PROVE UNCHANGED HeldVars
  BY <1>4 DEF Track
<1>5. ASSUME NEW k \in Links \X Visitors, ExpireSeen(k) PROVE UNCHANGED HeldVars
  BY <1>5 DEF ExpireSeen
<1>6. UNCHANGED vars => UNCHANGED HeldVars
  BY DEF vars
<1> QED
  BY <1>1, <1>2, <1>3, <1>4, <1>5, <1>6 DEF Next, WorkerStep, FlushStep, LifeStep

THEOREM ViewHeldOnce == ASSUME "dbReplyLost" \notin Faults PROVE Spec => []HeldOnce
<1> USE CounterAssumption
<1>1. Init => HeldOnce
  BY DEF Init, HeldOnce
<1>2. TypeOK /\ QueuedOnce /\ HeldOnce /\ [Next]_vars => HeldOnce'
  <2> SUFFICES ASSUME TypeOK, QueuedOnce, HeldOnce, [Next]_vars PROVE HeldOnce'
    OBVIOUS
  <2>1. CASE UNCHANGED HeldVars
    BY <2>1 DEF HeldOnce, HeldVars
  <2>2. ASSUME NEW w \in Workers, Script(w) \/ ScriptErr(w) PROVE HeldOnce'
    <3>1. UNCHANGED <<deltas, written>>
      BY <2>2 DEF Script, ScriptErr, flushVars
    <3>2. CASE UNCHANGED <<inRedis, seen, counted>>
      BY <3>1, <3>2, <2>1 DEF HeldVars
    <3>3. CASE CountIt(ev[w])
      <4>1. ev[w] \in Views /\ ev[w] \notin counted
        BY <2>2 DEF Script, ScriptErr, TypeOK, QueuedOnce, InScript
      <4>2. written[ev[w]] = 0 /\ \A i \in Instances : ev[w] \notin deltas[i]
        BY <4>1 DEF HeldOnce, TypeOK
      <4>3. inRedis' = inRedis \cup {ev[w]} /\ counted' = counted \cup {ev[w]}
        BY <3>3 DEF CountIt
      <4> QED
        BY <3>1, <4>1, <4>2, <4>3 DEF HeldOnce
    <3> QED
      BY <2>2, <3>2, <3>3 DEF Script, ScriptErr
  <2>3. ASSUME NEW i \in Instances, NEW l \in Links, GetDel(i, l) PROVE HeldOnce'
    <3>1. /\ inRedis' = inRedis \ ViewsOf(l)
          /\ deltas' = [deltas EXCEPT ![i] = @ \cup (inRedis \cap ViewsOf(l))]
          /\ UNCHANGED <<written, counted>>
      BY <2>3 DEF GetDel, Reset, others, historyVars
    <3> QED
      BY <3>1 DEF HeldOnce, TypeOK
  <2>4. ASSUME NEW i \in Instances, NEW l \in Links, GetDelErr(i, l) PROVE HeldOnce'
    <3>1. inRedis' \subseteq inRedis /\ UNCHANGED <<deltas, written, counted>>
      BY <2>4 DEF GetDelErr, Reset, others, historyVars
    <3> QED
      BY <3>1 DEF HeldOnce
  <2>5. ASSUME NEW i \in Instances, WriteOk(i) \/ WriteAborted(i) PROVE HeldOnce'
    <3>1. /\ deltas' = [deltas EXCEPT ![i] = {}]
          /\ UNCHANGED <<inRedis, counted>>
      BY <2>5 DEF WriteOk, WriteAborted, redisVars, historyVars
    <3>2. \/ written' = written
          \/ written' = [v \in Views |-> IF v \in deltas[i] THEN written[v] + 1 ELSE written[v]]
      BY <2>5 DEF WriteOk, WriteAborted, AddViews
    <3>3. \A v \in Views : written'[v] = written[v] \/ (v \in deltas[i] /\ written'[v] = 1)
      BY <3>2 DEF HeldOnce, TypeOK
    <3> QED
      BY <3>1, <3>3 DEF HeldOnce, TypeOK
  <2>6. ASSUME NEW i \in Instances, WriteErr(i) PROVE UNCHANGED HeldVars
    BY <2>6 DEF WriteErr, May, HeldVars, redisVars, historyVars
  <2>7. ASSUME NEW i \in Instances, NEW l \in Links, RestoreIncr(i, l) PROVE HeldOnce'
    <3>1. /\ inRedis' = inRedis \cup (deltas[i] \cap ViewsOf(l))
          /\ deltas' = [deltas EXCEPT ![i] = @ \ ViewsOf(l)]
          /\ UNCHANGED <<written, counted>>
      BY <2>7 DEF RestoreIncr, PutBack, others, historyVars
    <3> QED
      BY <3>1 DEF HeldOnce, TypeOK
  <2>8. ASSUME NEW i \in Instances, RestoreErr(i) \/ Crash(i) \/ Start(i) PROVE HeldOnce'
    <3>1. deltas' = [deltas EXCEPT ![i] = {}] /\ UNCHANGED <<inRedis, written, counted>>
      BY <2>8 DEF RestoreErr, Crash, Start, Fresh, others, redisVars, historyVars
    <3> QED
      BY <3>1 DEF HeldOnce, TypeOK
  <2> QED
    BY <2>1, <2>2, <2>3, <2>4, <2>5, <2>6, <2>7, <2>8, HeldSteps
<1> QED
  BY <1>1, <1>2, TypeCorrect, ViewQueuedOnce, PTL DEF Spec

(* No view is added to view_count twice.                                     *)
THEOREM NeverCountedTwice == ASSUME "dbReplyLost" \notin Faults PROVE Spec => []NoDoubleCount
<1>1. HeldOnce => NoDoubleCount
  BY DEF HeldOnce, NoDoubleCount
<1> QED
  BY <1>1, ViewHeldOnce, PTL

(* The counter implements ViewLedger: whatever the interleaving, the faults, *)
(* the stops and the restarts, a view is counted once and persisted once.    *)
THEOREM ImplementsLedger == ASSUME "dbReplyLost" \notin Faults PROVE Spec => LedgerSpec
<1> USE CounterAssumption
<1>1. Init => Ledger!LedgerInit
  BY DEF Init, Ledger!LedgerInit
<1>2. TypeOK /\ QueuedOnce /\ HeldOnce /\ [Next]_vars => [Ledger!LedgerNext]_(Ledger!ledgerVars)
  <2> SUFFICES ASSUME TypeOK, QueuedOnce, HeldOnce, [Next]_vars
               PROVE  Ledger!LedgerNext \/ UNCHANGED <<counted, written>>
    BY DEF Ledger!ledgerVars
  <2>1. ASSUME NEW w \in Workers, Script(w) \/ ScriptErr(w)
        PROVE  Ledger!LedgerNext \/ UNCHANGED <<counted, written>>
    <3>1. ev[w] \in Views /\ ev[w] \notin counted /\ UNCHANGED written
      BY <2>1 DEF Script, ScriptErr, TypeOK, QueuedOnce, InScript
    <3>2. counted' = counted \/ counted' = counted \cup {ev[w]}
      BY <2>1 DEF Script, ScriptErr, CountIt
    <3> QED
      BY <3>1, <3>2 DEF Ledger!LedgerNext, Ledger!Count
  <2>2. ASSUME NEW i \in Instances, WriteOk(i) \/ WriteAborted(i)
        PROVE  Ledger!LedgerNext \/ UNCHANGED <<counted, written>>
    <3>1. UNCHANGED counted /\ (written' = written \/ AddViews(i))
      BY <2>2 DEF WriteOk, WriteAborted, historyVars
    <3>2. CASE AddViews(i) /\ deltas[i] # {}
      <4>1. /\ deltas[i] \in SUBSET Views
            /\ \A v \in deltas[i] : v \in counted /\ written[v] = 0
        BY DEF HeldOnce, TypeOK
      <4>2. written' = [v \in Views |-> IF v \in deltas[i] THEN 1 ELSE written[v]]
        BY <3>2, <4>1 DEF AddViews, TypeOK
      <4>3. Ledger!Persist(deltas[i])
        BY <3>1, <3>2, <4>1, <4>2 DEF Ledger!Persist
      <4> QED
        BY <4>1, <4>3 DEF Ledger!LedgerNext
    <3>3. CASE AddViews(i) /\ deltas[i] = {}
      BY <3>1, <3>3 DEF AddViews, TypeOK
    <3> QED
      BY <3>1, <3>2, <3>3
  <2>3. ASSUME NEW i \in Instances, WriteErr(i) PROVE UNCHANGED <<counted, written>>
    BY <2>3 DEF WriteErr, May, historyVars
  <2>4. ASSUME NEW i \in Instances,
               \/ Tick(i) \/ FlusherExit(i) \/ Pop(i) \/ PopErr(i) \/ GetDelDone(i) \/ ReAdd(i)
               \/ RestoreMark(i) \/ RestoreDone(i) \/ RestoreErr(i) \/ LifeStep(i)
               \/ \E l \in Links : GetDel(i, l) \/ GetDelErr(i, l) \/ RestoreIncr(i, l)
        PROVE  UNCHANGED <<counted, written>>
    <3> USE DEF others, historyVars
    <3>1. CASE Tick(i) \/ FlusherExit(i) \/ Pop(i) \/ PopErr(i) \/ GetDelDone(i) \/ ReAdd(i)
      BY <3>1 DEF Tick, FlusherExit, Pop, PopErr, GetDelDone, ReAdd
    <3>2. CASE RestoreMark(i) \/ RestoreDone(i) \/ RestoreErr(i)
      BY <3>2 DEF RestoreMark, RestoreDone, RestoreErr
    <3>3. CASE \E l \in Links : GetDel(i, l) \/ GetDelErr(i, l) \/ RestoreIncr(i, l)
      BY <3>3 DEF GetDel, GetDelErr, RestoreIncr
    <3>4. CASE LifeStep(i)
      BY <3>4 DEF LifeStep, Shutdown, FinalFlush, FinalTimeout, Stopped, Crash, Start
    <3> QED
      BY <2>4, <3>1, <3>2, <3>3, <3>4
  <2>5. ASSUME NEW w \in Workers, Take(w) \/ WorkerExit(w) \/ MarkDirty(w)
        PROVE  UNCHANGED <<counted, written>>
    BY <2>5 DEF Take, WorkerExit, MarkDirty, historyVars
  <2>6. ASSUME NEW i \in Instances, NEW v \in Views, Track(i, v)
        PROVE  UNCHANGED <<counted, written>>
    BY <2>6 DEF Track
  <2>7. ASSUME NEW k \in Links \X Visitors, ExpireSeen(k) PROVE UNCHANGED <<counted, written>>
    BY <2>7 DEF ExpireSeen, historyVars
  <2>8. UNCHANGED vars => UNCHANGED <<counted, written>>
    BY DEF vars, historyVars
  <2> QED
    BY <2>1, <2>2, <2>3, <2>4, <2>5, <2>6, <2>7, <2>8 DEF Next, WorkerStep, FlushStep
<1> QED
  BY <1>1, <1>2, TypeCorrect, ViewQueuedOnce, ViewHeldOnce, PTL DEF Spec, LedgerSpec, Ledger!LedgerSpec

-----------------------------------------------------------------------------
(* Lemma: a process that is gone has no flush under way.                     *)
GoneIsIdle == \A i \in Instances : ~Running(i) => fpc[i] \in {"wait", "exited"}

LEMMA NoFlushAfterDeath == Spec => []GoneIsIdle
<1> USE CounterAssumption
<1>1. Init => GoneIsIdle
  BY DEF Init, GoneIsIdle
<1>2. TypeOK /\ GoneIsIdle /\ [Next]_vars => GoneIsIdle'
  <2> SUFFICES ASSUME TypeOK, GoneIsIdle, [Next]_vars PROVE GoneIsIdle'
    OBVIOUS
  <2> USE DEF GoneIsIdle, Running, TypeOK
  <2>1. CASE UNCHANGED <<phase, fpc>>
    BY <2>1
  <2>2. ASSUME NEW i \in Instances, FlushStep(i) PROVE GoneIsIdle'
    <3>1. UNCHANGED phase /\ \A j \in Instances : j # i => fpc'[j] = fpc[j]
      <4> USE DEF To, others
      <4>1. CASE Tick(i) \/ FlusherExit(i) \/ Pop(i) \/ PopErr(i) \/ GetDelDone(i) \/ ReAdd(i)
        BY <4>1 DEF Tick, FlusherExit, Pop, PopErr, GetDelDone, ReAdd
      <4>2. CASE \E l \in Links : GetDel(i, l) \/ GetDelErr(i, l) \/ RestoreIncr(i, l)
        BY <4>2 DEF GetDel, GetDelErr, RestoreIncr
      <4>3. CASE WriteOk(i) \/ WriteErr(i) \/ WriteAborted(i)
        BY <4>3 DEF WriteOk, WriteErr, WriteAborted
      <4>4. CASE RestoreMark(i) \/ RestoreDone(i) \/ RestoreErr(i)
        BY <4>4 DEF RestoreMark, RestoreDone, RestoreErr
      <4> QED
        BY <2>2, <4>1, <4>2, <4>3, <4>4 DEF FlushStep
    <3>2. Running(i)
      BY <2>2 DEF FlushStep, Tick, FlusherExit, CtxDone, Pop, PopErr, GetDel, GetDelErr, GetDelDone,
                  ReAdd, WriteOk, WriteErr, WriteAborted, RestoreIncr, RestoreMark, RestoreDone,
                  RestoreErr
    <3> QED
      BY <3>1, <3>2
  <2>3. ASSUME NEW i \in Instances, Shutdown(i) \/ FinalFlush(i) \/ FinalTimeout(i) PROVE GoneIsIdle'
    BY <2>3 DEF Shutdown, FinalFlush, FinalTimeout, To
  <2>4. ASSUME NEW i \in Instances, Stopped(i) \/ Crash(i) \/ Start(i) PROVE GoneIsIdle'
    <3>1. \A j \in Instances : j # i => phase'[j] = phase[j] /\ fpc'[j] = fpc[j]
      BY <2>4 DEF Stopped, Crash, Start, Fresh, flushVars
    <3>2. fpc'[i] \in {"wait", "exited"}
      BY <2>4 DEF Stopped, Crash, Start, Fresh, flushVars
    <3> QED
      BY <3>1, <3>2
  <2>5. ASSUME NEW w \in Workers, WorkerStep(w) PROVE UNCHANGED <<phase, fpc>>
    BY <2>5 DEF WorkerStep, Take, WorkerExit, Script, ScriptErr, MarkDirty, flushVars
  <2>6. ASSUME NEW i \in Instances, NEW v \in Views, Track(i, v) PROVE UNCHANGED <<phase, fpc>>
    BY <2>6 DEF Track, flushVars
  <2>7. ASSUME NEW k \in Links \X Visitors, ExpireSeen(k) PROVE UNCHANGED <<phase, fpc>>
    BY <2>7 DEF ExpireSeen, flushVars
  <2>8. UNCHANGED vars => UNCHANGED <<phase, fpc>>
    BY DEF vars, flushVars
  <2> QED
    BY <2>1, <2>2, <2>3, <2>4, <2>5, <2>6, <2>7, <2>8 DEF Next, LifeStep
<1> QED
  BY <1>1, <1>2, TypeCorrect, PTL DEF Spec

(* Whatever fails: a flush has views in its hands only between its GETDELs   *)
(* and the end of its restore, so that a start, a stop or an exit of the     *)
(* flusher finds none to lose.                                               *)
EmptyHands ==
  \A i \in Instances :
    deltas[i] # {} => fpc[i] \in {"getdel", "readd", "write", "restore", "remark", "incr"}

LEMMA HandsEmptyOutside == Spec => []EmptyHands
<1> USE CounterAssumption
<1>1. Init => EmptyHands
  BY DEF Init, EmptyHands
<1>2. TypeOK /\ EmptyHands /\ [Next]_vars => EmptyHands'
  <2> SUFFICES ASSUME TypeOK, EmptyHands, [Next]_vars PROVE EmptyHands'
    OBVIOUS
  <2> USE DEF EmptyHands, To, AfterGetDel
  <2>1. CASE UNCHANGED <<deltas, fpc>>
    BY <2>1
  <2>2. ASSUME NEW i \in Instances, Tick(i) \/ FlusherExit(i) \/ Pop(i) \/ PopErr(i)
        PROVE  EmptyHands'
    <3>1. deltas[i] = {} /\ UNCHANGED deltas
      BY <2>2 DEF Tick, FlusherExit, Pop, PopErr
    <3>2. \A j \in Instances : j # i => fpc'[j] = fpc[j]
      BY <2>2 DEF Tick, FlusherExit, Pop, PopErr, TypeOK
    <3> QED
      BY <3>1, <3>2
  <2>3. ASSUME NEW i \in Instances, NEW l \in Links, GetDel(i, l) \/ GetDelErr(i, l)
        PROVE  EmptyHands'
    <3>1. fpc[i] = "getdel" /\ UNCHANGED fpc
      BY <2>3 DEF GetDel, GetDelErr
    <3>2. \A j \in Instances : j # i => deltas'[j] = deltas[j]
      BY <2>3 DEF GetDel, GetDelErr, TypeOK
    <3> QED
      BY <3>1, <3>2
  <2>4. ASSUME NEW i \in Instances, GetDelDone(i) \/ ReAdd(i) PROVE EmptyHands'
    <3>1. /\ UNCHANGED deltas
          /\ \A j \in Instances : j # i => fpc'[j] = fpc[j]
          /\ deltas[i] # {} => fpc'[i] \in {"readd", "write"}
      BY <2>4 DEF GetDelDone, ReAdd, TypeOK
    <3> QED
      BY <3>1
  <2>5. ASSUME NEW i \in Instances, WriteErr(i) \/ RestoreMark(i) PROVE EmptyHands'
    <3>1. /\ UNCHANGED deltas
          /\ \A j \in Instances : j # i => fpc'[j] = fpc[j]
          /\ fpc'[i] \in {"restore", "incr"}
      BY <2>5 DEF WriteErr, RestoreMark, TypeOK
    <3> QED
      BY <3>1
  <2>6. ASSUME NEW i \in Instances, NEW l \in Links, RestoreIncr(i, l) PROVE EmptyHands'
    <3>1. /\ \A j \in Instances : j # i => fpc'[j] = fpc[j] /\ deltas'[j] = deltas[j]
          /\ fpc'[i] = "remark"
      BY <2>6 DEF RestoreIncr, TypeOK
    <3> QED
      BY <3>1
  <2>7. ASSUME NEW i \in Instances,
               WriteOk(i) \/ WriteAborted(i) \/ RestoreDone(i) \/ RestoreErr(i)
        PROVE  EmptyHands'
    <3>1. /\ \A j \in Instances : j # i => fpc'[j] = fpc[j] /\ deltas'[j] = deltas[j]
          /\ deltas'[i] = {}
      BY <2>7 DEF WriteOk, WriteAborted, RestoreDone, RestoreErr, TypeOK
    <3> QED
      BY <3>1
  <2>8. ASSUME NEW i \in Instances, Shutdown(i) \/ FinalTimeout(i) \/ Stopped(i)
        PROVE  UNCHANGED <<deltas, fpc>>
    BY <2>8 DEF Shutdown, FinalTimeout, Stopped, flushVars
  <2>9. ASSUME NEW i \in Instances, FinalFlush(i) PROVE EmptyHands'
    <3>1. /\ deltas[i] = {} /\ UNCHANGED deltas
          /\ \A j \in Instances : j # i => fpc'[j] = fpc[j]
      BY <2>9 DEF FinalFlush, TypeOK
    <3> QED
      BY <3>1
  <2>10. ASSUME NEW i \in Instances, Crash(i) \/ Start(i) PROVE EmptyHands'
    <3>1. /\ \A j \in Instances : j # i => fpc'[j] = fpc[j] /\ deltas'[j] = deltas[j]
          /\ deltas'[i] = {}
      BY <2>10 DEF Crash, Start, Fresh, TypeOK
    <3> QED
      BY <3>1
  <2>11. ASSUME NEW w \in Workers, WorkerStep(w) PROVE UNCHANGED <<deltas, fpc>>
    BY <2>11 DEF WorkerStep, Take, WorkerExit, Script, ScriptErr, MarkDirty, flushVars
  <2>12. ASSUME NEW i \in Instances, NEW v \in Views, Track(i, v) PROVE UNCHANGED <<deltas, fpc>>
    BY <2>12 DEF Track, flushVars
  <2>13. ASSUME NEW k \in Links \X Visitors, ExpireSeen(k) PROVE UNCHANGED <<deltas, fpc>>
    BY <2>13 DEF ExpireSeen, flushVars
  <2>14. UNCHANGED vars => UNCHANGED <<deltas, fpc>>
    BY DEF vars, flushVars
  <2> QED
    BY <2>1, <2>2, <2>3, <2>4, <2>5, <2>6, <2>7, <2>8, <2>9, <2>10, <2>11, <2>12, <2>13, <2>14
       DEF Next, FlushStep, LifeStep
<1> QED
  BY <1>1, <1>2, TypeCorrect, PTL DEF Spec

(* Whatever fails, a commit that looks like a failure included, a view is    *)
(* counted before it is held, and held in one place: in Redis or by one      *)
(* flush of one instance.                                                    *)
OnePlace ==
  /\ inRedis \subseteq counted
  /\ \A i \in Instances : deltas[i] \subseteq counted \ inRedis
  /\ \A i, j \in Instances : i # j => deltas[i] \cap deltas[j] = {}

THEOREM HeldInOnePlace == Spec => []OnePlace
<1> USE CounterAssumption
<1>1. Init => OnePlace
  BY DEF Init, OnePlace
<1>2. TypeOK /\ QueuedOnce /\ OnePlace /\ [Next]_vars => OnePlace'
  <2> SUFFICES ASSUME TypeOK, QueuedOnce, OnePlace, [Next]_vars PROVE OnePlace'
    OBVIOUS
  <2>1. CASE UNCHANGED <<inRedis, deltas, counted>>
    BY <2>1 DEF OnePlace
  <2>2. ASSUME NEW w \in Workers, Script(w) \/ ScriptErr(w) PROVE OnePlace'
    <3>1. UNCHANGED deltas
      BY <2>2 DEF Script, ScriptErr, flushVars
    <3>2. CASE CountIt(ev[w])
      <4>1. ev[w] \in Views /\ ev[w] \notin counted
        BY <2>2 DEF Script, ScriptErr, TypeOK, QueuedOnce, InScript
      <4>2. inRedis' = inRedis \cup {ev[w]} /\ counted' = counted \cup {ev[w]}
        BY <3>2 DEF CountIt
      <4> QED
        BY <3>1, <4>1, <4>2 DEF OnePlace
    <3> QED
      BY <2>1, <2>2, <3>1, <3>2 DEF Script, ScriptErr
  <2>3. ASSUME NEW i \in Instances, NEW l \in Links, GetDel(i, l) PROVE OnePlace'
    <3>1. /\ inRedis' = inRedis \ ViewsOf(l)
          /\ deltas' = [deltas EXCEPT ![i] = @ \cup (inRedis \cap ViewsOf(l))]
          /\ UNCHANGED counted
      BY <2>3 DEF GetDel, Reset, others, historyVars
    <3> QED
      BY <3>1 DEF OnePlace, TypeOK
  <2>4. ASSUME NEW i \in Instances, NEW l \in Links, GetDelErr(i, l) PROVE OnePlace'
    <3>1. inRedis' \subseteq inRedis /\ UNCHANGED <<deltas, counted>>
      BY <2>4 DEF GetDelErr, Reset, others, historyVars
    <3> QED
      BY <3>1 DEF OnePlace
  <2>5. ASSUME NEW i \in Instances, NEW l \in Links, RestoreIncr(i, l) PROVE OnePlace'
    <3>1. /\ inRedis' = inRedis \cup (deltas[i] \cap ViewsOf(l))
          /\ deltas' = [deltas EXCEPT ![i] = @ \ ViewsOf(l)]
          /\ UNCHANGED counted
      BY <2>5 DEF RestoreIncr, PutBack, others, historyVars
    <3> QED
      BY <3>1 DEF OnePlace, TypeOK
  <2>6. ASSUME NEW i \in Instances,
               WriteOk(i) \/ WriteAborted(i) \/ RestoreErr(i) \/ Crash(i) \/ Start(i)
        PROVE  OnePlace'
    <3>1. deltas' = [deltas EXCEPT ![i] = {}] /\ UNCHANGED <<inRedis, counted>>
      BY <2>6 DEF WriteOk, WriteAborted, RestoreErr, Crash, Start, Fresh, others, redisVars, historyVars
    <3> QED
      BY <3>1 DEF OnePlace, TypeOK
  <2>7. ASSUME NEW i \in Instances, WriteErr(i) PROVE UNCHANGED <<inRedis, deltas, counted>>
    BY <2>7 DEF WriteErr, redisVars, historyVars
  <2> QED
    BY <2>1, <2>2, <2>3, <2>4, <2>5, <2>6, <2>7, HeldSteps DEF HeldVars
<1> QED
  BY <1>1, <1>2, TypeCorrect, ViewQueuedOnce, PTL DEF Spec

(* Every step of every instance accounts for every view, under all faults:   *)
(* the ways a view can be lost or added again are those the law names.       *)
THEOREM EveryViewAccounted == Spec => ViewsAccounted
<1> USE CounterAssumption
<1>1. TypeOK /\ QueuedOnce /\ GoneIsIdle /\ EmptyHands /\ OnePlace /\ [Next]_vars
        => [\A v \in Views : Accounted(v)]_vars
  <2> SUFFICES ASSUME TypeOK, QueuedOnce, GoneIsIdle, EmptyHands, OnePlace, [Next]_vars,
                      NEW v \in Views
               PROVE  Accounted(v)
    OBVIOUS
  <2>1. CASE UNCHANGED HeldVars
    BY <2>1 DEF Accounted, InHand, HeldVars
  <2>2. ASSUME NEW w \in Workers, Script(w) \/ ScriptErr(w) PROVE Accounted(v)
    <3>1. UNCHANGED <<deltas, written>>
      BY <2>2 DEF Script, ScriptErr, flushVars
    <3>2. CASE CountIt(ev[w])
      <4>1. ev[w] \notin counted
        BY <2>2 DEF Script, ScriptErr, TypeOK, QueuedOnce, InScript
      <4>2. inRedis' = inRedis \cup {ev[w]} /\ counted' = counted \cup {ev[w]}
        BY <3>2 DEF CountIt
      <4> QED
        BY <3>1, <4>1, <4>2 DEF Accounted, InHand
    <3> QED
      BY <2>1, <2>2, <3>1, <3>2 DEF Script, ScriptErr, HeldVars
  <2>3. ASSUME NEW i \in Instances, NEW l \in Links, GetDel(i, l) PROVE Accounted(v)
    <3>1. /\ inRedis' = inRedis \ ViewsOf(l)
          /\ deltas' = [deltas EXCEPT ![i] = @ \cup (inRedis \cap ViewsOf(l))]
          /\ UNCHANGED written
      BY <2>3 DEF GetDel, Reset, others
    <3>2. InHand(v)' <=> InHand(v)
      BY <3>1 DEF InHand, TypeOK
    <3> QED
      BY <3>1, <3>2 DEF Accounted
  <2>4. ASSUME NEW i \in Instances, NEW l \in Links, GetDelErr(i, l) PROVE Accounted(v)
    <3>1. UNCHANGED <<deltas, written>> /\ fpc[i] = "getdel" /\ l \in todo[i]
      BY <2>4 DEF GetDelErr, others
    <3>2. \/ UNCHANGED inRedis
          \/ inRedis' = inRedis \ ViewsOf(l) /\ May("redisReplyLost")
      BY <2>4 DEF GetDelErr, Reset
    <3>3. InHand(v) /\ ~InHand(v)' => MayGetLost(v)
      BY <3>1, <3>2 DEF InHand, MayGetLost, ViewsOf
    <3>4. InHand(v)' => InHand(v)
      BY <3>1, <3>2 DEF InHand
    <3> QED
      BY <3>1, <3>3, <3>4 DEF Accounted
  <2>5. ASSUME NEW i \in Instances, NEW l \in Links, RestoreIncr(i, l) PROVE Accounted(v)
    <3>1. /\ inRedis' = inRedis \cup (deltas[i] \cap ViewsOf(l))
          /\ deltas' = [deltas EXCEPT ![i] = @ \ ViewsOf(l)]
          /\ UNCHANGED written
      BY <2>5 DEF RestoreIncr, PutBack, others
    <3>2. InHand(v)' <=> InHand(v)
      BY <3>1 DEF InHand, TypeOK
    <3> QED
      BY <3>1, <3>2 DEF Accounted
  <2>6. ASSUME NEW i \in Instances, WriteOk(i) \/ WriteAborted(i) PROVE Accounted(v)
    <3>1. deltas' = [deltas EXCEPT ![i] = {}] /\ UNCHANGED inRedis
      BY <2>6 DEF WriteOk, WriteAborted, redisVars
    <3>2. InHand(v)' <=> InHand(v) /\ v \notin deltas[i]
      BY <3>1 DEF InHand, OnePlace, TypeOK
    <3>3. CASE AddViews(i)
      <4>1. written'[v] = IF v \in deltas[i] THEN written[v] + 1 ELSE written[v]
        BY <3>3 DEF AddViews
      <4>2. written[v] \in Nat
        BY DEF TypeOK
      <4>3. v \in deltas[i] => InHand(v)
        BY DEF InHand
      <4> QED
        BY <3>2, <4>1, <4>2, <4>3 DEF Accounted
    <3>4. CASE WriteAborted(i) /\ UNCHANGED written
      <4>1. v \in deltas[i] => MayGetLost(v)
        BY <3>4 DEF WriteAborted, MayGetLost, GivesUp
      <4> QED
        BY <3>2, <3>4, <4>1 DEF Accounted
    <3> QED
      BY <2>6, <3>3, <3>4 DEF WriteOk, WriteAborted
  <2>7. ASSUME NEW i \in Instances, WriteErr(i) PROVE Accounted(v)
    <3>1. UNCHANGED <<inRedis, deltas>>
      BY <2>7 DEF WriteErr, redisVars
    <3>2. InHand(v)' <=> InHand(v)
      BY <3>1 DEF InHand
    <3>3. written' = written \/ (May("dbReplyLost") /\ AddViews(i))
      BY <2>7 DEF WriteErr
    <3>4. CASE AddViews(i) /\ May("dbReplyLost")
      <4>1. written'[v] = IF v \in deltas[i] THEN written[v] + 1 ELSE written[v]
        BY <3>4 DEF AddViews
      <4>2. v \in deltas[i] => InHand(v)
        BY DEF InHand
      <4> QED
        BY <3>2, <3>4, <4>1, <4>2 DEF Accounted
    <3> QED
      BY <3>2, <3>3, <3>4 DEF Accounted
  <2>8. ASSUME NEW i \in Instances, RestoreErr(i) \/ Crash(i) \/ Start(i) PROVE Accounted(v)
    <3>1. deltas' = [deltas EXCEPT ![i] = {}] /\ UNCHANGED <<inRedis, written>>
      BY <2>8 DEF RestoreErr, Crash, Start, Fresh, others, redisVars
    <3>2. InHand(v)' <=> InHand(v) /\ v \notin deltas[i]
      BY <3>1 DEF InHand, OnePlace, TypeOK
    <3>3. ASSUME v \in deltas[i] PROVE MayGetLost(v)
      <4>1. RestoreErr(i) => GivesUp(i)
        BY DEF RestoreErr, GivesUp, Sent
      <4>2. Crash(i) => GivesUp(i)
        BY DEF Crash, GivesUp, TypeOK
      <4>3. ~Start(i)
        BY <3>3 DEF EmptyHands, GoneIsIdle, Start
      <4> QED
        BY <2>8, <3>3, <4>1, <4>2, <4>3 DEF MayGetLost
    <3> QED
      BY <3>1, <3>2, <3>3 DEF Accounted
  <2> QED
    BY <2>1, <2>2, <2>3, <2>4, <2>5, <2>6, <2>7, <2>8, HeldSteps
<1> QED
  BY <1>1, TypeCorrect, ViewQueuedOnce, NoFlushAfterDeath, HandsEmptyOutside, HeldInOnePlace, PTL
     DEF Spec, ViewsAccounted

-----------------------------------------------------------------------------
(* The graceful stop, whatever fails.  Once the context of the run is        *)
(* cancelled and no handler outlives Shutdown, a worker has only so many     *)
(* steps left before it exits, and nothing anyone does adds to them: the     *)
(* drain comes to an end.                                                    *)
WorkLeft(w) ==
  4 * Len(events[Home[w]]) + (CASE wpc[w] = "exited" -> 0 [] wpc[w] = "select" -> 1
                                [] wpc[w] = "mark"   -> 2 [] wpc[w] = "script" -> 3)
Drains(w) ==
  phase[Home[w]] = "draining" /\ phase'[Home[w]] = "draining" =>
    /\ WorkLeft(w)' <= WorkLeft(w)
    /\ WorkLeft(w)' < WorkLeft(w) \/ UNCHANGED <<wpc[w], ev[w]>>
DrainBounded == \A w \in Workers : WorkLeft(w) \in 0..(4 * EventBuffer + 3)


THEOREM DrainEnds ==
  ASSUME "shutdownTimeout" \notin Faults PROVE Spec => [][\A w \in Workers : Drains(w)]_vars
<1> USE CounterAssumption
<1>1. ASSUME TypeOK, [Next]_vars, NEW w \in Workers PROVE Drains(w)
  <2> SUFFICES ASSUME phase[Home[w]] = "draining", phase'[Home[w]] = "draining"
               PROVE  /\ WorkLeft(w)' <= WorkLeft(w)
                      /\ WorkLeft(w)' < WorkLeft(w) \/ UNCHANGED <<wpc[w], ev[w]>>
    BY DEF Drains
  <2> DEFINE h == Home[w]
  <2>1. /\ h \in Instances /\ events[h] \in Seq(Views) /\ Len(events[h]) \in Nat
        /\ wpc[w] \in {"select", "script", "mark", "exited"}
    BY <1>1 DEF TypeOK
  <2>2. CASE UNCHANGED <<events[h], wpc[w], ev[w]>>
    BY <2>1, <2>2 DEF WorkLeft
  <2>3. ASSUME NEW i \in Instances, NEW v \in Views, Track(i, v)
        PROVE  UNCHANGED <<events[h], wpc[w], ev[w]>>
    <3>1. h # i
      BY <2>3 DEF Track, Handling, May
    <3> QED
      BY <1>1, <2>1, <2>3, <3>1 DEF Track, workerVars, TypeOK
  <2>4. ASSUME NEW x \in Workers, Take(x) PROVE Drains(w)
    <3>1. Home[x] \in Instances /\ events[Home[x]] \in Seq(Views) /\ events[Home[x]] # <<>>
      BY <1>1, <2>4 DEF Take, TypeOK
    <3>2. Len(Tail(events[Home[x]])) = Len(events[Home[x]]) - 1
      BY <3>1
    <3>3. /\ Home[x] # h => events'[h] = events[h]
          /\ Home[x] = h => Len(events'[h]) = Len(events[h]) - 1
      BY <1>1, <2>1, <2>4, <3>1, <3>2 DEF Take, TypeOK
    <3>4. x # w => UNCHANGED <<wpc[w], ev[w]>>
      BY <1>1, <2>4 DEF Take, TypeOK
    <3>5. x = w => wpc[w] = "select" /\ wpc'[w] = "script"
      BY <1>1, <2>4 DEF Take, TypeOK
    <3> QED
      BY <2>1, <3>3, <3>4, <3>5 DEF WorkLeft, Drains
  <2>5. ASSUME NEW x \in Workers, WorkerExit(x) \/ Script(x) \/ ScriptErr(x) \/ MarkDirty(x)
        PROVE  Drains(w)
    <3>1. UNCHANGED events
      BY <2>5 DEF WorkerExit, Script, ScriptErr, MarkDirty
    <3>2. x # w => UNCHANGED <<wpc[w], ev[w]>>
      BY <1>1, <2>5 DEF WorkerExit, Script, ScriptErr, MarkDirty, Idle, TypeOK
    <3>3. x = w => \/ wpc[w] = "select" /\ wpc'[w] = "exited"
                   \/ wpc[w] = "script" /\ wpc'[w] \in {"select", "mark"}
                   \/ wpc[w] = "mark" /\ wpc'[w] = "select"
      BY <1>1, <2>5 DEF WorkerExit, Script, ScriptErr, MarkDirty, Idle, TypeOK
    <3> QED
      BY <2>1, <3>1, <3>2, <3>3 DEF WorkLeft, Drains
  <2>6. ASSUME NEW i \in Instances, Crash(i) \/ Start(i)
        PROVE  UNCHANGED <<events[h], wpc[w], ev[w]>>
    <3>1. h # i
      BY <1>1, <2>1, <2>6 DEF Crash, Start, TypeOK
    <3> QED
      BY <1>1, <2>1, <2>6, <3>1 DEF Crash, Start, Fresh, TypeOK
  <2>7. UNCHANGED PathVars => UNCHANGED <<events[h], wpc[w], ev[w]>>
    BY DEF PathVars, workerVars
  <2>8. ASSUME NEW i \in Instances, Shutdown(i) \/ FinalFlush(i) \/ FinalTimeout(i) \/ Stopped(i)
        PROVE  UNCHANGED <<events[h], wpc[w], ev[w]>>
    BY <2>8 DEF Shutdown, FinalFlush, FinalTimeout, Stopped, workerVars
  <2>9. ASSUME NEW k \in Links \X Visitors, ExpireSeen(k)
        PROVE  UNCHANGED <<events[h], wpc[w], ev[w]>>
    BY <2>9 DEF ExpireSeen, workerVars
  <2>10. UNCHANGED vars => UNCHANGED <<events[h], wpc[w], ev[w]>>
    BY DEF vars, workerVars
  <2> QED
    BY <1>1, <2>2, <2>3, <2>4, <2>5, <2>6, <2>7, <2>8, <2>9, <2>10, OffPath
       DEF Next, WorkerStep, LifeStep, Drains
<1>2. TypeOK /\ [Next]_vars => \A w \in Workers : Drains(w)
  BY <1>1
<1> QED
  BY <1>2, TypeCorrect, PTL DEF Spec

(* A worker that finds the context cancelled is at most that far from its    *)
(* exit: every event of a full channel, and the one in its hands.            *)
THEOREM DrainIsBounded == Spec => []DrainBounded
<1>1. TypeOK => DrainBounded
  BY CounterAssumption DEF TypeOK, DrainBounded, WorkLeft
<1> QED
  BY <1>1, TypeCorrect, PTL

(* A flush the cancellation cut short ends too.  The command in flight is    *)
(* answered at most once, those after it fail at once; a pipeline works off  *)
(* its links.  The flush so comes down in the lexicographic order of its     *)
(* stage and what the stage has left, until it waits for the next tick.      *)
Stage(i) ==
  CASE fpc[i] \in {"wait", "exited"}                                          -> 0
    [] fpc[i] = "pop" /\ ctx[i] # "done"                                      -> 6
    [] fpc[i] \notin {"wait", "exited", "pop"} /\ ctx[i] # "done"             -> 5
    [] fpc[i] = "getdel" /\ ctx[i] = "done"                                   -> 4
    [] fpc[i] = "readd" /\ ctx[i] = "done"                                    -> 3
    [] fpc[i] = "write" /\ ctx[i] = "done"                                    -> 2
    [] fpc[i] \in {"pop", "restore", "remark", "incr"} /\ ctx[i] = "done"     -> 1

Shrinks(S, T) == S \subseteq T /\ S # T
ComesDown(i) ==
  \/ Stage(i)' < Stage(i)
  \/ /\ Stage(i)' = Stage(i)
     /\ \/ Shrinks(todo'[i], todo[i])
        \/ todo'[i] = todo[i] /\ Shrinks(deltas'[i], deltas[i])
        \/ todo'[i] = todo[i] /\ deltas'[i] = deltas[i] /\ Shrinks(mark'[i], mark[i])
CutShort(i) ==
  (phase[i] = "draining" /\ phase'[i] = "draining" /\ fpc[i] \notin {"wait", "exited"}) =>
    \/ ComesDown(i)
    \/ UNCHANGED <<ctx[i], fpc[i], todo[i], mark[i], deltas[i]>>

(* No context is live while the workers drain, and what restore put back is  *)
(* still to be marked.                                                       *)
CutAtStop ==
  \A i \in Instances : /\ phase[i] = "draining" => ctx[i] # "live"
                       /\ fpc[i] = "remark" => mark[i] # {}

LEMMA CutByStop == Spec => []CutAtStop
<1> USE CounterAssumption
<1>1. Init => CutAtStop
  BY DEF Init, CutAtStop
<1>2. TypeOK /\ CutAtStop /\ [Next]_vars => CutAtStop'
  <2> SUFFICES ASSUME TypeOK, CutAtStop, [Next]_vars PROVE CutAtStop'
    OBVIOUS
  <2> USE DEF CutAtStop, To, Replied, FlushReturn, FlushAgain, AfterGetDel
  <2>1. CASE UNCHANGED <<phase, flushVars>>
    BY <2>1 DEF flushVars
  <2>2. ASSUME NEW i \in Instances, FlushStep(i)
        PROVE  /\ UNCHANGED phase
               /\ \A j \in Instances : j # i => /\ ctx'[j] = ctx[j] /\ fpc'[j] = fpc[j]
                                                /\ mark'[j] = mark[j]
               /\ ctx[i] # "live" => ctx'[i] # "live"
               /\ fpc'[i] = "remark" => mark'[i] # {}
    <3> USE <2>2 DEF others, TypeOK
    <3>1. CASE Tick(i) \/ FlusherExit(i) \/ Pop(i) \/ PopErr(i)
      BY <3>1 DEF Tick, FlusherExit, Pop, PopErr
    <3>2. CASE GetDelDone(i) \/ ReAdd(i)
      BY <3>2 DEF GetDelDone, ReAdd
    <3>3. CASE \E l \in Links : GetDel(i, l) \/ GetDelErr(i, l)
      BY <3>3 DEF GetDel, GetDelErr
    <3>4. CASE WriteOk(i) \/ WriteErr(i) \/ WriteAborted(i)
      BY <3>4 DEF WriteOk, WriteErr, WriteAborted
    <3>5. CASE \E l \in Links : RestoreIncr(i, l)
      BY <3>5 DEF RestoreIncr
    <3>6. CASE RestoreMark(i) \/ RestoreDone(i) \/ RestoreErr(i)
      BY <3>6 DEF RestoreMark, RestoreDone, RestoreErr
    <3> QED
      BY <3>1, <3>2, <3>3, <3>4, <3>5, <3>6 DEF FlushStep
  <2>3. ASSUME NEW i \in Instances, LifeStep(i)
        PROVE  /\ \A j \in Instances : j # i => /\ phase'[j] = phase[j] /\ ctx'[j] = ctx[j]
                                                /\ fpc'[j] = fpc[j] /\ mark'[j] = mark[j]
               /\ phase'[i] = "draining" => ctx'[i] # "live"
               /\ fpc'[i] = "remark" => fpc[i] = "remark" /\ mark'[i] = mark[i]
    <3> USE DEF TypeOK, flushVars
    <3>1. CASE Shutdown(i)
      BY <3>1 DEF Shutdown, Cancelled
    <3>2. CASE FinalFlush(i) \/ FinalTimeout(i) \/ Stopped(i)
      BY <3>2 DEF FinalFlush, FinalTimeout, Stopped
    <3>3. CASE Crash(i) \/ Start(i)
      BY <3>3 DEF Crash, Start, Fresh
    <3> QED
      BY <2>3, <3>1, <3>2, <3>3 DEF LifeStep
  <2>4. ASSUME NEW w \in Workers, WorkerStep(w) PROVE UNCHANGED <<phase, flushVars>>
    BY <2>4 DEF WorkerStep, Take, WorkerExit, Script, ScriptErr, MarkDirty
  <2>5. ASSUME NEW i \in Instances, NEW v \in Views, Track(i, v) PROVE UNCHANGED <<phase, flushVars>>
    BY <2>5 DEF Track
  <2>6. ASSUME NEW k \in Links \X Visitors, ExpireSeen(k) PROVE UNCHANGED <<phase, flushVars>>
    BY <2>6 DEF ExpireSeen
  <2>7. UNCHANGED vars => UNCHANGED <<phase, flushVars>>
    BY DEF vars
  <2>8. ASSUME NEW i \in Instances, FlushStep(i) PROVE CutAtStop'
    BY <2>2, <2>8
  <2>9. ASSUME NEW i \in Instances, LifeStep(i) PROVE CutAtStop'
    BY <2>3, <2>9
  <2> QED
    BY <2>1, <2>4, <2>5, <2>6, <2>7, <2>8, <2>9 DEF Next
<1> QED
  BY <1>1, <1>2, TypeCorrect, PTL DEF Spec

THEOREM CutFlushEnds == Spec => [][\A i \in Instances : CutShort(i)]_vars
<1> USE CounterAssumption
<1>1. ASSUME TypeOK, CutAtStop, [Next]_vars, NEW i \in Instances PROVE CutShort(i)
  <2> SUFFICES ASSUME phase[i] = "draining", phase'[i] = "draining", fpc[i] \notin {"wait", "exited"}
               PROVE  ComesDown(i) \/ UNCHANGED <<ctx[i], fpc[i], todo[i], mark[i], deltas[i]>>
    BY DEF CutShort
  <2> USE <1>1
  <2>1. /\ ctx[i] \in {"inflight", "done"} /\ fpc[i] \in FlushPcs
        /\ FlushReturn(i) = "wait" /\ FlushAgain(i) \in {"pop", "wait"}
    BY DEF CutAtStop, TypeOK, FlushReturn, FlushAgain
  <2>2. ASSUME Replied(i) PROVE ctx'[i] = "done"
    BY <2>1, <2>2 DEF Replied, TypeOK
  <2>3. ASSUME NEW pc, To(i, pc) PROVE fpc'[i] = pc
    BY <2>3 DEF To, TypeOK
  <2>4. CASE Tick(i) \/ FlusherExit(i)
    BY <2>4 DEF Tick, FlusherExit
  <2>5. CASE Pop(i) \/ PopErr(i)
    <3>1. fpc[i] = "pop" /\ ctx'[i] = "done" /\ (ctx[i] = "done" => PopErr(i))
      BY <2>2, <2>5 DEF Pop, PopErr, Sent
    <3>2. fpc'[i] \in {"wait", "getdel"} /\ (PopErr(i) => fpc'[i] = "wait")
      BY <2>1, <2>3, <2>5 DEF Pop, PopErr, To, TypeOK
    <3>3. fpc'[i] = "wait" \/ (ctx[i] # "done" /\ fpc'[i] = "getdel")
      BY <3>1, <3>2
    <3> QED
      BY <3>1, <3>3 DEF ComesDown, Stage
  <2>6. ASSUME NEW l \in Links, GetDel(i, l) \/ GetDelErr(i, l) PROVE ComesDown(i)
    <3>1. UNCHANGED <<fpc, ctx>> /\ l \in todo[i] /\ todo'[i] = todo[i] \ {l}
      BY <2>6 DEF GetDel, GetDelErr, TypeOK
    <3> QED
      BY <3>1 DEF ComesDown, Stage, Shrinks
  <2>7. CASE GetDelDone(i)
    <3>1. fpc[i] = "getdel" /\ ctx'[i] = "done" /\ fpc'[i] \in {"readd", "write", "pop", "wait"}
      BY <2>1, <2>2, <2>7 DEF GetDelDone, To, AfterGetDel, TypeOK
    <3> QED
      BY <2>1, <3>1 DEF ComesDown, Stage
  <2>8. CASE ReAdd(i)
    <3>1. fpc[i] = "readd" /\ ctx'[i] = "done" /\ fpc'[i] \in {"write", "pop", "wait"}
      BY <2>1, <2>2, <2>8 DEF ReAdd, To, AfterGetDel, TypeOK
    <3> QED
      BY <2>1, <3>1 DEF ComesDown, Stage
  <2>9. CASE WriteOk(i) \/ WriteErr(i) \/ WriteAborted(i)
    <3>1. fpc[i] = "write" /\ ctx'[i] = "done" /\ fpc'[i] \in {"pop", "wait"}
      BY <2>1, <2>2, <2>9 DEF WriteOk, WriteErr, WriteAborted, To, TypeOK
    <3> QED
      BY <2>1, <3>1 DEF ComesDown, Stage
  <2>10. ASSUME NEW l \in Links, RestoreIncr(i, l) PROVE ComesDown(i)
    <3>1. /\ UNCHANGED <<ctx, todo>> /\ fpc[i] \in {"restore", "incr"} /\ fpc'[i] = "remark"
          /\ ctx[i] = "inflight"
      BY <2>1, <2>3, <2>10 DEF RestoreIncr, Sent
    <3>2. Shrinks(deltas'[i], deltas[i])
      BY <2>10 DEF RestoreIncr, Shrinks, LinksOf, ViewsOf, TypeOK
    <3> QED
      BY <3>1, <3>2 DEF ComesDown, Stage
  <2>11. CASE RestoreMark(i)
    <3>1. /\ UNCHANGED <<ctx, todo, deltas>> /\ fpc[i] = "remark" /\ fpc'[i] = "incr"
          /\ ctx[i] = "inflight" /\ mark'[i] = {} /\ mark[i] # {}
      BY <2>1, <2>3, <2>11 DEF RestoreMark, Sent, CutAtStop, TypeOK
    <3> QED
      BY <3>1 DEF ComesDown, Stage, Shrinks
  <2>12. CASE RestoreDone(i) \/ RestoreErr(i)
    <3>1. fpc[i] \in {"restore", "remark", "incr"} /\ fpc'[i] = "wait"
      BY <2>1, <2>3, <2>12 DEF RestoreDone, RestoreErr
    <3> QED
      BY <2>1, <3>1 DEF ComesDown, Stage
  <2>13. ASSUME NEW j \in Instances, j # i, FlushStep(j) \/ LifeStep(j)
         PROVE  UNCHANGED <<ctx[i], fpc[i], todo[i], mark[i], deltas[i]>>
    <3> USE DEF TypeOK, To, Replied
    <3>1. CASE Tick(j) \/ FlusherExit(j) \/ Pop(j) \/ PopErr(j) \/ GetDelDone(j) \/ ReAdd(j)
      BY <2>13, <3>1 DEF Tick, FlusherExit, Pop, PopErr, GetDelDone, ReAdd
    <3>2. CASE \E l \in Links : GetDel(j, l) \/ GetDelErr(j, l) \/ RestoreIncr(j, l)
      BY <2>13, <3>2 DEF GetDel, GetDelErr, RestoreIncr
    <3>3. CASE WriteOk(j) \/ WriteErr(j) \/ WriteAborted(j)
      BY <2>13, <3>3 DEF WriteOk, WriteErr, WriteAborted
    <3>4. CASE RestoreMark(j) \/ RestoreDone(j) \/ RestoreErr(j)
      BY <2>13, <3>4 DEF RestoreMark, RestoreDone, RestoreErr
    <3>5. CASE LifeStep(j)
      BY <2>13, <3>5 DEF LifeStep, Shutdown, FinalFlush, FinalTimeout, Stopped, Crash, Start, Fresh,
                         flushVars
    <3> QED
      BY <2>13, <3>1, <3>2, <3>3, <3>4, <3>5 DEF FlushStep
  <2>14. LifeStep(i) => UNCHANGED flushVars
    BY DEF LifeStep, Shutdown, FinalFlush, FinalTimeout, Stopped, Crash, Start, Running, flushVars, TypeOK
  <2>15. ASSUME \/ \E w \in Workers : WorkerStep(w)
                \/ \E j \in Instances, v \in Views : Track(j, v)
                \/ \E k \in Links \X Visitors : ExpireSeen(k)
                \/ UNCHANGED vars
         PROVE  UNCHANGED flushVars
    BY <2>15 DEF WorkerStep, Take, WorkerExit, Script, ScriptErr, MarkDirty, Track, ExpireSeen, vars
  <2>16. UNCHANGED flushVars => UNCHANGED <<ctx[i], fpc[i], todo[i], mark[i], deltas[i]>>
    BY DEF flushVars
  <2>17. FlushStep(i) => ComesDown(i) \/ UNCHANGED <<ctx[i], fpc[i], todo[i], mark[i], deltas[i]>>
    BY <2>4, <2>5, <2>6, <2>7, <2>8, <2>9, <2>10, <2>11, <2>12 DEF FlushStep, Tick, FlusherExit
  <2> QED
    BY <2>13, <2>14, <2>15, <2>16, <2>17 DEF Next
<1>2. TypeOK /\ CutAtStop /\ [Next]_vars => \A i \in Instances : CutShort(i)
  BY <1>1
<1> QED
  BY <1>2, TypeCorrect, CutByStop, PTL DEF Spec

-----------------------------------------------------------------------------
(* While no process is stopped and Redis answers, nothing is lost: the       *)
(* database may fail, even after its commit, at any moment and any number of *)
(* times.                                                                    *)
DbFaultsOnly == Stops = {} /\ Faults \subseteq {"dbErr", "dbReplyLost"}

(* Then every process serves, no command finds its context done, and the     *)
(* lists of the flush are empty outside the steps that work them off.        *)
Steady ==
  \A i \in Instances :
     /\ phase[i] = "serving" /\ ctx[i] = "live"
     /\ fpc[i] # "getdel" => todo[i] = {}
     /\ fpc[i] # "remark" => mark[i] = {}

LEMMA OnlyDbFaults ==
  ASSUME DbFaultsOnly
  PROVE  /\ ~May("redisErr") /\ ~May("redisReplyLost") /\ ~May("crash")
         /\ ~May("finalTimeout") /\ ~May("shutdownTimeout")
  BY DEF DbFaultsOnly, May

LEMMA StaysSteady == ASSUME DbFaultsOnly PROVE Spec => []Steady
<1> USE CounterAssumption
<1>1. Init => Steady
  BY DEF Init, Steady
<1>2. TypeOK /\ Steady /\ [Next]_vars => Steady'
  <2> SUFFICES ASSUME TypeOK, Steady, [Next]_vars PROVE Steady'
    OBVIOUS
  <2> USE OnlyDbFaults DEF Steady, Sent, Replied, To, FlushReturn, FlushAgain, AfterGetDel
  <2>1. CASE UNCHANGED <<phase, flushVars>>
    BY <2>1 DEF flushVars
  <2>2. ASSUME NEW i \in Instances,
               Tick(i) \/ FlusherExit(i) \/ Pop(i) \/ PopErr(i) \/ GetDelDone(i) \/ ReAdd(i)
        PROVE  Steady'
    <3> USE DEF TypeOK, others
    <3>1. CASE Tick(i) \/ FlusherExit(i)
      BY <3>1 DEF Tick, FlusherExit
    <3>2. CASE Pop(i)
      <4>1. /\ UNCHANGED <<phase, mark>> /\ fpc[i] = "pop" /\ Replied(i)
            /\ \E ids : /\ todo' = [todo EXCEPT ![i] = ids]
                        /\ To(i, IF ids = {} THEN FlushReturn(i) ELSE "getdel")
        BY <3>2 DEF Pop
      <4> QED
        BY <4>1
    <3>3. CASE PopErr(i)
      BY <3>3 DEF PopErr
    <3>4. CASE GetDelDone(i)
      BY <3>4 DEF GetDelDone
    <3>5. CASE ReAdd(i)
      BY <3>5 DEF ReAdd
    <3> QED
      BY <2>2, <3>1, <3>2, <3>3, <3>4, <3>5
  <2>3. ASSUME NEW i \in Instances, NEW l \in Links,
               GetDel(i, l) \/ GetDelErr(i, l) \/ RestoreIncr(i, l)
        PROVE  Steady'
    <3> USE DEF TypeOK, others
    <3>1. CASE GetDel(i, l)
      BY <3>1 DEF GetDel
    <3>2. CASE GetDelErr(i, l)
      BY <3>2 DEF GetDelErr
    <3>3. CASE RestoreIncr(i, l)
      BY <3>3 DEF RestoreIncr
    <3> QED
      BY <2>3, <3>1, <3>2, <3>3
  <2>4. ASSUME NEW i \in Instances, WriteOk(i) \/ WriteErr(i) \/ WriteAborted(i) PROVE Steady'
    <3> USE DEF TypeOK
    <3>1. CASE WriteOk(i)
      BY <3>1 DEF WriteOk
    <3>2. CASE WriteErr(i)
      BY <3>2 DEF WriteErr
    <3>3. CASE WriteAborted(i)
      BY <3>3 DEF WriteAborted
    <3> QED
      BY <2>4, <3>1, <3>2, <3>3
  <2>5. ASSUME NEW i \in Instances, RestoreMark(i) \/ RestoreDone(i) \/ RestoreErr(i) PROVE Steady'
    <3> USE DEF TypeOK, others
    <3>1. CASE RestoreMark(i)
      BY <3>1 DEF RestoreMark
    <3>2. CASE RestoreDone(i)
      BY <3>2 DEF RestoreDone
    <3>3. CASE RestoreErr(i)
      BY <3>3 DEF RestoreErr
    <3> QED
      BY <2>5, <3>1, <3>2, <3>3
  <2>6. ASSUME NEW i \in Instances, LifeStep(i) PROVE FALSE
    BY <2>6 DEF LifeStep, Shutdown, FinalFlush, FinalTimeout, Stopped, Crash, Start, Running,
                DbFaultsOnly
  <2>7. ASSUME NEW w \in Workers, WorkerStep(w) PROVE UNCHANGED <<phase, flushVars>>
    BY <2>7 DEF WorkerStep, Take, WorkerExit, Script, ScriptErr, MarkDirty
  <2>8. ASSUME NEW i \in Instances, NEW v \in Views, Track(i, v) PROVE UNCHANGED <<phase, flushVars>>
    BY <2>8 DEF Track
  <2>9. ASSUME NEW k \in Links \X Visitors, ExpireSeen(k) PROVE UNCHANGED <<phase, flushVars>>
    BY <2>9 DEF ExpireSeen
  <2>10. UNCHANGED vars => UNCHANGED <<phase, flushVars>>
    BY DEF vars
  <2> QED
    BY <2>1, <2>2, <2>3, <2>4, <2>5, <2>6, <2>7, <2>8, <2>9, <2>10 DEF Next, FlushStep
<1> QED
  BY <1>1, <1>2, TypeCorrect, PTL DEF Spec

(* A counted view is in Redis, in the database or with a flush that puts it  *)
(* into one of them.                                                         *)
THEOREM NothingLost == ASSUME DbFaultsOnly PROVE Spec => []NoViewLost
<1> USE CounterAssumption
<1>1. Init => NoViewLost
  BY DEF Init, NoViewLost
<1>2. TypeOK /\ Steady /\ NoViewLost /\ [Next]_vars => NoViewLost'
  <2> SUFFICES ASSUME TypeOK, Steady, NoViewLost, [Next]_vars PROVE NoViewLost'
    OBVIOUS
  <2> USE OnlyDbFaults
  <2>1. CASE UNCHANGED HeldVars
    BY <2>1 DEF NoViewLost, HeldVars
  <2>2. ASSUME NEW w \in Workers, WorkerStep(w) PROVE NoViewLost'
    <3>1. UNCHANGED <<deltas, written>>
      BY <2>2 DEF WorkerStep, Take, WorkerExit, Script, ScriptErr, MarkDirty, flushVars
    <3>2. \/ UNCHANGED <<inRedis, counted>>
          \/ \E v \in Views : inRedis' = inRedis \cup {v} /\ counted' = counted \cup {v}
      BY <2>2 DEF WorkerStep, Take, WorkerExit, Script, ScriptErr, MarkDirty, CountIt, TypeOK,
                  redisVars, historyVars
    <3> QED
      BY <3>1, <3>2 DEF NoViewLost
  <2>3. ASSUME NEW i \in Instances, NEW l \in Links, GetDel(i, l) PROVE NoViewLost'
    <3>1. /\ inRedis' = inRedis \ ViewsOf(l)
          /\ deltas' = [deltas EXCEPT ![i] = @ \cup (inRedis \cap ViewsOf(l))]
          /\ UNCHANGED <<written, counted>>
      BY <2>3 DEF GetDel, Reset, others, historyVars
    <3> QED
      BY <3>1 DEF NoViewLost, TypeOK
  <2>4. ASSUME NEW i \in Instances, WriteOk(i) PROVE NoViewLost'
    <3>1. /\ deltas' = [deltas EXCEPT ![i] = {}]
          /\ written' = [v \in Views |-> IF v \in deltas[i] THEN written[v] + 1 ELSE written[v]]
          /\ UNCHANGED <<inRedis, counted>>
      BY <2>4 DEF WriteOk, AddViews, redisVars, historyVars
    <3>2. \A v \in Views : (v \in deltas[i] \/ written[v] > 0) => written'[v] > 0
      BY <3>1 DEF TypeOK
    <3> QED
      BY <3>1, <3>2 DEF NoViewLost, TypeOK
  <2>5. ASSUME NEW i \in Instances, WriteErr(i) PROVE NoViewLost'
    <3>1. UNCHANGED <<inRedis, counted, deltas>>
      BY <2>5 DEF WriteErr, redisVars, historyVars
    <3>2. written' = written \/ AddViews(i)
      BY <2>5 DEF WriteErr
    <3>3. ASSUME AddViews(i), NEW v \in Views, written[v] > 0 PROVE written'[v] > 0
      BY <3>3 DEF AddViews, TypeOK
    <3> QED
      BY <3>1, <3>2, <3>3 DEF NoViewLost, TypeOK
  <2>6. ASSUME NEW i \in Instances, NEW l \in Links, RestoreIncr(i, l) PROVE NoViewLost'
    <3>1. /\ inRedis' = inRedis \cup (deltas[i] \cap ViewsOf(l))
          /\ deltas' = [deltas EXCEPT ![i] = @ \ ViewsOf(l)]
          /\ UNCHANGED <<written, counted>>
      BY <2>6 DEF RestoreIncr, PutBack, others, historyVars
    <3> QED
      BY <3>1 DEF NoViewLost, TypeOK
  <2>7. ASSUME NEW i \in Instances,
               \/ WriteAborted(i) \/ RestoreErr(i) \/ LifeStep(i)
               \/ \E l \in Links : GetDelErr(i, l)
        PROVE  FALSE
    BY <2>7 DEF WriteAborted, RestoreErr, GetDelErr, Steady, Sent, LifeStep, Shutdown, FinalFlush,
                FinalTimeout, Stopped, Crash, Start, Running, DbFaultsOnly
  <2> QED
    BY <2>1, <2>2, <2>3, <2>4, <2>5, <2>6, <2>7, HeldSteps DEF WorkerStep, LifeStep
<1> QED
  BY <1>1, <1>2, TypeCorrect, StaysSteady, PTL DEF Spec

(* A link whose counter has views in it is dirty, or about to be read or     *)
(* marked: no interleaving of workers, flushes and restores leaves a counter *)
(* that the next flush does not see.                                         *)
MarkVars == <<inRedis, dirty, todo, mark, wpc, ev>>

THEOREM NeverStranded == ASSUME DbFaultsOnly PROVE Spec => []NotStranded
<1> USE CounterAssumption
<1>1. Init => NotStranded
  BY DEF Init, NotStranded, LinksOf
<1>2. TypeOK /\ Steady /\ NotStranded /\ [Next]_vars => NotStranded'
  <2> SUFFICES ASSUME TypeOK, Steady, NotStranded, [Next]_vars PROVE NotStranded'
    OBVIOUS
  <2> USE OnlyDbFaults
  <2>1. CASE UNCHANGED MarkVars
    BY <2>1 DEF NotStranded, ToBeMarked, LinksOf, MarkVars
  <2>2. ASSUME NEW w \in Workers, Take(w) \/ WorkerExit(w) \/ ScriptErr(w) PROVE NotStranded'
    <3>1. UNCHANGED <<inRedis, dirty, todo, mark>>
      BY <2>2 DEF Take, WorkerExit, ScriptErr, redisVars, flushVars
    <3>2. \A x \in Workers : wpc[x] = "mark" => wpc'[x] = "mark" /\ ev'[x] = ev[x]
      BY <2>2 DEF Take, WorkerExit, ScriptErr, Idle, TypeOK
    <3> QED
      BY <3>1, <3>2 DEF NotStranded, ToBeMarked, LinksOf
  <2>3. ASSUME NEW w \in Workers, Script(w) PROVE NotStranded'
    <3>1. UNCHANGED <<dirty, todo, mark>>
      BY <2>3 DEF Script, flushVars
    <3>2. \A x \in Workers : wpc[x] = "mark" => wpc'[x] = "mark" /\ ev'[x] = ev[x]
      BY <2>3 DEF Script, Idle, TypeOK
    <3>3. \/ UNCHANGED inRedis
          \/ inRedis' = inRedis \cup {ev[w]} /\ wpc'[w] = "mark" /\ ev'[w] = ev[w]
      BY <2>3 DEF Script, CountIt, TypeOK
    <3> QED
      BY <3>1, <3>2, <3>3 DEF NotStranded, ToBeMarked, LinksOf
  <2>4. ASSUME NEW w \in Workers, MarkDirty(w) PROVE NotStranded'
    <3>1. UNCHANGED <<inRedis, todo, mark>> /\ dirty' = dirty \cup {LinkOf[ev[w]]}
      BY <2>4 DEF MarkDirty, flushVars
    <3>2. \A x \in Workers : x # w => wpc'[x] = wpc[x] /\ ev'[x] = ev[x]
      BY <2>4 DEF MarkDirty, Idle, TypeOK
    <3> QED
      BY <3>1, <3>2 DEF NotStranded, ToBeMarked, LinksOf
  <2>5. ASSUME NEW i \in Instances, Pop(i) PROVE NotStranded'
    <3>1. UNCHANGED <<inRedis, mark, wpc, ev>>
      BY <2>5 DEF Pop, others, workerVars
    <3>2. PICK ids : dirty' = dirty \ ids /\ todo' = [todo EXCEPT ![i] = ids]
      BY <2>5 DEF Pop
    <3>3. todo[i] = {}
      BY <2>5 DEF Pop, Steady
    <3>4. todo'[i] = ids /\ \A j \in Instances : j # i => todo'[j] = todo[j]
      BY <3>2 DEF TypeOK
    <3>5. ASSUME NEW l \in LinksOf(inRedis) PROVE l \in dirty' \/ ToBeMarked(l)'
      <4>1. l \in dirty \/ ToBeMarked(l)
        BY DEF NotStranded
      <4> QED
        BY <3>1, <3>2, <3>3, <3>4, <4>1 DEF ToBeMarked
    <3> QED
      BY <3>1, <3>5 DEF NotStranded, LinksOf
  <2>6. ASSUME NEW i \in Instances, NEW l \in Links, GetDel(i, l) PROVE NotStranded'
    <3>1. /\ UNCHANGED <<dirty, mark, wpc, ev>>
          /\ todo' = [todo EXCEPT ![i] = @ \ {l}]
          /\ inRedis' = inRedis \ ViewsOf(l)
      BY <2>6 DEF GetDel, Reset, others, workerVars
    <3>2. l \notin LinksOf(inRedis') /\ LinksOf(inRedis') \subseteq LinksOf(inRedis)
      BY <3>1 DEF LinksOf, ViewsOf, TypeOK
    <3>3. ASSUME NEW k \in LinksOf(inRedis') PROVE k \in dirty' \/ ToBeMarked(k)'
      BY <3>1, <3>2 DEF NotStranded, ToBeMarked, TypeOK
    <3> QED
      BY <3>3 DEF NotStranded
  <2>7. ASSUME NEW i \in Instances, NEW l \in Links, RestoreIncr(i, l) PROVE NotStranded'
    <3>1. /\ UNCHANGED <<dirty, todo, wpc, ev>>
          /\ inRedis' = inRedis \cup (deltas[i] \cap ViewsOf(l))
          /\ mark' = [mark EXCEPT ![i] = {l}]
      BY <2>7 DEF RestoreIncr, PutBack, others, workerVars
    <3>2. mark[i] = {} /\ mark'[i] = {l}
      <4>1. mark[i] = {}
        BY <2>7 DEF RestoreIncr, Steady
      <4> QED
        BY <3>1, <4>1 DEF TypeOK
    <3>3. LinksOf(inRedis') \subseteq LinksOf(inRedis) \cup {l}
      BY <3>1 DEF LinksOf, ViewsOf
    <3>4. ASSUME NEW k \in LinksOf(inRedis') PROVE k \in dirty' \/ ToBeMarked(k)'
      BY <3>1, <3>2, <3>3 DEF NotStranded, ToBeMarked, TypeOK
    <3> QED
      BY <3>4 DEF NotStranded
  <2>8. ASSUME NEW i \in Instances, RestoreMark(i) \/ ReAdd(i) PROVE NotStranded'
    <3>1. /\ UNCHANGED <<inRedis, todo, wpc, ev>>
          /\ dirty' = dirty \cup mark[i] /\ mark' = [mark EXCEPT ![i] = {}]
      BY <2>8 DEF RestoreMark, ReAdd, Remark, Steady, Sent, others, workerVars
    <3> QED
      BY <3>1 DEF NotStranded, ToBeMarked, LinksOf, TypeOK
  <2>9. ASSUME NEW i \in Instances,
               \/ PopErr(i) \/ WriteAborted(i) \/ RestoreErr(i) \/ LifeStep(i)
               \/ \E l \in Links : GetDelErr(i, l)
        PROVE  FALSE
    BY <2>9 DEF PopErr, WriteAborted, RestoreErr, GetDelErr, Steady, Sent, LifeStep, Shutdown,
                FinalFlush, FinalTimeout, Stopped, Crash, Start, Running, DbFaultsOnly
  <2>10. ASSUME NEW i \in Instances,
                \/ Tick(i) \/ FlusherExit(i) \/ GetDelDone(i)
                \/ WriteOk(i) \/ WriteErr(i) \/ RestoreDone(i)
         PROVE  UNCHANGED MarkVars
    BY <2>10 DEF Tick, FlusherExit, GetDelDone, WriteOk, WriteErr, RestoreDone,
                 MarkVars, others, redisVars, workerVars
  <2>11. ASSUME NEW i \in Instances, NEW v \in Views, Track(i, v) PROVE UNCHANGED MarkVars
    BY <2>11 DEF Track, MarkVars, redisVars, flushVars, workerVars
  <2>12. ASSUME NEW k \in Links \X Visitors, ExpireSeen(k) PROVE UNCHANGED MarkVars
    BY <2>12 DEF ExpireSeen, MarkVars, flushVars, workerVars
  <2>13. UNCHANGED vars => UNCHANGED MarkVars
    BY DEF vars, MarkVars, redisVars, flushVars, workerVars
  <2> QED
    BY <2>1, <2>2, <2>3, <2>4, <2>5, <2>6, <2>7, <2>8, <2>9, <2>10, <2>11, <2>12, <2>13
       DEF Next, WorkerStep, FlushStep
<1> QED
  BY <1>1, <1>2, TypeCorrect, StaysSteady, PTL DEF Spec
=============================================================================
