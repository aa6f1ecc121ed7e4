--------------------------- MODULE ViewStatsProofs ---------------------------
(***************************************************************************)
(* Proofs about ViewStats, for every value of the constants: the counter   *)
(* runs undisturbed under the requests, view_count never goes down, and so *)
(* what a request read first is still true when it reads Redis; and what a *)
(* stop leaves in the channel came too late.                               *)
(***************************************************************************)
EXTENDS ViewStats, ViewCounterProofs

(* A request for the statistics changes nothing of the counter. *)
LEMMA CounterUndisturbed == StatsSpec => Spec
<1>1. StatsInit => Init
  BY DEF StatsInit
<1>2. [StatsNext]_<<vars, statsVars, late>> => [Next]_vars
  BY DEF StatsNext
<1> QED
  BY <1>1, <1>2, PTL DEF StatsSpec, Spec

(* view_count only grows. *)
LEMMA WrittenGrows ==
  ASSUME TypeOK, [Next]_vars
  PROVE  \A v \in Views : written'[v] \in Nat /\ written[v] <= written'[v]
<1>1. CASE UNCHANGED written
  BY <1>1 DEF TypeOK
<1>2. ASSUME NEW i \in Instances, AddViews(i)
      PROVE  \A v \in Views : written'[v] \in Nat /\ written[v] <= written'[v]
  BY <1>2 DEF AddViews, TypeOK
<1>3. ASSUME NEW i \in Instances, WriteOk(i) \/ WriteErr(i) \/ WriteAborted(i)
      PROVE  AddViews(i) \/ UNCHANGED written
  BY <1>3 DEF WriteOk, WriteErr, WriteAborted
<1>4. ASSUME NEW i \in Instances,
             \/ Tick(i) \/ FlusherExit(i) \/ Pop(i) \/ PopErr(i) \/ GetDelDone(i) \/ ReAdd(i)
             \/ \E l \in Links : GetDel(i, l) \/ GetDelErr(i, l) \/ RestoreIncr(i, l)
             \/ RestoreMark(i) \/ RestoreDone(i) \/ RestoreErr(i)
      PROVE  UNCHANGED written
  BY <1>4 DEF Tick, FlusherExit, Pop, PopErr, GetDelDone, ReAdd, GetDel, GetDelErr, RestoreIncr,
              RestoreMark, RestoreDone, RestoreErr, others
<1>5. ASSUME NEW i \in Instances, LifeStep(i) PROVE UNCHANGED written
  BY <1>5 DEF LifeStep, Shutdown, FinalFlush, FinalTimeout, Stopped, Crash, Start
<1>6. ASSUME NEW w \in Workers, WorkerStep(w) PROVE UNCHANGED written
  BY <1>6 DEF WorkerStep, Take, WorkerExit, Script, ScriptErr, MarkDirty
<1>7. ASSUME NEW i \in Instances, NEW v \in Views, Track(i, v) PROVE UNCHANGED written
  BY <1>7 DEF Track
<1>8. ASSUME NEW k \in Links \X Visitors, ExpireSeen(k) PROVE UNCHANGED written
  BY <1>8 DEF ExpireSeen
<1>9. UNCHANGED vars => UNCHANGED written
  BY DEF vars
<1> QED
  BY <1>1, <1>2, <1>3, <1>4, <1>5, <1>6, <1>7, <1>8, <1>9 DEF Next, FlushStep

-----------------------------------------------------------------------------
(* What the first read found stays a lower bound of what the row says.       *)
PartWritten == \A v \in Views : part[v] <= written[v]

LEMMA StatsTypeInvariant == StatsSpec => [](StatsTypeOK /\ PartWritten)
<1>1. TypeOK /\ StatsInit => StatsTypeOK /\ PartWritten
  BY DEF StatsInit, StatsTypeOK, PartWritten, Zero, TypeOK
<1>2. ASSUME TypeOK, TypeOK', StatsTypeOK, PartWritten, [StatsNext]_<<vars, statsVars, late>>
      PROVE  StatsTypeOK' /\ PartWritten'
  <2>0. late' \subseteq Views
    BY <1>2 DEF StatsNext, QueuedLate, StatsTypeOK, TypeOK
  <2>1. CASE [Next]_vars /\ UNCHANGED statsVars
    <3>1. \A v \in Views : written'[v] \in Nat /\ written[v] <= written'[v]
      BY <1>2, <2>1, WrittenGrows
    <3> QED
      BY <2>0, <1>2, <2>1, <3>1 DEF StatsTypeOK, PartWritten, statsVars, TypeOK
  <2>2. ASSUME NEW l \in Links, ReadFirst(l), UNCHANGED vars PROVE StatsTypeOK' /\ PartWritten'
    <3>1. written' = written /\ part' = RowOf(l)
      BY <2>2 DEF ReadFirst, Part, vars
    <3>2. \A v \in Views : RowOf(l)[v] \in Nat /\ RowOf(l)[v] <= written[v]
      BY <1>2 DEF RowOf, TypeOK
    <3> QED
      BY <2>0, <2>2, <3>1, <3>2 DEF ReadFirst, RowOf, StatsTypeOK, PartWritten, Zero
  <2>3. CASE ReadSecond /\ UNCHANGED vars
    <3>1. asked \in Links /\ written' = written /\ part' = Zero /\ asked' = NoLink
      BY <1>2, <2>3 DEF ReadSecond, StatsTypeOK, vars
    <3>2. \A v \in Views : PendingOf(asked)[v] \in {0, 1}
      BY DEF PendingOf
    <3>3. total' = [v \in Views |-> part[v] + PendingOf(asked)[v]]
      BY <2>3 DEF ReadSecond, Part
    <3>4. total' \in [Views -> Nat]
      BY <1>2, <3>2, <3>3 DEF StatsTypeOK
    <3> QED
      BY <2>0, <1>2, <3>1, <3>4 DEF StatsTypeOK, PartWritten, Zero, TypeOK
  <2>4. CASE StatsErr /\ UNCHANGED vars
    BY <2>0, <1>2, <2>4 DEF StatsErr, StatsTypeOK, PartWritten, Zero, TypeOK, vars
  <2> QED
    BY <1>2, <2>1, <2>2, <2>3, <2>4 DEF StatsNext, StatsStep
<1> QED
  BY <1>1, <1>2, CounterUndisturbed, TypeCorrect, PTL DEF StatsSpec

(* No total of Stats counts a view more often than the row and the counter   *)
(* do when Redis answers, whatever the flushes did since the row was read.   *)
THEOREM NeverAhead == StatsSpec => StatsNotAhead
<1>1. ASSUME TypeOK, StatsTypeOK, PartWritten, [StatsNext]_<<vars, statsVars, late>>,
             asked # NoLink, total' # total, NEW v \in Views
      PROVE  total'[v] <= written[v] + (IF v \in inRedis THEN 1 ELSE 0)
  <2>1. ReadSecond
    BY <1>1 DEF StatsNext, StatsStep, ReadFirst, StatsErr, statsVars
  <2>2. total'[v] = part[v] + PendingOf(asked)[v]
    BY <2>1 DEF ReadSecond, Part
  <2>3. PendingOf(asked)[v] \in {0, 1} /\ (PendingOf(asked)[v] = 1 => v \in inRedis)
    BY DEF PendingOf
  <2>4. part[v] \in Nat /\ written[v] \in Nat /\ part[v] <= written[v]
    BY <1>1 DEF StatsTypeOK, PartWritten, TypeOK
  <2> QED
    BY <2>2, <2>3, <2>4
<1>2. ASSUME TypeOK, StatsTypeOK, PartWritten, [StatsNext]_<<vars, statsVars, late>>
      PROVE  [asked # NoLink /\ total' # total =>
                \A v \in Views : total'[v] <= written[v] + (IF v \in inRedis THEN 1 ELSE 0)
             ]_<<vars, statsVars, late>>
  BY <1>1, <1>2
<1> QED
  BY <1>2, StatsTypeInvariant, CounterUndisturbed, TypeCorrect, PTL DEF StatsSpec, StatsNotAhead

-----------------------------------------------------------------------------
(* What is in the channel came when the server no longer served.             *)
AllLate(i) == \A k \in 1..Len(events[i]) : events[i][k] \in late

(* A worker leaves only with the context done and the channel empty; from    *)
(* then on the channel is filled by late handlers alone.                     *)
DrainInv ==
  \A i \in Instances :
    /\ phase[i] = "serving" => \A w \in WorkersOf(i) : wpc[w] # "exited"
    /\ phase[i] = "draining" /\ (\E w \in WorkersOf(i) : wpc[w] = "exited") => AllLate(i)
    /\ phase[i] \in {"final", "stopped"} => AllLate(i)

(* Steps that leave the channels alone and let no worker leave.              *)
LEMMA DrainKept ==
  ASSUME DrainInv, UNCHANGED <<phase, events>>, late \subseteq late',
         \A w \in Workers : wpc'[w] = "exited" => wpc[w] = "exited"
  PROVE  DrainInv'
BY DEF DrainInv, AllLate, WorkersOf

LEMMA DrainTrack ==
  ASSUME TypeOK, DrainInv, NEW i \in Instances, NEW v \in Views, Track(i, v),
         late' = late \cup QueuedLate
  PROVE  DrainInv'
<1>1. UNCHANGED <<phase, wpc>> /\ v \notin tracked /\ tracked' = tracked \cup {v}
  BY DEF Track, workerVars
<1>2. CASE events' = events
  BY <1>1, <1>2, DrainKept
<1>3. CASE events' = [events EXCEPT ![i] = Append(@, v)]
  <2>1. \A j \in Instances \ {i} : events'[j] = events[j]
    BY <1>3 DEF TypeOK
  <2>2. /\ events[i] \in Seq(Views) /\ events'[i] = Append(events[i], v)
        /\ Len(events'[i]) = Len(events[i]) + 1
        /\ events'[i][Len(events[i]) + 1] = v
        /\ \A k \in 1..Len(events[i]) : events'[i][k] = events[i][k]
    BY <1>3 DEF TypeOK
  <2>3. ASSUME phase[i] # "serving" PROVE v \in late'
    <3>1. Len(events[i]) + 1 \in 1..Len(events'[i])
      BY <2>2
    <3>2. Queued(i, v)'
      BY <2>2, <3>1 DEF Queued
    <3> QED
      BY <1>1, <2>3, <3>2 DEF QueuedLate
  <2>4. ASSUME AllLate(i), phase[i] # "serving" PROVE AllLate(i)'
    <3>1. ASSUME NEW k \in 1..Len(events'[i]) PROVE events'[i][k] \in late'
      <4>1. k \in 1..Len(events[i]) \/ k = Len(events[i]) + 1
        BY <2>2
      <4> QED
        BY <2>2, <2>3, <2>4, <4>1 DEF AllLate
    <3> QED
      BY <3>1 DEF AllLate
  <2>5. \A j \in Instances \ {i} : AllLate(j) => AllLate(j)'
    BY <2>1 DEF AllLate
  <2> QED
    BY <1>1, <2>4, <2>5 DEF DrainInv, WorkersOf
<1> QED
  BY <1>2, <1>3 DEF Track

LEMMA DrainTake ==
  ASSUME TypeOK, DrainInv, NEW w \in Workers, Take(w), late \subseteq late'
  PROVE  DrainInv'
<1> USE CounterAssumption
<1>1. /\ UNCHANGED phase
      /\ \A x \in Workers : wpc'[x] = "exited" => wpc[x] = "exited"
  BY DEF Take, TypeOK
<1>2. PICK i \in Instances, e \in Seq(Views) :
        i = Home[w] /\ e = events[i] /\ e # <<>> /\ events' = [events EXCEPT ![i] = Tail(e)]
  BY DEF Take, TypeOK
<1>3. /\ Len(Tail(e)) = Len(e) - 1
      /\ \A k \in 1..Len(Tail(e)) : k + 1 \in 1..Len(e) /\ Tail(e)[k] = e[k + 1]
  BY <1>2
<1>4. ASSUME NEW j \in Instances, AllLate(j) PROVE AllLate(j)'
  <2>1. CASE j = i
    BY <1>2, <1>3, <1>4, <2>1 DEF AllLate, TypeOK
  <2>2. CASE j # i
    BY <1>2, <1>4, <2>2 DEF AllLate, TypeOK
  <2> QED
    BY <2>1, <2>2
<1> QED
  BY <1>1, <1>4 DEF DrainInv, WorkersOf

LEMMA DrainExit ==
  ASSUME TypeOK, DrainInv, NEW w \in Workers, WorkerExit(w), late \subseteq late'
  PROVE  DrainInv'
<1> USE CounterAssumption
<1>1. /\ UNCHANGED <<phase, events>> /\ phase[Home[w]] = "draining" /\ events[Home[w]] = <<>>
      /\ \A x \in Workers \ {w} : wpc'[x] = wpc[x]
  BY DEF WorkerExit, Drained, TypeOK
<1>2. AllLate(Home[w])'
  BY <1>1 DEF AllLate
<1>3. \A i \in Instances : AllLate(i) => AllLate(i)'
  BY <1>1 DEF AllLate
<1> QED
  BY <1>1, <1>2, <1>3 DEF DrainInv, WorkersOf

LEMMA DrainLife ==
  ASSUME TypeOK, DrainInv, NEW i \in Instances, LifeStep(i), late \subseteq late'
  PROVE  DrainInv'
<1> USE CounterAssumption
<1>1. CASE Shutdown(i)
  <2>1. /\ phase[i] = "serving" /\ phase' = [phase EXCEPT ![i] = "draining"]
        /\ UNCHANGED <<events, wpc>>
    BY <1>1 DEF Shutdown, workerVars
  <2> QED
    BY <2>1 DEF DrainInv, AllLate, WorkersOf, TypeOK
<1>2. CASE FinalFlush(i)
  <2>1. /\ phase[i] = "draining" /\ phase' = [phase EXCEPT ![i] = "final"]
        /\ UNCHANGED <<events, wpc>> /\ \A w \in WorkersOf(i) : wpc[w] = "exited"
    BY <1>2 DEF FinalFlush, workerVars
  <2>2. AllLate(i)
    BY <2>1, WorkersAssumption DEF DrainInv, WorkersOf
  <2> QED
    BY <2>1, <2>2 DEF DrainInv, AllLate, WorkersOf, TypeOK
<1>3. CASE FinalTimeout(i)
  <2>1. UNCHANGED <<phase, events, wpc>>
    BY <1>3 DEF FinalTimeout, workerVars
  <2> QED
    BY <2>1, DrainKept
<1>4. CASE Stopped(i)
  <2>1. /\ phase[i] = "final" /\ phase' = [phase EXCEPT ![i] = "stopped"]
        /\ UNCHANGED <<events, wpc>>
    BY <1>4 DEF Stopped, workerVars
  <2> QED
    BY <2>1 DEF DrainInv, AllLate, WorkersOf, TypeOK
<1>5. CASE Crash(i) \/ Start(i)
  <2>1. /\ phase' = [phase EXCEPT ![i] = "crashed"] \/ phase' = [phase EXCEPT ![i] = "serving"]
        /\ events' = [events EXCEPT ![i] = <<>>]
        /\ wpc' = [w \in Workers |-> IF Home[w] = i THEN "select" ELSE wpc[w]]
    BY <1>5 DEF Crash, Start, Fresh
  <2>2. \A w \in WorkersOf(i) : wpc'[w] = "select"
    BY <2>1 DEF WorkersOf
  <2>3. phase'[i] \in {"crashed", "serving"}
    BY <2>1 DEF TypeOK
  <2>4. ASSUME NEW j \in Instances, j # i
        PROVE  /\ phase'[j] = phase[j]
               /\ AllLate(j) => AllLate(j)'
               /\ \A w \in WorkersOf(j) : wpc'[w] = wpc[w]
    <3>1. phase'[j] = phase[j] /\ events'[j] = events[j]
      BY <2>1, <2>4 DEF TypeOK
    <3>2. \A w \in WorkersOf(j) : wpc'[w] = wpc[w]
      BY <2>1, <2>4 DEF WorkersOf
    <3> QED
      BY <3>1, <3>2 DEF AllLate
  <2> QED
    BY <2>2, <2>3, <2>4 DEF DrainInv, WorkersOf
<1> QED
  BY <1>1, <1>2, <1>3, <1>4, <1>5 DEF LifeStep

LEMMA StaysDrained == StatsSpec => []DrainInv
<1>1. StatsInit => DrainInv
  BY DEF StatsInit, Init, DrainInv, WorkersOf
<1>2. TypeOK /\ DrainInv /\ [StatsNext]_<<vars, statsVars, late>> => DrainInv'
  <2> SUFFICES ASSUME TypeOK, DrainInv, [StatsNext]_<<vars, statsVars, late>> PROVE DrainInv'
    OBVIOUS
  <2>1. late \subseteq late'
    BY DEF StatsNext
  <2>2. ASSUME UNCHANGED <<phase, events>>,
               \A w \in Workers : wpc'[w] = "exited" => wpc[w] = "exited"
        PROVE  DrainInv'
    BY <2>1, <2>2, DrainKept
  <2>3. CASE UNCHANGED vars
    BY <2>2, <2>3 DEF vars, workerVars
  <2>4. ASSUME NEW i \in Instances, NEW v \in Views, Track(i, v), late' = late \cup QueuedLate
        PROVE  DrainInv'
    BY <2>4, DrainTrack
  <2>5. ASSUME NEW w \in Workers, Script(w) \/ ScriptErr(w) \/ MarkDirty(w) PROVE DrainInv'
    <3>1. UNCHANGED <<phase, events>>
      BY <2>5 DEF Script, ScriptErr, MarkDirty
    <3>2. \A x \in Workers : wpc'[x] = "exited" => wpc[x] = "exited"
      BY <2>5 DEF Script, ScriptErr, MarkDirty, Idle, TypeOK
    <3> QED
      BY <2>2, <3>1, <3>2
  <2>6. ASSUME NEW w \in Workers, WorkerStep(w) PROVE DrainInv'
    BY <2>1, <2>5, <2>6, DrainTake, DrainExit DEF WorkerStep
  <2>7. ASSUME NEW i \in Instances, FlushStep(i) PROVE UNCHANGED <<phase, events, wpc>>
    <3> USE DEF others, workerVars
    <3>1. CASE Tick(i) \/ FlusherExit(i) \/ Pop(i) \/ PopErr(i) \/ GetDelDone(i) \/ ReAdd(i)
      BY <3>1 DEF Tick, FlusherExit, Pop, PopErr, GetDelDone, ReAdd
    <3>2. CASE WriteOk(i) \/ WriteErr(i) \/ WriteAborted(i)
      BY <3>2 DEF WriteOk, WriteErr, WriteAborted
    <3>3. CASE RestoreMark(i) \/ RestoreDone(i) \/ RestoreErr(i)
      BY <3>3 DEF RestoreMark, RestoreDone, RestoreErr
    <3>4. CASE \E l \in Links : GetDel(i, l) \/ GetDelErr(i, l) \/ RestoreIncr(i, l)
      BY <3>4 DEF GetDel, GetDelErr, RestoreIncr
    <3> QED
      BY <2>7, <3>1, <3>2, <3>3, <3>4 DEF FlushStep
  <2>8. ASSUME NEW i \in Instances, LifeStep(i) PROVE DrainInv'
    BY <2>1, <2>8, DrainLife
  <2>9. ASSUME NEW k \in Links \X Visitors, ExpireSeen(k) PROVE UNCHANGED <<phase, events, wpc>>
    BY <2>9 DEF ExpireSeen, workerVars
  <2> QED
    BY <2>2, <2>3, <2>4, <2>6, <2>7, <2>8, <2>9 DEF StatsNext, Next
<1> QED
  BY <1>1, <1>2, CounterUndisturbed, TypeCorrect, PTL DEF StatsSpec

(* main.go:148: the channel is drained of all that was queued while the      *)
(* server served, whatever workers, handlers and flushes do on a stop.       *)
THEOREM OnlyLateLeft == StatsSpec => []LeftIsLate
<1>1. DrainInv => LeftIsLate
  BY DEF DrainInv, AllLate, LeftIsLate
<1> QED
  BY <1>1, StaysDrained, PTL

(* Only Track tracks.                                                        *)
LEMMA OnlyTrack ==
  ASSUME Next, tracked' # tracked
  PROVE  \E i \in Instances, v \in Views : Track(i, v)
<1> USE DEF historyVars
<1>1. ASSUME NEW w \in Workers, WorkerStep(w) PROVE FALSE
  BY <1>1 DEF WorkerStep, Take, WorkerExit, Script, ScriptErr, MarkDirty
<1>2. ASSUME NEW i \in Instances, FlushStep(i) PROVE FALSE
  <2> USE DEF others
  <2>1. CASE Tick(i) \/ FlusherExit(i) \/ Pop(i) \/ PopErr(i) \/ GetDelDone(i) \/ ReAdd(i)
    BY <2>1 DEF Tick, FlusherExit, Pop, PopErr, GetDelDone, ReAdd
  <2>2. CASE WriteOk(i) \/ WriteErr(i) \/ WriteAborted(i)
    BY <2>2 DEF WriteOk, WriteErr, WriteAborted
  <2>3. CASE RestoreMark(i) \/ RestoreDone(i) \/ RestoreErr(i)
    BY <2>3 DEF RestoreMark, RestoreDone, RestoreErr
  <2>4. CASE \E l \in Links : GetDel(i, l) \/ GetDelErr(i, l) \/ RestoreIncr(i, l)
    BY <2>4 DEF GetDel, GetDelErr, RestoreIncr
  <2> QED
    BY <1>2, <2>1, <2>2, <2>3, <2>4 DEF FlushStep
<1>3. ASSUME NEW i \in Instances, LifeStep(i) PROVE FALSE
  BY <1>3 DEF LifeStep, Shutdown, FinalFlush, FinalTimeout, Stopped, Crash, Start
<1>4. ASSUME NEW k \in Links \X Visitors, ExpireSeen(k) PROVE FALSE
  BY <1>4 DEF ExpireSeen
<1> QED
  BY <1>1, <1>2, <1>3, <1>4 DEF Next

(* main.go:112: so nothing at all is left in it when Shutdown waits for all  *)
(* handlers.                                                                 *)
THEOREM DrainedWithoutLate == ASSUME "shutdownTimeout" \notin Faults PROVE StatsSpec => []DrainedOnStop
<1> DEFINE NoneLate == late = {}
<1>1. StatsInit => NoneLate
  BY DEF StatsInit
<1>2. TypeOK /\ QueuedOnce /\ NoneLate /\ [StatsNext]_<<vars, statsVars, late>> => NoneLate'
  <2> SUFFICES ASSUME TypeOK, QueuedOnce, late = {}, [StatsNext]_<<vars, statsVars, late>>,
                      late' # late
               PROVE  FALSE
    OBVIOUS
  <2>1. Next /\ QueuedLate # {}
    BY DEF StatsNext
  <2>2. PICK v \in tracked' \ tracked : \E i \in Instances : phase[i] # "serving" /\ Queued(i, v)'
    BY <2>1 DEF QueuedLate
  <2>3. PICK i \in Instances : phase[i] # "serving" /\ Queued(i, v)'
    BY <2>2
  <2>4. PICK j \in Instances, u \in Views : Track(j, u)
    BY <2>1, <2>2, OnlyTrack
  <2>5. u = v /\ phase[j] = "serving"
    BY <2>2, <2>4 DEF Track, Handling, May
  <2>6. events'[i] = events[i]
    BY <2>3, <2>4, <2>5 DEF Track, TypeOK
  <2>7. Queued(i, v) /\ v \in Views
    BY <2>3, <2>4, <2>5, <2>6 DEF Queued
  <2> QED
    BY <2>2, <2>3, <2>7 DEF QueuedOnce
<1>3. StatsSpec => []NoneLate
  <2> HIDE DEF NoneLate
  <2> QED
    BY <1>1, <1>2, CounterUndisturbed, TypeCorrect, ViewQueuedOnce, PTL DEF StatsSpec
<1>4. TypeOK /\ NoneLate /\ LeftIsLate => DrainedOnStop
  <2> SUFFICES ASSUME TypeOK, late = {}, LeftIsLate,
                      NEW i \in Instances, phase[i] \in {"final", "stopped"}
               PROVE  events[i] = <<>>
    BY DEF DrainedOnStop
  <2>1. events[i] \in Seq(Views) /\ \A k \in 1..Len(events[i]) : FALSE
    BY DEF LeftIsLate, TypeOK
  <2> QED
    BY <2>1
<1> HIDE DEF NoneLate
<1> QED
  BY <1>3, <1>4, OnlyLateLeft, CounterUndisturbed, TypeCorrect, PTL
=============================================================================
