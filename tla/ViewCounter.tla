----------------------------- MODULE ViewCounter -----------------------------
(***************************************************************************)
(* The asynchronous view counter, redisstore/view_counter.go: Track puts a *)
(* view in a bounded channel, workers move it to Redis with a Lua script,  *)
(* and a flusher moves the Redis counters to PostgreSQL in batches.        *)
(* Several instances of the service share the Redis and the database.      *)
(*                                                                         *)
(* A Redis counter share:{id}:views is the SET of the views it counts (the *)
(* counter's value is the number of them), so that the properties can say  *)
(* which view was lost or written twice.                                   *)
(***************************************************************************)
EXTENDS Naturals, Sequences, FiniteSets

CONSTANTS
  Instances,      \* processes of the service
  Workers,        \* worker goroutines, of all instances
  Home,           \* Home[w]: the instance worker w belongs to
  Links, Visitors,
  Views,          \* one element per call of Track
  LinkOf,         \* LinkOf[v]: the link that was viewed
  VisitorOf,      \* VisitorOf[v]: the visitor key
  EventBuffer,    \* capacity of the channel (eventBuffer)
  FlushBatch,     \* links taken per SPOP (flushBatch)
  Stops,          \* instances that may get a SIGTERM
  Faults,         \* what may go wrong, see FaultKinds
  MaxWrites,      \* bound: writes of one view, where a commit may look failed
  NoView          \* a worker holds no event

FaultKinds ==
  { "redisErr",         \* a Redis command is not executed and returns an error
    "redisReplyLost",   \* it is executed and its reply is lost
    "dbErr",            \* AddViews fails, nothing is written
    "dbReplyLost",      \* AddViews is committed and still returns an error
    "crash",            \* a process dies at any point
    "finalTimeout",     \* the final flush outlives its 5 s context
    "shutdownTimeout" } \* handlers outlive the 10 s of srv.Shutdown

ASSUME CounterAssumption ==
  /\ Home \in [Workers -> Instances]
  /\ LinkOf \in [Views -> Links]
  /\ VisitorOf \in [Views -> Visitors]
  /\ EventBuffer \in Nat \ {0}
  /\ FlushBatch \in Nat \ {0}
  /\ MaxWrites \in Nat \ {0}
  /\ Stops \subseteq Instances
  /\ Faults \subseteq FaultKinds
  /\ NoView \notin Views

(* Config.Load refuses to start an instance without workers. *)
ASSUME WorkersAssumption == \A i \in Instances : \E w \in Workers : Home[w] = i

VARIABLES
  \* Redis
  inRedis,   \* views in the counters share:{id}:views
  dirty,     \* share:dirty
  seen,      \* <<link, visitor>> whose dedupe key is alive
  \* PostgreSQL
  written,   \* how often a view was added to share_links.view_count
  \* each instance
  phase,     \* life of the process
  events,    \* the channel
  ctx,       \* the context the flush uses: live, done, or cancelled while a
             \* command sent before is still in flight
  fpc,       \* the flusher: next command of flush
  todo,      \* links whose GETDEL is still to be executed
  mark,      \* links of the next SADD
  deltas,    \* views read and reset by GETDEL, not yet in the database
  more,      \* len(ids) = flushBatch: the flush goes round again
  \* each worker
  wpc, ev,
  \* history
  tracked,   \* views handed to Track
  counted    \* views the script counted

redisVars   == <<inRedis, dirty, seen>>
flushVars   == <<ctx, fpc, todo, mark, deltas, more>>
workerVars  == <<wpc, ev>>
historyVars == <<tracked, counted>>
others      == <<written, phase, events, workerVars, historyVars>>
vars == <<redisVars, written, phase, events, flushVars, workerVars, historyVars>>

Phases   == {"serving", "draining", "final", "stopped", "crashed"}
FlushPcs == {"wait", "pop", "getdel", "readd", "write", "restore", "remark", "incr", "exited"}

May(f)       == f \in Faults
WorkersOf(i) == {w \in Workers : Home[w] = i}
ViewsOf(l)   == {v \in Views : LinkOf[v] = l}
LinksOf(S)   == {LinkOf[v] : v \in S}
Running(i)   == phase[i] \notin {"stopped", "crashed"}

TypeOK ==
  /\ inRedis \subseteq Views
  /\ dirty \subseteq Links
  /\ seen \subseteq Links \X Visitors
  /\ written \in [Views -> Nat]
  /\ phase \in [Instances -> Phases]
  /\ events \in [Instances -> Seq(Views)]
  /\ \A i \in Instances : Len(events[i]) <= EventBuffer
  /\ ctx \in [Instances -> {"live", "inflight", "done"}]
  /\ fpc \in [Instances -> FlushPcs]
  /\ todo \in [Instances -> SUBSET Links]
  /\ mark \in [Instances -> SUBSET Links]
  /\ deltas \in [Instances -> SUBSET Views]
  /\ more \in [Instances -> BOOLEAN]
  /\ wpc \in [Workers -> {"select", "script", "mark", "exited"}]
  /\ ev \in [Workers -> Views \cup {NoView}]
  /\ \A w \in Workers : wpc[w] \in {"script", "mark"} => ev[w] \in Views
  /\ tracked \subseteq Views
  /\ counted \subseteq Views

Init ==
  /\ inRedis = {} /\ dirty = {} /\ seen = {}
  /\ written = [v \in Views |-> 0]
  /\ phase = [i \in Instances |-> "serving"]
  /\ events = [i \in Instances |-> <<>>]
  /\ ctx = [i \in Instances |-> "live"]
  /\ fpc = [i \in Instances |-> "wait"]
  /\ todo = [i \in Instances |-> {}]
  /\ mark = [i \in Instances |-> {}]
  /\ deltas = [i \in Instances |-> {}]
  /\ more = [i \in Instances |-> FALSE]
  /\ wpc = [w \in Workers |-> "select"]
  /\ ev = [w \in Workers |-> NoView]
  /\ tracked = {} /\ counted = {}

-----------------------------------------------------------------------------
(* Track: never blocks; a full channel drops the view.  Handlers run while *)
(* the HTTP server serves, and past Shutdown's deadline.                   *)

Handling(i) == \/ phase[i] = "serving"
               \/ May("shutdownTimeout") /\ phase[i] \in {"draining", "final"}

HasRoom_Unbounded(i) == TRUE                              \* mutant
HasRoom(i) == Len(events[i]) < EventBuffer

Track(i, v) ==
  /\ Handling(i)
  /\ v \notin tracked
  /\ tracked' = tracked \cup {v}
  /\ events' = IF HasRoom(i)
                 THEN [events EXCEPT ![i] = Append(@, v)]
                 ELSE events
  /\ UNCHANGED <<redisVars, written, phase, flushVars, workerVars, counted>>

-----------------------------------------------------------------------------
(* The workers *)

Take(w) ==
  /\ wpc[w] = "select"
  /\ events[Home[w]] # <<>>
  /\ ev' = [ev EXCEPT ![w] = Head(events[Home[w]])]
  /\ events' = [events EXCEPT ![Home[w]] = Tail(@)]
  /\ wpc' = [wpc EXCEPT ![w] = "script"]
  /\ UNCHANGED <<redisVars, written, phase, flushVars, historyVars>>

(* A worker returns once the context is done and the channel drained. *)
Drained_Unread(i) == TRUE                                 \* mutant
Drained(i) == events[i] = <<>>

WorkerExit(w) ==
  /\ wpc[w] = "select"
  /\ phase[Home[w]] = "draining"
  /\ Drained(Home[w])
  /\ wpc' = [wpc EXCEPT ![w] = "exited"]
  /\ UNCHANGED <<redisVars, written, phase, events, flushVars, ev, historyVars>>

Idle(w) == /\ wpc' = [wpc EXCEPT ![w] = "select"]
           /\ ev' = [ev EXCEPT ![w] = NoView]

(* The script: a view is counted when its dedupe key was not there. *)
SeenKey(v) == <<LinkOf[v], VisitorOf[v]>>

CountIt(v) ==
  /\ SeenKey(v) \notin seen
  /\ seen' = seen \cup {SeenKey(v)}
  /\ inRedis' = inRedis \cup {v}
  /\ counted' = counted \cup {v}

Script(w) ==
  /\ wpc[w] = "script"
  /\ \/ /\ CountIt(ev[w])
        /\ wpc' = [wpc EXCEPT ![w] = "mark"]
        /\ UNCHANGED ev
     \/ /\ SeenKey(ev[w]) \in seen
        /\ Idle(w)
        /\ UNCHANGED <<inRedis, seen, counted>>
  /\ UNCHANGED <<dirty, written, phase, events, flushVars, tracked>>

(* An error returns before the SADD, whether the script ran or not; so does *)
(* a retry of a script that ran, whose dedupe key is now there.             *)
ScriptErr(w) ==
  /\ wpc[w] = "script"
  /\ \/ May("redisErr") /\ UNCHANGED <<inRedis, seen, counted>>
     \/ May("redisReplyLost") /\ CountIt(ev[w])
  /\ Idle(w)
  /\ UNCHANGED <<dirty, written, phase, events, flushVars, tracked>>

MarkDirty(w) ==
  /\ wpc[w] = "mark"
  /\ \/ dirty' = dirty \cup {LinkOf[ev[w]]}
     \/ May("redisErr") /\ UNCHANGED dirty
  /\ Idle(w)
  /\ UNCHANGED <<inRedis, seen, written, phase, events, flushVars, historyVars>>

-----------------------------------------------------------------------------
(* The flusher.  A command on a context that is done fails at once, without *)
(* being sent; one that was in flight when the context was cancelled runs.  *)

Sent(i)    == ctx[i] # "done"
Replied(i) == ctx' = [ctx EXCEPT ![i] = IF @ = "inflight" THEN "done" ELSE @]

FlushReturn(i) == IF phase[i] = "final" THEN "exited" ELSE "wait"
FlushAgain(i)  == IF more[i] THEN "pop" ELSE FlushReturn(i)
AfterGetDel(i, S) == IF S # {} THEN "write" ELSE FlushAgain(i)

To(i, pc) == fpc' = [fpc EXCEPT ![i] = pc]

Tick(i) ==
  /\ fpc[i] = "wait"
  /\ phase[i] \in {"serving", "draining"}
  /\ To(i, "pop")
  /\ UNCHANGED <<redisVars, others, ctx, todo, mark, deltas, more>>

CtxDone_Ignored(i) == FALSE                               \* mutant
CtxDone(i) == phase[i] = "draining"

FlusherExit(i) ==
  /\ fpc[i] = "wait"
  /\ CtxDone(i)
  /\ To(i, "exited")
  /\ UNCHANGED <<redisVars, others, ctx, todo, mark, deltas, more>>

(* What SPOP may return: that many members of share:dirty, any of them. *)
Batches == {S \in SUBSET dirty :
              Cardinality(S) = IF Cardinality(dirty) < FlushBatch
                                 THEN Cardinality(dirty) ELSE FlushBatch}

Pop(i) ==
  /\ fpc[i] = "pop" /\ Sent(i)
  /\ \E ids \in Batches :
       /\ dirty' = dirty \ ids
       /\ todo' = [todo EXCEPT ![i] = ids]
       /\ more' = [more EXCEPT ![i] = (Cardinality(ids) = FlushBatch)]
       /\ To(i, IF ids = {} THEN FlushReturn(i) ELSE "getdel")
  /\ Replied(i)
  /\ UNCHANGED <<inRedis, seen, others, mark, deltas>>

PopErr(i) ==
  /\ fpc[i] = "pop"
  /\ \/ (~Sent(i) \/ May("redisErr")) /\ UNCHANGED dirty
     \/ /\ Sent(i) /\ May("redisReplyLost")
        /\ \E ids \in Batches : dirty' = dirty \ ids
  /\ To(i, FlushReturn(i))
  /\ Replied(i)
  /\ UNCHANGED <<inRedis, seen, others, todo, mark, deltas, more>>

(* One GETDEL of the pipeline; the server runs other clients in between. *)
Reset_Kept(l) == inRedis                                  \* mutant: GET
Reset(l) == inRedis \ ViewsOf(l)

GetDel(i, l) ==
  /\ fpc[i] = "getdel" /\ Sent(i)
  /\ l \in todo[i]
  /\ todo' = [todo EXCEPT ![i] = @ \ {l}]
  /\ inRedis' = Reset(l)
  /\ deltas' = [deltas EXCEPT ![i] = @ \cup (inRedis \cap ViewsOf(l))]
  /\ UNCHANGED <<dirty, seen, others, ctx, fpc, mark, more>>

(* An error puts the link in the retry list.  When the reply was lost, the  *)
(* counter is gone; a transparent retry finds it empty and reports nothing. *)
GetDelErr(i, l) ==
  /\ fpc[i] = "getdel"
  /\ l \in todo[i]
  /\ todo' = [todo EXCEPT ![i] = @ \ {l}]
  /\ \/ /\ ~Sent(i) \/ May("redisErr")
        /\ mark' = [mark EXCEPT ![i] = @ \cup {l}]
        /\ UNCHANGED inRedis
     \/ /\ Sent(i) /\ May("redisReplyLost")
        /\ inRedis' = Reset(l)
        /\ \/ mark' = [mark EXCEPT ![i] = @ \cup {l}]
           \/ UNCHANGED mark
  /\ UNCHANGED <<dirty, seen, others, ctx, fpc, deltas, more>>

GetDelDone(i) ==
  /\ fpc[i] = "getdel"
  /\ todo[i] = {}
  /\ To(i, IF mark[i] # {} THEN "readd" ELSE AfterGetDel(i, deltas[i]))
  /\ Replied(i)
  /\ UNCHANGED <<redisVars, others, todo, mark, deltas, more>>

(* SADD of the retry list, its error ignored. *)
ReAdd(i) ==
  /\ fpc[i] = "readd"
  /\ \/ Sent(i) /\ dirty' = dirty \cup mark[i]
     \/ (~Sent(i) \/ May("redisErr")) /\ UNCHANGED dirty
  /\ mark' = [mark EXCEPT ![i] = {}]
  /\ To(i, AfterGetDel(i, deltas[i]))
  /\ Replied(i)
  /\ UNCHANGED <<inRedis, seen, others, todo, deltas, more>>

(* AddViews: one UPDATE over the batch. *)
AddViews(i) == written' = [v \in Views |-> IF v \in deltas[i] THEN written[v] + 1 ELSE written[v]]

WriteOk(i) ==
  /\ fpc[i] = "write" /\ Sent(i)
  /\ AddViews(i)
  /\ deltas' = [deltas EXCEPT ![i] = {}]
  /\ To(i, FlushAgain(i))
  /\ Replied(i)
  /\ UNCHANGED <<redisVars, phase, events, todo, mark, more, workerVars, historyVars>>

(* The database failed and the context is good: the views go back. *)
WriteErr(i) ==
  /\ fpc[i] = "write" /\ ctx[i] = "live"
  /\ \/ May("dbErr") /\ UNCHANGED written
     \/ May("dbReplyLost") /\ (\A v \in deltas[i] : written[v] < MaxWrites) /\ AddViews(i)
  /\ To(i, "restore")
  /\ UNCHANGED <<redisVars, phase, events, ctx, todo, mark, deltas, more, workerVars, historyVars>>

(* The context was cancelled: AddViews fails, the statement committed or not *)
(* if it was in flight, and restore, on the same context, sends nothing.     *)
WriteAborted(i) ==
  /\ fpc[i] = "write" /\ ctx[i] # "live"
  /\ \/ UNCHANGED written
     \/ ctx[i] = "inflight" /\ AddViews(i)
  /\ deltas' = [deltas EXCEPT ![i] = {}]
  /\ To(i, FlushReturn(i))
  /\ Replied(i)
  /\ UNCHANGED <<redisVars, phase, events, todo, mark, more, workerVars, historyVars>>

(* restore: one pipeline, an INCRBY and a SADD for each link. *)
PutBack_Set(i, l) == Reset(l) \cup (deltas[i] \cap ViewsOf(l))  \* mutant: SET
PutBack(i, l) == inRedis \cup (deltas[i] \cap ViewsOf(l))
Remark_None(i) == dirty                                   \* mutant
Remark(i) == dirty \cup mark[i]

RestoreIncr(i, l) ==
  /\ fpc[i] \in {"restore", "incr"} /\ Sent(i)
  /\ l \in LinksOf(deltas[i])
  /\ inRedis' = PutBack(i, l)
  /\ deltas' = [deltas EXCEPT ![i] = @ \ ViewsOf(l)]
  /\ mark' = [mark EXCEPT ![i] = {l}]
  /\ To(i, "remark")
  /\ UNCHANGED <<dirty, seen, others, ctx, todo, more>>

RestoreMark(i) ==
  /\ fpc[i] = "remark" /\ Sent(i)
  /\ dirty' = Remark(i)
  /\ mark' = [mark EXCEPT ![i] = {}]
  /\ To(i, "incr")
  /\ UNCHANGED <<inRedis, seen, others, ctx, todo, deltas, more>>

RestoreDone(i) ==
  /\ fpc[i] = "incr"
  /\ deltas[i] = {}
  /\ To(i, FlushReturn(i))
  /\ Replied(i)
  /\ UNCHANGED <<redisVars, others, todo, mark, deltas, more>>

(* The pipeline breaks, or was never sent: what is left of it is only logged. *)
RestoreErr(i) ==
  /\ fpc[i] \in {"restore", "remark", "incr"}
  /\ ~Sent(i) \/ May("redisErr")
  /\ deltas' = [deltas EXCEPT ![i] = {}]
  /\ mark' = [mark EXCEPT ![i] = {}]
  /\ To(i, FlushReturn(i))
  /\ Replied(i)
  /\ UNCHANGED <<redisVars, others, todo, more>>

-----------------------------------------------------------------------------
(* The life of a process *)

(* What the flush finds its context to be once it is cancelled: a pipeline *)
(* the server has begun was sent, any other command was sent or not.        *)
Begun(i)     == fpc[i] \in {"remark", "incr"} \/ (fpc[i] = "getdel" /\ deltas[i] # {})
Cancelled(i) == (IF Begun(i) THEN {} ELSE {"done"})
                  \cup (IF fpc[i] \in {"wait", "exited"} THEN {} ELSE {"inflight"})

(* SIGTERM, then srv.Shutdown, then stopCounter cancels the run's context. *)
Shutdown(i) ==
  /\ i \in Stops
  /\ phase[i] = "serving"
  /\ phase' = [phase EXCEPT ![i] = "draining"]
  /\ \E c \in Cancelled(i) : ctx' = [ctx EXCEPT ![i] = c]
  /\ UNCHANGED <<redisVars, written, events, fpc, todo, mark, deltas, more, workerVars, historyVars>>

(* wg.Wait returned: one more flush, on a context of its own. *)
FinalFlush(i) ==
  /\ phase[i] = "draining"
  /\ fpc[i] = "exited"
  /\ \A w \in WorkersOf(i) : wpc[w] = "exited"
  /\ phase' = [phase EXCEPT ![i] = "final"]
  /\ ctx' = [ctx EXCEPT ![i] = "live"]
  /\ To(i, "pop")
  /\ UNCHANGED <<redisVars, written, events, todo, mark, deltas, more, workerVars, historyVars>>

FinalTimeout(i) ==
  /\ May("finalTimeout")
  /\ phase[i] = "final" /\ ctx[i] = "live"
  /\ \E c \in Cancelled(i) : ctx' = [ctx EXCEPT ![i] = c]
  /\ UNCHANGED <<redisVars, written, phase, events, fpc, todo, mark, deltas, more,
                 workerVars, historyVars>>

Stopped(i) ==
  /\ phase[i] = "final"
  /\ fpc[i] = "exited"
  /\ phase' = [phase EXCEPT ![i] = "stopped"]
  /\ UNCHANGED <<redisVars, written, events, flushVars, workerVars, historyVars>>

(* A new process has nothing of the old one's memory. *)
Fresh(i) ==
  /\ events' = [events EXCEPT ![i] = <<>>]
  /\ fpc' = [fpc EXCEPT ![i] = "wait"]
  /\ ctx' = [ctx EXCEPT ![i] = "live"]
  /\ todo' = [todo EXCEPT ![i] = {}]
  /\ mark' = [mark EXCEPT ![i] = {}]
  /\ deltas' = [deltas EXCEPT ![i] = {}]
  /\ more' = [more EXCEPT ![i] = FALSE]
  /\ wpc' = [w \in Workers |-> IF Home[w] = i THEN "select" ELSE wpc[w]]
  /\ ev' = [w \in Workers |-> IF Home[w] = i THEN NoView ELSE ev[w]]

Crash(i) ==
  /\ May("crash")
  /\ Running(i)
  /\ phase' = [phase EXCEPT ![i] = "crashed"]
  /\ Fresh(i)
  /\ UNCHANGED <<redisVars, written, historyVars>>

Start(i) ==
  /\ ~Running(i)
  /\ phase' = [phase EXCEPT ![i] = "serving"]
  /\ Fresh(i)
  /\ UNCHANGED <<redisVars, written, historyVars>>

-----------------------------------------------------------------------------
(* The dedupe key of a visitor expires (dedupeWindow). *)
ExpireSeen(k) ==
  /\ k \in seen
  /\ seen' = seen \ {k}
  /\ UNCHANGED <<inRedis, dirty, written, phase, events, flushVars, workerVars, historyVars>>

WorkerStep(w) == Take(w) \/ WorkerExit(w) \/ Script(w) \/ ScriptErr(w) \/ MarkDirty(w)

FlushStep(i) ==
  \/ Tick(i) \/ FlusherExit(i) \/ Pop(i) \/ PopErr(i)
  \/ \E l \in Links : GetDel(i, l) \/ GetDelErr(i, l)
  \/ GetDelDone(i) \/ ReAdd(i)
  \/ WriteOk(i) \/ WriteErr(i) \/ WriteAborted(i)
  \/ \E l \in Links : RestoreIncr(i, l)
  \/ RestoreMark(i) \/ RestoreDone(i) \/ RestoreErr(i)

LifeStep(i) ==
  Shutdown(i) \/ FinalFlush(i) \/ FinalTimeout(i) \/ Stopped(i) \/ Crash(i) \/ Start(i)

Next ==
  \/ \E i \in Instances, v \in Views : Track(i, v)
  \/ \E w \in Workers : WorkerStep(w)
  \/ \E i \in Instances : FlushStep(i) \/ LifeStep(i)
  \/ \E k \in Links \X Visitors : ExpireSeen(k)

Spec == Init /\ [][Next]_vars

(* Goroutines are scheduled, a database that keeps being asked answers in the *)
(* end, a select whose two channels stay ready takes each of them, and the    *)
(* deadline of the final flush passes.                                        *)
Fairness ==
  /\ \A w \in Workers : WF_vars(WorkerStep(w))
  /\ \A i \in Instances : /\ WF_vars(FlushStep(i))
                          /\ SF_vars(WriteOk(i))
                          /\ SF_vars(FlusherExit(i))
                          /\ WF_vars(FinalFlush(i))
                          /\ WF_vars(FinalTimeout(i))
                          /\ WF_vars(Stopped(i))

FairSpec == Spec /\ Fairness

-----------------------------------------------------------------------------
(* A view is added to view_count at most once: two flushers, a flush and the *)
(* restore of another, or a restart, never bring it to AddViews again.       *)
NoDoubleCount == \A v \in Views : written[v] <= 1

(* view_counter.go:162: a counted view is in Redis, in the database, or in   *)
(* the hands of a flush, which is bound to put it in one of them.            *)
NoViewLost ==
  \A v \in counted : \/ v \in inRedis
                     \/ written[v] > 0
                     \/ \E i \in Instances : v \in deltas[i]

(* A counter with views in it is found by the next flush: its link is dirty, *)
(* or someone is still to read it or to mark it.                             *)
ToBeMarked(l) ==
  \/ \E w \in Workers : wpc[w] = "mark" /\ LinkOf[ev[w]] = l
  \/ \E i \in Instances : l \in todo[i] \cup mark[i]
NotStranded == \A l \in LinksOf(inRedis) : l \in dirty \/ ToBeMarked(l)

(* main.go:112: when the final flush starts, the channel has been drained.   *)
DrainedOnStop ==
  \A i \in Instances : phase[i] \in {"final", "stopped"} => events[i] = <<>>

(* A view has at most one place on its way to Redis, none once it is counted. *)
Queued(i, v)   == \E k \in 1..Len(events[i]) : events[i][k] = v
InScript(w, v) == wpc[w] = "script" /\ ev[w] = v
QueuedOnce ==
  /\ counted \subseteq tracked
  /\ \A i \in Instances : \A j, k \in 1..Len(events[i]) : events[i][j] = events[i][k] => j = k
  /\ \A i, j \in Instances, v \in Views : Queued(i, v) /\ Queued(j, v) => i = j
  /\ \A w, x \in Workers, v \in Views : InScript(w, v) /\ InScript(x, v) => w = x
  /\ \A w \in Workers, i \in Instances, v \in Views : InScript(w, v) => ~Queued(i, v)
  /\ \A i \in Instances, v \in Views : Queued(i, v) => v \in tracked \ counted
  /\ \A w \in Workers, v \in Views : InScript(w, v) => v \in tracked \ counted

(* From there on it is in Redis, with one flush, or in the database, once.   *)
HeldOnce ==
  /\ \A v \in inRedis : v \in counted /\ written[v] = 0
  /\ \A i \in Instances : \A v \in deltas[i] : v \in counted \ inRedis /\ written[v] = 0
  /\ \A i, j \in Instances : i # j => deltas[i] \cap deltas[j] = {}
  /\ \A v \in Views : written[v] <= 1 /\ (written[v] > 0 => v \in counted)

(* Every counted view gets to the database. *)
EventuallyPersisted == \A v \in Views : (v \in counted) ~> (written[v] > 0)

(* A graceful stop ends. *)
EventuallyStopped ==
  \A i \in Instances : (phase[i] = "draining") ~> (phase[i] = "stopped")

(* view_counter.go:162-166, "no view is lost", as far as the code keeps it:  *)
(* from the script to view_count a view is in hand, in Redis or in a flush;  *)
(* it is let go by one addition to view_count or at a point where the code   *)
(* gives up (a death, the cancelled context of :206, a pipeline that breaks  *)
(* at :232, a GETDEL whose reply is lost at :191), and never comes back; no  *)
(* other view is added, unless AddViews committed and reported an error.     *)
InHand(v) == v \in inRedis \/ \E i \in Instances : v \in deltas[i]

GivesUp(i) ==
  \/ phase'[i] = "crashed"
  \/ fpc[i] \in {"write", "restore", "remark", "incr"} /\ ctx[i] # "live"
  \/ fpc[i] \in {"restore", "remark", "incr"} /\ May("redisErr")
MayGetLost(v) ==
  \/ \E i \in Instances : v \in deltas[i] /\ GivesUp(i)
  \/ /\ v \in inRedis /\ May("redisReplyLost")
     /\ \E i \in Instances : fpc[i] = "getdel" /\ LinkOf[v] \in todo[i]

Accounted(v) ==
  /\ ~InHand(v) /\ InHand(v)' => v \in counted' \ counted
  /\ InHand(v) /\ ~InHand(v)' => written'[v] > written[v] \/ MayGetLost(v)
  /\ written'[v] # written[v] => /\ written'[v] = written[v] + 1
                                 /\ InHand(v)
                                 /\ InHand(v)' => May("dbReplyLost")
ViewsAccounted == [][\A v \in Views : Accounted(v)]_vars

(* The tracker keeps the promise of ViewLedger. *)
Ledger == INSTANCE ViewLedger WITH persisted <- written
LedgerSpec == Ledger!LedgerSpec

=============================================================================
