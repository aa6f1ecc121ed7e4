------------------------------ MODULE LinkCache ------------------------------
(***************************************************************************)
(* Opening a link while its owner changes it: getLink of usecase/share     *)
(* (cache-aside, negative cache, singleflight) against SetStatus, Delete   *)
(* and Create, with redisstore/link_cache.go between them.                 *)
(*                                                                         *)
(* Every operation concerns the row, the key and the flight of one code,   *)
(* so one code is modelled.  The row is the number of its version; version *)
(* 0 is the missing row, which the cache stores as "-".  Time is discrete. *)
(***************************************************************************)
EXTENDS Naturals

CONSTANTS
  Instances,      \* processes of the service
  Readers,        \* requests that resolve the code
  Owners,         \* owner requests that change the link
  Home,           \* the instance that handles a request
  LinkTTL,        \* life of a cached link (linkTTL)
  Jitter,         \* what withJitter adds at most
  NotFoundTTL,    \* life of a "-" (notFoundTTL)
  SecondDelete,   \* delay of the second DEL (secondDelete)
  DbTimeout,      \* deadline of a flight (dbTimeout)
  CmdTime,        \* a Redis command runs that soon after it is sent, or never
  Faults,         \* what may go wrong, see FaultKinds
  MaxVersion, MaxTime  \* bounds

FaultKinds == {"redisErr",   \* a Redis command fails
               "dbErr",      \* a statement fails
               "dbReplyLost",\* an owner's UPDATE commits, its reply is lost
               "crash",      \* a process dies: flights, requests, timers are gone
               "cancel"}     \* a client leaves, its request context is cancelled

ASSUME CacheAssumption ==
  /\ Home \in [Readers \cup Owners -> Instances]
  /\ LinkTTL \in Nat /\ Jitter \in Nat /\ NotFoundTTL \in Nat
  /\ SecondDelete \in Nat /\ DbTimeout \in Nat /\ CmdTime \in Nat
  /\ MaxVersion \in Nat \ {0} /\ MaxTime \in Nat
  /\ Faults \subseteq FaultKinds

VARIABLES
  now,
  db,        \* version of the row in share_links
  kind,      \* kind[n]: what version n says of the link
  ended,     \* ended[n]: when version n was superseded
  silent,    \* history: versions whose owner was told that the change failed
  cache,     \* share:link:<code>, alive until exp
  flight,    \* flight[i]: the singleflight call of the instance
  timers,    \* timers[i]: when the second DELs of the instance are due
  rpc, res,  \* a reader's next step, and the version it got
  gone,      \* readers whose client has left
  opc, over  \* an owner's next step, and the version it committed

rowVars    == <<db, kind, ended, silent>>
readerVars == <<rpc, res, gone>>
ownerVars  == <<opc, over>>
vars == <<now, rowVars, cache, flight, timers, readerVars, ownerVars>>

Versions == 0..MaxVersion
Err      == MaxVersion + 1
Kinds    == {"none", "active", "disabled", "deleted"}
May(f)   == f \in Faults
Empty    == [ver |-> 0, exp |-> 0]
NoFlight == [pc |-> "none", ver |-> 0, due |-> 0]

TypeOK ==
  /\ now \in Nat /\ db \in Versions
  /\ kind \in [Versions -> Kinds] /\ ended \in [Versions -> Nat]
  /\ silent \subseteq Versions
  /\ cache \in [ver : Versions, exp : Nat]
  /\ flight \in [Instances -> [pc : {"none", "find", "set"}, ver : Versions, due : Nat]]
  /\ timers \in [Instances -> SUBSET Nat]
  /\ rpc \in [Readers -> {"idle", "get", "sf", "wait", "done"}]
  /\ res \in [Readers -> Versions \cup {Err}]
  /\ gone \subseteq Readers
  /\ opc \in [Owners -> {"idle", "del", "done"}]
  /\ over \in [Owners -> Versions]

Init ==
  /\ now = 0 /\ db = 0
  /\ kind = [n \in Versions |-> "none"]
  /\ ended = [n \in Versions |-> 0]
  /\ silent = {}
  /\ cache = Empty
  /\ flight = [i \in Instances |-> NoFlight]
  /\ timers = [i \in Instances |-> {}]
  /\ rpc = [r \in Readers |-> "idle"] /\ res = [r \in Readers |-> 0]
  /\ gone = {}
  /\ opc = [o \in Owners |-> "idle"] /\ over = [o \in Owners |-> 0]

-----------------------------------------------------------------------------
(* The owner's side: the row first, then the cache. *)

Commit(k) ==
  /\ db < MaxVersion
  /\ db' = db + 1
  /\ kind' = [kind EXCEPT ![db + 1] = k]
  /\ ended' = [ended EXCEPT ![db] = now]

(* Create inserts the row and leaves the cache alone. *)
Create ==
  /\ kind[db] = "none"
  /\ Commit("active")
  /\ UNCHANGED <<now, silent, cache, flight, timers, readerVars, ownerVars>>

(* UpdateStatus and SoftDelete find a live row of the owner or change nothing. *)
Live == kind[db] \in {"active", "disabled"}

Change(o, k) ==
  /\ opc[o] = "idle"
  /\ Live
  /\ Commit(k)
  /\ over' = [over EXCEPT ![o] = db + 1]
  /\ opc' = [opc EXCEPT ![o] = "del"]
  /\ UNCHANGED <<now, silent, cache, flight, timers, readerVars>>

(* An error ends the request before invalidate: no row was found, or the     *)
(* statement failed.  It runs on the request's context, so with the client   *)
(* gone, or the reply lost, the row may have changed all the same.           *)
ChangeFails(o, k) ==
  /\ opc[o] = "idle"
  /\ \/ /\ May("cancel") \/ May("dbReplyLost")
        /\ Live
        /\ Commit(k)
        /\ silent' = silent \cup {db + 1}
     \/ /\ ~Live \/ May("dbErr") \/ May("cancel")
        /\ UNCHANGED rowVars
  /\ opc' = [opc EXCEPT ![o] = "done"]
  /\ UNCHANGED <<now, cache, flight, timers, readerVars, over>>

ChangeTo(o, k) == Change(o, k) \/ ChangeFails(o, k)
SetStatus(o)   == ChangeTo(o, "active") \/ ChangeTo(o, "disabled")
Delete(o)      == ChangeTo(o, "deleted")

(* Invalidate: DEL, then the timer of the second one, also after an error.   *)
(* The error is logged and the owner gets its answer.                        *)
Emptied == Empty
Schedule_Never(i) == timers                               \* mutant
Schedule(i)       == [timers EXCEPT ![i] = @ \cup {now + SecondDelete}]

Invalidate(o) ==
  /\ opc[o] = "del"
  /\ \/ cache' = Emptied
     \/ (May("redisErr") \/ May("cancel")) /\ UNCHANGED cache
  /\ timers' = Schedule(Home[o])
  /\ opc' = [opc EXCEPT ![o] = "done"]
  /\ UNCHANGED <<now, rowVars, flight, readerVars, over>>

NextRequest(o) ==
  /\ opc[o] = "done"
  /\ opc' = [opc EXCEPT ![o] = "idle"]
  /\ over' = [over EXCEPT ![o] = 0]
  /\ UNCHANGED <<now, rowVars, cache, flight, timers, readerVars>>

DeleteAgain(i, t) ==
  /\ t \in timers[i] /\ t <= now
  /\ cache' = Emptied \/ (May("redisErr") /\ UNCHANGED cache)
  /\ timers' = [timers EXCEPT ![i] = @ \ {t}]
  /\ UNCHANGED <<now, rowVars, flight, readerVars, ownerVars>>

-----------------------------------------------------------------------------
(* The reader's side: Resolve calls getLink. *)

Arrive(r) ==
  /\ rpc[r] = "idle"
  /\ rpc' = [rpc EXCEPT ![r] = "get"]
  /\ UNCHANGED <<now, rowVars, cache, flight, timers, res, gone, ownerVars>>

Leave(r) ==
  /\ May("cancel")
  /\ rpc[r] \in {"get", "sf", "wait"} /\ r \notin gone
  /\ gone' = gone \cup {r}
  /\ UNCHANGED <<now, rowVars, cache, flight, timers, rpc, res, ownerVars>>

Cached == cache.exp > now

GetHit(r) ==
  /\ rpc[r] = "get" /\ r \notin gone
  /\ Cached
  /\ res' = [res EXCEPT ![r] = cache.ver]
  /\ rpc' = [rpc EXCEPT ![r] = "done"]
  /\ UNCHANGED <<now, rowVars, cache, flight, timers, gone, ownerVars>>

(* A miss, and any error, goes on to the repository. *)
GetMiss(r) ==
  /\ rpc[r] = "get"
  /\ ~Cached \/ May("redisErr") \/ r \in gone
  /\ rpc' = [rpc EXCEPT ![r] = "sf"]
  /\ UNCHANGED <<now, rowVars, cache, flight, timers, res, gone, ownerVars>>

(* sf.Do: wait for the flight of this instance, or start it. *)
Do(r) ==
  /\ rpc[r] = "sf"
  /\ rpc' = [rpc EXCEPT ![r] = "wait"]
  /\ flight' = IF flight[Home[r]].pc = "none"
                 THEN [flight EXCEPT ![Home[r]] = [pc |-> "find", ver |-> 0, due |-> now + DbTimeout]]
                 ELSE flight
  /\ UNCHANGED <<now, rowVars, cache, timers, res, gone, ownerVars>>

(* The flight is over: everyone who waited gets what it got. *)
Waiting_Present(i) ==                                     \* mutant
  {r \in Readers : Home[r] = i /\ rpc[r] = "wait" /\ r \notin gone}
Waiting(i) == {r \in Readers : Home[r] = i /\ rpc[r] = "wait"}
Land(i, v) ==
  /\ flight' = [flight EXCEPT ![i] = NoFlight]
  /\ res' = [r \in Readers |-> IF r \in Waiting(i) THEN v ELSE res[r]]
  /\ rpc' = [r \in Readers |-> IF r \in Waiting(i) THEN "done" ELSE rpc[r]]
  /\ UNCHANGED <<now, rowVars, timers, gone, ownerVars>>

Find(i) ==
  /\ flight[i].pc = "find"
  /\ flight' = [flight EXCEPT ![i] = [@ EXCEPT !.pc = "set", !.ver = db]]
  /\ UNCHANGED <<now, rowVars, cache, timers, readerVars, ownerVars>>

(* The flight's context has the deadline, but not the client's cancellation. *)
CtxDone_Client(i) == now >= flight[i].due \/ (Waiting(i) \cap gone # {})  \* mutant
CtxDone(i)        == now >= flight[i].due

FindErr_Cached(i) ==                                      \* mutant
  /\ flight[i].pc = "find"
  /\ CtxDone(i) \/ May("dbErr")
  /\ flight' = [flight EXCEPT ![i] = [@ EXCEPT !.pc = "set", !.ver = Err]]
  /\ UNCHANGED <<now, rowVars, cache, timers, readerVars, ownerVars>>
FindErr(i) ==
  /\ flight[i].pc = "find"
  /\ CtxDone(i) \/ May("dbErr")
  /\ Land(i, Err)
  /\ UNCHANGED cache

TTLs_NoLimit(v) == {MaxTime + LinkTTL}                    \* mutant
TTLs(v) == IF kind[v] = "none" THEN {NotFoundTTL} ELSE LinkTTL..(LinkTTL + Jitter)

Fill(i) ==
  /\ flight[i].pc = "set"
  /\ \E ttl \in TTLs(flight[i].ver) : cache' = [ver |-> flight[i].ver, exp |-> now + ttl]
  /\ Land(i, flight[i].ver)

(* The value is served all the same. *)
FillErr(i) ==
  /\ flight[i].pc = "set"
  /\ CtxDone(i) \/ May("redisErr")
  /\ Land(i, flight[i].ver)
  /\ UNCHANGED cache

-----------------------------------------------------------------------------
Crash(i) ==
  /\ May("crash")
  /\ flight' = [flight EXCEPT ![i] = NoFlight]
  /\ timers' = [timers EXCEPT ![i] = {}]
  /\ rpc' = [r \in Readers |-> IF Home[r] = i THEN "idle" ELSE rpc[r]]
  /\ gone' = {r \in gone : Home[r] # i}
  /\ opc' = [o \in Owners |-> IF Home[o] = i THEN "idle" ELSE opc[o]]
  /\ over' = [o \in Owners |-> IF Home[o] = i THEN 0 ELSE over[o]]
  /\ UNCHANGED <<now, rowVars, cache, res>>

(* Time passes and Redis expires the key, but a flight does not outlive its  *)
(* deadline, nor a command sent before it its network timeout.               *)
Overtime(i) == \/ flight[i].pc = "find" /\ now >= flight[i].due
               \/ flight[i].pc = "set" /\ now >= flight[i].due + CmdTime
Tick ==
  /\ now < MaxTime
  /\ \A i \in Instances : ~Overtime(i)
  /\ now' = now + 1
  /\ cache' = IF cache.exp <= now + 1 THEN Empty ELSE cache
  /\ UNCHANGED <<rowVars, flight, timers, readerVars, ownerVars>>

ReaderStep(r) == GetHit(r) \/ GetMiss(r) \/ Do(r)
FlightStep(i) == Find(i) \/ FindErr(i) \/ Fill(i) \/ FillErr(i)

Next ==
  \/ Create \/ Tick
  \/ \E o \in Owners : SetStatus(o) \/ Delete(o) \/ Invalidate(o) \/ NextRequest(o)
  \/ \E r \in Readers : Arrive(r) \/ Leave(r) \/ ReaderStep(r)
  \/ \E i \in Instances : FlightStep(i) \/ Crash(i) \/ \E t \in timers[i] : DeleteAgain(i, t)

Spec == Init /\ [][Next]_vars

(* Requests and flights run on. *)
FairSpec == /\ Spec
            /\ \A r \in Readers : WF_vars(ReaderStep(r))
            /\ \A i \in Instances : WF_vars(FlightStep(i))

-----------------------------------------------------------------------------
(* manage.go:32, "the TTL is the last limit": whatever fails, and whichever  *)
(* fill races the change, a superseded version leaves the cache one flight   *)
(* and one TTL after it was superseded.                                      *)
TTLOf(v) == IF kind[v] = "none" THEN NotFoundTTL ELSE LinkTTL + Jitter
Limit(v) == ended[v] + DbTimeout + CmdTime + TTLOf(v)
StaleBound == Cached /\ cache.ver < db => cache.exp <= Limit(cache.ver)

(* No request is answered with a version superseded longer ago than that.    *)
ServedWithinLimit ==
  [][\A r \in Readers :
       rpc[r] # "done" /\ rpc'[r] = "done" /\ res'[r] # Err
         => res'[r] = db \/ now <= Limit(res'[r])]_vars

(* link_cache.go:109: what a concurrent reader wrote back is cleaned by the  *)
(* second DEL: a cached link has an invalidation to come once a change of it *)
(* went through.  A change whose owner was told it failed invalidates        *)
(* nothing, even if the row has it (manage.go:14-17, 24-26).                 *)
Announced(v) == \E n \in (v + 1)..db : n \notin silent
DoubleDeleteCleans ==
  Cached /\ 0 < cache.ver /\ Announced(cache.ver) =>
    \/ \E o \in Owners : opc[o] = "del"
    \/ \E i \in Instances : timers[i] # {}

(* resolve.go:64: a client that leaves does not fail those who wait with it: *)
(* while the database answers, a request fails only at its flight's deadline.*)
NoSpillover ==
  [][\A r \in Readers :
       rpc[r] = "wait" /\ rpc'[r] = "done" /\ res'[r] = Err
         => now >= flight[Home[r]].due]_vars

(* Every request ends: it is answered, or fails by its flight's deadline.     *)
RequestEnds == \A r \in Readers : (rpc[r] = "get") ~> (rpc[r] = "done")

(* What resolve.go:26 and all after it rely on: getLink, with its cache and  *)
(* its flights, is the one step of LinkReader.                               *)
Unanswered == MaxVersion + 2
Got == [r \in Readers |-> IF rpc[r] = "done" THEN res[r] ELSE Unanswered]

Reader == INSTANCE LinkReader
            WITH got <- Got, None <- Unanswered,
                 LinkAge <- DbTimeout + CmdTime + LinkTTL + Jitter,
                 MissAge <- DbTimeout + CmdTime + NotFoundTTL
ReaderSpec == Reader!LinkReaderSpec
=============================================================================
