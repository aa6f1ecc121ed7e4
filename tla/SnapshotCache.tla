---------------------------- MODULE SnapshotCache ----------------------------
(***************************************************************************)
(* Showing a submission while its author deletes it: Resolve asks the      *)
(* CachedContentReader (redisstore/content_cache.go) for the snapshot, and *)
(* Delete of usecase/submission deletes the row and then the key.          *)
(*                                                                         *)
(* One submission is modelled, opened by a link that is accessible.  It    *)
(* has one version, which is visible until it is deleted or its author's   *)
(* account is locked.  Time is discrete.                                   *)
(***************************************************************************)
EXTENDS Naturals

CONSTANTS
  Instances,       \* processes of the service
  Readers,         \* requests that open the link
  Owners,          \* requests of the author to delete the submission
  Home,            \* the instance that handles a request
  SnapshotTTL,     \* life of the key (snapshotTTL)
  SnapshotTimeout, \* deadline of a flight (snapshotTimeout)
  CmdTime,         \* a Redis command runs that soon after it is sent, or never
  Faults,          \* what may go wrong, see FaultKinds
  MaxTime          \* bound

FaultKinds == {"redisErr",       \* a Redis command fails, or its client has left
               "redisReplyLost", \* a DEL runs and returns an error
               "dbErr",          \* a statement fails
               "dbReplyLost",    \* the UPDATE is committed and returns an error
               "crash"}          \* a process dies

ASSUME SnapshotAssumption ==
  /\ Home \in [Readers \cup Owners -> Instances]
  /\ SnapshotTTL \in Nat /\ SnapshotTimeout \in Nat /\ CmdTime \in Nat /\ MaxTime \in Nat
  /\ Faults \subseteq FaultKinds

VARIABLES
  now,
  deleted,    \* submissions.deleted_at is set
  locked,     \* users.status of the author is not active
  hiddenAt,   \* when the first of them happened
  cache,      \* submission:snapshot:*, alive until then
  flight,     \* flight[i]: the singleflight call of the instance
  rpc, res,   \* a reader's next step, and what it got
  opc, told,  \* an author's next step, and the answer
  \* history
  clean,      \* a DEL of the deleted submission ran while no fill was under way
  late        \* readers that came when an author had been told of success

rowVars    == <<deleted, locked, hiddenAt>>
readerVars == <<rpc, res>>
ownerVars  == <<opc, told>>
vars == <<now, rowVars, cache, flight, readerVars, ownerVars, clean, late>>

May(f)   == f \in Faults
NoFlight == [pc |-> "none", due |-> 0]

TypeOK ==
  /\ now \in Nat /\ hiddenAt \in Nat /\ cache \in Nat
  /\ deleted \in BOOLEAN /\ locked \in BOOLEAN /\ clean \in BOOLEAN
  /\ flight \in [Instances -> [pc : {"none", "find", "set"}, due : Nat]]
  /\ rpc \in [Readers -> {"idle", "get", "sf", "wait", "done"}]
  /\ res \in [Readers -> {"none", "page", "gone", "err"}]
  /\ opc \in [Owners -> {"idle", "del", "done"}]
  /\ told \in [Owners -> {"none", "deleted", "notFound", "err"}]
  /\ late \subseteq Readers

Init ==
  /\ now = 0 /\ hiddenAt = 0 /\ cache = 0
  /\ deleted = FALSE /\ locked = FALSE /\ clean = FALSE
  /\ flight = [i \in Instances |-> NoFlight]
  /\ rpc = [r \in Readers |-> "idle"] /\ res = [r \in Readers |-> "none"]
  /\ opc = [o \in Owners |-> "idle"] /\ told = [o \in Owners |-> "none"]
  /\ late = {}

-----------------------------------------------------------------------------
(* The author's side: the row, then the key.  Both errors end the request;  *)
(* a repeated request finds no row, and does not come to the key.           *)

Visible == ~deleted /\ ~locked
Hide    == hiddenAt' = IF Visible THEN now ELSE hiddenAt

Reply(o, answer) == /\ opc' = [opc EXCEPT ![o] = "done"]
                    /\ told' = [told EXCEPT ![o] = answer]

SoftDelete(o) ==
  /\ opc[o] = "idle" /\ ~deleted
  /\ deleted' = TRUE /\ Hide
  /\ \/ opc' = [opc EXCEPT ![o] = "del"] /\ UNCHANGED told
     \/ May("dbReplyLost") /\ Reply(o, "err")
  /\ UNCHANGED <<now, locked, cache, flight, readerVars, clean, late>>

NotDeleted(o) ==
  /\ opc[o] = "idle"
  /\ \/ deleted /\ Reply(o, "notFound")
     \/ May("dbErr") /\ Reply(o, "err")
  /\ UNCHANGED <<now, rowVars, cache, flight, readerVars, clean, late>>

Filling == \E i \in Instances : flight[i].pc = "set"
Del     == cache' = 0 /\ clean' = (clean \/ ~Filling)

Invalidate(o) ==
  /\ opc[o] = "del"
  /\ \/ Del /\ Reply(o, "deleted")
     \/ May("redisReplyLost") /\ Del /\ Reply(o, "err")
     \/ May("redisErr") /\ UNCHANGED <<cache, clean>> /\ Reply(o, "err")
  /\ UNCHANGED <<now, rowVars, flight, readerVars, late>>

TryAgain(o) ==
  /\ opc[o] = "done"
  /\ opc' = [opc EXCEPT ![o] = "idle"]
  /\ UNCHANGED <<now, rowVars, cache, flight, readerVars, told, clean, late>>

(* Another service locks the account; no one calls Invalidate for it. *)
LockAccount ==
  /\ ~locked
  /\ locked' = TRUE /\ Hide
  /\ UNCHANGED <<now, deleted, cache, flight, readerVars, ownerVars, clean, late>>

-----------------------------------------------------------------------------
(* The reader's side *)

Arrive(r) ==
  /\ rpc[r] = "idle"
  /\ rpc' = [rpc EXCEPT ![r] = "get"]
  /\ late' = IF \E o \in Owners : told[o] = "deleted" THEN late \cup {r} ELSE late
  /\ UNCHANGED <<now, rowVars, cache, flight, res, ownerVars, clean>>

Cached == cache > now

GetHit(r) ==
  /\ rpc[r] = "get" /\ Cached
  /\ res' = [res EXCEPT ![r] = "page"]
  /\ rpc' = [rpc EXCEPT ![r] = "done"]
  /\ UNCHANGED <<now, rowVars, cache, flight, ownerVars, clean, late>>

GetMiss(r) ==
  /\ rpc[r] = "get" /\ (~Cached \/ May("redisErr"))
  /\ rpc' = [rpc EXCEPT ![r] = "sf"]
  /\ UNCHANGED <<now, rowVars, cache, flight, res, ownerVars, clean, late>>

Do(r) ==
  /\ rpc[r] = "sf"
  /\ rpc' = [rpc EXCEPT ![r] = "wait"]
  /\ flight' = IF flight[Home[r]].pc = "none"
                 THEN [flight EXCEPT ![Home[r]] = [pc |-> "find", due |-> now + SnapshotTimeout]]
                 ELSE flight
  /\ UNCHANGED <<now, rowVars, cache, res, ownerVars, clean, late>>

Waiting(i) == {r \in Readers : Home[r] = i /\ rpc[r] = "wait"}
Land(i, x) ==
  /\ flight' = [flight EXCEPT ![i] = NoFlight]
  /\ res' = [r \in Readers |-> IF r \in Waiting(i) THEN x ELSE res[r]]
  /\ rpc' = [r \in Readers |-> IF r \in Waiting(i) THEN "done" ELSE rpc[r]]
  /\ UNCHANGED <<now, rowVars, ownerVars, clean, late>>

(* The SELECT finds a visible submission only; Resolve answers that the link *)
(* is gone when there is none, which is not cached.                          *)
Selected_Always == TRUE                                     \* mutant
Selected == Visible

Find(i) ==
  /\ flight[i].pc = "find" /\ Selected
  /\ flight' = [flight EXCEPT ![i].pc = "set"]
  /\ UNCHANGED <<now, rowVars, cache, readerVars, ownerVars, clean, late>>

FindNone(i) ==
  /\ flight[i].pc = "find" /\ ~Selected
  /\ Land(i, "gone")
  /\ UNCHANGED cache

CtxDone(i) == now >= flight[i].due

FindErr(i) ==
  /\ flight[i].pc = "find" /\ (CtxDone(i) \/ May("dbErr"))
  /\ Land(i, "err")
  /\ UNCHANGED cache

Expiry_None == now + SnapshotTTL + MaxTime                  \* mutant
Expiry == now + SnapshotTTL

Fill(i) ==
  /\ flight[i].pc = "set"
  /\ cache' = Expiry
  /\ Land(i, "page")

(* The value is served all the same. *)
FillErr(i) ==
  /\ flight[i].pc = "set" /\ (CtxDone(i) \/ May("redisErr"))
  /\ Land(i, "page")
  /\ UNCHANGED cache

-----------------------------------------------------------------------------
Crash(i) ==
  /\ May("crash")
  /\ flight' = [flight EXCEPT ![i] = NoFlight]
  /\ rpc' = [r \in Readers |-> IF Home[r] = i THEN "done" ELSE rpc[r]]
  /\ res' = [r \in Readers |-> IF Home[r] = i /\ rpc[r] # "done" THEN "err" ELSE res[r]]
  /\ opc' = [o \in Owners |-> IF Home[o] = i THEN "idle" ELSE opc[o]]
  /\ UNCHANGED <<now, rowVars, cache, told, clean, late>>

Overtime(i) == \/ flight[i].pc = "find" /\ now >= flight[i].due
               \/ flight[i].pc = "set" /\ now >= flight[i].due + CmdTime
Tick ==
  /\ now < MaxTime
  /\ \A i \in Instances : ~Overtime(i)
  /\ now' = now + 1
  /\ UNCHANGED <<rowVars, cache, flight, readerVars, ownerVars, clean, late>>

OwnerStep(o)  == SoftDelete(o) \/ NotDeleted(o) \/ Invalidate(o) \/ TryAgain(o)
ReaderStep(r) == Arrive(r) \/ GetHit(r) \/ GetMiss(r) \/ Do(r)
FlightStep(i) == Find(i) \/ FindNone(i) \/ FindErr(i) \/ Fill(i) \/ FillErr(i)

Next == \/ \E o \in Owners : OwnerStep(o)
        \/ \E r \in Readers : ReaderStep(r)
        \/ \E i \in Instances : FlightStep(i) \/ Crash(i)
        \/ LockAccount \/ Tick

Spec == Init /\ [][Next]_vars

-----------------------------------------------------------------------------
(* Whatever fails (a DEL that is lost and never repeated, a locked account), *)
(* what is hidden is out of the cache one flight and one TTL later.          *)
Limit == hiddenAt + SnapshotTimeout + CmdTime + SnapshotTTL
SnapshotBound == Cached /\ ~Visible => cache <= Limit

(* No one is shown a submission that was hidden longer ago than that.        *)
ShownWithinLimit ==
  [][\A r \in Readers :
       res[r] # "page" /\ res'[r] = "page" => Visible \/ now <= Limit]_vars

(* service.go:28, as far as it holds: once a DEL ran with no fill under way, *)
(* no one is shown the deleted submission any more, on any instance.         *)
GoneWhenClean ==
  [][\A r \in Readers : clean /\ res[r] # "page" => res'[r] # "page"]_vars

(* service.go:28: when the author has been told that the submission is       *)
(* deleted, who opens a link to it finds it gone at once.                    *)
GoneAtOnce == \A r \in late : res[r] # "page"

(* What resolve.go:27 relies on: Snapshot, with its cache and its flights,   *)
(* is the one step of PageContent.                                           *)
Content == INSTANCE PageContent
             WITH hidden <- ~Visible, shown <- res,
                  PageAge <- SnapshotTimeout + CmdTime + SnapshotTTL
ContentSpec == Content!ContentSpec
=============================================================================
