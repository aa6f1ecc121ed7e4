------------------------------ MODULE Startup ------------------------------
(***************************************************************************)
(* How replicas start: ConnectPostgres, Migrate and ConnectRedis           *)
(* (infrastructure/datastore) as run of cmd/api/main.go calls them.        *)
(* Replicas start at once, with binaries of different age, fail, die and   *)
(* are started again.  A migration is the place of its file in the order   *)
(* of the names; an older binary has the first of them.                    *)
(***************************************************************************)
EXTENDS Naturals

CONSTANTS
  Replicas,
  Files,       \* migrations of the newest binary
  FilesOf,     \* FilesOf[r]: migrations embedded in the binary of r
  Attempts,    \* pings of a dependency before giving up (retry)
  Faults,      \* what may go wrong: subset of FaultKinds
  MaxFaults,   \* bound: faults of a behaviour
  None,        \* no session holds the lock
  Ghost        \* a session holds it whose client is gone

FaultKinds == {"notReady", "dbErr", "die"}

ASSUME StartupAssumption ==
  /\ Files \in Nat /\ Attempts \in Nat \ {0} /\ MaxFaults \in Nat
  /\ FilesOf \in [Replicas -> 0..Files]
  /\ Faults \subseteq FaultKinds
  /\ None \notin Replicas /\ Ghost \notin Replicas /\ None # Ghost

VARIABLES
  \* each replica
  pc,        \* next statement
  tries,     \* attempt of the retry loop
  file,      \* migration the loop of Migrate is at
  failed,    \* the error Migrate returns after the unlock
  \* PostgreSQL
  lock,      \* session that has the advisory lock
  table,     \* schema_migrations exists
  applied,   \* its rows
  effect,    \* effect[f]: how often the SQL of f was committed
  left,      \* migration whose COMMIT the ghost may have sent, or 0
  \* bound
  faults

replicaVars == <<pc, tries, file, failed>>
schemaVars  == <<table, applied, effect>>
vars        == <<replicaVars, lock, schemaVars, left, faults>>

\* The statements between the lock and the unlock.
Migrating == {"table", "check", "body", "mark", "commit", "unlock"}

TypeOK ==
  /\ pc \in [Replicas -> {"down", "postgres", "lock", "redis", "serving"} \cup Migrating]
  /\ tries \in [Replicas -> 1..Attempts]
  /\ file \in [Replicas -> 1..(Files + 1)]
  /\ failed \in [Replicas -> {"none", "db", "duplicate"}]
  /\ lock \in Replicas \cup {None, Ghost}
  /\ table \in BOOLEAN
  /\ applied \subseteq 1..Files
  /\ effect \in [1..Files -> Nat]
  /\ left \in 0..Files
  /\ faults \in 0..MaxFaults

Init ==
  /\ pc = [r \in Replicas |-> "down"]
  /\ tries = [r \in Replicas |-> 1]
  /\ file = [r \in Replicas |-> 1]
  /\ failed = [r \in Replicas |-> "none"]
  /\ lock = None /\ left = 0
  /\ table = FALSE /\ applied = {} /\ effect = [f \in 1..Files |-> 0]
  /\ faults = 0

To(r, next) == pc' = [pc EXCEPT ![r] = next]
Fault(f)    == f \in Faults /\ faults < MaxFaults /\ faults' = faults + 1

-----------------------------------------------------------------------------
(* A dependency is asked until it answers, Attempts times at most; then run *)
(* returns, and the process is started again.                               *)
Boot(r) ==
  /\ pc[r] = "down"
  /\ To(r, "postgres")
  /\ tries' = [tries EXCEPT ![r] = 1]
  /\ file' = [file EXCEPT ![r] = 1]
  /\ failed' = [failed EXCEPT ![r] = "none"]
  /\ UNCHANGED <<lock, schemaVars, left, faults>>

Ready(r) == IF pc[r] = "postgres" THEN "lock" ELSE "serving"

Ping(r) ==
  /\ pc[r] \in {"postgres", "redis"}
  /\ To(r, Ready(r))
  /\ tries' = [tries EXCEPT ![r] = 1]
  /\ UNCHANGED <<file, failed, lock, schemaVars, left, faults>>

LastTry_Past(r) == tries[r] > Attempts                      \* mutant
LastTry(r) == tries[r] = Attempts

PingErr(r) ==
  /\ pc[r] \in {"postgres", "redis"}
  /\ Fault("notReady")
  /\ IF LastTry(r)
       THEN To(r, "down") /\ UNCHANGED tries
       ELSE tries' = [tries EXCEPT ![r] = @ + 1] /\ UNCHANGED pc
  /\ UNCHANGED <<file, failed, lock, schemaVars, left>>

-----------------------------------------------------------------------------
(* Migrate.  pg_advisory_lock waits until no session has the lock. *)
LockFree_Always == TRUE                                     \* mutant
LockFree == lock = None

Acquire(r) ==
  /\ pc[r] = "lock" /\ LockFree
  /\ lock' = r
  /\ To(r, "table")
  /\ UNCHANGED <<tries, file, failed, schemaVars, left, faults>>

CreateTable(r) ==
  /\ pc[r] = "table"
  /\ table' = TRUE
  /\ To(r, "check")
  /\ UNCHANGED <<tries, file, failed, lock, applied, effect, left, faults>>

(* The loop: the next file that has no row is begun, none left ends it. *)
Check(r) ==
  /\ pc[r] = "check"
  /\ \/ /\ file[r] > FilesOf[r]
        /\ To(r, "unlock")
        /\ UNCHANGED file
     \/ /\ file[r] <= FilesOf[r] /\ file[r] \in applied
        /\ file' = [file EXCEPT ![r] = @ + 1]
        /\ UNCHANGED pc
     \/ /\ file[r] <= FilesOf[r] /\ file[r] \notin applied
        /\ To(r, "body")
        /\ UNCHANGED file
  /\ UNCHANGED <<tries, failed, lock, schemaVars, left, faults>>

(* The SQL of the file: no other session sees it before the commit. *)
Body(r) ==
  /\ pc[r] = "body"
  /\ To(r, "mark")
  /\ UNCHANGED <<tries, file, failed, lock, schemaVars, left, faults>>

(* INSERT INTO schema_migrations: waits for a transaction that inserts the  *)
(* same version; one that is there is a duplicate key, and rolls back.      *)
Inserting(r) == \/ left = file[r]
                \/ \E q \in Replicas \ {r} : pc[q] = "commit" /\ file[q] = file[r]

Mark(r) ==
  /\ pc[r] = "mark" /\ ~Inserting(r)
  /\ IF file[r] \in applied
       THEN To(r, "unlock") /\ failed' = [failed EXCEPT ![r] = "duplicate"]
       ELSE To(r, "commit") /\ UNCHANGED failed
  /\ UNCHANGED <<tries, file, lock, schemaVars, left, faults>>

Record_Forgotten(f) == UNCHANGED applied                    \* mutant
Record(f) == applied' = applied \cup {f}

TakeEffect(f) == Record(f) /\ effect' = [effect EXCEPT ![f] = @ + 1]

Commit(r) ==
  /\ pc[r] = "commit"
  /\ TakeEffect(file[r])
  /\ file' = [file EXCEPT ![r] = @ + 1]
  /\ To(r, "check")
  /\ UNCHANGED <<tries, failed, lock, table, left, faults>>

(* A statement fails: a transaction is rolled back, and Migrate returns the *)
(* error; before the lock there is nothing to undo.                         *)
SqlErr(r) ==
  /\ pc[r] \in {"lock", "table", "check", "body", "mark", "commit"}
  /\ Fault("dbErr")
  /\ To(r, IF pc[r] = "lock" THEN "down" ELSE "unlock")
  /\ failed' = [failed EXCEPT ![r] = "db"]
  /\ UNCHANGED <<tries, file, lock, schemaVars, left>>

(* The deferred unlock, then the return to run. *)
Returned_Ignored(r) == "redis"                              \* mutant
Returned(r) == IF failed[r] = "none" THEN "redis" ELSE "down"
Released_Kept(r) == lock                                    \* mutant
Released(r) == IF lock = r THEN None ELSE lock

Unlock(r) ==
  /\ pc[r] = "unlock"
  /\ lock' = Released(r)
  /\ To(r, Returned(r))
  /\ UNCHANGED <<tries, file, failed, schemaVars, left, faults>>

(* The error of the unlock is ignored: its connection is lost. *)
UnlockErr(r) ==
  /\ pc[r] = "unlock" /\ lock = r
  /\ Fault("dbErr")
  /\ lock' = Ghost
  /\ To(r, Returned(r))
  /\ UNCHANGED <<tries, file, failed, schemaVars, left>>

-----------------------------------------------------------------------------
(* The process dies, gets a SIGTERM or loses its connection: it is down, and *)
(* the server still has its session, with what was sent on it.  A session    *)
(* that gets the lock for a client already gone does nothing with it.        *)
Die(r) ==
  /\ pc[r] # "down"
  /\ Fault("die")
  /\ To(r, "down")
  /\ lock' \in {IF lock = r THEN Ghost ELSE lock}
                 \cup {g \in {Ghost} : pc[r] = "lock" /\ lock = None}
  /\ table' \in {table, table \/ pc[r] = "table"}
  /\ left' = IF lock = r /\ pc[r] = "commit" THEN file[r] ELSE left
  /\ UNCHANGED <<tries, file, failed, applied, effect>>

(* The server finds the client gone: a COMMIT that was sent has run, what was *)
(* not committed is rolled back, and the lock is released.                    *)
EndSession ==
  /\ lock = Ghost
  /\ lock' = None /\ left' = 0
  /\ \/ left # 0 /\ TakeEffect(left)
     \/ UNCHANGED <<applied, effect>>
  /\ UNCHANGED <<replicaVars, table, faults>>

Step(r) == \/ Boot(r) \/ Ping(r) \/ Acquire(r) \/ CreateTable(r) \/ Check(r)
           \/ Body(r) \/ Mark(r) \/ Commit(r) \/ Unlock(r)

Next == \/ \E r \in Replicas : Step(r) \/ PingErr(r) \/ SqlErr(r) \/ UnlockErr(r) \/ Die(r)
        \/ EndSession

Spec == Init /\ [][Next]_vars

(* A process that is down is started again, one that can go on does, and the *)
(* server finds out about lost connections.                                  *)
FairSpec == Spec /\ (\A r \in Replicas : WF_vars(Step(r))) /\ WF_vars(EndSession)

-----------------------------------------------------------------------------
(* postgres.go:37: each migration takes effect once and in order, whoever    *)
(* starts, fails or dies meanwhile, and together with its row.               *)
History == INSTANCE SchemaHistory
HistorySpec == History!HistorySpec

(* postgres.go:38, one replica migrates at a time: no start fails because    *)
(* another replica was at the same migration.                                *)
NeverDuplicate == \A r \in Replicas : failed[r] # "duplicate"

(* A replica that serves has all the schema its binary was written for.      *)
ServesOnSchema == \A r \in Replicas : pc[r] = "serving" => 1..FilesOf[r] \subseteq applied

(* When the faults are over every replica serves: none waits for the lock of *)
(* one that died, or of one that is done.                                    *)
EventuallyServing == \A r \in Replicas : <>[](pc[r] = "serving")
=============================================================================
