---------------------------- MODULE StartupProofs ----------------------------
(***************************************************************************)
(* Proofs about Startup, for every number of replicas, migrations,         *)
(* attempts and faults, and every mix of binaries.                         *)
(***************************************************************************)
EXTENDS Startup, TLAPS

(* A migration that was begun is one of the binary's. *)
InRange == \A r \in Replicas : pc[r] \in {"body", "mark", "commit"} => file[r] <= FilesOf[r]

LEMMA TypeInvariant == Spec => [](TypeOK /\ InRange)
<1> USE StartupAssumption
<1>1. Init => TypeOK /\ InRange
  <2> SUFFICES ASSUME Init PROVE TypeOK /\ InRange
    OBVIOUS
  <2>1. 1 \in 1..Attempts /\ 1 \in 1..(Files + 1) /\ 0 \in 0..Files /\ 0 \in 0..MaxFaults
    OBVIOUS
  <2>2. /\ pc \in [Replicas -> {"down"}] /\ failed \in [Replicas -> {"none"}]
        /\ tries \in [Replicas -> 1..Attempts] /\ file \in [Replicas -> 1..(Files + 1)]
        /\ effect \in [1..Files -> Nat]
    BY <2>1 DEF Init
  <2>3. \A r \in Replicas : pc[r] = "down"
    BY DEF Init
  <2> QED
    BY <2>1, <2>2, <2>3 DEF Init, TypeOK, InRange
<1>2. TypeOK /\ InRange /\ [Next]_vars => (TypeOK /\ InRange)'
  <2> SUFFICES ASSUME TypeOK, InRange, [Next]_vars PROVE TypeOK' /\ InRange'
    OBVIOUS
  <2> USE DEF TypeOK, InRange, Migrating, To
  <2>0. /\ \A r \in Replicas : /\ tries[r] \in 1..Attempts /\ file[r] \in 1..(Files + 1)
                                /\ FilesOf[r] \in Nat /\ FilesOf[r] <= Files
        /\ Files \in Nat /\ faults \in Nat
    OBVIOUS
  <2>1. ASSUME NEW r \in Replicas, Boot(r) PROVE TypeOK' /\ InRange'
    BY <2>1 DEF Boot, schemaVars
  <2>2. ASSUME NEW r \in Replicas, Ping(r) PROVE TypeOK' /\ InRange'
    BY <2>2 DEF Ping, Ready, schemaVars
  <2>3. ASSUME NEW r \in Replicas, PingErr(r) PROVE TypeOK' /\ InRange'
    <3>1. faults' \in 0..MaxFaults
      BY <2>3 DEF PingErr, Fault
    <3>2. tries' \in [Replicas -> 1..Attempts]
      <4>1. CASE LastTry(r)
        BY <2>3, <4>1 DEF PingErr
      <4>2. CASE ~LastTry(r)
        <5>1. tries[r] + 1 \in 1..Attempts
          BY <2>0, <4>2 DEF LastTry
        <5> QED
          BY <2>3, <4>2, <5>1 DEF PingErr
      <4> QED
        BY <4>1, <4>2
    <3>3. /\ pc' \in [Replicas -> {"down", "postgres", "lock", "redis", "serving"} \cup Migrating]
          /\ \A q \in Replicas : pc'[q] \in {"body", "mark", "commit"} => pc[q] = pc'[q]
      BY <2>3 DEF PingErr
    <3> QED
      BY <2>3, <3>1, <3>2, <3>3 DEF PingErr, schemaVars
  <2>4. ASSUME NEW r \in Replicas, Acquire(r) PROVE TypeOK' /\ InRange'
    BY <2>4 DEF Acquire, schemaVars
  <2>5. ASSUME NEW r \in Replicas, CreateTable(r) PROVE TypeOK' /\ InRange'
    BY <2>5 DEF CreateTable
  <2>6. ASSUME NEW r \in Replicas, Check(r) PROVE TypeOK' /\ InRange'
    <3>1. pc[r] = "check" /\ UNCHANGED <<tries, failed, lock, schemaVars, left, faults>>
      BY <2>6 DEF Check
    <3>2. CASE file[r] <= FilesOf[r] /\ file[r] \in applied
      <4>1. file[r] + 1 \in 1..(Files + 1)
        BY <2>0, <3>2
      <4>2. file' = [file EXCEPT ![r] = file[r] + 1] /\ UNCHANGED pc
        BY <2>6, <2>0, <3>2 DEF Check
      <4> QED
        BY <3>1, <4>1, <4>2 DEF schemaVars
    <3>3. CASE ~(file[r] <= FilesOf[r] /\ file[r] \in applied)
      <4>1. /\ UNCHANGED file /\ pc' \in {[pc EXCEPT ![r] = "unlock"], [pc EXCEPT ![r] = "body"]}
            /\ pc'[r] = "body" => file[r] <= FilesOf[r]
        BY <2>6, <2>0, <3>3 DEF Check
      <4> QED
        BY <3>1, <4>1 DEF schemaVars
    <3> QED
      BY <3>2, <3>3
  <2>7. ASSUME NEW r \in Replicas, Body(r) PROVE TypeOK' /\ InRange'
    BY <2>7 DEF Body, schemaVars
  <2>8. ASSUME NEW r \in Replicas, Mark(r) PROVE TypeOK' /\ InRange'
    BY <2>8 DEF Mark, schemaVars
  <2>9. ASSUME NEW r \in Replicas, Commit(r) PROVE TypeOK' /\ InRange'
    <3>1. file[r] \in 1..Files /\ file[r] + 1 \in 1..(Files + 1)
      BY <2>0, <2>9 DEF Commit
    <3>2. effect' \in [1..Files -> Nat] /\ applied' \subseteq 1..Files
      <4>1. /\ effect' = [effect EXCEPT ![file[r]] = effect[file[r]] + 1]
            /\ applied' = applied \cup {file[r]}
        BY <2>9 DEF Commit, TakeEffect, Record
      <4>2. effect[file[r]] + 1 \in Nat
        BY <3>1
      <4> QED
        BY <3>1, <4>1, <4>2
    <3>3. file' \in [Replicas -> 1..(Files + 1)]
      BY <2>9, <3>1 DEF Commit
    <3>4. /\ pc' = [pc EXCEPT ![r] = "check"]
          /\ file' = [file EXCEPT ![r] = file[r] + 1]
      BY <2>9 DEF Commit
    <3> QED
      BY <2>9, <3>2, <3>3, <3>4 DEF Commit
  <2>10. ASSUME NEW r \in Replicas, SqlErr(r) PROVE TypeOK' /\ InRange'
    BY <2>10 DEF SqlErr, Fault, schemaVars
  <2>11. ASSUME NEW r \in Replicas, Unlock(r) \/ UnlockErr(r) PROVE TypeOK' /\ InRange'
    <3>1. UNCHANGED <<tries, file, failed, schemaVars, left>> /\ faults' \in 0..MaxFaults
      BY <2>11 DEF Unlock, UnlockErr, Fault
    <3>2. lock' \in {lock, None, Ghost}
      BY <2>11 DEF Unlock, UnlockErr, Released
    <3>3. pc' = [pc EXCEPT ![r] = Returned(r)] /\ Returned(r) \in {"redis", "down"}
      BY <2>11 DEF Unlock, UnlockErr, Returned
    <3> QED
      BY <3>1, <3>2, <3>3 DEF schemaVars
  <2>12. ASSUME NEW r \in Replicas, Die(r) PROVE TypeOK' /\ InRange'
    <3>1. faults' \in 0..MaxFaults
      BY <2>12 DEF Die, Fault
    <3>2. left' \in 0..Files
      BY <2>0, <2>12 DEF Die
    <3>3. lock' \in Replicas \cup {None, Ghost} /\ table' \in BOOLEAN
      BY <2>12 DEF Die
    <3> QED
      BY <2>12, <3>1, <3>2, <3>3 DEF Die
  <2>13. CASE EndSession
    <3>1. CASE left # 0 /\ TakeEffect(left)
      <4>1. left \in 1..Files
        BY <3>1
      <4>2. effect' = [effect EXCEPT ![left] = effect[left] + 1] /\ applied' = applied \cup {left}
        BY <3>1 DEF TakeEffect, Record
      <4>3. effect[left] + 1 \in Nat
        BY <4>1
      <4> QED
        BY <2>13, <4>1, <4>2, <4>3 DEF EndSession, replicaVars
    <3>2. CASE UNCHANGED <<applied, effect>>
      BY <2>13, <3>2 DEF EndSession, replicaVars
    <3> QED
      BY <2>13, <3>1, <3>2 DEF EndSession
  <2>14. CASE UNCHANGED vars
    BY <2>14 DEF vars, replicaVars, schemaVars
  <2> QED
    BY <2>1, <2>2, <2>3, <2>4, <2>5, <2>6, <2>7, <2>8, <2>9, <2>10, <2>11, <2>12, <2>13, <2>14 DEF Next, Step
<1> QED
  BY <1>1, <1>2, PTL DEF Spec

(* Every variable has its type; retry never goes past its last attempt.    *)
THEOREM TypeCorrect == Spec => []TypeOK
BY TypeInvariant, PTL

-----------------------------------------------------------------------------
(* Who is between lock and unlock has the lock, so no two are.  The files    *)
(* before the one it is at are applied, that one is not once it is begun.    *)
(* What a dead session may still commit is the next file, and it has the     *)
(* lock too.                                                                 *)
Alone     == \A r \in Replicas : pc[r] \in Migrating => lock = r
LeftOver  == left # 0 => /\ lock = Ghost
                         /\ left \notin applied /\ 1..(left - 1) \subseteq applied
Passed    == \A r \in Replicas :
               pc[r] \in {"postgres", "lock", "table", "check", "body", "mark", "commit"}
                 => 1..(file[r] - 1) \subseteq applied
Begun     == \A r \in Replicas : pc[r] \in {"body", "mark", "commit"}
               => file[r] <= FilesOf[r] /\ file[r] \notin applied
Complete  == \A r \in Replicas :
               (pc[r] = "unlock" /\ failed[r] = "none") \/ pc[r] \in {"redis", "serving"}
                 => 1..FilesOf[r] \subseteq applied
MigrationInv == Alone /\ LeftOver /\ Passed /\ Begun /\ Complete /\ NeverDuplicate

(* Only the holder of the lock is between lock and unlock. *)
LEMMA OneAtATime ==
  ASSUME Alone, NEW r \in Replicas, pc[r] \in Migrating
  PROVE  lock = r /\ \A q \in Replicas \ {r} : pc[q] \notin Migrating
BY DEF Alone

LEMMA StaysMigrated == Spec => []MigrationInv
<1> USE StartupAssumption
<1>1. Init => MigrationInv
  <2> SUFFICES ASSUME Init PROVE MigrationInv
    OBVIOUS
  <2>1. left = 0 /\ \A r \in Replicas : pc[r] = "down" /\ failed[r] = "none"
    BY DEF Init
  <2> QED
    BY <2>1 DEF MigrationInv, Alone, LeftOver, Passed, Begun, Complete, NeverDuplicate, Migrating
<1>2. TypeOK /\ MigrationInv /\ [Next]_vars => MigrationInv'
  <2> SUFFICES ASSUME TypeOK, MigrationInv, [Next]_vars PROVE MigrationInv'
    OBVIOUS
  <2> USE DEF MigrationInv, Alone, LeftOver, Passed, Begun, Complete, NeverDuplicate, Migrating, To
  <2>0. /\ \A r \in Replicas : /\ file[r] \in Nat /\ file[r] >= 1 /\ FilesOf[r] \in Nat
                                /\ None # r /\ Ghost # r
        /\ left \in Nat /\ pc \in [Replicas -> {"down", "postgres", "lock", "redis", "serving"} \cup Migrating]
        /\ file \in [Replicas -> 1..(Files + 1)] /\ failed \in [Replicas -> {"none", "db", "duplicate"}]
    BY DEF TypeOK
  <2>1. ASSUME NEW r \in Replicas, Boot(r) \/ Ping(r) \/ PingErr(r) PROVE MigrationInv'
    <3>1. UNCHANGED <<lock, left, applied>>
      BY <2>1 DEF Boot, Ping, PingErr, schemaVars
    <3>2. \A q \in Replicas \ {r} : pc'[q] = pc[q] /\ file'[q] = file[q] /\ failed'[q] = failed[q]
      BY <2>0, <2>1 DEF Boot, Ping, PingErr
    <3>3. /\ pc'[r] \in {"postgres", "lock", "redis", "serving", "down"}
          /\ pc'[r] \in {"redis", "serving"} => pc[r] = "redis"
          /\ failed'[r] \in {failed[r], "none"}
          /\ pc'[r] \in {"postgres", "lock"} =>
               file'[r] = 1 \/ (pc[r] = "postgres" /\ file'[r] = file[r])
      BY <2>0, <2>1 DEF Boot, Ping, PingErr, Ready
    <3> QED
      BY <2>0, <3>1, <3>2, <3>3
  <2>2. ASSUME NEW r \in Replicas, Acquire(r) PROVE MigrationInv'
    <3>1. /\ pc[r] = "lock" /\ pc' = [pc EXCEPT ![r] = "table"]
          /\ lock = None /\ lock' = r /\ UNCHANGED <<left, applied, file, failed>>
      BY <2>2 DEF Acquire, LockFree, schemaVars
    <3>2. left = 0 /\ \A q \in Replicas : pc[q] \notin Migrating
      BY <2>0, <3>1
    <3>3. pc'[r] = "table" /\ \A q \in Replicas \ {r} : pc'[q] = pc[q]
      BY <2>0, <3>1
    <3>4. 1..(file[r] - 1) \subseteq applied
      BY <3>1
    <3>5. Alone' /\ LeftOver'
      BY <3>1, <3>2, <3>3
    <3>6. Passed' /\ Begun'
      BY <3>1, <3>2, <3>3, <3>4
    <3>7. Complete' /\ NeverDuplicate'
      BY <3>1, <3>2, <3>3
    <3> QED
      BY <3>5, <3>6, <3>7
  <2>3. ASSUME NEW r \in Replicas, CreateTable(r) \/ Body(r) PROVE MigrationInv'
    <3>1. UNCHANGED <<lock, left, applied, file, failed>>
      BY <2>3 DEF CreateTable, Body, schemaVars
    <3>2. \/ pc[r] = "table" /\ pc' = [pc EXCEPT ![r] = "check"]
          \/ pc[r] = "body" /\ pc' = [pc EXCEPT ![r] = "mark"]
      BY <2>3 DEF CreateTable, Body
    <3> QED
      BY <2>0, <3>1, <3>2
  <2>4. ASSUME NEW r \in Replicas, Check(r) PROVE MigrationInv'
    <3>0. pc[r] = "check" /\ UNCHANGED <<lock, left, applied, failed>>
      BY <2>4 DEF Check, schemaVars
    <3>1. CASE file[r] > FilesOf[r] /\ pc' = [pc EXCEPT ![r] = "unlock"] /\ UNCHANGED file
      <4>1. 1..FilesOf[r] \subseteq applied
        BY <2>0, <3>0, <3>1
      <4> QED
        BY <2>0, <3>0, <3>1, <4>1
    <3>2. CASE file[r] \in applied /\ file' = [file EXCEPT ![r] = file[r] + 1] /\ UNCHANGED pc
      <4>1. 1..(file'[r] - 1) \subseteq applied
        BY <2>0, <3>0, <3>2
      <4> QED
        BY <2>0, <3>0, <3>2, <4>1
    <3>3. CASE /\ file[r] <= FilesOf[r] /\ file[r] \notin applied
               /\ pc' = [pc EXCEPT ![r] = "body"] /\ UNCHANGED file
      BY <2>0, <3>0, <3>3
    <3> QED
      BY <2>4, <3>1, <3>2, <3>3 DEF Check
  <2>5. ASSUME NEW r \in Replicas, Mark(r) PROVE MigrationInv'
    <3>1. pc[r] = "mark" /\ UNCHANGED <<lock, left, applied, file>>
      BY <2>5 DEF Mark, schemaVars
    <3>2. pc' = [pc EXCEPT ![r] = "commit"] /\ UNCHANGED failed
      BY <2>5, <3>1 DEF Mark
    <3> QED
      BY <2>0, <3>1, <3>2
  <2>6. ASSUME NEW r \in Replicas, Commit(r) PROVE MigrationInv'
    <3>1. /\ pc[r] = "commit" /\ pc' = [pc EXCEPT ![r] = "check"]
          /\ file' = [file EXCEPT ![r] = file[r] + 1]
          /\ applied' = applied \cup {file[r]} /\ UNCHANGED <<lock, left, failed>>
      BY <2>6 DEF Commit, TakeEffect, Record
    <3>2. lock = r /\ left = 0 /\ \A q \in Replicas \ {r} : pc[q] \notin Migrating
      BY <2>0, <3>1
    <3>3. 1..(file'[r] - 1) \subseteq applied'
      BY <2>0, <3>1
    <3>4. \A q \in Replicas \ {r} : pc'[q] = pc[q] /\ file'[q] = file[q]
      BY <2>0, <3>1
    <3> QED
      BY <2>0, <3>1, <3>2, <3>3, <3>4
  <2>7. ASSUME NEW r \in Replicas, SqlErr(r) PROVE MigrationInv'
    <3>1. /\ UNCHANGED <<lock, left, applied, file>>
          /\ failed' = [failed EXCEPT ![r] = "db"]
          /\ \/ pc' = [pc EXCEPT ![r] = "down"]
             \/ pc[r] \in Migrating /\ pc' = [pc EXCEPT ![r] = "unlock"]
      BY <2>7 DEF SqlErr, schemaVars
    <3>2. failed'[r] = "db" /\ \A q \in Replicas \ {r} : pc'[q] = pc[q] /\ failed'[q] = failed[q]
      BY <2>0, <3>1
    <3> QED
      BY <2>0, <3>1, <3>2
  <2>8. ASSUME NEW r \in Replicas, Unlock(r) \/ UnlockErr(r) PROVE MigrationInv'
    <3>1. /\ pc[r] = "unlock" /\ lock' \in {None, Ghost}
          /\ pc' \in {[pc EXCEPT ![r] = "redis"], [pc EXCEPT ![r] = "down"]}
          /\ UNCHANGED <<left, applied, file, failed>>
      BY <2>0, <2>8 DEF Unlock, UnlockErr, Released, Returned, schemaVars
    <3>2. pc'[r] = "redis" => failed[r] = "none"
      BY <2>0, <2>8 DEF Unlock, UnlockErr, Returned
    <3>3. left = 0 /\ \A q \in Replicas \ {r} : pc[q] \notin Migrating /\ pc'[q] = pc[q]
      BY <2>0, <3>1
    <3> QED
      BY <2>0, <3>1, <3>2, <3>3
  <2>9. ASSUME NEW r \in Replicas, Die(r) PROVE MigrationInv'
    <3>1. pc' = [pc EXCEPT ![r] = "down"] /\ UNCHANGED <<applied, file, failed>>
      BY <2>9 DEF Die
    <3>2. CASE lock = r
      <4>1. lock' = Ghost /\ left' = IF pc[r] = "commit" THEN file[r] ELSE left
        BY <2>0, <2>9, <3>2 DEF Die
      <4>2. left = 0 /\ \A q \in Replicas \ {r} : pc[q] \notin Migrating /\ pc'[q] = pc[q]
        BY <2>0, <3>1, <3>2
      <4> QED
        BY <2>0, <3>1, <4>1, <4>2
    <3>3. CASE lock # r
      <4>1. left' = left /\ (lock' = lock \/ (lock = None /\ lock' = Ghost))
        BY <2>9, <3>3 DEF Die
      <4>2. \A q \in Replicas \ {r} : pc'[q] = pc[q]
        BY <2>0, <3>1
      <4> QED
        BY <2>0, <3>1, <4>1, <4>2
    <3> QED
      BY <3>2, <3>3
  <2>10. CASE EndSession
    <3>1. /\ lock = Ghost /\ lock' = None /\ left' = 0 /\ UNCHANGED <<pc, file, failed>>
          /\ applied' = applied \/ applied' = applied \cup {left}
      BY <2>10 DEF EndSession, TakeEffect, Record, replicaVars
    <3>2. \A q \in Replicas : pc[q] \notin Migrating
      BY <2>0, <3>1
    <3> QED
      BY <2>0, <3>1, <3>2
  <2>11. CASE UNCHANGED vars
    BY <2>11 DEF vars, replicaVars, schemaVars
  <2> QED
    BY <2>1, <2>2, <2>3, <2>4, <2>5, <2>6, <2>7, <2>8, <2>9, <2>10, <2>11 DEF Next, Step
<1> QED
  BY <1>1, <1>2, TypeCorrect, PTL DEF Spec

(* postgres.go:38: no start fails on a migration another replica is at.     *)
THEOREM NoCollision == Spec => []NeverDuplicate
<1>1. MigrationInv => NeverDuplicate
  BY DEF MigrationInv
<1> QED
  BY <1>1, StaysMigrated, PTL

(* main.go:54: whatever fails or dies, who serves has its whole schema.     *)
THEOREM ServesComplete == Spec => []ServesOnSchema
<1>1. MigrationInv => ServesOnSchema
  BY DEF MigrationInv, Complete, ServesOnSchema
<1> QED
  BY <1>1, StaysMigrated, PTL

-----------------------------------------------------------------------------
(* Migrate, for all replicas together, implements SchemaHistory: the only   *)
(* steps that touch the schema are the commit of a replica and that of a    *)
(* session whose client is gone, each of the next migration.                *)
THEOREM ImplementsHistory == Spec => HistorySpec
<1> USE StartupAssumption DEF History!Apply
<1>1. Init => History!HistoryInit
  BY DEF Init, History!HistoryInit
<1>2. ASSUME TypeOK, MigrationInv, [Next]_vars
      PROVE  [\E f \in 1..Files : History!Apply(f)]_<<applied, effect>>
  <2>1. ASSUME NEW r \in Replicas, Commit(r)
        PROVE  \E f \in 1..Files : History!Apply(f)
    <3>1. /\ file[r] \in 1..Files /\ file[r] \notin applied
          /\ 1..(file[r] - 1) \subseteq applied
      BY <1>2, <2>1 DEF Commit, TypeOK, MigrationInv, Passed, Begun
    <3> QED
      BY <2>1, <3>1 DEF Commit, TakeEffect, Record
  <2>2. CASE EndSession
    <3>1. CASE left # 0 /\ TakeEffect(left)
      <4>1. left \in 1..Files /\ left \notin applied /\ 1..(left - 1) \subseteq applied
        BY <1>2, <3>1 DEF TypeOK, MigrationInv, LeftOver
      <4> QED
        BY <3>1, <4>1 DEF TakeEffect, Record
    <3> QED
      BY <2>2, <3>1 DEF EndSession
  <2>3. ASSUME NEW r \in Replicas,
               \/ Boot(r) \/ Ping(r) \/ PingErr(r) \/ Acquire(r) \/ CreateTable(r) \/ Check(r)
               \/ Body(r) \/ Mark(r) \/ SqlErr(r) \/ Unlock(r) \/ UnlockErr(r) \/ Die(r)
        PROVE  UNCHANGED <<applied, effect>>
    BY <2>3 DEF Boot, Ping, PingErr, Acquire, CreateTable, Check, Body, Mark, SqlErr, Unlock,
                UnlockErr, Die, schemaVars
  <2>4. CASE UNCHANGED vars
    BY <2>4 DEF vars, schemaVars
  <2> QED
    BY <1>2, <2>1, <2>2, <2>3, <2>4 DEF Next, Step
<1> QED
  BY <1>1, <1>2, TypeCorrect, StaysMigrated, PTL DEF Spec, HistorySpec, History!HistorySpec

(* What SchemaHistory comes to: at any moment the database is as far as one  *)
(* of the migrations, all before it took effect and none after, each once    *)
(* (postgres.go:37); a row of schema_migrations never lies.                  *)
OnceInOrder == /\ \E n \in 0..Files : applied = 1..n
               /\ \A f \in 1..Files : effect[f] = IF f \in applied THEN 1 ELSE 0

LEMMA HistoryInOrder == HistorySpec => [](effect \in [1..Files -> Nat] /\ OnceInOrder)
<1> USE StartupAssumption
<1> DEFINE Inv == effect \in [1..Files -> Nat] /\ OnceInOrder
<1>1. History!HistoryInit => Inv
  <2> SUFFICES ASSUME History!HistoryInit PROVE Inv
    OBVIOUS
  <2>1. applied = 1..0 /\ 0 \in 0..Files
    BY DEF History!HistoryInit
  <2> QED
    BY <2>1 DEF History!HistoryInit, OnceInOrder
<1>2. Inv /\ [\E f \in 1..Files : History!Apply(f)]_<<applied, effect>> => Inv'
  <2> SUFFICES ASSUME Inv, [\E f \in 1..Files : History!Apply(f)]_<<applied, effect>> PROVE Inv'
    OBVIOUS
  <2>1. CASE UNCHANGED <<applied, effect>>
    BY <2>1 DEF OnceInOrder
  <2>2. ASSUME NEW f \in 1..Files, History!Apply(f) PROVE Inv'
    <3>1. PICK n \in 0..Files : applied = 1..n
      BY DEF OnceInOrder
    <3>2. f = n + 1
      <4>1. f > n
        BY <2>2, <3>1 DEF History!Apply
      <4>2. CASE f > n + 1
        <5>1. n + 1 \in 1..(f - 1)
          BY <3>1, <4>2
        <5>2. 1..(f - 1) \subseteq 1..n
          BY <2>2, <3>1 DEF History!Apply
        <5>3. n + 1 \notin 1..n
          BY <3>1
        <5> QED
          BY <5>1, <5>2, <5>3
      <4> QED
        BY <4>1, <4>2
    <3>3. applied' = 1..f
      BY <2>2, <3>1, <3>2 DEF History!Apply
    <3>4. effect' = [effect EXCEPT ![f] = 1]
      <4>1. f \notin applied /\ effect' = [effect EXCEPT ![f] = effect[f] + 1]
        BY <2>2 DEF History!Apply
      <4>2. effect[f] = 0
        BY <4>1 DEF OnceInOrder
      <4> QED
        BY <4>1, <4>2
    <3>5. f \in 0..Files /\ applied' = applied \cup {f} /\ effect' \in [1..Files -> Nat]
      BY <2>2, <3>4 DEF History!Apply
    <3>6. \A g \in 1..Files : effect'[g] = IF g \in applied' THEN 1 ELSE 0
      BY <3>4, <3>5 DEF OnceInOrder
    <3> QED
      BY <3>3, <3>5, <3>6 DEF OnceInOrder
  <2> QED
    BY <2>1, <2>2
<1> QED
  BY <1>1, <1>2, PTL DEF HistorySpec, History!HistorySpec

(* Starting replicas, whatever fails or dies, leave such a schema.           *)
THEOREM SchemaInOrder == Spec => []OnceInOrder
BY ImplementsHistory, HistoryInOrder, PTL

-----------------------------------------------------------------------------
(* Who has the lock is between lock and unlock: no way out of Migrate, and   *)
(* no death, leaves it with one who will not give it back.                   *)
HolderWorks == \A r \in Replicas : lock = r => pc[r] \in Migrating

LEMMA HoldersWork == Spec => []HolderWorks
<1> USE StartupAssumption
<1>1. Init => HolderWorks
  BY DEF Init, HolderWorks
<1>2. TypeOK /\ HolderWorks /\ [Next]_vars => HolderWorks'
  <2> SUFFICES ASSUME TypeOK, HolderWorks, [Next]_vars PROVE HolderWorks'
    OBVIOUS
  <2> USE DEF HolderWorks, Migrating, To
  <2>0. /\ pc \in [Replicas -> {"down", "postgres", "lock", "redis", "serving"} \cup Migrating]
        /\ \A r \in Replicas : None # r /\ Ghost # r
    BY DEF TypeOK
  <2>1. ASSUME NEW r \in Replicas, Boot(r) \/ Ping(r) \/ PingErr(r) PROVE HolderWorks'
    BY <2>0, <2>1 DEF Boot, Ping, PingErr
  <2>2. ASSUME NEW r \in Replicas, Acquire(r) \/ CreateTable(r) \/ Check(r) PROVE HolderWorks'
    BY <2>0, <2>2 DEF Acquire, CreateTable, Check
  <2>3. ASSUME NEW r \in Replicas, Body(r) \/ Mark(r) \/ Commit(r) PROVE HolderWorks'
    BY <2>0, <2>3 DEF Body, Mark, Commit
  <2>4. ASSUME NEW r \in Replicas, SqlErr(r) PROVE HolderWorks'
    BY <2>0, <2>4 DEF SqlErr
  <2>5. ASSUME NEW r \in Replicas, Unlock(r) \/ UnlockErr(r) PROVE HolderWorks'
    BY <2>0, <2>5 DEF Unlock, UnlockErr, Released
  <2>6. ASSUME NEW r \in Replicas, Die(r) PROVE HolderWorks'
    BY <2>0, <2>6 DEF Die
  <2>7. CASE EndSession
    BY <2>0, <2>7 DEF EndSession, replicaVars
  <2>8. CASE UNCHANGED vars
    BY <2>8 DEF vars, replicaVars
  <2> QED
    BY <2>1, <2>2, <2>3, <2>4, <2>5, <2>6, <2>7, <2>8 DEF Next, Step
<1> QED
  BY <1>1, <1>2, TypeCorrect, PTL DEF Spec

(* No one waits for ever on everyone: the insert into schema_migrations      *)
(* never has to wait, and who waits for the lock (postgres.go:42) does so    *)
(* for one that works and waits for nothing, or for a session that the       *)
(* server is about to end.                                                   *)
Waits(r) == \/ pc[r] = "lock" /\ ~LockFree
            \/ pc[r] = "mark" /\ Inserting(r)
WaitsForWorker ==
  \A r \in Replicas :
     Waits(r) => /\ pc[r] = "lock"
                 /\ \/ lock = Ghost
                    \/ \E q \in Replicas \ {r} : lock = q /\ pc[q] \in Migrating /\ ~Waits(q)

THEOREM NoStartDeadlock == Spec => []WaitsForWorker
<1> USE StartupAssumption
<1>1. TypeOK /\ MigrationInv /\ HolderWorks => WaitsForWorker
  <2> SUFFICES ASSUME TypeOK, MigrationInv, HolderWorks PROVE WaitsForWorker
    OBVIOUS
  <2>1. ASSUME NEW r \in Replicas, pc[r] = "mark" PROVE ~Inserting(r)
    <3>1. lock = r /\ \A q \in Replicas \ {r} : pc[q] # "commit"
      BY <2>1, OneAtATime DEF MigrationInv, Migrating
    <3>2. left = 0 /\ file[r] # 0
      BY <3>1 DEF MigrationInv, LeftOver, TypeOK
    <3> QED
      BY <3>1, <3>2 DEF Inserting
  <2>2. ASSUME NEW r \in Replicas, pc[r] = "lock", lock \notin {None, Ghost}
        PROVE  \E q \in Replicas \ {r} : lock = q /\ pc[q] \in Migrating /\ ~Waits(q)
    <3>1. PICK q \in Replicas : lock = q
      BY <2>2 DEF TypeOK
    <3>2. pc[q] \in Migrating /\ pc[q] # "lock" /\ q # r
      BY <2>2, <3>1 DEF HolderWorks, Migrating
    <3> QED
      BY <2>1, <3>1, <3>2 DEF Waits
  <2> QED
    BY <2>1, <2>2 DEF WaitsForWorker, Waits, LockFree
<1> QED
  BY <1>1, TypeCorrect, StaysMigrated, HoldersWork, PTL

-----------------------------------------------------------------------------
(* The statements a replica has still to run before it serves, at most: four *)
(* for each migration, and after a failed one all of them again.             *)
FilesLeft(r) == FilesOf[r] + 1 - file[r]
StepsLeft(r) ==
  CASE pc[r] = "down"     -> 4 * FilesOf[r] + 9
    [] pc[r] = "postgres" -> 4 * FilesLeft(r) + 8
    [] pc[r] = "lock"     -> 4 * FilesLeft(r) + 7
    [] pc[r] = "table"    -> 4 * FilesLeft(r) + 6
    [] pc[r] = "check"    -> 4 * FilesLeft(r) + 5
    [] pc[r] = "body"     -> 4 * FilesLeft(r) + 4
    [] pc[r] = "mark"     -> 4 * FilesLeft(r) + 3
    [] pc[r] = "commit"   -> 4 * FilesLeft(r) + 2
    [] pc[r] = "unlock"   -> IF failed[r] = "none" THEN 2 ELSE 4 * FilesOf[r] + 10
    [] pc[r] = "redis"    -> 1
    [] pc[r] = "serving"  -> 0

StandsStill(r) == UNCHANGED <<pc[r], file[r], failed[r], tries[r]>>

(* Every step is a fault, or leaves each replica where it is or nearer to    *)
(* serving: a start that nothing disturbs ends, whatever the others do, and  *)
(* so does the time for which it has the lock.                               *)
NearsServing ==
  [][\A r \in Replicas : StepsLeft(r)' < StepsLeft(r) \/ StandsStill(r) \/ faults' = faults + 1]_vars

(* No replica is further from serving than a start, a failed migration and   *)
(* the start after it.                                                       *)
StartBounded == \A r \in Replicas : /\ StepsLeft(r) \in 0..(4 * FilesOf[r] + 10)
                                    /\ StepsLeft(r) = 0 <=> pc[r] = "serving"

(* The loop of Migrate goes no further than the last file of the binary, and *)
(* it is left at the first error.                                            *)
InBinary == \A r \in Replicas : file[r] <= FilesOf[r] + 1
NoErrorYet == \A r \in Replicas :
                pc[r] \in {"postgres", "lock", "table", "check", "body", "mark", "commit"}
                  => failed[r] = "none"

LEMMA StaysInBinary == Spec => []InBinary
<1> USE StartupAssumption
<1>1. Init => InBinary
  <2> SUFFICES ASSUME Init, NEW r \in Replicas PROVE file[r] <= FilesOf[r] + 1
    BY DEF InBinary
  <2>1. file[r] = 1 /\ FilesOf[r] \in Nat
    BY DEF Init
  <2> QED
    BY <2>1
<1>2. TypeOK /\ InRange /\ InBinary /\ [Next]_vars => InBinary'
  <2> SUFFICES ASSUME TypeOK, InRange, InBinary, [Next]_vars, NEW r \in Replicas
               PROVE  file'[r] <= FilesOf[r] + 1
    BY DEF InBinary
  <2>1. file[r] \in Nat /\ FilesOf[r] \in Nat /\ file[r] <= FilesOf[r] + 1
    BY DEF TypeOK, InBinary
  <2>2. ASSUME NEW q \in Replicas, Boot(q) PROVE file'[r] \in {file[r], 1}
    BY <2>2 DEF Boot, TypeOK
  <2>3. ASSUME NEW q \in Replicas, Check(q) \/ Commit(q)
        PROVE  file'[r] = file[r] \/ (file[r] <= FilesOf[r] /\ file'[r] = file[r] + 1)
    BY <2>3 DEF Check, Commit, TypeOK, InRange
  <2>4. ASSUME NEW q \in Replicas,
               \/ Ping(q) \/ PingErr(q) \/ Acquire(q) \/ CreateTable(q) \/ Body(q) \/ Mark(q)
               \/ SqlErr(q) \/ Unlock(q) \/ UnlockErr(q) \/ Die(q)
        PROVE  UNCHANGED file
    BY <2>4 DEF Ping, PingErr, Acquire, CreateTable, Body, Mark, SqlErr, Unlock, UnlockErr, Die
  <2>5. CASE EndSession \/ UNCHANGED vars
    <3>1. UNCHANGED file
      BY <2>5 DEF EndSession, vars, replicaVars
    <3> QED
      BY <2>1, <3>1
  <2> QED
    BY <2>1, <2>2, <2>3, <2>4, <2>5 DEF Next, Step
<1> QED
  BY <1>1, <1>2, TypeInvariant, PTL DEF Spec

LEMMA LeftAtFirstError == Spec => []NoErrorYet
<1>1. Init => NoErrorYet
  BY DEF Init, NoErrorYet
<1>2. TypeOK /\ MigrationInv /\ NoErrorYet /\ [Next]_vars => NoErrorYet'
  <2> SUFFICES ASSUME TypeOK, MigrationInv, NoErrorYet, [Next]_vars PROVE NoErrorYet'
    OBVIOUS
  <2> USE DEF NoErrorYet, To, TypeOK
  <2>1. ASSUME NEW r \in Replicas, Boot(r) \/ Ping(r) \/ PingErr(r) PROVE NoErrorYet'
    BY <2>1 DEF Boot, Ping, PingErr, Ready
  <2>2. ASSUME NEW r \in Replicas, Acquire(r) \/ CreateTable(r) \/ Check(r) PROVE NoErrorYet'
    BY <2>2 DEF Acquire, CreateTable, Check
  <2>3. ASSUME NEW r \in Replicas, Body(r) \/ Commit(r) PROVE NoErrorYet'
    BY <2>3 DEF Body, Commit
  <2>4. ASSUME NEW r \in Replicas, Mark(r) PROVE NoErrorYet'
    BY <2>4 DEF Mark
  <2>5. ASSUME NEW r \in Replicas, SqlErr(r) PROVE NoErrorYet'
    BY <2>5 DEF SqlErr
  <2>6. ASSUME NEW r \in Replicas, Unlock(r) \/ UnlockErr(r) PROVE NoErrorYet'
    BY <2>6 DEF Unlock, UnlockErr, Returned
  <2>7. ASSUME NEW r \in Replicas, Die(r) PROVE NoErrorYet'
    BY <2>7 DEF Die
  <2>8. CASE EndSession \/ UNCHANGED vars
    BY <2>8 DEF EndSession, vars, replicaVars
  <2> QED
    BY <2>1, <2>2, <2>3, <2>4, <2>5, <2>6, <2>7, <2>8 DEF Next, Step
<1> QED
  BY <1>1, <1>2, TypeCorrect, StaysMigrated, PTL DEF Spec

(* What a step that is no fault does to a replica that does not stand still. *)
LEMMA StartSteps ==
  ASSUME TypeOK, MigrationInv, NoErrorYet, [Next]_vars, NEW r \in Replicas, ~StandsStill(r)
  PROVE  \/ faults' = faults + 1
         \/ /\ pc[r] = "down" /\ pc'[r] = "postgres" /\ file'[r] = 1
         \/ /\ \/ pc[r] = "postgres" /\ pc'[r] = "lock"
               \/ pc[r] = "lock"     /\ pc'[r] = "table"
               \/ pc[r] = "table"    /\ pc'[r] = "check"
               \/ pc[r] = "check"    /\ pc'[r] = "body"
               \/ pc[r] = "body"     /\ pc'[r] = "mark"
               \/ pc[r] = "mark"     /\ pc'[r] = "commit"
               \/ pc[r] = "check"    /\ pc'[r] = "unlock" /\ failed[r] = "none"
               \/ pc[r] = "unlock"   /\ pc'[r] = "redis"  /\ failed[r] = "none"
               \/ pc[r] = "unlock"   /\ pc'[r] = "down"   /\ failed[r] # "none"
               \/ pc[r] = "redis"    /\ pc'[r] = "serving"
            /\ file'[r] = file[r] /\ failed'[r] = failed[r]
         \/ /\ pc[r] \in {"check", "commit"} /\ pc'[r] = "check" /\ file'[r] = file[r] + 1
<1> USE DEF StandsStill, To, TypeOK
<1>1. ASSUME NEW q \in Replicas, Boot(q) PROVE q = r /\ pc[r] = "down" /\ pc'[r] = "postgres" /\ file'[r] = 1
  BY <1>1 DEF Boot
<1>2. ASSUME NEW q \in Replicas, Ping(q)
      PROVE  /\ \/ pc[r] = "postgres" /\ pc'[r] = "lock"
                \/ pc[r] = "redis"    /\ pc'[r] = "serving"
             /\ file'[r] = file[r] /\ failed'[r] = failed[r]
  BY <1>2 DEF Ping, Ready
<1>3. ASSUME NEW q \in Replicas, Acquire(q) \/ CreateTable(q) \/ Body(q)
      PROVE  /\ \/ pc[r] = "lock"     /\ pc'[r] = "table"
                \/ pc[r] = "table"    /\ pc'[r] = "check"
                \/ pc[r] = "body"     /\ pc'[r] = "mark"
             /\ file'[r] = file[r] /\ failed'[r] = failed[r]
  BY <1>3 DEF Acquire, CreateTable, Body
<1>4. ASSUME NEW q \in Replicas, Check(q)
      PROVE  \/ /\ pc[r] = "check" /\ pc'[r] \in {"body", "unlock"} /\ failed[r] = "none"
                /\ file'[r] = file[r] /\ failed'[r] = failed[r]
             \/ pc[r] = "check" /\ pc'[r] = "check" /\ file'[r] = file[r] + 1
  <2>1. q = r /\ pc[r] = "check" /\ failed[r] = "none"
    BY <1>4 DEF Check, NoErrorYet
  <2> QED
    BY <1>4, <2>1 DEF Check
<1>5. ASSUME NEW q \in Replicas, Mark(q)
      PROVE  /\ pc[r] = "mark" /\ pc'[r] = "commit"
             /\ file'[r] = file[r] /\ failed'[r] = failed[r]
  <2>1. file[q] \notin applied
    BY <1>5 DEF Mark, MigrationInv, Begun
  <2> QED
    BY <1>5, <2>1 DEF Mark
<1>6. ASSUME NEW q \in Replicas, Commit(q)
      PROVE  pc[r] = "commit" /\ pc'[r] = "check" /\ file'[r] = file[r] + 1
  BY <1>6 DEF Commit
<1>7. ASSUME NEW q \in Replicas, Unlock(q)
      PROVE  /\ \/ pc[r] = "unlock"   /\ pc'[r] = "redis"  /\ failed[r] = "none"
                \/ pc[r] = "unlock"   /\ pc'[r] = "down"   /\ failed[r] # "none"
             /\ file'[r] = file[r] /\ failed'[r] = failed[r]
  BY <1>7 DEF Unlock, Returned
<1>8. ASSUME NEW q \in Replicas, PingErr(q) \/ SqlErr(q) \/ UnlockErr(q) \/ Die(q)
      PROVE  faults' = faults + 1
  BY <1>8 DEF PingErr, SqlErr, UnlockErr, Die, Fault
<1>9. CASE EndSession \/ UNCHANGED vars
  BY <1>9 DEF EndSession, vars, replicaVars
<1> QED
  BY <1>1, <1>2, <1>3, <1>4, <1>5, <1>6, <1>7, <1>8, <1>9 DEF Next, Step

(* A start that nothing disturbs ends, whatever the other replicas do.       *)
THEOREM StartEnds == Spec => NearsServing
<1> USE StartupAssumption
<1>1. ASSUME TypeOK, InBinary, NoErrorYet, MigrationInv, [Next]_vars, NEW r \in Replicas
      PROVE  StepsLeft(r)' < StepsLeft(r) \/ StandsStill(r) \/ faults' = faults + 1
  <2>1. FilesOf[r] \in Nat /\ file[r] \in Nat /\ file[r] <= FilesOf[r] + 1
    BY <1>1 DEF TypeOK, InBinary
  <2> QED
    BY <1>1, <2>1, StartSteps DEF StepsLeft, FilesLeft
<1>2. TypeOK /\ InBinary /\ NoErrorYet /\ MigrationInv /\ [Next]_vars
        => [\A r \in Replicas : StepsLeft(r)' < StepsLeft(r) \/ StandsStill(r) \/ faults' = faults + 1]_vars
  BY <1>1
<1> QED
  BY <1>2, TypeCorrect, StaysInBinary, LeftAtFirstError, StaysMigrated, PTL DEF Spec, NearsServing

THEOREM StartsBounded == Spec => []StartBounded
<1> USE StartupAssumption
<1>1. TypeOK /\ InBinary => StartBounded
  <2> SUFFICES ASSUME TypeOK, InBinary, NEW r \in Replicas
               PROVE  /\ StepsLeft(r) \in 0..(4 * FilesOf[r] + 10)
                      /\ (StepsLeft(r) = 0) <=> (pc[r] = "serving")
    BY DEF StartBounded
  <2>1. /\ FilesOf[r] \in Nat /\ file[r] \in Nat /\ file[r] >= 1 /\ file[r] <= FilesOf[r] + 1
        /\ pc[r] \in {"down", "postgres", "lock", "redis", "serving", "table", "check", "body",
                       "mark", "commit", "unlock"}
    BY DEF TypeOK, InBinary, Migrating
  <2>2. FilesLeft(r) \in Nat /\ FilesLeft(r) <= FilesOf[r]
    BY <2>1 DEF FilesLeft
  <2>3. StepsLeft(r) \in Nat /\ StepsLeft(r) <= 4 * FilesOf[r] + 10
    <3>1. CASE pc[r] \in {"down", "redis", "serving", "unlock"}
      BY <2>1, <3>1 DEF StepsLeft
    <3>2. CASE pc[r] \in {"postgres", "lock", "table", "check", "body", "mark", "commit"}
      <4>1. PICK k \in 2..8 : StepsLeft(r) = 4 * FilesLeft(r) + k
        BY <2>1, <3>2 DEF StepsLeft
      <4> QED
        BY <2>1, <2>2, <4>1
    <3> QED
      BY <2>1, <3>1, <3>2
  <2>4. (StepsLeft(r) = 0) <=> (pc[r] = "serving")
    BY <2>1, <2>2 DEF StepsLeft
  <2> QED
    BY <2>1, <2>3, <2>4
<1> QED
  BY <1>1, TypeCorrect, StaysInBinary, PTL
=============================================================================
