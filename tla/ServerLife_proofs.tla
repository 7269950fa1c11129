---------------------------- MODULE ServerLife_proofs ----------------------------
(***************************************************************************)
(* Proofs about ServerLife, for any number of processes, builds,           *)
(* migrations and calls.  The lock keeps its theorems in the whole life of *)
(* a server; with them, one process at a time has the database open, which *)
(* is all that the migrations and their snapshots need.                    *)
(***************************************************************************)
EXTENDS ServerLife, SingleWriterLock_proofs

\* A step of a server's life is a step of its lock or leaves the lock alone.
LEMMA LifeStepsLock == [LifeNext]_lifeVars => [Next]_vars
<1> SUFFICES ASSUME [LifeNext]_lifeVars PROVE [Next]_vars
  OBVIOUS
<1>1. CASE UNCHANGED lifeVars
  BY <1>1 DEF lifeVars
<1>2. ASSUME NEW p \in Processes, TakeLock(p) \/ Die(p) \/ Exit(p) \/ ForcedExit(p)
      PROVE  Next
  BY <1>2 DEF TakeLock, Die, Exit, ForcedExit, Next
<1>3. ASSUME NEW p \in Processes,
             \/ OpenDatabase(p) \/ Shutdown(p) \/ Drained(p) \/ CloseDatabase(p) \/ Stream(p)
             \/ \E c \in Calls : Ask(c, p)
      PROVE  UNCHANGED vars
  BY <1>3 DEF OpenDatabase, Shutdown, Drained, CloseDatabase, Stream, Ask
<1>4. ASSUME NEW c \in Calls,
             Spawn(c) \/ StopChild(c) \/ Escalate(c) \/ ChildExits(c) \/ HangUp(c)
      PROVE  UNCHANGED vars
  BY <1>4 DEF Spawn, StopChild, Escalate, ChildExits, HangUp
<1> QED
  BY <1>1, <1>2, <1>3, <1>4 DEF LifeNext

\* So whatever holds of the lock holds in the life of the servers.
THEOREM LockInLife == LifeSpec => Spec
BY LifeStepsLock, PTL DEF LifeSpec, LifeInit, Spec

-------------------------------------------------------------------------------
(* Who has the database open *)

\* The database is open only in a process that has the lock, and each kind of step
\* keeps it so.
OpenIsLocked == \A p \in Writers : pc[p] = "holding"

\* What a step of p may do to the migrations of the others: nothing.
MigrationStep(p) ==
  \/ M!Migrate(p) \/ M!Stop(p)

\* Nobody but p changes its place.
LEMMA OneMigrates ==
  ASSUME NEW p \in Processes, MigrationStep(p), NEW o \in Processes, o # p,
         at \in [Processes -> M!Stages]
  PROVE  at'[o] = at[o]
BY DEF MigrationStep, M!Migrate, M!Stop, M!ReadVersion, M!ClearSnapshot, M!StartSnapshot,
       M!FinishSnapshot, M!Begin, M!Commit, M!Take

\* The steps of a life, as far as the lock and the database are concerned.
LEMMA LifeCases ==
  ASSUME [LifeNext]_lifeVars
  PROVE  \/ UNCHANGED <<pc, migrationVars>>
         \/ \E p \in Processes : (Boot(p) \/ Acquire(p)) /\ UNCHANGED migrationVars
         \/ \E p \in Processes : pc[p] = "holding" /\ M!Migrate(p) /\ UNCHANGED pc
         \/ \E p \in Processes : M!Stop(p) /\ UNCHANGED pc
         \/ \E p \in Processes : Crash(p) /\ M!Stop(p)
         \/ \E p \in Processes : Crash(p) /\ at[p] = "over" /\ UNCHANGED migrationVars
         \/ \E p \in Processes : Release(p) /\ M!Stop(p)
         \/ \E p \in Processes : Release(p) /\ at[p] = "over" /\ UNCHANGED migrationVars
<1>1. CASE UNCHANGED lifeVars
  BY <1>1 DEF lifeVars, vars
<1>2. ASSUME NEW p \in Processes, TakeLock(p)
      PROVE  (Boot(p) \/ Acquire(p)) /\ UNCHANGED migrationVars
  BY <1>2 DEF TakeLock
<1>3. ASSUME NEW p \in Processes, OpenDatabase(p)
      PROVE  pc[p] = "holding" /\ M!Migrate(p) /\ UNCHANGED pc
  BY <1>3 DEF OpenDatabase, vars
<1>4. ASSUME NEW p \in Processes, Die(p) \/ ForcedExit(p)
      PROVE  (Crash(p) /\ M!Stop(p)) \/ (Crash(p) /\ at[p] = "over" /\ UNCHANGED migrationVars)
  BY <1>4 DEF Die, ForcedExit
<1>5. ASSUME NEW p \in Processes, CloseDatabase(p)
      PROVE  (M!Stop(p) /\ UNCHANGED pc) \/ UNCHANGED <<pc, migrationVars>>
  BY <1>5 DEF CloseDatabase, vars
<1>6. ASSUME NEW p \in Processes, Exit(p)
      PROVE  (Release(p) /\ M!Stop(p)) \/ (Release(p) /\ at[p] = "over" /\ UNCHANGED migrationVars)
  BY <1>6 DEF Exit
<1>7. ASSUME NEW p \in Processes,
             Shutdown(p) \/ Drained(p) \/ Stream(p) \/ \E c \in Calls : Ask(c, p)
      PROVE  UNCHANGED <<pc, migrationVars>>
  BY <1>7 DEF Shutdown, Drained, Stream, Ask, vars
<1>8. ASSUME NEW c \in Calls,
             Spawn(c) \/ StopChild(c) \/ Escalate(c) \/ ChildExits(c) \/ HangUp(c)
      PROVE  UNCHANGED <<pc, migrationVars>>
  BY <1>8 DEF Spawn, StopChild, Escalate, ChildExits, HangUp, vars
<1> QED
  BY <1>1, <1>2, <1>3, <1>4, <1>5, <1>6, <1>7, <1>8 DEF LifeNext

(* The migrations in the life of a server are those of Migrations: what holds of them
   for any number of racing processes holds here. *)
Racing == INSTANCE Migrations_proofs

LEMMA RacingAssumption == Racing!MigrationsAssumption
BY LifeAssumption, ConstantsAssumption DEF Racing!MigrationsAssumption

\* A step of a server's life is a step of its migrations or leaves them alone.
LEMMA LifeStepsMigrations == [LifeNext]_lifeVars => [Racing!Next]_(Racing!migrationVars)
BY LifeCases
   DEF Racing!Next, Racing!Migrate, Racing!Stop, Racing!ReadVersion, Racing!ClearSnapshot,
       Racing!StartSnapshot, Racing!FinishSnapshot, Racing!Begin, Racing!Commit, Racing!Take,
       Racing!fileVars, Racing!migrationVars, migrationVars,
       M!Migrate, M!Stop, M!ReadVersion, M!ClearSnapshot, M!StartSnapshot, M!FinishSnapshot,
       M!Begin, M!Commit, M!Take, M!fileVars

\* So whatever holds of the migrations holds in the life of the servers.
THEOREM MigrationsInLife == LifeSpec => Racing!Spec
<1>1. LifeInit => Racing!Init
  BY DEF LifeInit, M!Init, Racing!Init
<1> QED
  BY <1>1, LifeStepsMigrations, PTL DEF LifeSpec, Racing!Spec

\* What Migrations has proved, in the life of the servers.
LEMMA RacingInvariant == LifeSpec => []Racing!MigrationsInv
BY RacingAssumption, MigrationsInLife, Racing!MigrationsInvariant, PTL

\* A step of the migrations is made by a process that is not through.
LEMMA MigratesWhileOpen ==
  ASSUME Racing!TypeOK, NEW p \in Processes, M!Migrate(p)
  PROVE  /\ at[p] # "over"
         /\ \A o \in Processes \ {p} : at'[o] = at[o]
BY OneMigrates
   DEF MigrationStep, M!Migrate, M!ReadVersion, M!ClearSnapshot, M!StartSnapshot,
       M!FinishSnapshot, M!Begin, M!Commit, Racing!TypeOK, M!Stages, Racing!Stages

\* The end of a process's migrations is the end of its database.
LEMMA StopCloses ==
  ASSUME Racing!TypeOK, NEW p \in Processes, M!Stop(p)
  PROVE  at' = [at EXCEPT ![p] = "over"] /\ at'[p] = "over"
BY DEF M!Stop, Racing!TypeOK

\* Inductive: what takes or gives up the lock is done by a process that has not
\* opened the database yet or has closed it.
LEMMA OpenInvariant == LifeSpec => []OpenIsLocked
<1>1. LifeInit => OpenIsLocked
  BY DEF LifeInit, M!Init, OpenIsLocked, Writers
<1>2. TypeOK /\ Racing!TypeOK /\ OpenIsLocked /\ [LifeNext]_lifeVars => OpenIsLocked'
  <2> SUFFICES ASSUME TypeOK, Racing!TypeOK, OpenIsLocked, [LifeNext]_lifeVars PROVE OpenIsLocked'
    OBVIOUS
  <2> USE DEF OpenIsLocked, Writers
  <2>1. CASE UNCHANGED <<pc, at>>
    BY <2>1
  <2>2. ASSUME NEW p \in Processes, TakeLock(p) PROVE OpenIsLocked'
    <3>1. pc[p] # "holding" /\ \A o \in Processes \ {p} : pc'[o] = pc[o]
      BY <2>2 DEF TakeLock, Boot, Acquire, Open, WritePid, Read, Retry, Check, Remove, Reopen,
                  Create, Goto, TypeOK
    <3>2. UNCHANGED at
      BY <2>2 DEF TakeLock, migrationVars
    <3> QED
      BY <3>1, <3>2
  <2>3. ASSUME NEW p \in Processes, OpenDatabase(p) PROVE OpenIsLocked'
    <3>1. at[p] # "over" /\ \A o \in Processes \ {p} : at'[o] = at[o]
      BY <2>3, MigratesWhileOpen DEF OpenDatabase
    <3>2. pc[p] = "holding" /\ UNCHANGED pc
      BY <2>3 DEF OpenDatabase, vars
    <3> QED
      BY <3>1, <3>2
  <2>4. ASSUME NEW p \in Processes, Die(p) \/ ForcedExit(p) \/ Exit(p) PROVE OpenIsLocked'
    <3>1. pc' = [pc EXCEPT ![p] = "gone"]
      BY <2>4 DEF Die, ForcedExit, Exit, Crash, Release, Goto
    <3>2. at' = [at EXCEPT ![p] = "over"]
      BY <2>4, StopCloses DEF Die, ForcedExit, Exit, migrationVars, Racing!TypeOK
    <3> QED
      BY <3>1, <3>2 DEF TypeOK, Racing!TypeOK
  <2>5. ASSUME NEW p \in Processes, CloseDatabase(p) PROVE OpenIsLocked'
    <3>1. UNCHANGED pc
      BY <2>5 DEF CloseDatabase, vars
    <3>2. at' = [at EXCEPT ![p] = "over"] \/ UNCHANGED at
      BY <2>5, StopCloses DEF CloseDatabase, migrationVars
    <3> QED
      BY <3>1, <3>2 DEF Racing!TypeOK
  <2>6. ASSUME NEW p \in Processes, Shutdown(p) \/ Drained(p) PROVE UNCHANGED <<pc, at>>
    BY <2>6 DEF Shutdown, Drained, vars, migrationVars
  <2>7. ASSUME NEW p \in Processes, NEW c \in Calls, Ask(c, p)
        PROVE  UNCHANGED <<pc, at>>
    BY <2>7 DEF Ask, vars, migrationVars
  <2>8. ASSUME NEW p \in Processes, Stream(p) PROVE UNCHANGED <<pc, at>>
    BY <2>8 DEF Stream, vars, migrationVars
  <2>9. ASSUME NEW c \in Calls,
                Spawn(c) \/ StopChild(c) \/ Escalate(c) \/ ChildExits(c) \/ HangUp(c)
         PROVE  UNCHANGED <<pc, at>>
    BY <2>9 DEF Spawn, StopChild, Escalate, ChildExits, HangUp, vars, migrationVars
  <2>10. CASE UNCHANGED lifeVars
    BY <2>1, <2>10 DEF lifeVars, vars, migrationVars
  <2> QED
    BY <2>1, <2>2, <2>3, <2>4, <2>5, <2>6, <2>7, <2>8, <2>9, <2>10 DEF LifeNext
<1>3. Racing!MigrationsInv => Racing!TypeOK
  BY DEF Racing!MigrationsInv
<1> QED
  BY <1>1, <1>2, <1>3, LockInLife, Typing, RacingInvariant, PTL DEF LifeSpec

\* Whoever boots while the database is open anywhere reads a pidfile that names the
\* process that has it open, through its migrations and all of its shutdown.
THEOREM DatabaseIsGuarded == ASSUME ~BootsOverlap PROVE LifeSpec => []DatabaseGuarded
<1>1. PidfileNamesHolder /\ OpenIsLocked => DatabaseGuarded
  BY DEF PidfileNamesHolder, Holders, OpenIsLocked, DatabaseGuarded, Writers
<1> QED
  BY <1>1, LockInLife, PidfileIsRight, OpenInvariant, PTL

-------------------------------------------------------------------------------
(* One process at a time has the database open *)

\* The lock and what it is for, in one state.
Guarded == OneWriter /\ OpenIsLocked

\* Where a process holds the lock, nobody else has the database open.
LEMMA NobodyElse ==
  ASSUME Guarded, NEW p \in Processes, pc[p] = "holding"
  PROVE  \A o \in Processes \ {p} : at[o] \in {"boot", "over"}
BY DEF Guarded, OneWriter, Holders, OpenIsLocked, Writers

\* A process that migrates holds the lock, and every other step of the migrations is
\* the end of one.
LEMMA MigrationCases ==
  ASSUME [LifeNext]_lifeVars
  PROVE  \/ UNCHANGED migrationVars
         \/ \E p \in Processes : pc[p] = "holding" /\ M!Migrate(p)
         \/ \E p \in Processes : M!Stop(p)
BY LifeCases

\* A server opens the database only when nobody has it open.
THEOREM DatabaseHasOneUser == ASSUME ~BootsOverlap PROVE LifeSpec => DatabaseIsExclusive
<1>1. LifeInit => Exclusive!Init
  BY DEF LifeInit, M!Init, Exclusive!Init, Writers
<1>2. Racing!TypeOK /\ Guarded /\ [LifeNext]_lifeVars => [Exclusive!Next]_Writers
  <2> SUFFICES ASSUME Racing!TypeOK, Guarded, [LifeNext]_lifeVars
               PROVE  Exclusive!Next \/ Writers' = Writers
    OBVIOUS
  <2>1. CASE UNCHANGED migrationVars
    BY <2>1 DEF migrationVars, Writers
  <2>2. ASSUME NEW p \in Processes, pc[p] = "holding", M!Migrate(p)
        PROVE  Exclusive!Next \/ Writers' = Writers
    <3>1. \A o \in Processes \ {p} : at[o] \in {"boot", "over"} /\ at'[o] = at[o]
      BY <2>2, NobodyElse, MigratesWhileOpen
    <3>2. at[p] # "over" /\ at'[p] # "boot"
      BY <2>2, MigratesWhileOpen
         DEF M!Migrate, M!ReadVersion, M!ClearSnapshot, M!StartSnapshot, M!FinishSnapshot,
             M!Begin, M!Commit, M!Take, Racing!TypeOK
    <3>3. CASE at'[p] = "over"
      <4>1. at[p] = "boot" \/ at[p] # "boot"
        OBVIOUS
      <4>2. Writers' = Writers \ {p}
        BY <3>1, <3>2, <3>3 DEF Writers
      <4> QED
        BY <4>2 DEF Exclusive!Next, Exclusive!Leave
    <3>4. CASE at'[p] # "over"
      <4>1. Writers' = {p}
        BY <3>1, <3>2, <3>4 DEF Writers
      <4>2. Writers = {} \/ Writers = {p}
        BY <3>1 DEF Writers
      <4> QED
        BY <4>1, <4>2 DEF Exclusive!Next, Exclusive!Enter
    <3> QED
      BY <3>3, <3>4
  <2>3. ASSUME NEW p \in Processes, M!Stop(p) PROVE Exclusive!Next \/ Writers' = Writers
    <3>1. at' = [at EXCEPT ![p] = "over"] /\ at'[p] = "over"
      BY <2>3, StopCloses
    <3>2. Writers' = Writers \ {p}
      BY <3>1 DEF Racing!TypeOK, Writers
    <3> QED
      BY <3>2 DEF Exclusive!Next, Exclusive!Leave
  <2> QED
    BY <2>1, <2>2, <2>3, MigrationCases
<1>3. Racing!MigrationsInv => Racing!TypeOK
  BY DEF Racing!MigrationsInv
<1> QED
  BY <1>1, <1>2, <1>3, LockInLife, MutualExclusion, OpenInvariant, RacingInvariant, PTL
     DEF LifeSpec, DatabaseIsExclusive, Exclusive!Spec, Guarded

-------------------------------------------------------------------------------
(* The version that is served *)

\* With nobody else at it the file is always one short of the migration in hand, and
\* a process that is through has the version it was built for.
AloneInv ==
  \A p \in Processes :
    /\ at[p] \in Racing!InLoop => target[p] = version + 1
    /\ at[p] = "open" => version = build[p]

\* The head of the loop keeps that.
LEMMA TakeAlone ==
  ASSUME Racing!TypeOK, NEW p \in Processes, NEW v \in Nat, M!Take(p, v),
         version' = v - 1, version' <= build[p], UNCHANGED build,
         \A o \in Processes \ {p} : at[o] \in {"boot", "over"}
  PROVE  AloneInv'
<1> USE LifeAssumption DEF Racing!TypeOK, Racing!InLoop, Racing!Stages, AloneInv
<1>1. build[p] \in Nat /\ target[p] \in Nat
  OBVIOUS
<1>2. \A o \in Processes \ {p} : at'[o] \in {"boot", "over"}
  BY DEF M!Take
<1>3. target'[p] = v /\ at'[p] = IF v > build[p] THEN "open"
                                 ELSE IF v \in NonAdditive THEN "clear" ELSE "begin"
  BY DEF M!Take
<1>4. v > build[p] => version' = build[p]
  BY <1>1
<1> QED
  BY <1>1, <1>2, <1>3, <1>4

\* A step of the process that migrates.
LEMMA AloneStep ==
  ASSUME Racing!MigrationsInv, Guarded, AloneInv,
         NEW p \in Processes, pc[p] = "holding", M!Migrate(p)
  PROVE  AloneInv'
<1> USE LifeAssumption
    DEF Racing!MigrationsInv, Racing!TypeOK, Racing!LoopInv, Racing!InLoop, Racing!Stages
<1>1. \A o \in Processes \ {p} : at[o] \in {"boot", "over"}
  BY NobodyElse
<1>2. version \in Nat /\ build[p] \in Nat /\ target[p] \in Nat
  OBVIOUS
<1>3. CASE M!ReadVersion(p)
  <2>1. CASE version <= build[p] /\ M!Take(p, version + 1)
    <3>1. version + 1 \in Nat /\ version' = (version + 1) - 1 /\ UNCHANGED build
      BY <1>2, <1>3 DEF M!ReadVersion, M!fileVars
    <3> QED
      BY <1>1, <1>2, <2>1, <3>1, TakeAlone
  <2>2. CASE at' = [at EXCEPT ![p] = "refused"] /\ UNCHANGED target
    BY <1>1, <1>3, <2>2 DEF M!ReadVersion, M!fileVars, AloneInv
  <2> QED
    BY <1>3, <2>1, <2>2 DEF M!ReadVersion
<1>4. CASE M!ClearSnapshot(p) \/ M!StartSnapshot(p) \/ M!FinishSnapshot(p) \/ M!Begin(p)
  BY <1>1, <1>4 DEF M!ClearSnapshot, M!StartSnapshot, M!FinishSnapshot, M!Begin, AloneInv
<1>5. CASE M!Commit(p)
  <2>1. target[p] = version + 1 /\ target[p] <= build[p]
    BY <1>5 DEF M!Commit, AloneInv
  <2>2. version' = target[p] /\ UNCHANGED build /\ M!Take(p, target[p] + 1)
    BY <1>2, <1>5, <2>1 DEF M!Commit
  <2>3. target[p] + 1 \in Nat /\ version' = (target[p] + 1) - 1 /\ version' <= build[p]
    BY <1>2, <2>1, <2>2
  <2> QED
    BY <1>1, <2>2, <2>3, TakeAlone
<1> QED
  BY <1>3, <1>4, <1>5 DEF M!Migrate

\* Inductive, under the lock.
LEMMA AloneInvariant == ASSUME ~BootsOverlap PROVE LifeSpec => []AloneInv
<1>1. LifeInit => AloneInv
  BY DEF LifeInit, M!Init, AloneInv, Racing!InLoop
<1>2. Racing!MigrationsInv /\ Guarded /\ AloneInv /\ [LifeNext]_lifeVars => AloneInv'
  <2> SUFFICES ASSUME Racing!MigrationsInv, Guarded, AloneInv, [LifeNext]_lifeVars
               PROVE  AloneInv'
    OBVIOUS
  <2>1. CASE UNCHANGED migrationVars
    BY <2>1 DEF migrationVars, AloneInv
  <2>2. ASSUME NEW p \in Processes, M!Stop(p) PROVE AloneInv'
    <3>1. at' = [at EXCEPT ![p] = "over"] /\ at'[p] = "over"
      BY <2>2, StopCloses DEF Racing!MigrationsInv
    <3>2. \A o \in Processes \ {p} : at'[o] = at[o] /\ target'[o] = target[o]
      BY <2>2 DEF M!Stop, Racing!MigrationsInv, Racing!TypeOK
    <3> QED
      BY <2>2, <3>1, <3>2 DEF M!Stop, AloneInv, Racing!InLoop
  <2> QED
    BY <2>1, <2>2, AloneStep, MigrationCases
<1> QED
  BY <1>1, <1>2, LockInLife, MutualExclusion, OpenInvariant, RacingInvariant, PTL
     DEF LifeSpec, Guarded

\* A server serves a file of exactly the version it was built for.
THEOREM ServedVersionFits == ASSUME ~BootsOverlap PROVE LifeSpec => []SchemaFits
<1>1. AloneInv => SchemaFits
  BY DEF AloneInv, SchemaFits
<1> QED
  BY <1>1, AloneInvariant, PTL

-------------------------------------------------------------------------------
(* The snapshots *)

\* The complete snapshot of the file from just before migration v is there.
Kept(v) == backup[v] # NoFile /\ backup[v].whole /\ backup[v].of = v - 1

\* A process that copies is at a snapshot of its own, and one that is about to
\* migrate has it complete.
SnapshotInv ==
  /\ \A p \in Processes :
       /\ at[p] = "copy" =>
            backup[target[p]] # NoFile /\ backup[target[p]].by = p /\ backup[target[p]].of = target[p] - 1
       /\ at[p] \in {"begin", "inside"} /\ target[p] \in NonAdditive => Kept(target[p])
  /\ Restorable

\* A snapshot that is replaced is one that no committed migration needs.
LEMMA RestorableStep ==
  ASSUME Racing!TypeOK, Restorable, version' = version,
         \A v \in NonAdditive : v <= version => backup'[v] = backup[v]
  PROVE  Restorable'
BY LifeAssumption DEF Restorable, Racing!TypeOK

\* A step of the process that migrates.
LEMMA SnapshotStep ==
  ASSUME Racing!MigrationsInv, Guarded, AloneInv, SnapshotInv,
         NEW p \in Processes, pc[p] = "holding", M!Migrate(p)
  PROVE  SnapshotInv'
<1> USE LifeAssumption
    DEF Racing!MigrationsInv, Racing!TypeOK, Racing!LoopInv, Racing!InLoop, Racing!Stages
<1>1. \A o \in Processes \ {p} : at'[o] \in {"boot", "over"}
  BY NobodyElse, MigratesWhileOpen
<1>2. version \in Nat /\ target[p] \in Nat
  OBVIOUS
<1>3. CASE M!ReadVersion(p)
  <2>1. UNCHANGED <<version, backup>> /\ at'[p] \in {"refused", "open", "clear", "begin"}
        /\ (at'[p] = "begin" => target'[p] \notin NonAdditive)
    BY <1>3 DEF M!ReadVersion, M!Take, M!fileVars
  <2> QED
    BY <1>1, <2>1 DEF SnapshotInv, Restorable, Kept
<1>4. CASE M!ClearSnapshot(p)
  <2>1. target[p] = version + 1
    BY <1>4 DEF M!ClearSnapshot, AloneInv
  <2>2. UNCHANGED version /\ at'[p] = "vacuum" /\ backup' = [backup EXCEPT ![target[p]] = NoFile]
    BY <1>4 DEF M!ClearSnapshot
  <2>3. Restorable'
    BY <1>2, <2>1, <2>2, RestorableStep DEF SnapshotInv
  <2> QED
    BY <1>1, <2>2, <2>3 DEF SnapshotInv
<1>5. CASE M!StartSnapshot(p)
  <2>1. target[p] = version + 1 /\ target[p] \in NonAdditive /\ UNCHANGED <<version, target>>
    BY <1>5 DEF M!StartSnapshot, AloneInv
  <2>2. CASE at' = [at EXCEPT ![p] = "over"] /\ UNCHANGED backup
    BY <1>1, <2>1, <2>2, RestorableStep DEF SnapshotInv
  <2>3. CASE /\ backup' = [backup EXCEPT ![target[p]] = [by |-> p, of |-> version, whole |-> FALSE]]
             /\ at' = [at EXCEPT ![p] = "copy"]
    <3>1. Restorable'
      BY <1>2, <2>1, <2>3, RestorableStep DEF SnapshotInv
    <3>2. backup'[target[p]] = [by |-> p, of |-> version, whole |-> FALSE] /\ at'[p] = "copy"
      BY <2>1, <2>3
    <3>3. [by |-> p, of |-> version, whole |-> FALSE] \in Racing!Snapshots
          /\ NoFile \notin Racing!Snapshots
      BY <1>2 DEF Racing!Snapshots
    <3>4. /\ backup'[target'[p]] # NoFile /\ backup'[target'[p]].by = p
          /\ backup'[target'[p]].of = target'[p] - 1
      BY <1>2, <2>1, <3>2, <3>3
    <3> QED
      BY <1>1, <3>1, <3>2, <3>4 DEF SnapshotInv
  <2> QED
    BY <1>5, <2>2, <2>3 DEF M!StartSnapshot
<1>6. CASE M!FinishSnapshot(p)
  <2> DEFINE file == backup[target[p]]
  <2>1. /\ target[p] = version + 1 /\ target[p] \in NonAdditive /\ UNCHANGED <<version, target>>
        /\ file # NoFile /\ file.by = p /\ file.of = target[p] - 1
    BY <1>6 DEF M!FinishSnapshot, AloneInv, SnapshotInv
  <2>2. backup' = [backup EXCEPT ![target[p]] = [file EXCEPT !.whole = TRUE]] /\ at'[p] = "begin"
    BY <1>6, <2>1 DEF M!FinishSnapshot
  <2>3. file \in Racing!Snapshots /\ NoFile \notin Racing!Snapshots
    BY <2>1 DEF Racing!Snapshots
  <2>4. /\ [file EXCEPT !.whole = TRUE] \in Racing!Snapshots
        /\ [file EXCEPT !.whole = TRUE].whole = TRUE /\ [file EXCEPT !.whole = TRUE].of = file.of
    BY <2>3 DEF Racing!Snapshots
  <2>5. backup'[target[p]] = [file EXCEPT !.whole = TRUE]
    BY <2>1, <2>2
  <2> HIDE DEF file
  <2>6. Kept(target[p])'
    BY <2>1, <2>3, <2>4, <2>5 DEF Kept
  <2>7. Restorable'
    BY <1>2, <2>1, <2>2, RestorableStep DEF SnapshotInv
  <2> QED
    BY <1>1, <2>1, <2>2, <2>6, <2>7 DEF SnapshotInv
<1>7. CASE M!Begin(p)
  BY <1>1, <1>7 DEF M!Begin, SnapshotInv, Restorable, Kept
<1>8. CASE M!Commit(p)
  <2>1. /\ target[p] = version + 1 /\ UNCHANGED backup
        /\ target[p] \in NonAdditive => Kept(target[p])
    BY <1>8 DEF M!Commit, AloneInv, SnapshotInv
  <2>2. version' = target[p] /\ at'[p] \in {"open", "clear", "begin"}
        /\ (at'[p] = "begin" => target'[p] \notin NonAdditive)
    BY <1>2, <1>8, <2>1 DEF M!Commit, M!Take
  <2>3. ASSUME NEW v \in NonAdditive, version' >= v, \A f \in Found : f < v
        PROVE  Kept(v)
    <3>1. v \in Nat /\ v <= version + 1
      BY <2>1, <2>2, <2>3
    <3>2. v = target[p] \/ v <= version
      BY <1>2, <2>1, <3>1
    <3>3. CASE v <= version
      BY <1>2, <2>3, <3>1, <3>3 DEF SnapshotInv, Restorable, Kept
    <3> QED
      BY <2>1, <2>3, <3>2, <3>3
  <2>4. Restorable'
    BY <2>1, <2>3 DEF Restorable, Kept
  <2> QED
    BY <1>1, <2>2, <2>4 DEF SnapshotInv
<1> QED
  BY <1>3, <1>4, <1>5, <1>6, <1>7, <1>8 DEF M!Migrate

\* Inductive, under the lock.
LEMMA SnapshotInvariant == ASSUME ~BootsOverlap PROVE LifeSpec => []SnapshotInv
<1>1. LifeInit => SnapshotInv
  BY LifeAssumption DEF LifeInit, M!Init, SnapshotInv, Restorable
<1>2. Racing!MigrationsInv /\ Guarded /\ AloneInv /\ SnapshotInv /\ [LifeNext]_lifeVars
        => SnapshotInv'
  <2> SUFFICES ASSUME Racing!MigrationsInv, Guarded, AloneInv, SnapshotInv, [LifeNext]_lifeVars
               PROVE  SnapshotInv'
    OBVIOUS
  <2>1. CASE UNCHANGED migrationVars
    BY <2>1 DEF migrationVars, SnapshotInv, Restorable, Kept
  <2>2. ASSUME NEW p \in Processes, M!Stop(p) PROVE SnapshotInv'
    <3>1. at' = [at EXCEPT ![p] = "over"] /\ at'[p] = "over" /\ UNCHANGED <<version, backup>>
      BY <2>2, StopCloses DEF M!Stop, Racing!MigrationsInv
    <3>2. \A o \in Processes \ {p} : at'[o] = at[o] /\ target'[o] = target[o]
      BY <2>2 DEF M!Stop, Racing!MigrationsInv, Racing!TypeOK
    <3> QED
      BY <3>1, <3>2 DEF SnapshotInv, Restorable, Kept
  <2> QED
    BY <2>1, <2>2, SnapshotStep, MigrationCases
<1> QED
  BY <1>1, <1>2, LockInLife, MutualExclusion, OpenInvariant, RacingInvariant, AloneInvariant, PTL
     DEF LifeSpec, Guarded

\* Whatever crashed when, a committed destructive migration has its snapshot.
THEOREM SnapshotsRestore == ASSUME ~BootsOverlap PROVE LifeSpec => []Restorable
<1>1. SnapshotInv => Restorable
  BY DEF SnapshotInv
<1> QED
  BY <1>1, SnapshotInvariant, PTL

-------------------------------------------------------------------------------
(* The children *)

\* A child runs only for a call that waits for it.
ChildInv ==
  /\ phase \in [Processes -> {"up", "draining", "closing", "closed"}]
  /\ call \in [Calls -> {"none", "asked", "running", "ok", "failed"}]
  /\ child \in [Calls -> {"none", "running", "exited"}]
  /\ client \in [Calls -> {"open", "gone"}]
  /\ owner \in [Calls -> Processes \cup {NoProcess}]
  /\ \A c \in Calls : child[c] = "running" => call[c] = "running"
  /\ OnlyAbandonedCallsOutlive

\* A step that concerns no call and closes no database.
LEMMA ChildrenStay ==
  ASSUME ChildInv, UNCHANGED <<owner, call, child, client>>,
         phase' \in [Processes -> {"up", "draining", "closing", "closed"}],
         \A p \in Processes : phase'[p] = "closed" => phase[p] = "closed"
  PROVE  ChildInv'
BY DEF ChildInv, OnlyAbandonedCallsOutlive

\* Inductive: nobody serves a call once the database is closed.
LEMMA ChildInvariant == LifeSpec => []ChildInv
<1>1. LifeInit => ChildInv
  BY DEF LifeInit, ChildInv, OnlyAbandonedCallsOutlive
<1>2. ChildInv /\ [LifeNext]_lifeVars => ChildInv'
  <2> SUFFICES ASSUME ChildInv, [LifeNext]_lifeVars PROVE ChildInv'
    OBVIOUS
  <2>1. CASE UNCHANGED lifeVars
    BY <2>1, ChildrenStay DEF lifeVars, callVars, ChildInv
  <2>2. ASSUME NEW p \in Processes,
               \/ TakeLock(p) \/ OpenDatabase(p) \/ Die(p) \/ Exit(p) \/ ForcedExit(p)
               \/ Stream(p)
        PROVE  ChildInv'
    <3>1. UNCHANGED <<phase, owner, call, child, client>>
      BY <2>2 DEF TakeLock, OpenDatabase, Die, Exit, ForcedExit, Stream, callVars
    <3> QED
      BY <3>1, ChildrenStay DEF ChildInv
  <2>3. ASSUME NEW p \in Processes, Shutdown(p) \/ Drained(p) PROVE ChildInv'
    <3>1. PICK next \in {"draining", "closing"} : phase' = [phase EXCEPT ![p] = next]
      BY <2>3 DEF Shutdown, Drained
    <3>2. UNCHANGED <<owner, call, child, client>>
      BY <2>3 DEF Shutdown, Drained, callVars
    <3> QED
      BY <3>1, <3>2, ChildrenStay DEF ChildInv
  <2>4. ASSUME NEW p \in Processes, CloseDatabase(p) PROVE ChildInv'
    <3>1. /\ phase' = [phase EXCEPT ![p] = "closed"] /\ UNCHANGED <<owner, call, child, client>>
          /\ \A c \in Calls : owner[c] = p => call[c] \in {"ok", "failed"} \/ client[c] = "gone"
      BY <2>4 DEF CloseDatabase, callVars, Answered
    <3> QED
      BY <3>1 DEF ChildInv, OnlyAbandonedCallsOutlive
  <2>5. ASSUME NEW p \in Processes, NEW c \in Calls, Ask(c, p) PROVE ChildInv'
    BY <2>5 DEF Ask, ChildInv, OnlyAbandonedCallsOutlive, migrationVars
  <2>6. ASSUME NEW c \in Calls, Spawn(c) PROVE ChildInv'
    <3>1. phase[owner[c]] # "closed" /\ owner[c] \in Processes
      BY <2>6 DEF Spawn, Serving, Up, ChildInv
    <3> QED
      BY <2>6, <3>1 DEF Spawn, ChildInv, OnlyAbandonedCallsOutlive
  <2>7. ASSUME NEW c \in Calls, StopChild(c) \/ Escalate(c) PROVE ChildInv'
    <3>1. UNCHANGED <<phase, owner, call, child, client>>
      BY <2>7 DEF StopChild, Escalate
    <3> QED
      BY <3>1, ChildrenStay DEF ChildInv
  <2>8. ASSUME NEW c \in Calls, ChildExits(c) PROVE ChildInv'
    <3>1. /\ child' = [child EXCEPT ![c] = "exited"] /\ UNCHANGED <<phase, owner, client>>
          /\ call' = call \/ \E result \in {"ok", "failed"} : call' = [call EXCEPT ![c] = result]
      BY <2>8 DEF ChildExits
    <3> QED
      BY <3>1 DEF ChildInv, OnlyAbandonedCallsOutlive
  <2>9. ASSUME NEW c \in Calls, HangUp(c) PROVE ChildInv'
    BY <2>9 DEF HangUp, ChildInv, OnlyAbandonedCallsOutlive
  <2> QED
    BY <2>1, <2>2, <2>3, <2>4, <2>5, <2>6, <2>7, <2>8, <2>9 DEF LifeNext
<1> QED
  BY <1>1, <1>2, PTL DEF LifeSpec

\* A graceful exit leaves behind no child whose client still waits.
THEOREM NoAwaitedChildOutlives == LifeSpec => []OnlyAbandonedCallsOutlive
<1>1. ChildInv => OnlyAbandonedCallsOutlive
  BY DEF ChildInv
<1> QED
  BY <1>1, ChildInvariant, PTL

-------------------------------------------------------------------------------
(* The types *)

\* What the other invariants do not say of the types.
SignalTypes == sent \in [Calls -> {"none", "term", "kill"}] /\ stream \in [Processes -> BOOLEAN]

LEMMA SignalTyping == LifeSpec => []SignalTypes
<1>1. LifeInit => SignalTypes
  BY DEF LifeInit, SignalTypes
<1>2. SignalTypes /\ [LifeNext]_lifeVars => SignalTypes'
  <2> SUFFICES ASSUME SignalTypes, [LifeNext]_lifeVars PROVE SignalTypes'
    OBVIOUS
  <2>1. CASE UNCHANGED lifeVars
    BY <2>1 DEF lifeVars, callVars, SignalTypes
  <2>2. ASSUME NEW p \in Processes,
               \/ TakeLock(p) \/ OpenDatabase(p) \/ Die(p) \/ Exit(p) \/ ForcedExit(p)
               \/ Drained(p) \/ CloseDatabase(p) \/ \E c \in Calls : Ask(c, p)
        PROVE  SignalTypes'
    BY <2>2 DEF TakeLock, OpenDatabase, Die, Exit, ForcedExit, Drained, CloseDatabase, Ask,
                callVars, SignalTypes
  <2>3. ASSUME NEW p \in Processes, Shutdown(p) PROVE SignalTypes'
    <3>1. /\ sent' = [c \in Calls |-> IF owner[c] = p /\ child[c] = "running" /\ sent[c] = "none"
                                      THEN "term" ELSE sent[c]]
          /\ UNCHANGED stream
      BY <2>3 DEF Shutdown
    <3> QED
      BY <3>1 DEF SignalTypes
  <2>4. ASSUME NEW p \in Processes, Stream(p) PROVE SignalTypes'
    BY <2>4 DEF Stream, SignalTypes
  <2>5. ASSUME NEW c \in Calls,
               Spawn(c) \/ StopChild(c) \/ Escalate(c) \/ ChildExits(c) \/ HangUp(c)
        PROVE  SignalTypes'
    BY <2>5 DEF Spawn, StopChild, Escalate, ChildExits, HangUp, SignalTypes
  <2> QED
    BY <2>1, <2>2, <2>3, <2>4, <2>5 DEF LifeNext
<1> QED
  BY <1>1, <1>2, PTL DEF LifeSpec

\* Every state of a server's life has the types LifeTypeOK gives it: those of the lock
\* and of the migrations are theirs.
THEOREM LifeTyping == LifeSpec => []LifeTypeOK
<1>1. TypeOK /\ Racing!MigrationsInv /\ OpenIsLocked /\ ChildInv /\ SignalTypes => LifeTypeOK
  <2>1. Racing!TypeOK => M!TypeOK
    BY DEF Racing!TypeOK, M!TypeOK, Racing!Stages, M!Stages, Racing!Snapshots, M!Snapshots
  <2> QED
    BY <2>1 DEF Racing!MigrationsInv, OpenIsLocked, ChildInv, SignalTypes, LifeTypeOK
<1> QED
  BY <1>1, LockInLife, Typing, RacingInvariant, OpenInvariant, ChildInvariant, SignalTyping, PTL
=============================================================================
