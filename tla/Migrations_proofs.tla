--------------------------- MODULE Migrations_proofs ---------------------------
(***************************************************************************)
(* Proofs about Migrations, for any number of processes, any builds and    *)
(* any list of migrations.                                                 *)
(***************************************************************************)
EXTENDS Migrations, TLAPS

\* In the loop, with a migration in hand.
InLoop == {"clear", "vacuum", "copy", "begin", "inside"}

\* A process never has a migration in hand that its build does not know or that is
\* more than one ahead of the file, and only a destructive one gets a snapshot.
LoopInv ==
  \A p \in Processes :
    /\ at[p] \in InLoop => target[p] - 1 <= version /\ target[p] <= build[p]
    /\ at[p] \in {"clear", "vacuum", "copy"} => target[p] \in NonAdditive
    /\ at[p] = "open" => version >= build[p]

MigrationsInv == TypeOK /\ LoopInv /\ MigratedOnce

\* What the head of the loop may do, from a version the file has reached.
LEMMA TakeStep ==
  ASSUME TypeOK, LoopInv, NEW p \in Processes, NEW v \in Nat, Take(p, v),
         version' \in Nat, version' >= version, v - 1 <= version', build' = build
  PROVE  /\ at' \in [Processes -> Stages] /\ target' \in [Processes -> Nat]
         /\ LoopInv'
<1> USE MigrationsAssumption DEF TypeOK, LoopInv, InLoop, Stages
<1>1. at' \in [Processes -> Stages] /\ target' \in [Processes -> Nat]
  BY DEF Take
<1>2. ASSUME NEW o \in Processes
      PROVE  /\ at'[o] \in InLoop => target'[o] - 1 <= version' /\ target'[o] <= build[o]
             /\ at'[o] \in {"clear", "vacuum", "copy"} => target'[o] \in NonAdditive
             /\ at'[o] = "open" => version' >= build[o]
  <2>1. build[p] \in Nat /\ build[o] \in Nat /\ target[o] \in Nat /\ version \in Nat
    OBVIOUS
  <2>2. CASE o = p
    <3>1. target'[p] = v /\ at'[p] = IF v > build[p] THEN "open"
                                     ELSE IF v \in NonAdditive THEN "clear" ELSE "begin"
      BY DEF Take
    <3> QED
      BY <2>1, <2>2, <3>1
  <2>3. CASE o # p
    <3>1. target'[o] = target[o] /\ at'[o] = at[o]
      BY <2>3 DEF Take
    <3> QED
      BY <2>1, <3>1
  <2> QED
    BY <2>2, <2>3
<1> QED
  BY <1>1, <1>2

\* A step that does not commit leaves the file as it is.
LEMMA QuietStep ==
  ASSUME MigrationsInv, NEW p \in Processes,
         \/ ReadVersion(p) \/ ClearSnapshot(p) \/ StartSnapshot(p) \/ FinishSnapshot(p)
         \/ Begin(p) \/ Stop(p)
  PROVE  MigrationsInv'
<1> USE MigrationsAssumption DEF MigrationsInv
<1>1. MigratedOnce'
  BY DEF MigratedOnce, ReadVersion, ClearSnapshot, StartSnapshot, FinishSnapshot, Begin, Stop,
         fileVars
<1>2. CASE ReadVersion(p)
  <2>1. CASE version <= build[p] /\ Take(p, version + 1)
    <3>1. version + 1 \in Nat /\ (version + 1) - 1 <= version /\ version' = version /\ build' = build
      BY <1>2 DEF ReadVersion, TypeOK, fileVars
    <3>2. /\ at' \in [Processes -> Stages] /\ target' \in [Processes -> Nat]
          /\ LoopInv'
      BY <2>1, <3>1, TakeStep DEF TypeOK
    <3> QED
      BY <1>1, <1>2, <3>2 DEF ReadVersion, TypeOK, fileVars
  <2>2. CASE at' = [at EXCEPT ![p] = "refused"] /\ UNCHANGED target
    BY <1>1, <1>2, <2>2 DEF ReadVersion, TypeOK, LoopInv, InLoop, Stages, fileVars
  <2> QED
    BY <1>2, <2>1, <2>2 DEF ReadVersion
<1>3. CASE ClearSnapshot(p)
  BY <1>1, <1>3 DEF ClearSnapshot, TypeOK, LoopInv, InLoop, Stages
<1>4. CASE StartSnapshot(p)
  <2>1. [by |-> p, of |-> version, whole |-> FALSE] \in Snapshots
    BY DEF Snapshots, TypeOK
  <2> QED
    BY <1>1, <1>4, <2>1 DEF StartSnapshot, TypeOK, LoopInv, InLoop, Stages
<1>5. CASE FinishSnapshot(p)
  <2>1. at[p] = "copy" /\ target[p] \in NonAdditive
    BY <1>5 DEF FinishSnapshot, LoopInv
  <2>2. ASSUME backup[target[p]] # NoFile
        PROVE  [backup[target[p]] EXCEPT !.whole = TRUE] \in Snapshots
    BY <2>1, <2>2 DEF TypeOK, Snapshots
  <2>3. backup' \in [NonAdditive -> Snapshots \cup {NoFile}]
    BY <1>5, <2>1, <2>2 DEF FinishSnapshot, TypeOK
  <2> QED
    BY <1>1, <1>5, <2>3 DEF FinishSnapshot, TypeOK, LoopInv, InLoop, Stages
<1>6. CASE Begin(p)
  BY <1>1, <1>6 DEF Begin, TypeOK, LoopInv, InLoop, Stages
<1>7. CASE Stop(p)
  BY <1>1, <1>7 DEF Stop, TypeOK, LoopInv, InLoop, Stages
<1> QED
  BY <1>2, <1>3, <1>4, <1>5, <1>6, <1>7

\* A commit applies the one migration that is due, or nothing.
LEMMA CommitStep ==
  ASSUME MigrationsInv, NEW p \in Processes, Commit(p) PROVE MigrationsInv'
<1> USE MigrationsAssumption DEF MigrationsInv
<1>1. /\ version \in Nat /\ target[p] \in Nat /\ build[p] \in Nat
      /\ target[p] - 1 <= version /\ build' = build
  BY DEF Commit, TypeOK, LoopInv, InLoop
<1>2. version' \in Nat /\ version' >= version /\ target[p] <= version'
  BY <1>1 DEF Commit
<1>3. /\ at' \in [Processes -> Stages] /\ target' \in [Processes -> Nat]
      /\ LoopInv'
  <2>1. target[p] + 1 \in Nat /\ (target[p] + 1) - 1 <= version' /\ Take(p, target[p] + 1)
    BY <1>1, <1>2 DEF Commit
  <2> QED
    BY <1>1, <1>2, <2>1, TakeStep
<1>4. applied' \in Seq(Nat) /\ MigratedOnce'
  <2>1. CASE version >= target[p] /\ UNCHANGED <<version, applied>>
    BY <2>1 DEF TypeOK, MigratedOnce
  <2>2. CASE version < target[p] /\ version' = target[p] /\ applied' = Append(applied, target[p])
    <3>1. target[p] = version + 1
      BY <1>1, <2>2
    <3>2. applied = [i \in 1 .. version |-> i] /\ Len(applied) = version
      BY <1>1 DEF MigratedOnce, TypeOK
    <3>3. applied' = [i \in 1 .. version + 1 |-> IF i = version + 1 THEN version + 1 ELSE applied[i]]
      BY <1>1, <2>2, <3>1, <3>2 DEF TypeOK
    <3>4. applied' = [i \in 1 .. version + 1 |-> i]
      BY <1>1, <3>2, <3>3
    <3> QED
      BY <2>2, <3>1, <3>4 DEF TypeOK, MigratedOnce
  <2> QED
    BY <2>1, <2>2 DEF Commit
<1> QED
  BY <1>1, <1>2, <1>3, <1>4 DEF Commit, TypeOK

\* Inductive.
LEMMA MigrationsInvariant == Spec => []MigrationsInv
<1>1. Init => MigrationsInv
  BY MigrationsAssumption DEF Init, MigrationsInv, TypeOK, LoopInv, InLoop, Stages, MigratedOnce
<1>2. MigrationsInv /\ [Next]_migrationVars => MigrationsInv'
  <2>1. CASE UNCHANGED migrationVars
    BY <2>1 DEF migrationVars, fileVars, MigrationsInv, TypeOK, LoopInv, MigratedOnce
  <2> QED
    BY <2>1, QuietStep, CommitStep DEF Next, Migrate
<1> QED
  BY <1>1, <1>2, PTL DEF Spec

\* Migrations is well typed.
THEOREM Typing == Spec => []TypeOK
BY MigrationsInvariant, PTL DEF MigrationsInv

\* Every migration runs once and in order, however many processes race through the
\* list and wherever they stop.
THEOREM EachMigrationOnce == Spec => []MigratedOnce
BY MigrationsInvariant, PTL DEF MigrationsInv

\* Every process that gets through the list has a file with all its build needs.
THEOREM OpensMigratedFile == Spec => []OpenIsMigrated
<1>1. MigrationsInv => OpenIsMigrated
  BY DEF MigrationsInv, LoopInv, OpenIsMigrated
<1> QED
  BY <1>1, MigrationsInvariant, PTL
=============================================================================
