------------------------------- MODULE Migrations -------------------------------
(***************************************************************************)
(* runMigrations of db/migrate.ts, run by every process that opens the     *)
(* database at its boot (db/connection.ts).                                *)
(*                                                                         *)
(* The single-writer lock is not part of this module: here any number of   *)
(* processes, of older and of newer builds, migrate one file at once, the  *)
(* race the comments in runMigrations are about.  ServerLife has the lock. *)
(***************************************************************************)
EXTENDS Integers, Sequences

CONSTANTS
  Processes,    \* the runs of the server, one element per boot
  NoProcess,
  Builds,       \* the versions that a build may know up to: the last in MIGRATIONS
  Found,        \* the versions the file may have at first
  NonAdditive,  \* the migrations that are preceded by a snapshot
  NoFile        \* no snapshot

ASSUME MigrationsAssumption ==
  /\ Builds \subseteq Nat /\ Found \subseteq Nat
  /\ NoProcess \notin Processes

VARIABLES
  build,    \* process -> the last version its build knows
  at,       \* process -> where it is in runMigrations
  target,   \* process -> the migration it is at in the loop
  version,  \* the file's user_version
  applied,  \* the migrations whose up() the file has been through, in order
  writer,   \* the process with the write lock of SQLite
  backup    \* migration -> the file <dbfile>.pre-v<migration>.bak

fileVars == <<version, applied, writer, backup>>
migrationVars == <<build, at, target, fileVars>>

\* Where a process is: "boot" before it reads the version; "clear", "vacuum" and
\* "copy" in backupBeforeMigration; "begin" waiting for the write lock; "inside"
\* the transaction; "open" when runMigrations has returned; "refused" when it has
\* found the file ahead; "over" when it has failed or the process is gone.
Stages == {"boot", "clear", "vacuum", "copy", "begin", "inside", "open", "refused", "over"}

Snapshots == [by : Processes, of : Nat, whole : BOOLEAN]

TypeOK ==
  /\ build \in [Processes -> Builds] /\ at \in [Processes -> Stages]
  /\ target \in [Processes -> Nat]
  /\ version \in Nat /\ applied \in Seq(Nat)
  /\ writer \in Processes \cup {NoProcess}
  /\ backup \in [NonAdditive -> Snapshots \cup {NoFile}]

Init ==
  /\ build \in [Processes -> Builds]
  /\ at = [p \in Processes |-> "boot"]
  /\ target = [p \in Processes |-> 0]
  /\ version \in Found /\ applied = [i \in 1 .. version |-> i]
  /\ writer = NoProcess
  /\ backup = [v \in NonAdditive |-> NoFile]

\* The head of the loop: a migration that is destructive starts with its snapshot.
Take(p, v) ==
  /\ target' = [target EXCEPT ![p] = v]
  /\ at' = [at EXCEPT ![p] = IF v > build[p] THEN "open"
                             ELSE IF v \in NonAdditive THEN "clear" ELSE "begin"]

\* Mutant: a file that is ahead is not refused.
ReadAheadMutant(p) ==
  /\ at[p] = "boot"
  /\ Take(p, version + 1)
  /\ UNCHANGED <<build, fileVars>>

\* The version is read once before the loop.  A file that is ahead of the build is
\* refused; migrations up to the version are skipped.
ReadVersion(p) ==
  /\ at[p] = "boot"
  /\ \/ /\ version > build[p]
        /\ at' = [at EXCEPT ![p] = "refused"]
        /\ UNCHANGED target
     \/ /\ version <= build[p]
        /\ Take(p, version + 1)
  /\ UNCHANGED <<build, fileVars>>

\* Mutant: a snapshot that is there already will do.
ClearNothingMutant(p) ==
  /\ at[p] = "clear"
  /\ at' = [at EXCEPT ![p] = IF backup[target[p]] = NoFile THEN "vacuum" ELSE "begin"]
  /\ UNCHANGED <<build, target, fileVars>>

\* backupBeforeMigration: what an earlier run left at the path is removed ...
ClearSnapshot(p) ==
  /\ at[p] = "clear"
  /\ backup' = [backup EXCEPT ![target[p]] = NoFile]
  /\ at' = [at EXCEPT ![p] = "vacuum"]
  /\ UNCHANGED <<build, target, version, applied, writer>>

\* ... VACUUM INTO, which refuses a path that exists, starts to copy the file as it
\* is committed now ...
StartSnapshot(p) ==
  /\ at[p] = "vacuum"
  /\ IF backup[target[p]] = NoFile
     THEN /\ backup' = [backup EXCEPT ![target[p]] = [by |-> p, of |-> version, whole |-> FALSE]]
          /\ at' = [at EXCEPT ![p] = "copy"]
     ELSE /\ at' = [at EXCEPT ![p] = "over"]
          /\ UNCHANGED backup
  /\ UNCHANGED <<build, target, version, applied, writer>>

\* ... and is through, though the copy may have been unlinked meanwhile.
FinishSnapshot(p) ==
  /\ at[p] = "copy"
  /\ LET file == backup[target[p]]
     IN  backup' = IF file # NoFile /\ file.by = p
                   THEN [backup EXCEPT ![target[p]] = [file EXCEPT !.whole = TRUE]]
                   ELSE backup
  /\ at' = [at EXCEPT ![p] = "begin"]
  /\ UNCHANGED <<build, target, version, applied, writer>>

\* BEGIN IMMEDIATE waits for the write lock.
Begin(p) ==
  /\ at[p] = "begin" /\ writer = NoProcess
  /\ writer' = p
  /\ at' = [at EXCEPT ![p] = "inside"]
  /\ UNCHANGED <<build, target, version, applied, backup>>

\* Mutants: the version is not read again in the transaction; the loser of a race
\* takes the file for migrated.
CommitUnreadMutant(p) ==
  /\ at[p] = "inside"
  /\ version' = target[p] /\ applied' = Append(applied, target[p])
  /\ writer' = NoProcess
  /\ Take(p, target[p] + 1)
  /\ UNCHANGED <<build, backup>>
CommitReturnsMutant(p) ==
  /\ at[p] = "inside"
  /\ \/ /\ version < target[p]
        /\ version' = target[p] /\ applied' = Append(applied, target[p])
        /\ Take(p, target[p] + 1)
     \/ /\ version >= target[p]
        /\ at' = [at EXCEPT ![p] = "open"]
        /\ UNCHANGED <<version, applied, target>>
  /\ writer' = NoProcess
  /\ UNCHANGED <<build, backup>>

\* The transaction: the version is read again, and a migration that another process
\* was faster with is left out; otherwise its up(), the check of the foreign keys
\* and the new version are committed together.
Commit(p) ==
  /\ at[p] = "inside"
  /\ \/ /\ version < target[p]
        /\ version' = target[p] /\ applied' = Append(applied, target[p])
     \/ /\ version >= target[p]
        /\ UNCHANGED <<version, applied>>
  /\ writer' = NoProcess
  /\ Take(p, target[p] + 1)
  /\ UNCHANGED <<build, backup>>

\* The process ends: the disk is full, busy_timeout is over, up() or the check of
\* the foreign keys throws, or it is killed.  SQLite rolls back what it had begun.
Stop(p) ==
  /\ at[p] # "over"
  /\ at' = [at EXCEPT ![p] = "over"]
  /\ target' = [target EXCEPT ![p] = 0]
  /\ writer' = IF writer = p THEN NoProcess ELSE writer
  /\ UNCHANGED <<build, version, applied, backup>>

Migrate(p) ==
  \/ ReadVersion(p) \/ ClearSnapshot(p) \/ StartSnapshot(p) \/ FinishSnapshot(p)
  \/ Begin(p) \/ Commit(p)

Next == \E p \in Processes : Migrate(p) \/ Stop(p)

Spec == Init /\ [][Next]_migrationVars

-------------------------------------------------------------------------------
(* Properties *)

\* However processes race, stop in the middle and start again, the file has been
\* through every migration up to its version, each once and in order: no
\* destructive rename runs on tables that were renamed before.
MigratedOnce == applied = [i \in 1 .. version |-> i]

\* A process that lost every race still finds all its build needs: the one that
\* was faster with a migration may have stopped right after it.
OpenIsMigrated == \A p \in Processes : at[p] = "open" => version >= build[p]
=============================================================================
