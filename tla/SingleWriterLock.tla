--------------------------- MODULE SingleWriterLock ---------------------------
(***************************************************************************)
(* The pidfile beside the database: db/singleWriterLock.ts, taken at boot  *)
(* by db/connection.ts before the database is opened and removed by the    *)
(* shutdown of server.ts after it is closed.                               *)
(*                                                                         *)
(* A step is one system call.  fs.writeFileSync with flag 'wx' makes two:  *)
(* an exclusive open, which creates the file empty, and the write, which   *)
(* goes to the file that was opened even if another is at its path by now. *)
(***************************************************************************)
EXTENDS Integers, FiniteSets

CONSTANTS
  Processes,     \* the runs of the server, one element per boot
  Pids,          \* process ids; one is used again when its process is gone
  NoPid,         \* the text of a pidfile not written yet
  NoProcess,     \* the creator of a pidfile that does not exist
  BootsOverlap   \* may a process boot while another one is still booting?

ASSUME ConstantsAssumption ==
  /\ NoPid \notin Pids /\ NoProcess \notin Processes
  /\ BootsOverlap \in BOOLEAN

VARIABLES
  pc,       \* where each process is in acquireSingleWriterLock
  pid,      \* the pid of each, NoPid before its boot
  seen,     \* what each read from the pidfile
  creator,  \* the process whose open created the file now at lockPath
  text      \* the content of that file

vars == <<pc, pid, seen, creator, text>>

\* "open" and "reopen": about to create the file, for the first time or after
\* the removal of a stale one; "retry": the same, after it was gone when read.
Booting == {"open", "write", "read", "check", "remove", "reopen", "retry"}
Alive   == Booting \cup {"holding"}

TypeOK ==
  /\ pc \in [Processes -> {"new", "refused", "gone"} \cup Alive]
  /\ pid \in [Processes -> Pids \cup {NoPid}]
  /\ seen \in [Processes -> Pids \cup {NoPid}]
  /\ creator \in Processes \cup {NoProcess}
  /\ text \in Pids \cup {NoPid}

Init ==
  /\ pc = [p \in Processes |-> "new"]
  /\ pid = [p \in Processes |-> NoPid]
  /\ seen = [p \in Processes |-> NoPid]
  /\ creator = NoProcess /\ text = NoPid

Goto(p, label) == pc' = [pc EXCEPT ![p] = label]

\* The operating system starts the process.
Boot(p) ==
  /\ pc[p] = "new"
  /\ BootsOverlap \/ \A o \in Processes : pc[o] \notin Booting
  /\ \E n \in Pids :
       /\ \A o \in Processes : pid[o] = n => pc[o] \notin Alive
       /\ pid' = [pid EXCEPT ![p] = n]
  /\ Goto(p, "open")
  /\ UNCHANGED <<seen, creator, text>>

\* The exclusive open; `otherwise` is what EEXIST leads to.
Create(p, otherwise) ==
  \/ /\ creator = NoProcess
     /\ creator' = p /\ text' = NoPid
     /\ Goto(p, "write")
  \/ /\ creator # NoProcess
     /\ Goto(p, otherwise)
     /\ UNCHANGED <<creator, text>>

Open(p) ==
  /\ pc[p] = "open"
  /\ Create(p, "read")
  /\ UNCHANGED <<pid, seen>>

\* The write; the lock is acquired.
WritePid(p) ==
  /\ pc[p] = "write"
  /\ text' = IF creator = p THEN pid[p] ELSE text
  /\ Goto(p, "holding")
  /\ UNCHANGED <<pid, seen, creator>>

\* Mutant: who created the pidfile is read, not what is in it.
ReadCreatorMutant(p) ==
  /\ pc[p] = "read"
  /\ seen' = [seen EXCEPT ![p] = creator]
  /\ Goto(p, IF creator = NoProcess THEN "retry" ELSE "check")
  /\ UNCHANGED <<pid, creator, text>>

\* reclaimStaleLockAndRetry reads the pidfile ...
Read(p) ==
  /\ pc[p] = "read"
  /\ seen' = [seen EXCEPT ![p] = text]
  /\ Goto(p, IF creator = NoProcess THEN "retry" ELSE "check")
  /\ UNCHANGED <<pid, creator, text>>

\* ... which another process had removed: one more open, and no way on if it fails;
Retry(p) ==
  /\ pc[p] = "retry"
  /\ Create(p, "refused")
  /\ UNCHANGED <<pid, seen>>

\* What isPidAlive may say of a pid: TRUE for a run of the server, the one that asks
\* among them; and either for the pid of a run that is gone, which by now an unrelated
\* process of the machine may have, of this user or (EPERM) of another.
PidAlive(n) ==
  IF \E o \in Processes : pid[o] = n /\ pc[o] \in Alive THEN {TRUE} ELSE BOOLEAN

\* Mutant: the pid is not asked for.
CheckNothingMutant(p) ==
  /\ pc[p] = "check"
  /\ Goto(p, "remove")
  /\ UNCHANGED <<pid, seen, creator, text>>

\* ... or which names a process: a live one refuses the boot, a text that is no
\* number counts as stale.
Check(p) ==
  /\ pc[p] = "check"
  /\ \/ /\ seen[p] # NoPid /\ TRUE \in PidAlive(seen[p])
        /\ Goto(p, "refused")
     \/ /\ seen[p] = NoPid \/ FALSE \in PidAlive(seen[p])
        /\ Goto(p, "remove")
  /\ UNCHANGED <<pid, seen, creator, text>>

Remove(p) ==
  /\ pc[p] = "remove"
  /\ creator' = NoProcess /\ text' = NoPid
  /\ Goto(p, "reopen")
  /\ UNCHANGED <<pid, seen>>

Reopen(p) ==
  /\ pc[p] = "reopen"
  /\ Create(p, "read")
  /\ UNCHANGED <<pid, seen>>

\* The end of a graceful shutdown; the removal does not look at the content.
Release(p) ==
  /\ pc[p] = "holding"
  /\ creator' = NoProcess /\ text' = NoPid
  /\ Goto(p, "gone")
  /\ UNCHANGED <<pid, seen>>

\* Killed, out of memory, or the forced exit of a shutdown that hangs.
Crash(p) ==
  /\ pc[p] \in Alive
  /\ Goto(p, "gone")
  /\ UNCHANGED <<pid, seen, creator, text>>

Acquire(p) ==
  Open(p) \/ WritePid(p) \/ Read(p) \/ Retry(p) \/ Check(p) \/ Remove(p) \/ Reopen(p)

Next == \E p \in Processes : Boot(p) \/ Acquire(p) \/ Release(p) \/ Crash(p)

Spec == Init /\ [][Next]_vars

-------------------------------------------------------------------------------
(* Properties *)

Holders == {p \in Processes : pc[p] = "holding"}

\* No two processes have the database open.
OneWriter == \A p, o \in Holders : p = o

\* The pidfile names the process that has the database open: a later boot that
\* reads it is refused, however the ones before ended.
PidfileNamesHolder == \A p \in Holders : creator = p /\ text = pid[p]

\* The lock implements its abstract specification.
Abstract == INSTANCE ExclusiveWriter WITH writers <- Holders
ImplementsExclusiveWriter == Abstract!Spec

\* A boot is refused only because another run of the server is alive: what a crash
\* left behind is cleaned up.
RefusedByAnother ==
  [][\A p \in Processes :
       pc[p] # "refused" /\ pc'[p] = "refused" => \E o \in Processes \ {p} : pc[o] \in Alive]_vars
=============================================================================
