------------------------------- MODULE ServerLife -------------------------------
(***************************************************************************)
(* The processes that serve one database file, from boot to exit: the lock *)
(* (SingleWriterLock), the migrations (Migrations), the calls of the       *)
(* Claude CLI with their child processes (claude-cli/spawn.ts), and the    *)
(* shutdown of server.ts.                                                  *)
(***************************************************************************)
EXTENDS SingleWriterLock, Sequences

CONSTANTS
  Builds, Found, NonAdditive, NoFile,  \* see Migrations
  Calls                                \* requests that run the Claude CLI

ASSUME LifeAssumption ==
  /\ Builds \subseteq Nat /\ Found \subseteq Nat /\ NonAdditive \subseteq Nat
  /\ NoFile \notin [by : Processes, of : Nat, whole : BOOLEAN]

VARIABLES
  build, at, target, version, applied, writer, backup,  \* see Migrations
  phase,  \* process -> "up"; "draining" and "closing" in shutdown(); "closed":
          \*            db.close() was called
  owner,  \* call -> the process that serves the request
  call,   \* call -> "none"; "asked": before the spawn; "running"; "ok", "failed"
  child,  \* call -> its child process: "none", "running", "exited"
  sent,   \* call -> the last signal sent to the child: "none", "term", "kill"
  client, \* call -> its client's connection: "open", "gone"
  stream  \* process -> has it a speech stream that is not through (SpeechPump)?

M == INSTANCE Migrations

migrationVars == <<build, at, target, version, applied, writer, backup>>
callVars == <<owner, call, child, sent, client, stream>>
lifeVars == <<vars, migrationVars, phase, callVars>>

LifeTypeOK ==
  /\ TypeOK /\ M!TypeOK
  /\ phase \in [Processes -> {"up", "draining", "closing", "closed"}]
  /\ owner \in [Calls -> Processes \cup {NoProcess}]
  /\ call \in [Calls -> {"none", "asked", "running", "ok", "failed"}]
  /\ child \in [Calls -> {"none", "running", "exited"}]
  /\ sent \in [Calls -> {"none", "term", "kill"}]
  /\ client \in [Calls -> {"open", "gone"}]
  /\ stream \in [Processes -> BOOLEAN]

LifeInit ==
  /\ Init /\ M!Init
  /\ phase = [p \in Processes |-> "up"]
  /\ owner = [c \in Calls |-> NoProcess]
  /\ call = [c \in Calls |-> "none"] /\ child = [c \in Calls |-> "none"]
  /\ sent = [c \in Calls |-> "none"] /\ client = [c \in Calls |-> "open"]
  /\ stream = [p \in Processes |-> FALSE]

-------------------------------------------------------------------------------
(* Boot: connection.ts takes the lock before it opens the database. *)

TakeLock(p) ==
  /\ Boot(p) \/ Acquire(p)
  /\ UNCHANGED <<migrationVars, phase, callVars>>

\* Mutant: the database is opened before the lock is taken.
MigrateFirstMutant(p) ==
  /\ pc[p] \in Alive
  /\ M!Migrate(p)
  /\ UNCHANGED <<vars, phase, callVars>>

\* The database is opened and migrated.
OpenDatabase(p) ==
  /\ pc[p] = "holding"
  /\ M!Migrate(p)
  /\ UNCHANGED <<vars, phase, callVars>>

\* The process is gone, and the pidfile stays: a crash, runMigrations or listen()
\* has failed, a second signal.
Die(p) ==
  /\ Crash(p)
  /\ IF at[p] = "over" THEN UNCHANGED migrationVars ELSE M!Stop(p)
  /\ UNCHANGED <<phase, callVars>>

-------------------------------------------------------------------------------
(* The calls of the CLI. *)

\* The process serves and its event loop turns: from db.close() on it does not.
Up(p) == pc[p] = "holding" /\ at[p] = "open" /\ phase[p] # "closed"

\* A request comes in: until app.close() the server listens.
Ask(c, p) ==
  /\ call[c] = "none" /\ Up(p) /\ phase[p] \in {"up", "draining"}
  /\ owner' = [owner EXCEPT ![c] = p]
  /\ call' = [call EXCEPT ![c] = "asked"]
  /\ UNCHANGED <<vars, migrationVars, phase, child, sent, client, stream>>

Serving(c) == owner[c] # NoProcess /\ Up(owner[c])

\* spawnClaude, which may emit 'error' instead.
Spawn(c) ==
  /\ call[c] = "asked" /\ Serving(c)
  /\ \/ /\ call' = [call EXCEPT ![c] = "running"]
        /\ child' = [child EXCEPT ![c] = "running"]
     \/ /\ call' = [call EXCEPT ![c] = "failed"]
        /\ UNCHANGED child
  /\ UNCHANGED <<vars, migrationVars, phase, owner, sent, client, stream>>

\* stop(): the deadline, or more output than MAX_STDOUT_BYTES.  SIGTERM is sent.
StopChild(c) ==
  /\ child[c] = "running" /\ Serving(c)
  /\ sent[c] = "none"
  /\ sent' = [sent EXCEPT ![c] = "term"]
  /\ UNCHANGED <<vars, migrationVars, phase, owner, call, child, client, stream>>

\* Mutant: the escalation is for the shutdown only.
EscalateAtShutdownMutant(c) ==
  /\ child[c] = "running" /\ Serving(c) /\ phase[owner[c]] # "up"
  /\ sent[c] = "term"
  /\ sent' = [sent EXCEPT ![c] = "kill"]
  /\ UNCHANGED <<vars, migrationVars, phase, owner, call, child, client, stream>>

\* KILL_ESCALATION_MS later a child that still runs gets SIGKILL, as long as there is
\* a process to send it.
Escalate(c) ==
  /\ child[c] = "running" /\ Serving(c)
  /\ sent[c] = "term"
  /\ sent' = [sent EXCEPT ![c] = "kill"]
  /\ UNCHANGED <<vars, migrationVars, phase, owner, call, child, client, stream>>

\* The child exits, by itself or by a signal, and its 'close' settles the call: with
\* an exit code of 0, whatever was sent to the child in the meantime, its output is
\* parsed.  Its exit and its 'close' are one step: nobody else holds its pipes.
ChildExits(c) ==
  /\ child[c] = "running"
  /\ child' = [child EXCEPT ![c] = "exited"]
  /\ IF Serving(c)
     THEN \E result \in {"ok", "failed"} : call' = [call EXCEPT ![c] = result]
     ELSE UNCHANGED call
  /\ UNCHANGED <<vars, migrationVars, phase, owner, sent, client, stream>>

\* The client hangs up; no route tells the call.
HangUp(c) ==
  /\ call[c] \in {"asked", "running"} /\ client[c] = "open"
  /\ client' = [client EXCEPT ![c] = "gone"]
  /\ UNCHANGED <<vars, migrationVars, phase, owner, call, child, sent, stream>>

\* A speech stream begins or ends, which may take a client that does not read.
Stream(p) ==
  /\ Up(p) /\ (stream[p] \/ phase[p] \in {"up", "draining"})
  /\ stream' = [stream EXCEPT ![p] = ~@]
  /\ UNCHANGED <<vars, migrationVars, phase, owner, call, child, sent, client>>

-------------------------------------------------------------------------------
(* Shutdown. *)

\* The first signal, or an error nobody caught: terminateAllClaudeSessions sends
\* SIGTERM to the children there are now, and the forced exit is armed.
Shutdown(p) ==
  /\ Up(p) /\ phase[p] = "up"
  /\ phase' = [phase EXCEPT ![p] = "draining"]
  /\ sent' = [c \in Calls |->
                IF owner[c] = p /\ child[c] = "running" /\ sent[c] = "none" THEN "term" ELSE sent[c]]
  /\ UNCHANGED <<vars, migrationVars, owner, call, child, client, stream>>

\* abortAllAndDrain is through, or its time is.
Drained(p) ==
  /\ Up(p) /\ phase[p] = "draining"
  /\ phase' = [phase EXCEPT ![p] = "closing"]
  /\ UNCHANGED <<vars, migrationVars, callVars>>

Answered(c) == call[c] \in {"ok", "failed"} \/ client[c] = "gone"

\* Mutant: app.close() is not awaited.
CloseAtOnceMutant(p) ==
  /\ Up(p) /\ phase[p] = "closing"
  /\ phase' = [phase EXCEPT ![p] = "closed"]
  /\ M!Stop(p)
  /\ UNCHANGED <<vars, callVars>>

\* app.close() waits for the connections that have a request in work; then the
\* database is closed.  An error of db.close() is logged, and the process has the file
\* open until it exits ...
CloseDatabase(p) ==
  /\ Up(p) /\ phase[p] = "closing"
  /\ ~stream[p] /\ \A c \in Calls : owner[c] = p => Answered(c)
  /\ phase' = [phase EXCEPT ![p] = "closed"]
  /\ M!Stop(p) \/ UNCHANGED migrationVars
  /\ UNCHANGED <<vars, callVars>>

\* Mutant: the lock is released first.
ExitFirstMutant(p) ==
  /\ Release(p) /\ phase[p] = "closing"
  /\ UNCHANGED <<migrationVars, phase, callVars>>

\* ... the pidfile removed, and process.exit called.
Exit(p) ==
  /\ Release(p) /\ phase[p] = "closed"
  /\ IF at[p] = "over" THEN UNCHANGED migrationVars ELSE M!Stop(p)
  /\ UNCHANGED <<phase, callVars>>

\* Mutant: the timer is cleared when the drain is through.
ForcedDrainMutant(p) ==
  /\ phase[p] = "draining"
  /\ Die(p)

\* FORCED_EXIT_MS are over.
ForcedExit(p) ==
  /\ phase[p] \in {"draining", "closing"}
  /\ Die(p)

-------------------------------------------------------------------------------

LifeNext ==
  \/ \E p \in Processes :
       \/ TakeLock(p) \/ OpenDatabase(p) \/ Die(p)
       \/ Shutdown(p) \/ Drained(p) \/ CloseDatabase(p) \/ Exit(p) \/ ForcedExit(p)
       \/ Stream(p) \/ \E c \in Calls : Ask(c, p)
  \/ \E c \in Calls :
       Spawn(c) \/ StopChild(c) \/ Escalate(c) \/ ChildExits(c) \/ HangUp(c)

LifeSpec == LifeInit /\ [][LifeNext]_lifeVars

\* Timers fire, the event loop runs what is due, and SIGKILL ends a process.  A child
\* need not heed SIGTERM, and nobody has to hang up.
LifeFairness ==
  /\ \A p \in Processes :
       WF_lifeVars(Drained(p)) /\ WF_lifeVars(CloseDatabase(p)) /\ WF_lifeVars(Exit(p))
       /\ WF_lifeVars(ForcedExit(p))
  /\ \A c \in Calls :
       /\ WF_lifeVars(Spawn(c)) /\ WF_lifeVars(StopChild(c)) /\ WF_lifeVars(Escalate(c))
       /\ WF_lifeVars(sent[c] = "kill" /\ ChildExits(c))

FairSpec == LifeSpec /\ LifeFairness

-------------------------------------------------------------------------------
(* Properties *)

\* The processes that have the database open, from the first pragma on.
Writers == {p \in Processes : at[p] \notin {"boot", "over"}}

\* The pidfile is there and names the process that has the database open, through its
\* migrations and all of its shutdown: a boot that reads it is refused.
DatabaseGuarded == \A p \in Writers : creator = p /\ text = pid[p]

\* One process at a time has the database open.
Exclusive == INSTANCE ExclusiveWriter WITH writers <- Writers
DatabaseIsExclusive == Exclusive!Spec

\* A server serves a file of exactly the version it was built for: no newer build
\* migrates the file under it, whoever crashed in the middle of a migration before.
SchemaFits == \A p \in Processes : at[p] = "open" => version = build[p]

\* Once a destructive migration is committed there is a complete snapshot of the file
\* from just before it, whatever crashed when.
Restorable ==
  \A v \in NonAdditive :
    version >= v /\ (\A f \in Found : f < v) =>
      backup[v] # NoFile /\ backup[v].whole /\ backup[v].of = v - 1

\* A child that outlives a graceful exit is one whose client had hung up.
OnlyAbandonedCallsOutlive ==
  \A p \in Processes, c \in Calls :
    phase[p] = "closed" /\ owner[c] = p /\ child[c] = "running" => client[c] = "gone"

\* A shutdown comes to an end, though a request may hang and its client wait on.
ShutdownEnds == \A p \in Processes : phase[p] = "draining" ~> pc[p] = "gone"

\* The promise of a call is settled as long as its process lives, though the child may
\* hang and ignore SIGTERM.
CallsSettle ==
  \A c \in Calls : call[c] \in {"asked", "running"} ~>
    call[c] \in {"ok", "failed"} \/ \E p \in Processes : owner[c] = p /\ pc[p] = "gone"
=============================================================================
