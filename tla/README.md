# A TLA+ model of the oral-test backend

This directory holds specifications of the oral-test backend in TLA+, the
configurations that check them with TLC, and theorems about them that the TLA+
proof system checks. Paths below are relative to `src/`, the repository.

The backend is one Node.js process. A lecturer's client starts an oral test from
a blueprint; the backend asks the Claude CLI for one question after another,
stores the answers, has the CLI draft a review, and lets the lecturer correct
and approve it. Questions are read aloud by a Python sidecar that runs a speech
model. Tables are in SQLite; the rest of the state is in memory.

## 1. Inventory

| Part | Code | State it keeps | Operations |
|---|---|---|---|
| Speech jobs | `src/oral-session/questionSpeechJobs.ts` | `registry`, `queue`, `activeJob`; per job its state, priority, chunks, abort signal, listeners | prefetch, listen, run, retry, settle, evict, abort an orphan, drain |
| Speech route, SSE subscriber | `src/routes/oralSpeech.ts`, `src/tts/sseWriter.ts` | cursor and pump of each subscriber | attach, write, wait for the socket, detach |
| Sidecar client | `src/tts/streamClient.ts` | parser buffer, abort controller, idle and hard timers | one call |
| TTS sidecar | `tts-sidecar/app.py` | semaphore, lock around the model, queue and cancel event per request | `/synthesize`, `/synthesize/stream` |
| Oral-session engine | `src/oral-session/`, `src/routes/oralSessions.ts` | `assessment_sessions`, `questions`, `oral_turns` | start, answer, ask, end |
| Room lock | `src/claude-cli/lock.ts` | `busyRooms` | `withRoomLock` |
| Claude CLI runner | `src/claude-cli/spawn.ts` | `liveChildren`; per call its deadline and whether it was stopped | run with a deadline, kill, terminate all |
| Review and report | `src/review/`, `src/report/`, `src/routes/reviews.ts` | `rubric_items`, `reports` | draft, override, approve, render |
| Output parsers | `src/oral-session/stateParser.ts`, `src/review/validateReviewOutput.ts` | none | parse, validate |
| Single-writer lock | `src/db/singleWriterLock.ts`, `src/db/connection.ts` | a pidfile beside the database | acquire, reclaim, release |
| Server, shutdown | `src/server.ts` | `shuttingDown`, forced-exit timer | drain, close, release, exit |
| Migrations | `src/db/migrate.ts`, `src/db/schema.sql` | `user_version`, the tables, a snapshot file per destructive migration | run at boot |
| Authentication, ownership | `src/auth/`, `src/routes/oralAuth.ts` | `teachers` | log in, guard a route |
| Courses, blueprints, chapters | `src/db/`, `src/routes/` | read-only tables | list |
| Ingestion | `src/ingestion/chunkText.ts`, `scripts/ingest-demo-chapters.ts` | `source_chunks` | split and store |
| Prompts, text, contracts | `promptBuilder.ts`, `textSanitize.ts`, `contracts.ts`, `app.ts` | none | format, map errors |

How they interact:

- a route of the engine holds the room lock for one call of the CLI, after which
  it stores a question and, with the lock free again, prefetches its speech;
- a speech request and a prefetch for the same question share one job; the job
  calls the sidecar, one job at a time, and its audio is replayed to every
  subscriber from the job's chunks;
- the sidecar admits two requests and runs its model for one, with a worker
  thread per request that hands frames to the response through a queue;
- at boot the pidfile is taken before the database is opened and migrated; the
  shutdown terminates the CLI's children, aborts and drains the speech jobs, closes
  server and database, and removes the pidfile, all within a forced exit.

What is hard in this code, and what makes each part right:

- *Callbacks of one event loop.* A job's retry, its `.finally`, its `.then` and
  its listeners run at different times, and each reads shared state the others
  wrote. Right: one synthesis at a time, one rendering per job, no job forgotten,
  listeners before prefetches, everybody answered.
- *State read before an await and used after it.* A prompt is built, the CLI
  runs for a minute, the reply is stored; `/end` takes no lock. Right: what the
  call was told is still so; the lock is held exactly by the call.
- *Retries by clients.* Right: one answer per question, one open question.
- *Crashes.* A review and an approval are several transactions. Right: what the
  tables say together, from then on.
- *Bytes and sockets.* Frames are cut anywhere, a timer or an abort races the last
  one, a subscriber stalls or leaves while its pump waits for a wake-up or for its
  socket. Right: what is heard is what was sent, in order, and every pump returns.
- *Processes.* Pidfiles left by crashes, boots that race, pids used again by servers and
  by strangers, builds of different age, migrations and snapshots that a crash cuts
  short. Right: one process has the database open; the file has the version its server
  was built for and can be restored to the one before.
- *Deadlines.* The shutdown and the calls of the CLI have timers that race what they
  time. Right: both end; nothing that somebody waits for is cut off.
- *Threads.* The sidecar's permits and lock must be given back on every path.

`PROJECT.json` lists the hazards at their lines with the properties that would
show each of them going wrong.

## 2. Modules

| Module | Models | EXTENDS / INSTANCE |
|---|---|---|
| `SpeechJobs` | speech jobs, their subscribers, the outcome of a sidecar call, the drain | |
| `StreamClient` | one call of `synthesizeStream`: parser, timers, abort, the sidecar's end of the wire | |
| `LogReader` | abstract: subscribers that each read a growing log and are told its end, which is for good unless the log was marked for a second life | |
| `SpeechPump` | one job with its calls, its pumps and their sockets, await by await | EXTENDS `StreamClient`, INSTANCE `LogReader` |
| `OralSession` | one session from first question to approved report, room lock, crashes | |
| `ExclusiveWriter` | abstract: at most one process is a writer | |
| `SingleWriterLock` | the pidfile, one system call at a time | INSTANCE `ExclusiveWriter` |
| `Migrations` | `runMigrations` in any number of racing processes, with snapshots and crashes | |
| `ServerLife` | processes from boot to exit: lock, migrations, CLI children, shutdown | EXTENDS `SingleWriterLock`, INSTANCE `Migrations`, `ExclusiveWriter` |
| `TtsSidecar` | admission, model lock, workers, response generator, disconnects | |
| `MC*` | the above for TLC: symmetry sets, sequences and sets for constants | EXTENDS it |
| `SequenceLemmas` | lemmas on least elements, `InsertAt`, `RemoveAt`, concatenations, and sequences with a block cut out | |
| `SpeechJobs_proofs`, `SpeechPump_proofs`, `OralSession_proofs`, `SingleWriterLock_proofs`, `Migrations_proofs`, `ServerLife_proofs`, `TtsSidecar_proofs` | theorems | EXTENDS the module and TLAPS |

Two compositions are made where parts share state: `SpeechPump` joins the client of
the sidecar, the job it fills and the subscribers that read it; `ServerLife` joins the
lock, the migrations it protects, the calls a server makes and the shutdown that ends
them. The engine is apart: it calls the speech jobs in one direction, through
`ensureJob`, and nothing of a job flows back; a call of the CLI is a reply or a failure.
Where a part relies on another, the reliance is a constant or a fairness condition named
below.

A definition whose name ends in `Mutant` is a plausible wrong version of the
definition after it. No behaviour uses it; `PROJECT.json` says which property
fails if it takes the other's place.

### SpeechJobs

A *step* is one callback of the event loop. Jobs are numbered in order of
creation. The variables are the module's own (`registry`, `queue`, `activeJob`,
`state`, `priority`, `chunks`, `retryCount`) and what the runtime keeps for it:
`open`, `ended` and `closing` are the sidecar calls that wait for the sidecar,
have read their last frame, or have returned with the `.finally` of
`kickScheduler` due; `promise` tells whether the `.then` of `settled` is due;
`timers` counts armed backoff timers; `untouched` are the questions that were
never handed to `ensureJob`, the ones a prefetch can still come for.
`chunks[j]` records, for each chunk, the attempt it came from: that is all the
properties ask about audio.

| Action | Code |
|---|---|
| `Prefetch`, `Listen` | `enqueueSpeechPrefetch`, the speech route; both through `EnsureJob`, with its eviction, its insertion, its overflow check and its kick |
| `Pump`, `PumpThrows`, `Close` | `pumpSpeechJob`, its `catch`, and `detach` with `maybeAbortOrphanedForeground` |
| `ReceiveChunk`, `ReceiveEnd` | a frame of `synthesizeStream`; its last one, after which the body is closed |
| `AttemptEnds` | `runSynthesis` after the call: done, cancelled, failed, or back in the queue through a timer |
| `AttemptFinally`, `SettledThen`, `BackoffFires` | the `.finally` of `kickScheduler`, the `.then` in `ensureJob`, the `setTimeout` callback |
| `AbortAllAndDrain` | the shutdown hook |

`AttemptFinally` and `SettledThen` are separate steps that other callbacks may
precede. Node runs them as microtasks, hence soon: the model has every order
Node has and some more. The counterexample of `twice` does not need the others.

`Oldest(n)` and `doneAt` give the eviction its order; the time-to-live is the
choice of any prefix of the oldest finished jobs. `Prefetched` are the questions
this process generated. The others belong to sessions of an earlier process:
they have no prefetch. Retries are bounded by `MaxRetries`, which stands for
`RETRY_MAX_ELAPSED_MS`.

Not in this model: the hook that resets the module in tests (404-420), logging, byte
sizes other than one unit per chunk, and the wait of a pump for its socket, which is in
`SpeechPump`.

### StreamClient and SpeechPump

Here is one prefetched job in all its lives, and a step runs from one await to the next.
`entries` says how often the job is in the queue, `timers` how many of its backoff timers
are armed, `promise` how it ended first. `StreamClient` has the
bytes: `wire` are those on their way, `buffer` those read and not consumed, `frames` what
the sidecar has put into this response, `chunks` what `onChunk` was given. Bytes are
digits to a base and a length prefix has `LengthBytes` of them, where the code has 256
and four: the parser sees tags, prefixes and payloads of every length up to the limit
and one above, and payload bytes that look like tags. `Parse` is the loop over the
complete frames in the buffer; `Read(n)` may cut the stream anywhere.

| Action | Code |
|---|---|
| `SendFrame`, `SendLast`, `CloseConnection` | the sidecar's `_stream_frames`, and a connection that ends anywhere |
| `Response`, `Unreachable`, `Read`, `ReadDone`, `ReadAborted`, `ReaderCancelled` | `synthesizeStream` from one await to the next |
| `Timeout` | the idle timer or the hard deadline; either may fire at any time |
| `Attempt` | `kickScheduler` takes the job from the queue and runs it, in whatever state it is |
| `AttemptReturns`, `BackoffFires` | `runSynthesis` after the call; a timer, which puts the job back into the queue whether or not it is there, unless it was aborted or has settled |
| `Receive` | bytes are read, and `pushChunk` emits an event for each frame |
| `Attach` | `ensureJob`, which promotes a queued prefetch, out of its backoff too, and the route's `attachSseSubscriber` |
| `Written`, `Resume`, `Ended`, `Throws` | `runPump` after a write, after a wake-up, after the last event, and its `catch` |
| `Drain`, `HangUp`, `Closed` | the socket takes what was written; the client leaves; the 'close' event, with `detach` |

`Proceed` is the body of `runPump` up to its next await, which every one of those
actions runs. A write to a response that is gone may be waited for until the 'close'
event or resolve at once: the model lets it resolve either way. Two things are left as
they are in the code: a client that is gone before the route listens for 'close' is
written to in vain until the job ends (`Attach` after `Closed`), and a client that neither
reads nor hangs up keeps its pump waiting.

*Second lives.* A job that is promoted while it waits for a backoff timer (`doubled`) is in
the queue by the promotion and again by the timer. It runs, settles, runs once more, and
appends to the chunks it has (`earlier`); this is the defect the run `twice` shows.
`SpeechPump` has it, and its properties say how far it goes: `HeardAsSent` that an attempt
finds audio of an earlier one only in a job that was promoted so and has settled, and
`LogReader`, by `Double` and `Reopen`, that only such a log is opened again after its end,
and only if the promotion came before any audio.

### OralSession

A handler runs without interruption up to its only await, the CLI call; the
reply is a second step. `calls` are the calls in flight with what their prompt
was built from; `busy` is the session's entry in `busyRooms`. Tables survive
`Crash`, lock and calls do not. better-sqlite3 is synchronous, so that statements
between two awaits are one step; a crash *between* two statements is what
`CrashWhileAnswering`, `CrashWhileDrafting` and `CrashWhileApproving` are for.

| Action | Code |
|---|---|
| `StartSession`, `SubmitTurn` | `startOralTestSession`, `submitOralTurn`: the turn and `AskNextQuestion` in one critical section |
| `QuestionGenerated`, `CallFails` | the reply of the CLI, stored or refused (an error exit, a parse error, a wrong slot, an ungroundable slot) |
| `EndSession` | `/end`, which takes no lock |
| `DraftReview`, `ReviewDrafted` | `draftReview` up to the call, and after it with the validation |
| `OverrideItem`, `ApproveReport` | the two routes of the lecturer |
| `CrashIdle`, `CrashWhileAnswering`, `CrashWhileDrafting`, `CrashWhileApproving` | the process ends, anywhere |

A step may find nothing to do (a route that answers 404 or 409): such a request
changes nothing and is not an action. Sessions share neither rows nor keys of
the lock, so one session is enough.

### SingleWriterLock

A process is one run of the server. A step is one system call. `creator` and
`text` are the file at the lock's path: `fs.writeFileSync(…, {flag: 'wx'})` is an
exclusive open, which creates it empty, and a write, which goes to the file that
was opened even if the path has another one by then. `BootsOverlap` says whether
two processes may boot at once. A process may get the pid of one that is gone, and so may
a process that has nothing to do with the server: `PidAlive` may be true of any pid, and
is true of that of every run of the server, the one that asks among them. `Release` is the
shutdown's last step, `Crash` any other end, the forced exit included.

### Migrations

`at[p]` is where process `p` is in `runMigrations`, `target[p]` the migration it has in
hand; `version` is the file's `user_version` and `applied` the migrations whose `up()` it
has been through. The lock is not in this module: any number of processes, of any builds,
run the loop at once, which is what the comments in `runMigrations` are about.

| Action | Code |
|---|---|
| `ReadVersion` | 541-561: the version, the refusal of a file that is ahead, the first migration due |
| `ClearSnapshot`, `StartSnapshot`, `FinishSnapshot` | `backupBeforeMigration`: the removal, `VACUUM INTO` begun (it refuses a file that is there) and done |
| `Begin`, `Commit` | `BEGIN IMMEDIATE`, and the transaction, which reads the version again |
| `Stop` | a throw, or the end of the process, anywhere: SQLite rolls back |

A snapshot records who made it, of which version, and whether it is whole; a copy that
is unlinked while it is made is lost. What `up()` does to the rows is left out: `applied`
is all the properties ask about it.

### ServerLife

A process takes the lock by the steps of `SingleWriterLock`, runs those of `Migrations`,
serves, and ends. `phase` is how far its `shutdown()` is; a call of the CLI has its own
state (`call`), its child (`child`, `sent`) and its client (`client`), because the three end in
any order. A child lives on when its server is gone.

| Action | Code |
|---|---|
| `TakeLock`, `OpenDatabase` | `connection.ts` 23-30, 32-46 |
| `Ask`, `Spawn`, `StopChild`, `Escalate`, `ChildExits` | a request that needs the CLI; `spawnClaude`; the deadline or the output cap, with SIGTERM; SIGKILL 2 s later; 'close', which settles the promise |
| `HangUp`, `Stream` | a client leaves; a speech stream begins or ends |
| `Shutdown`, `Drained`, `CloseDatabase`, `Exit` | `shutdown()`: SIGTERM to the children there are; `abortAllAndDrain`; `app.close` and `db.close`; pidfile and `process.exit` |
| `ForcedExit`, `Die` | the 5 s are over; a crash, a failed boot, a second signal |

`app.close` is Fastify's: it waits for the connections that have a request in work, so
not for one whose client hung up, and `CloseDatabase` says so. Requests come in until it
is called, also while the speech jobs drain.

An error of `db.close()` is logged and the shutdown goes on: `CloseDatabase` has both
outcomes, and the process then has the file open until it exits. Left out: an `app.close()`
that rejects (server.ts, 48-52), which takes a failing `onClose` hook, and app.ts has only an
`onRequest` hook (68); the time between a child's exit and its 'close', which are one step, so
that pipes kept open by children of its own are not there; and the time between the
removal of the pidfile and `process.exit`, in which nothing touches the database. A
child's exit code may be 0 or not whatever was sent to it.

### TtsSidecar

A step is what a thread does between two synchronisation points, or the event
loop between two awaits. `worker[r]` is where the thread of request `r` is,
`handler[r]` where its coroutine is; `queue` and `sent` are the frames of a
stream that wait and that were sent. The wait for the lock may end at any time:
its deadline is a choice, which includes a deadline that has passed although the
lock is free. A client may leave at any time; the handler notices later. The
model (`vieneu`) is external: it yields any number of frames up to a bound, then
ends well or fails.

Not in this model: loading the model, the health endpoint, validation (it answers
before a permit is taken), and the answer of `/synthesize`.

## 3. Runs

`tlc -config <cfg> <module>`; the configuration of a run is `<module>_<run>.cfg`.

| Run | Module | Instance | Shows |
|---|---|---|---|
| `prefetch` | `MCSpeechJobs` | 3 prefetched questions, 1 listener, 3 jobs, 1 retry, no audio, backlog 1 | slot, order and jobs are kept; overflow hurts nobody and the next admission trims what retries have overfilled |
| `shared` | `MCSpeechJobs` | 1 prefetched question, 2 listeners, 2 jobs, 1 retry, 1 chunk, fairness | one live job, one rendering and no cached failure, through promotions in the queue, in the slot and in backoff, eviction and clean-up; every job settles |
| `delivery` | `MCSpeechPump` | 1 subscriber, 2 attempts, 2 frames in all its attempts, of 0 to 2 bytes (limit 1), base 5, prefix of 2 digits, fairness | what is heard is what was sent, in second lives too; the pump implements `LogReader` and returns |
| `exam` | `MCOralSession` | slots of 2 and 1 questions, one crash anywhere, fairness | lock, questions, answers, grades; what the tables say together; the lock is given back |
| `serial` | `MCServerLife` | 2 boots one after the other, builds 1 to 3, file at 1, migrations 2 and 3 destructive, 1 call, fairness | one process has the database open, whatever pids are used again; the served version fits; snapshots are kept; calls and shutdowns end |
| `race` | `MCMigrations` | 3 processes at once, builds 3 and 4, file at 1, migrations 2 and 4 destructive | every migration once and in order; nobody opens a file that is behind |
| `rooms` | `MCTtsSidecar` | 1 stream and 2 plain requests, 2 permits, 2 frames, fairness | permits, lock, and how streams end; permits come back and requests end |

*Why these bounds.* The scheduler's bad interleavings need a job in the slot,
one in the queue and one in backoff, and one more admission to overflow a
backlog of one: three jobs do both.
Listeners interact only through one job, so two of them. One retry is enough to leave
and re-enter the queue; a chunk of each of two attempts is enough to mix them. `shared` with
a question that is never prefetched and two chunks (664 thousand states) holds too, and is left to
the theorems, which cover both kinds of question. `delivery` (1.6 million states) has in two
attempts what there is: a retry after a failure without audio, a failure behind a frame,
and the second life of a job promoted in between, which adds a frame to the one it has. Two
frames have an end of one inside a read of the next; payloads are empty, a tag, and one
byte over the limit with a tag in front. Subscribers do not share anything but the job they
read, its promotion and the abort of the last one; the theorems cover any number of
them, of attempts, frames and bytes. In `OralSession`
a slot of two and another one tell a repeated slot from the next. One crash in the middle of
a critical section and a second attempt after it are the cases the code has to
handle; the theorems cover more crashes. In `serial` the first server may end in every
place and the second finds what it left, of an older or a newer build; one migration of
the second may follow one of the first (438 thousand states). The theorems cover more
processes, builds and calls. In `race` two processes can each commit what a third is about
to, and stop. Three requests are one more than the
sidecar admits. A stream and a plain request share permits and lock, and two
streams share nothing else: queue and response belong to one request.

*Deadlock* is not checked where the system may rightly stop: bounds are used up,
or all is answered.

*Symmetry* is used in `prefetch`, a run without liveness properties, over its questions,
all of which are prefetched: the module only compares them.

*Fairness.* `SpeechJobs`: the event loop runs each reaction and each timer that
is due; a sidecar call ends because `streamClient.ts` has an idle and a hard
deadline (56-59); a client that stays connected keeps reading. `OralSession`:
a CLI call ends because `spawn.ts` kills the child at its deadline (183);
lecturers and crashes are not fair. `TtsSidecar`: threads and event loop run,
the model finishes what it was given, the wait for the lock has a deadline;
clients are not fair. `SpeechPump`: callbacks and timers run, the timeout of a call
fires, the 'close' event follows the end of a socket, and a client that does not hang up
reads in the end; neither the sidecar nor the network is fair. `ServerLife`: the timers
of a call and of the shutdown fire, the steps of `shutdown()` that are due run, and a
child that was sent SIGKILL exits; a child need not heed SIGTERM, clients need not hang
up, nobody need boot or crash. `SingleWriterLock` and `Migrations` have no liveness
property and no fairness.

### Disagreements with the code's own words

Five runs expect a violation. Each checks one sentence of the code against what
the code does.

| Run | Property | What happens |
|---|---|---|
| `twice` | `OneRendering` | A prefetch fails and waits out its backoff, outside the queue. A listener promotes it, which *inserts* it; its timer inserts it again. It is synthesised, done, then synthesised once more, and the second audio is appended to the first. |
| `wedged` | `NeverWedged` | An answer is stored and the call for the next question fails. A retry is refused as answered, and nothing else asks: the session can only be ended. |
| `rereview` | `CoveredExactlyOnce` | A crash after some rubric items and before the report: the next review sees no report and adds every item again. |
| `clash` | `OneWriter` | The exclusive create leaves the pidfile empty until its text is written. A second boot reads it in between, takes it for a stale one, and removes it, just before or after the first writes the file it has open; then it creates its own. Both have the lock. |
| `restart` | `RefusedByAnother` | A server crashes and is started again with the pid it had, which every start of a container gives it (`docker-compose.prod.yml`, 12: `restart: unless-stopped`, on one volume). It finds its own pid in the pidfile, takes it for a live holder's, and refuses to boot. With more pids, that of an unrelated process does the same. |

`twice` has two consequences. If the second synthesis fails, the failed job stays
registered: its `settled` promise has resolved long ago, so the `.then` that
removes failed jobs does not run, and `evictIfNeeded` evicts `done` jobs only. And
while the job lives for the second time, another one for its question may be created.
What the code does keep is stated with such second lives left out, and no more than
them. `HeardAsSent` and `ImplementsLogReader` name them by `doubled`; `NoStall` leaves
out a job promoted out of its backoff until its timer has fired, since the promotion does not
kick the scheduler. `RenderedOnce`, `OneLiveJobPerQuestion` and `FailuresAreForgotten` say of a
prefetched job what holds until it has settled (the last one: until it was done), and of
a question that was never prefetched, which has no second lives, everything.

More disagreements need no run. `renderReport.ts` (20-22) refuses a draft
because it is "still teacher-editable"; the override route (`reviews.ts`, 85) looks
at neither report nor session, so that an approved report can be edited too.
`OverrideItem` has that step.

- *A listener cancelled by another's leaving.* The last listener of a job leaves and the
  job is aborted (`questionSpeechJobs.ts`, 364); it stays registered until its attempt
  returns. A listener that comes in between joins it and is told it was cancelled: `Close`,
  `Listen` and `AttemptEnds` of `SpeechJobs` in this order. The comment (359-360) speaks of
  subscribers at the time of the abort, which is right.
- *An approval that is not finished.* A crash behind the first write of an approval
  (`reviews.ts`, 98) leaves items that are never approved, and a retry is refused.
  `CrashWhileApproving` has it; nothing promises more, and `ReportAgrees` says what remains.
- *Children that outlive the server.* `spawn.ts` (46-52) keeps the escalation timer
  alive in a shutdown so that SIGKILL is sent. `shutdown()` ends with `process.exit`,
  which does not wait for timers, and `app.close` waits only for requests whose client is
  still there. A child that ignores SIGTERM and whose client has hung up lives on if the
  shutdown takes less than two seconds, and so does one that was spawned while the jobs
  drained. `OnlyAbandonedCallsOutlive` is what is left of the promise.
- *The snapshot of a racing process.* Without the lock, a process that lost the race for
  a destructive migration removes the winner's snapshot and copies the migrated file in
  its place (`migrate.ts`, 26-28); the comment (11-14) promises a way back. And an older
  build that has read the version before a newer one migrates goes on to serve a newer
  schema, which the comment (545-551) calls the direction that corrupts. `Restorable` and
  `SchemaFits` therefore belong to `ServerLife`, where the lock is held.
- *Success after the deadline.* A child that answers SIGTERM by exiting with 0 is
  taken for one that succeeded (`spawn.ts`, 193 and 236-238): `ChildExits` has it.

## 4. Proofs

TLC shows a property for the instances above. The theorems hold for every value
of the constants that meets the module's assumptions (`ConstantsAssumption` and the like).

**`SingleWriterLock_proofs`.** `MutualExclusion` and `PidfileIsRight` assume that
boots do not overlap, which the `clash` run shows to be needed. `PidfileNamesHolder`
is not inductive: a boot that is past its check could still remove the file of a
holder. `SerialInv` adds that one process boots at a time and what it has learnt (its
own file is the one to write; whom it read about holds the lock; past the check,
nobody does). `Refinement` maps the initial state and each step to
`ExclusiveWriter`, with the holders as writers. None of them assumes anything of pids. That
a crash never keeps the server down is no theorem: the `restart` run refutes it.

**`Migrations_proofs`.** Without any lock. `LoopInv`: a process in the loop has in hand a
migration that its build knows and that is at most one ahead of the file. It is what
makes `EachMigrationOnce` inductive: a commit that finds the version behind its target
finds it exactly one behind. `OpensMigratedFile` follows, since the loop is left only
past the last migration of the build.

**`ServerLife_proofs`.** `LockInLife` and `MigrationsInLife`: every behaviour of the servers is,
as far as their variables go, one of `SingleWriterLock` and one of `Migrations`, so that
the theorems of both hold in it. `OpenIsLocked` ties the two
together: only the holder of the lock has the database open, until it exits. With mutual exclusion this gives `DatabaseIsGuarded` and
`DatabaseHasOneUser`, a second refinement of `ExclusiveWriter`, now by the database
and not by the lock. A process that is alone has in hand the very next migration
(`AloneInv`), stronger than `LoopInv` and false without the lock; `ServedVersionFits` and
`SnapshotsRestore` follow, the latter with what a process knows of its snapshot at
each stage (`SnapshotInv`): a snapshot that is removed or replaced is of a migration that is
not committed yet. All of these assume that boots do not overlap; `NoAwaitedChildOutlives`
does not: a child runs only for a call that is running (`ChildInv`), the database is
closed only when every call of the server is answered or abandoned, and a process that
has closed it serves no further call.

**`OralSession_proofs`.** The base is `LockInvariant`: no call and no lock before
the session exists, and the lock held by exactly the one call in flight. Each
other theorem adds its own part. `AtMostOneOpenQuestion` and `NoSecondTurn` follow
since a turn is stored in the step that asks for the next question;
`PromptIsCurrent` since every step that adds a question or an answer needs the
lock. `BlueprintIsFollowed` needs the order as well: a slot is asked from only when every
slot before it is complete (`SlotsInOrder`). `ReviewState` says that items and
reports exist only once the session is over, and gives `ReviewedExamStaysFrozen`
and `StatusMovesForward`. `ReportAgreesWithSession` joins `ItemsFollowReport` and `StatusesAgree`, which needs that a session without a report has no
items either (`Story`), which holds until the first crash. `ReportCoversExam` has
two parts: a report leaves out no question, whatever crashed, because it is
written after all items of its review; and until the first crash no question
has two items, which the `rereview` run shows to be wrong afterwards.

**`SpeechJobs_proofs`.** `SingleSynthesis`: `SlotInv` adds that the three stages of a
call are disjoint, so that the call leaving one is the one entering the next.
`OverflowIsHarmless`: `ListenInv` says that open listeners are attached to
foreground jobs. A job once in the foreground stays there, and the overflow
drops background jobs only.

Where a job is: `ForegroundFirst` and `NoLostJob` are not inductive alone. `QueueInv`
adds that a job not promoted out of its backoff is in the queue once, or waits for
one timer, or has a call, and that its state says which; a promoted one may be twice in the
queue, and only what is still owed to it is claimed. The overflow then takes out one
block of the sorted queue (`OverflowIsBlock`), whose jobs are waiting prefetches and are
nowhere else. `WaitersFirst`, `NothingIsLost` and `BacklogIsTrimmed` follow.
`IdleHasNothingToStart` is inductive with it: each step that frees the slot or fills the
queue kicks the scheduler, except the promotion, whose job has a timer.

What is registered: `RegistryInv` ties state, promise, last success and registration of
each job. A job that has not settled is the registered one of its question, which gives
`RequestsShareJobs` at once; a job whose settlement was handled and that is still
registered was done, which gives `FailuresAreNotCached`. `RenderInv` builds on both: in its
first life a job that waits has no audio, and the audio it has is of its latest call,
the only one that can deliver any. It gives `JobsAreRenderedOnce`.

**`SpeechPump_proofs`.** `Typing`, and two theorems for any number of listeners, any
base, limit and width of the length prefix, and any set of payloads.

`SubscribersReadTheLog` is the refinement of `LogReader`. `ReaderInv`: a client that can be
written to has been sent as many chunks as the cursor of its pump says, one more while that
write is waited for, and no end as long as the pump goes on. `LivesInv` follows the job through
queue, slot and timer: there is a call only while it runs, and a job in state queued has no
audio; one that was not doubled has one queue entry or one timer while it is in that state and
neither otherwise. So a log grows after its end only if it was marked before it had audio. `Proceed`, the body of
`runPump`, is then one step of the reader for its listener and none for the others.

`WhatIsSentIsHeard` goes through the bytes. `LengthIsReadBack`: the prefix the sidecar
writes is the length the client reads. `HeadOfStream` and `FirstFrame`: bytes that begin a
stream of frames begin with the first frame, or are less than it, and `Parse` takes
just that. `ParseDelivers`, by induction on the length of the buffer: if the buffer and
what is still to come are together some frames and perhaps a last one, `Parse` hands out the
first few of them and leaves a buffer of which the same is true of the others. `DeliveryInv` is
that statement at every point of a call: what was handed out, the buffer, what is on
its way and what was lost with the connection are together the frames that were sent. It needs
the rest of the job as well: what earlier attempts have left is the same until the next
one, an attempt begins with an empty buffer, a verdict
"ok" has seen the last frame, and a job that is done had that verdict.

`Parse`, `LengthPrefix` and `FrameLength` are recursive functions, and the library's theorems
on induction and recursion take operators as parameters. The module has what it needs over
*sets* and *functions* instead: `Induction` is about a set of naturals, and `Recursion`
says that an equation that looks only at arguments of a smaller measure has a solution,
so that `Parse` satisfies its own.

Besides `StreamAssumption` it assumes `PayloadsFit`: the length of a payload fits the prefix,
four bytes in the code, where `struct.pack` would raise otherwise. TLC checks both assumptions
in `delivery`, and checked `ReaderInv` and `DeliveryInv` there too.

**`TtsSidecar_proofs`.** `Steps` reduces every action to one of three moves of one
worker: in with a permit, along, out with the permit. `PermitsAreConserved` is
then arithmetic on the cardinality of the set of admitted requests.
`OneInferenceAtATime` keeps that set's part inside the lock empty or a singleton.
`StreamsEnd`: what was sent of a stream and what waits in its queue are together audio, then one end,
then the mark that closes the queue, as far as the worker has come (`StreamInv`); a stream
that is still read is not cancelled, so that its worker does say how it ended.

`SequenceLemmas` has the facts about sequences the others cite. It and the seven
other modules with theorems declare no recursive operator and reach none.

*Only model-checked:* every invariant and every safety property of the passing runs is
a theorem as well. What the provers cannot reach are the liveness properties
(`EveryJobSettles`, `PumpsReturn`, `LockReleased`, `ShutdownEnds`, `CallsSettle`,
`RequestsEnd`): they rest on fairness, hence on `ENABLED`.

## 5. Not modelled, and why

- Authentication, ownership, course and blueprint routes: checks before a handler
  and reads of tables nobody writes at run time.
- Prompts, text clean-up, HTML, error mapping, contracts: formatting.
- The model of the sidecar, SQLite, Fastify, Node's sockets and the Claude CLI are
  external; the modules have the outcomes `src/` can see.
- The data of the migrations: the SQL of each `up()`.
- The envelope of the CLI's output (`parseEnvelope`), and its decoding, which takes each
  piece of output by itself and so can break a character of several bytes.
- Deployment, tests and scripts; they served as evidence of intent.

## 6. Plan

In this order; 1 to 9 exist.

1. `SpeechJobs`, the most intricate state of the backend, with its runs and first theorems.
2. `OralSession` with all theorems of its safety properties.
3. `SingleWriterLock` and the abstract `ExclusiveWriter`, with the refinement proof.
4. `TtsSidecar` with its permits and lock proved.
5. `SequenceLemmas`.
6. `StreamClient` and `SpeechPump`, shown to implement the abstract `LogReader`.
7. `Migrations` with its theorems.
8. `ServerLife`, the composition of lock, migrations, CLI children and shutdown, with
   the theorems of its safety properties about the database.
9. Theorems about the queue, the registry and the renderings of `SpeechJobs`, the streams of
   `TtsSidecar`, the types of `ServerLife`, and all of `SpeechPump`: the refinement of
   `LogReader` and the parser.
10. Abstract specifications: `SpeechService` (a question is rendered once and
    every listener hears all of it) for `SpeechJobs` without prefetch, `Exam` for
    `OralSession` without crashes, with refinement mappings.
11. Pure checks: review and state parsers, `chunkText`.
