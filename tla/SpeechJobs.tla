------------------------------ MODULE SpeechJobs ------------------------------
(***************************************************************************)
(* The shared speech-synthesis jobs of oral-session/questionSpeechJobs.ts: *)
(* a registry of one job per question, a two-priority queue in front of a  *)
(* single synthesis slot, retries that give the slot back and come in      *)
(* again through a timer, a cache of finished audio, and the SSE           *)
(* subscribers that read a job's audio at their own pace.                  *)
(*                                                                         *)
(* A step is one callback of the event loop: a request, a timer, a frame   *)
(* from the sidecar, or one of the promise reactions (.finally of an       *)
(* attempt, .then of `settled`) that run after the code that caused them.  *)
(***************************************************************************)
EXTENDS Integers, Sequences, FiniteSets, FiniteSetsExt, SequencesExt

CONSTANTS
  Questions,            \* question ids
  NoQuestion,           \* the question of a job not created yet
  Prefetched,           \* the questions this process generated, hence prefetches
  Requests,             \* GET .../speech requests, each with its own subscriber
  MaxJobs,              \* bound: SpeechJob objects created in a behaviour
  MaxRetries,           \* bound: attempts that fit in RETRY_MAX_ELAPSED_MS, less one
  MaxChunks,            \* bound: audio frames of one synthesis call
  MaxPendingBackground, \* MAX_PENDING_BACKGROUND
  MaxCacheBytes,        \* cacheConfig.maxCacheBytes, one unit per chunk
  MaxCacheCount         \* cacheConfig.maxCacheCount

ASSUME ConstantsAssumption ==
  /\ Prefetched \subseteq Questions /\ NoQuestion \notin Questions
  /\ {MaxJobs, MaxRetries, MaxChunks, MaxCacheBytes, MaxCacheCount} \subseteq Nat
  /\ MaxPendingBackground \in Nat \ {0}

Jobs  == 1 .. MaxJobs    \* in order of creation
NoJob == 0

VARIABLES
  created,    \* how many jobs exist: 1 .. created
  question,   \* job -> questionId
  state,      \* job -> JobState
  priority,   \* job -> JobPriority
  chunks,     \* job -> the attempts its chunks came from, in order
  retryCount,
  aborted,    \* job -> abort.signal.aborted
  promise,    \* job -> `settled`: pending, resolved (its .then is due), handled
  doneAt,     \* job -> instant of its last 'done'; 0 if never done
  clock,      \* number of 'done' settlements so far
  registry,   \* question -> job
  queue, activeJob,
  attempts,   \* job -> sidecarCallCount
  open,       \* calls <<job, attempt>> awaiting the sidecar
  ended,      \* calls whose END_OK frame was read and whose body is being closed
  closing,    \* calls that returned; the .finally of kickScheduler is due
  timers,     \* job -> backoff timers armed
  untouched,  \* questions never passed to ensureJob
  subscriber, \* request -> the job it is attached to
  connection, \* request -> "open" while its listener is in job.listeners,
              \*            "broken" after a failed write, "closed" after detach
  cursor,     \* request -> chunks written to it
  outcome,    \* request -> what its pump came to
  draining    \* abortAllAndDrain was called

jobVars  == <<question, state, priority, chunks, retryCount, aborted, promise, doneAt, clock>>
callVars == <<open, ended, closing, attempts>>
slotVars == <<queue, activeJob>>
subVars  == <<subscriber, connection, cursor, outcome>>
vars == <<created, jobVars, registry, slotVars, callVars, timers, untouched, subVars, draining>>

Live    == {"queued", "running"}
Settled == {"done", "failed", "cancelled"}
Calls   == open \cup ended \cup closing

TypeOK ==
  /\ created \in 0 .. MaxJobs
  /\ question \in [Jobs -> Questions \cup {NoQuestion}]
  /\ state \in [Jobs -> {"none"} \cup Live \cup Settled]
  /\ priority \in [Jobs -> {"foreground", "background"}]
  /\ chunks \in [Jobs -> Seq(Nat)]
  /\ retryCount \in [Jobs -> Nat]
  /\ aborted \in [Jobs -> BOOLEAN]
  /\ promise \in [Jobs -> {"pending", "resolved", "handled"}]
  /\ doneAt \in [Jobs -> Nat] /\ clock \in Nat
  /\ registry \in [Questions -> Jobs \cup {NoJob}]
  /\ queue \in Seq(Jobs)
  /\ activeJob \in Jobs \cup {NoJob}
  /\ attempts \in [Jobs -> Nat]
  /\ open \subseteq Jobs \X Nat /\ ended \subseteq Jobs \X Nat /\ closing \subseteq Jobs \X Nat
  /\ timers \in [Jobs -> Nat]
  /\ untouched \subseteq Questions
  /\ subscriber \in [Requests -> Jobs \cup {NoJob}]
  /\ connection \in [Requests -> {"none", "open", "broken", "closed"}]
  /\ cursor \in [Requests -> Nat]
  /\ outcome \in [Requests -> {"none", "pumping", "stopped"} \cup Settled]
  /\ draining \in BOOLEAN

Init ==
  /\ created = 0
  /\ question = [j \in Jobs |-> NoQuestion]
  /\ state = [j \in Jobs |-> "none"]
  /\ priority = [j \in Jobs |-> "background"]
  /\ chunks = [j \in Jobs |-> <<>>]
  /\ retryCount = [j \in Jobs |-> 0]
  /\ aborted = [j \in Jobs |-> FALSE]
  /\ promise = [j \in Jobs |-> "pending"]
  /\ doneAt = [j \in Jobs |-> 0] /\ clock = 0
  /\ registry = [q \in Questions |-> NoJob]
  /\ queue = <<>> /\ activeJob = NoJob
  /\ attempts = [j \in Jobs |-> 0]
  /\ open = {} /\ ended = {} /\ closing = {}
  /\ timers = [j \in Jobs |-> 0]
  /\ untouched = Questions
  /\ subscriber = [r \in Requests |-> NoJob]
  /\ connection = [r \in Requests |-> "none"]
  /\ cursor = [r \in Requests |-> 0]
  /\ outcome = [r \in Requests |-> "none"]
  /\ draining = FALSE

-------------------------------------------------------------------------------
(* The queue.  `prio` is the priority of every job at the time of the call. *)

Backgrounds(q, prio) == {i \in DOMAIN q : prio[q[i]] = "background"}

\* The position before which a foreground job goes: the first background job's.
FirstBackground(q, prio) ==
  IF Backgrounds(q, prio) = {} THEN Len(q) + 1 ELSE Min(Backgrounds(q, prio))

InsertByPriority(q, prio, j) ==
  IF prio[j] = "background" THEN Append(q, j)
  ELSE InsertAt(q, FirstBackground(q, prio), j)

\* Mutants: a promoted job is moved behind the prefetches; it is taken out and
\* never put back.
PromoteToEndMutant(q, prio, j) == Append(RemoveFirst(q, j), j)
PromoteRemovesMutant(q, prio, j) == RemoveFirst(q, j)

PromoteToForeground(q, prio, j) ==
  LET at == {i \in DOMAIN q : q[i] = j}
  IN  InsertByPriority(IF at = {} THEN q ELSE RemoveAt(q, Min(at)), prio, j)

\* Mutants: the overflow counts and drops foreground jobs too; `>` is `> 1 +`.
OverflowOfAnyMutant(q, prio) ==
  {i \in DOMAIN q : Cardinality({k \in DOMAIN q : k >= i}) > MaxPendingBackground}
OverflowOffByOneMutant(q, prio) ==
  LET bg == Backgrounds(q, prio)
  IN  {i \in bg : Cardinality({k \in bg : k >= i}) > MaxPendingBackground + 1}

\* The background jobs evictQueueOverflow takes out: the first ones, until no
\* more than MaxPendingBackground are left.
Overflow(q, prio) ==
  LET bg == Backgrounds(q, prio)
  IN  {i \in bg : Cardinality({k \in bg : k >= i}) > MaxPendingBackground}

\* Background jobs are contiguous at the end of the queue (ForegroundFirst), so
\* what the loop takes out one by one is one block.
AfterOverflow(q, prio) ==
  LET first == FirstBackground(q, prio)
      n     == Cardinality(Overflow(q, prio))
  IN  SubSeq(q, 1, first - 1) \o SubSeq(q, first + n, Len(q))

\* Mutant: settle stores its second argument as the state.
SettledStateMutant(S, result) ==
  [j \in Jobs |-> IF j \in S /\ state[j] \in Live THEN "queue_overflow" ELSE state[j]]

\* SpeechJob.settle on every job of S: its guard, its outcome and the
\* resolution of `settled`, which resolves only once.
SettledState(S, result) ==
  [j \in Jobs |-> IF j \in S /\ state[j] \in Live THEN result ELSE state[j]]

ResolvedPromise(S) ==
  [j \in Jobs |-> IF j \in S /\ state[j] \in Live /\ promise[j] = "pending"
                  THEN "resolved" ELSE promise[j]]

\* Mutant: kickScheduler does not look at activeJob.
KickWhileActiveMutant(q, a, s) ==
  IF q = <<>>
  THEN /\ queue' = q /\ activeJob' = a /\ state' = s
       /\ UNCHANGED <<open, attempts>>
  ELSE LET j == Head(q)
       IN  /\ queue' = Tail(q) /\ activeJob' = j
           /\ state' = [s EXCEPT ![j] = "running"]
           /\ attempts' = [attempts EXCEPT ![j] = @ + 1]
           /\ open' = open \cup {<<j, attempts[j] + 1>>}

\* kickScheduler with the queue q, the slot a and the job states s: start the
\* head of the queue if the slot is free.
KickScheduler(q, a, s) ==
  IF a # NoJob \/ q = <<>>
  THEN /\ queue' = q /\ activeJob' = a /\ state' = s
       /\ UNCHANGED <<open, attempts>>
  ELSE LET j == Head(q)
       IN  /\ queue' = Tail(q) /\ activeJob' = j
           /\ state' = [s EXCEPT ![j] = "running"]
           /\ attempts' = [attempts EXCEPT ![j] = @ + 1]
           /\ open' = open \cup {<<j, attempts[j] + 1>>}

-------------------------------------------------------------------------------
(* The cache and the shared jobs. *)

\* Mutant: eviction does not look at the state of a job.
EvictsAnyMutant == {j \in Jobs : /\ question[j] \in Questions
                                 /\ registry[question[j]] = j}

DoneCached == {j \in Jobs : /\ state[j] = "done" /\ question[j] \in Questions
                            /\ registry[question[j]] = j}

\* The n jobs of DoneCached that were done first.
Oldest(n) ==
  {j \in DoneCached : Cardinality({k \in DoneCached : doneAt[k] < doneAt[j]}) < n}

Without(S) == [q \in Questions |-> IF registry[q] \in S THEN NoJob ELSE registry[q]]

FitsBudget(reg) ==
  LET cached == {q \in Questions : reg[q] # NoJob}
  IN  /\ MapThenSumSet(LAMBDA q : Len(chunks[reg[q]]), cached) <= MaxCacheBytes
      /\ Cardinality(cached) <= MaxCacheCount

\* What evictIfNeeded can leave of the registry.  Its three loops take out done
\* jobs, oldest first: those whose TTL has expired (any number of them), then
\* more until the budgets are met or no done job is left.
Evictions ==
  {n \in 0 .. Cardinality(DoneCached) :
     FitsBudget(Without(Oldest(n))) \/ n = Cardinality(DoneCached)}

\* The registered job serves the request; a foreground request promotes it.
ReuseJob(j, p) ==
  LET promoted == p = "foreground" /\ priority[j] = "background"
      prio     == [priority EXCEPT ![j] = IF promoted THEN "foreground" ELSE @]
  IN  /\ priority' = prio
      /\ queue' = IF promoted /\ state[j] = "queued"
                  THEN PromoteToForeground(queue, prio, j) ELSE queue
      /\ UNCHANGED <<created, question, state, promise, activeJob, open, attempts>>

CreateJob(j, q, p) ==
  LET prio    == [priority EXCEPT ![j] = p]
      pushed  == InsertByPriority(queue, prio, j)
      dropped == {pushed[i] : i \in Overflow(pushed, prio)}
  IN  /\ created' = j
      /\ question' = [question EXCEPT ![j] = q]
      /\ priority' = prio
      /\ promise' = ResolvedPromise(dropped)
      /\ KickScheduler(AfterOverflow(pushed, prio), activeJob,
                       [SettledState(dropped, "cancelled") EXCEPT ![j] = "queued"])

\* ensureJob(q, p) returns j.
EnsureJob(q, p, j) ==
  /\ \E reg \in {Without(Oldest(n)) : n \in Evictions} :
          \/ /\ reg[q] = j /\ j # NoJob
             /\ registry' = reg
             /\ ReuseJob(j, p)
          \/ /\ reg[q] = NoJob /\ j = created + 1 /\ j \in Jobs
             /\ registry' = [reg EXCEPT ![q] = j]
             /\ CreateJob(j, q, p)
  /\ untouched' = untouched \ {q}
  /\ UNCHANGED <<chunks, retryCount, aborted, doneAt, clock, ended, closing, timers, draining>>

-------------------------------------------------------------------------------
(* Requests.  Each question is prefetched once, when it is created, before a  *)
(* request can name it; a question of an earlier process never is.            *)

\* enqueueSpeechPrefetch
Prefetch(q) ==
  /\ q \in Prefetched \cap untouched
  /\ \E j \in Jobs : EnsureJob(q, "background", j)
  /\ UNCHANGED subVars

\* The speech route: ensureJob and attachSseSubscriber, with no await between.
Listen(r, q) ==
  /\ outcome[r] = "none"
  /\ q \in Prefetched => q \notin untouched
  /\ \E j \in Jobs :
       /\ EnsureJob(q, "foreground", j)
       /\ subscriber' = [subscriber EXCEPT ![r] = j]
  /\ connection' = [connection EXCEPT ![r] = "open"]
  /\ outcome' = [outcome EXCEPT ![r] = "pumping"]
  /\ UNCHANGED cursor

\* One round of the pump: the next chunk is written to the client ...
PumpChunk(r) ==
  /\ outcome[r] = "pumping"
  /\ cursor[r] < Len(chunks[subscriber[r]])
  /\ cursor' = [cursor EXCEPT ![r] = @ + 1]
  /\ UNCHANGED <<subscriber, connection, outcome>>

\* ... or, with no chunk left, the terminal event of a settled job.
PumpTerminal(r) ==
  /\ outcome[r] = "pumping"
  /\ cursor[r] = Len(chunks[subscriber[r]])
  /\ state[subscriber[r]] \in Settled
  /\ outcome' = [outcome EXCEPT ![r] = state[subscriber[r]]]
  /\ UNCHANGED <<subscriber, connection, cursor>>

Pump(r) ==
  /\ PumpChunk(r) \/ PumpTerminal(r)
  /\ UNCHANGED <<created, jobVars, registry, slotVars, callVars, timers, untouched, draining>>

\* A write throws: the pump tears its subscriber down.
PumpThrows(r) ==
  /\ outcome[r] = "pumping"
  /\ cursor[r] < Len(chunks[subscriber[r]]) \/ state[subscriber[r]] \in Settled
  /\ outcome' = [outcome EXCEPT ![r] = "stopped"]
  /\ connection' = [connection EXCEPT ![r] = "broken"]
  /\ UNCHANGED <<created, jobVars, registry, slotVars, callVars, timers, untouched,
                 subscriber, cursor, draining>>

Listeners(j) == {r \in Requests : connection[r] = "open" /\ subscriber[r] = j}

\* The response closed, finished or not: detach stops the pump and aborts the
\* job if it is a live foreground job that nobody listens to any more.
Close(r) ==
  LET j == subscriber[r]
  IN  /\ connection[r] \in {"open", "broken"}
      /\ connection' = [connection EXCEPT ![r] = "closed"]
      /\ outcome' = [outcome EXCEPT ![r] = IF @ = "pumping" THEN "stopped" ELSE @]
      /\ aborted' = [aborted EXCEPT ![j] =
                       @ \/ /\ priority[j] = "foreground"
                            /\ Listeners(j) \subseteq {r}
                            /\ state[j] \in Live]
      /\ UNCHANGED <<created, question, state, priority, chunks, retryCount, promise, doneAt,
                     clock, registry, slotVars, callVars, timers, untouched, subscriber, cursor, draining>>

\* abortAllAndDrain: every live registered job is aborted.  Nothing is settled
\* here: the shutdown waits for the attempts and the timers to do it.
AbortAllAndDrain ==
  /\ ~draining
  /\ draining' = TRUE
  /\ aborted' = [j \in Jobs |-> aborted[j] \/ /\ state[j] \in Live
                                              /\ \E q \in Questions : registry[q] = j]
  /\ UNCHANGED <<created, question, state, priority, chunks, retryCount, promise, doneAt,
                 clock, registry, slotVars, callVars, timers, untouched, subVars>>

-------------------------------------------------------------------------------
(* One synthesis attempt, c = <<job, sidecarCallCount>>: runSynthesis and the *)
(* frames that synthesizeStream reads.  An aborted call reads nothing more.   *)

\* An audio frame: pushChunk.
ReceiveChunk(c) ==
  LET j == c[1]
  IN  /\ c \in open /\ ~aborted[j]
      /\ Cardinality({i \in DOMAIN chunks[j] : chunks[j][i] = c[2]}) < MaxChunks
      /\ chunks' = [chunks EXCEPT ![j] = Append(@, c[2])]
      /\ UNCHANGED <<created, question, state, priority, retryCount, aborted, promise, doneAt,
                     clock, registry, slotVars, callVars, timers, untouched, subVars, draining>>

\* The END_OK frame.  The body is still to be closed; an abort is too late now.
ReceiveEnd(c) ==
  /\ c \in open /\ ~aborted[c[1]]
  /\ open' = open \ {c}
  /\ ended' = ended \cup {c}
  /\ UNCHANGED <<created, jobVars, registry, slotVars, attempts, closing, timers, untouched,
                 subVars, draining>>

\* What every way out of runSynthesis leaves alone.
AttemptFrame == <<created, question, priority, chunks, aborted, registry, slotVars, attempts,
                  untouched, subVars, draining>>

Settle(j, result) ==
  /\ state' = SettledState({j}, result)
  /\ promise' = ResolvedPromise({j})
  /\ doneAt' = [doneAt EXCEPT ![j] = IF result = "done" THEN clock + 1 ELSE @]
  /\ clock' = IF result = "done" THEN clock + 1 ELSE clock

AttemptSucceeds(c) ==
  /\ c \in ended
  /\ ended' = ended \ {c} /\ closing' = closing \cup {c}
  /\ Settle(c[1], "done")
  /\ UNCHANGED <<AttemptFrame, open, retryCount, timers>>

\* The call rejects and the job's signal is aborted, before or during the call.
AttemptCancelled(c) ==
  /\ c \in open /\ aborted[c[1]]
  /\ open' = open \ {c} /\ closing' = closing \cup {c}
  /\ Settle(c[1], "cancelled")
  /\ UNCHANGED <<AttemptFrame, ended, retryCount, timers>>

\* The call rejects with an error that is not retryable, or too late to retry,
\* or after some audio was handed out.
AttemptFails(c) ==
  /\ c \in open /\ ~aborted[c[1]]
  /\ open' = open \ {c} /\ closing' = closing \cup {c}
  /\ Settle(c[1], "failed")
  /\ UNCHANGED <<AttemptFrame, ended, retryCount, timers>>

\* Mutant: a retry is allowed after audio was handed out.
RetryAfterAudioMutant(j) == retryCount[j] < MaxRetries

MayRetry(j) == chunks[j] = <<>> /\ retryCount[j] < MaxRetries

\* The call rejects with a retryable error: the job is queued again, but comes
\* back to the queue only when its backoff timer fires.
AttemptRetries(c) ==
  LET j == c[1]
  IN  /\ c \in open /\ ~aborted[j] /\ MayRetry(j)
      /\ open' = open \ {c} /\ closing' = closing \cup {c}
      /\ state' = [state EXCEPT ![j] = "queued"]
      /\ retryCount' = [retryCount EXCEPT ![j] = @ + 1]
      /\ timers' = [timers EXCEPT ![j] = @ + 1]
      /\ UNCHANGED <<AttemptFrame, ended, promise, doneAt, clock>>

AttemptEnds(c) ==
  ReceiveEnd(c) \/ AttemptSucceeds(c) \/ AttemptCancelled(c) \/ AttemptFails(c) \/ AttemptRetries(c)

\* Mutant: the .finally frees the slot and does not kick the scheduler.
FinallyWithoutKickMutant(c) ==
  /\ c \in closing
  /\ closing' = closing \ {c}
  /\ activeJob' = IF activeJob = c[1] THEN NoJob ELSE activeJob
  /\ UNCHANGED <<created, jobVars, registry, queue, attempts, open, ended, timers, untouched,
                 subVars, draining>>

\* The .finally of kickScheduler.
AttemptFinally(c) ==
  /\ c \in closing
  /\ closing' = closing \ {c}
  /\ KickScheduler(queue, IF activeJob = c[1] THEN NoJob ELSE activeJob, state)
  /\ UNCHANGED <<created, question, priority, chunks, retryCount, aborted, promise, doneAt,
                 clock, registry, ended, timers, untouched, subVars, draining>>

\* Mutant: only a failed job is taken out of the registry.
SettledThenMutant(j) ==
  /\ promise[j] = "resolved"
  /\ promise' = [promise EXCEPT ![j] = "handled"]
  /\ registry' = IF state[j] = "failed" /\ registry[question[j]] = j
                 THEN [registry EXCEPT ![question[j]] = NoJob] ELSE registry
  /\ UNCHANGED <<created, question, state, priority, chunks, retryCount, aborted, doneAt, clock,
                 slotVars, callVars, timers, untouched, subVars, draining>>

\* The .then of `settled`: only 'done' stays registered.
SettledThen(j) ==
  /\ promise[j] = "resolved"
  /\ promise' = [promise EXCEPT ![j] = "handled"]
  /\ registry' = IF state[j] # "done" /\ registry[question[j]] = j
                 THEN [registry EXCEPT ![question[j]] = NoJob] ELSE registry
  /\ UNCHANGED <<created, question, state, priority, chunks, retryCount, aborted, doneAt, clock,
                 slotVars, callVars, timers, untouched, subVars, draining>>

\* The backoff timer: nothing to do, nothing to resume, or back into the queue.
BackoffFires(j) ==
  /\ timers[j] > 0
  /\ timers' = [timers EXCEPT ![j] = @ - 1]
  /\ \/ /\ state[j] # "queued"
        /\ UNCHANGED <<jobVars, slotVars, open, attempts>>
     \/ /\ state[j] = "queued" /\ aborted[j]
        /\ Settle(j, "cancelled")
        /\ UNCHANGED <<question, priority, chunks, retryCount, aborted, slotVars, open, attempts>>
     \/ /\ state[j] = "queued" /\ ~aborted[j]
        /\ KickScheduler(InsertByPriority(queue, priority, j), activeJob, state)
        /\ UNCHANGED <<question, priority, chunks, retryCount, aborted, promise, doneAt, clock>>
  /\ UNCHANGED <<created, registry, ended, closing, untouched, subVars, draining>>

-------------------------------------------------------------------------------
Next ==
  \/ \E q \in Questions : Prefetch(q)
  \/ \E r \in Requests, q \in Questions : Listen(r, q)
  \/ \E r \in Requests : Pump(r) \/ PumpThrows(r) \/ Close(r)
  \/ \E c \in open : ReceiveChunk(c)
  \/ \E c \in Calls : AttemptEnds(c) \/ AttemptFinally(c)
  \/ \E j \in Jobs : SettledThen(j) \/ BackoffFires(j)
  \/ AbortAllAndDrain

Spec == Init /\ [][Next]_vars

\* The event loop runs every promise reaction and every timer that is due, the
\* sidecar client's idle and hard timeouts end every call, and a pump is woken
\* for whatever is left to write.  A client that stays connected keeps reading: a pump
\* waits for the socket to drain.  Nothing makes a client ask or hang up.
Fairness ==
  /\ \A j \in Jobs : WF_vars(SettledThen(j)) /\ WF_vars(BackoffFires(j))
  /\ WF_vars(\E c \in Calls : AttemptEnds(c))
  /\ WF_vars(\E c \in closing : AttemptFinally(c))
  /\ \A r \in Requests : WF_vars(Pump(r))

FairSpec == Spec /\ Fairness

-------------------------------------------------------------------------------
(* Safety *)

\* The scheduler never has two attempts between kickScheduler and its .finally,
\* and the slot is taken exactly while it has one: no retry, promotion or late
\* .finally frees a slot somebody else is using.
OneSynthesisAtATime ==
  /\ \A c, d \in Calls : c = d
  /\ activeJob # NoJob <=> Calls # {}
  /\ \A c \in Calls : c[1] = activeJob

\* A question somebody waits to hear is never queued behind a prefetch, however
\* jobs are promoted, retried or dropped.
ForegroundFirst ==
  \A i, k \in DOMAIN queue :
    i < k /\ priority[queue[i]] = "background" => priority[queue[k]] = "background"

\* The queue never waits on an idle scheduler.  A promotion does not kick the
\* scheduler, so a job promoted during its backoff relies on its timer for it.
NoStall ==
  activeJob = NoJob =>
    \A i \in DOMAIN queue : state[queue[i]] = "queued" => timers[queue[i]] > 0

\* No job is forgotten: a queued job is in the queue or will be put there by a
\* timer, a running one has a call that will return.
NoLostJob ==
  \A j \in Jobs :
    /\ state[j] = "queued" => timers[j] > 0 \/ \E i \in DOMAIN queue : queue[i] = j
    /\ state[j] = "running" => \E c \in open \cup ended : c[1] = j

\* The queue's overflow drops only prefetches nobody listens to: a job that is
\* cancelled without having been aborted has no subscriber.
OverflowHurtsNobody ==
  [][\A j \in Jobs :
       state[j] \in Live /\ state'[j] = "cancelled" /\ ~aborted[j] => Listeners(j) = {}]_vars

\* Retries put background jobs back without checking for overflow; the next
\* admission brings the backlog down to the limit, however far it is over.
AdmissionTrimsBacklog ==
  [][created' # created =>
       Cardinality(Backgrounds(queue', priority')) <= MaxPendingBackground]_vars

\* Requests for one question share one synthesis: there are never two jobs for
\* it that are queued or running, whatever was evicted, failed or asked again.  A
\* job promoted out of its backoff is in the queue twice and may run again when it
\* has settled (OneRendering); such second lives are left out, and a question that
\* was never prefetched has none.
OneLiveJobPerQuestion ==
  \A j, k \in Jobs :
    /\ state[j] \in Live /\ state[k] \in Live /\ question[j] = question[k]
    /\ question[j] \in Prefetched => promise[j] = "pending" /\ promise[k] = "pending"
    => j = k

\* What subscribers of a job hear comes from one call to the sidecar; a retry
\* never appends a second rendering to the first.
OneRendering ==
  \A j \in Jobs : \A i, k \in DOMAIN chunks[j] : chunks[j][i] = chunks[j][k]

\* What is left of it: a second rendering is appended only to a prefetched job that
\* has settled.  Until then, whatever retries, promotions and timers do, and for
\* good if its question was never prefetched, a job's audio is of one call.
RenderedOnce ==
  \A j \in Jobs :
    (question[j] \in Prefetched => promise[j] = "pending") =>
      \A i, k \in DOMAIN chunks[j] : chunks[j][i] = chunks[j][k]

\* A failure is not cached: a failed or cancelled job that is still registered
\* is about to be removed, so that the next request starts a new one.  Only a
\* prefetched job that was done, and ran again, can fail and stay.
FailuresAreForgotten ==
  \A q \in Questions :
    LET j == registry[q]
    IN  /\ j # NoJob /\ state[j] \in {"failed", "cancelled"}
        /\ q \in Prefetched => doneAt[j] = 0
        => promise[j] = "resolved"

-------------------------------------------------------------------------------
(* Liveness *)

\* Every job settles: the retries are bounded, an aborted job is cancelled when
\* its turn or its timer comes, and the drain at shutdown waits for no job forever.
EveryJobSettles == \A j \in Jobs : state[j] \in Live ~> state[j] \in Settled
=============================================================================
