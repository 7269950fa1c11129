------------------------------- MODULE SpeechPump -------------------------------
(***************************************************************************)
(* One speech job with its subscribers: runSynthesis and pumpSpeechJob of  *)
(* oral-session/questionSpeechJobs.ts, the calls of StreamClient that fill *)
(* the job's chunks, and the event-stream writer of tts/sseWriter.ts.      *)
(*                                                                         *)
(* SpeechJobs has many jobs and takes a call for an outcome and a pump for *)
(* one step; here is one job, and every await of a call and of a pump.  A  *)
(* step runs from one await to the next.  The job is prefetched, so that   *)
(* its first listener may find it anywhere, in the middle of a backoff     *)
(* too; a job that a listener creates is one whose first listener comes    *)
(* at once.                                                                *)
(***************************************************************************)
EXTENDS StreamClient

CONSTANTS
  Listeners,   \* requests for the job's question
  MaxFrames,   \* bound: audio frames the sidecar sends for the job
  MaxAttempts  \* bound: attempts that fit in RETRY_MAX_ELAPSED_MS

VARIABLES
  state,       \* JobState
  attempts,    \* sidecarCallCount
  priority,    \* JobPriority
  entries,     \* how often the job is in the queue
  timers,      \* backoff timers armed
  promise,     \* `settled`: "pending", or how the job had ended when it resolved
  doubled,     \* history: the job was promoted in a backoff, into the queue that its
               \* timer will put it in as well
  earlier,     \* history: the chunks of the attempts before this one
  loop,        \* listener -> where its runPump is
  cursor,      \* listener -> chunks its pump is done with
  stopped,     \* listener -> its pump was told to stop
  subscribed,  \* listener -> its callback is among the job's listeners
  socket,      \* listener -> its response: "open", "full", "gone" (destroyed),
               \*             "closed" (the 'close' event was emitted)
  heard,       \* listener -> the audio chunks written to its response
  told         \* listener -> the last event written to it

jobVars  == <<state, attempts, priority, entries, timers, promise, doubled, earlier>>
pumpVars == <<loop, cursor, stopped, subscribed, socket, heard, told>>
vars == <<callVars, signal, streamVars, chunks, jobVars, pumpVars>>

Live    == {"queued", "running"}
Settled == {"done", "failed", "cancelled"}

\* "writing" and "ending": in onChunk and in the handler of the terminal event;
\* "waiting" for a wake, "woken" by one; "over": returned.
TypeOK ==
  /\ StreamTypeOK
  /\ state \in Live \cup Settled /\ attempts \in Nat
  /\ priority \in {"background", "foreground"} /\ entries \in Nat /\ timers \in Nat
  /\ promise \in {"pending"} \cup Settled
  /\ doubled \in BOOLEAN /\ earlier \in Seq(Seq(Byte))
  /\ loop \in [Listeners -> {"none", "writing", "ending", "waiting", "woken", "over"}]
  /\ cursor \in [Listeners -> Nat]
  /\ stopped \in [Listeners -> BOOLEAN] /\ subscribed \in [Listeners -> BOOLEAN]
  /\ socket \in [Listeners -> {"open", "full", "gone", "closed"}]
  /\ heard \in [Listeners -> Seq(Seq(Byte))]
  /\ told \in [Listeners -> {"nothing"} \cup Settled]

Init ==
  /\ StreamInit
  /\ state = "queued" /\ attempts = 0
  /\ priority = "background" /\ entries = 1 /\ timers = 0 /\ promise = "pending"
  /\ doubled = FALSE /\ earlier = <<>>
  /\ loop = [r \in Listeners |-> "none"]
  /\ cursor = [r \in Listeners |-> 0]
  /\ stopped = [r \in Listeners |-> FALSE] /\ subscribed = [r \in Listeners |-> FALSE]
  /\ socket = [r \in Listeners |-> "open"]
  /\ heard = [r \in Listeners |-> <<>>]
  /\ told = [r \in Listeners |-> "nothing"]

-------------------------------------------------------------------------------
(* The pump. *)

\* Mutant: an event is lost on a pump that is not waiting for one, and one that
\* waits is not woken.
NoWakeMutant == loop

\* emit: the callback of every listener calls wake() and runPump(), which starts
\* nothing as long as the pump runs.
Wake == [r \in Listeners |->
           IF subscribed[r] /\ loop[r] = "waiting" THEN "woken" ELSE loop[r]]

Writable(r) == socket[r] \in {"open", "full"}

\* writer.event: one write, which leaves the socket as it is or fills it; nothing
\* is written to a response that is gone.
Write(r) ==
  \/ socket' = socket
  \/ /\ socket[r] = "open"
     /\ socket' = [socket EXCEPT ![r] = "full"]

\* Mutants: the loop looks at the job's state first; a pump that is done with
\* the chunks goes to sleep before it looks at it.
StateFirstMutant(r, c) ==
  /\ cursor' = [cursor EXCEPT ![r] = c]
  /\ IF state \in Settled
     THEN /\ loop' = [loop EXCEPT ![r] = "ending"]
          /\ told' = [told EXCEPT ![r] = IF Writable(r) THEN state ELSE @]
          /\ Write(r) /\ UNCHANGED heard
     ELSE IF c < Len(chunks)
     THEN /\ loop' = [loop EXCEPT ![r] = "writing"]
          /\ heard' = [heard EXCEPT ![r] = IF Writable(r) THEN Append(@, chunks[c + 1]) ELSE @]
          /\ Write(r) /\ UNCHANGED told
     ELSE /\ loop' = [loop EXCEPT ![r] = "waiting"]
          /\ UNCHANGED <<socket, heard, told>>

\* The body of the loop from a point where c chunks are done with, up to its next
\* await: the next chunk, or the end of a settled job, or a wait for an event.
Proceed(r, c) ==
  /\ cursor' = [cursor EXCEPT ![r] = c]
  /\ \/ /\ ~stopped[r] /\ c < Len(chunks)
        /\ loop' = [loop EXCEPT ![r] = "writing"]
        /\ heard' = [heard EXCEPT ![r] = IF Writable(r) THEN Append(@, chunks[c + 1]) ELSE @]
        /\ Write(r) /\ UNCHANGED told
     \/ /\ ~stopped[r] /\ c >= Len(chunks) /\ state \in Settled
        /\ loop' = [loop EXCEPT ![r] = "ending"]
        /\ told' = [told EXCEPT ![r] = IF Writable(r) THEN state ELSE @]
        /\ Write(r) /\ UNCHANGED heard
     \/ /\ ~stopped[r] /\ c >= Len(chunks) /\ state \in Live
        /\ loop' = [loop EXCEPT ![r] = "waiting"]
        /\ UNCHANGED <<socket, heard, told>>
     \/ /\ stopped[r]
        /\ loop' = [loop EXCEPT ![r] = "over"]
        /\ UNCHANGED <<socket, heard, told>>

\* The job is in the registry: only the .then of `settled`, which runs once, takes
\* out a job that has not been done.
Registered == promise \in {"pending", "done"}

\* ensureJob for a listener: a queued prefetch is promoted, which puts it into the
\* queue once, in the place of the entry it has or of none.
Promotes == priority = "background" /\ state = "queued"

\* The speech route: attachSseSubscriber on the job ensureJob returned.  The client
\* may be gone, and its 'close' event over, by then.
Attach(r) ==
  /\ loop[r] = "none" /\ Registered
  /\ priority' = "foreground"
  /\ entries' = IF Promotes /\ entries = 0 THEN 1 ELSE entries
  /\ doubled' = (doubled \/ (Promotes /\ entries = 0))
  /\ subscribed' = [subscribed EXCEPT ![r] = TRUE]
  /\ Proceed(r, 0)
  /\ UNCHANGED <<callVars, signal, streamVars, chunks, state, attempts, timers, promise,
                 earlier, stopped>>

\* Mutant: the chunk is counted before its write is through.
WrittenTwiceMutant(r) ==
  /\ loop[r] = "writing" /\ socket[r] # "full"
  /\ Proceed(r, cursor[r])
  /\ UNCHANGED <<callVars, signal, streamVars, chunks, jobVars, stopped, subscribed>>

\* onChunk resolves: the socket took the chunk, or drained, or closed.
Written(r) ==
  /\ loop[r] = "writing" /\ socket[r] # "full"
  /\ Proceed(r, cursor[r] + 1)
  /\ UNCHANGED <<callVars, signal, streamVars, chunks, jobVars, stopped, subscribed>>

\* The wait for an event is over.
Resume(r) ==
  /\ loop[r] = "woken"
  /\ Proceed(r, cursor[r])
  /\ UNCHANGED <<callVars, signal, streamVars, chunks, jobVars, stopped, subscribed>>

\* The terminal event is through; writer.done() ends the response.
Ended(r) ==
  /\ loop[r] = "ending" /\ socket[r] # "full"
  /\ loop' = [loop EXCEPT ![r] = "over"]
  /\ socket' = [socket EXCEPT ![r] = IF @ = "open" THEN "gone" ELSE @]
  /\ UNCHANGED <<callVars, signal, streamVars, chunks, jobVars, cursor, stopped, subscribed,
                 heard, told>>

\* A handler throws: the pump tears its subscriber down.
Throws(r) ==
  /\ loop[r] \in {"writing", "ending"}
  /\ loop' = [loop EXCEPT ![r] = "over"]
  /\ stopped' = [stopped EXCEPT ![r] = TRUE]
  /\ subscribed' = [subscribed EXCEPT ![r] = FALSE]
  /\ UNCHANGED <<callVars, signal, streamVars, chunks, jobVars, cursor, socket, heard, told>>

Drain(r) ==
  /\ socket[r] = "full"
  /\ socket' = [socket EXCEPT ![r] = "open"]
  /\ UNCHANGED <<callVars, signal, streamVars, chunks, jobVars, loop, cursor, stopped,
                 subscribed, heard, told>>

\* The client hangs up; the 'close' event comes later, or has come before the
\* route could listen for it.
HangUp(r) ==
  /\ Writable(r)
  /\ socket' = [socket EXCEPT ![r] = "gone"]
  /\ UNCHANGED <<callVars, signal, streamVars, chunks, jobVars, loop, cursor, stopped,
                 subscribed, heard, told>>

\* Mutant: stop does not wake the pump.
StopSleepingMutant(r) == loop

\* pump.stop(): the wait for an event, if any, is over.
StopWakes(r) == IF loop[r] = "waiting" THEN [loop EXCEPT ![r] = "woken"] ELSE loop

\* The 'close' event: `detach`, if the route has attached by now, and with the
\* last subscriber of a live job the abort of the call.
Closed(r) ==
  /\ socket[r] = "gone"
  /\ socket' = [socket EXCEPT ![r] = "closed"]
  /\ IF loop[r] = "none"
     THEN UNCHANGED <<loop, stopped, subscribed, signal, aborted>>
     ELSE /\ stopped' = [stopped EXCEPT ![r] = TRUE]
          /\ subscribed' = [subscribed EXCEPT ![r] = FALSE]
          /\ loop' = StopWakes(r)
          /\ IF state \in Live /\ \A o \in Listeners \ {r} : ~subscribed[o]
             THEN SetSignal ELSE UNCHANGED <<signal, aborted>>
  /\ UNCHANGED <<call, verdict, streamVars, chunks, jobVars, cursor, heard, told>>

-------------------------------------------------------------------------------
(* The job. *)

\* The scheduler takes the job from its queue, when no call of it has the slot: at
\* first, after a backoff, or although it has settled since it was put there.
Attempt ==
  /\ entries > 0 /\ call = "none"
  /\ entries' = entries - 1
  /\ state' = "running" /\ attempts' = attempts + 1
  /\ earlier' = chunks
  /\ StartCall
  /\ UNCHANGED <<signal, chunks, priority, timers, promise, doubled, pumpVars>>

\* Frames are read; pushChunk emits an event for each.
Receive ==
  /\ \E n \in 1 .. Len(wire) : Read(n)
  /\ loop' = IF chunks' # chunks THEN Wake ELSE loop
  /\ UNCHANGED <<jobVars, cursor, stopped, subscribed, socket, heard, told>>

CallRuns ==
  /\ CallStep
  /\ Len(earlier) + Len(frames') <= MaxFrames
  /\ UNCHANGED <<jobVars, pumpVars>>

\* Mutant: a retry is allowed after audio was handed out.
RetryAnywayMutant == verdict \in {"unavailable", "busy"} /\ attempts < MaxAttempts

MayRetry == verdict \in {"unavailable", "busy"} /\ chunks = <<>> /\ attempts < MaxAttempts

\* Mutant: the job's state becomes what the call returned.
SettleRawMutant(outcome) ==
  /\ state' = verdict
  /\ promise' = IF promise = "pending" THEN verdict ELSE promise
  /\ loop' = Wake
  /\ call' = "none"
  /\ UNCHANGED <<verdict, aborted, signal, streamVars, chunks, attempts, priority, entries,
                 doubled, earlier, cursor, stopped, subscribed, socket, heard, told>>

\* settle, on a live job, and the .then of `settled`, which runs the first time.
SettleAs(outcome) ==
  /\ state' = outcome
  /\ promise' = IF promise = "pending" THEN outcome ELSE promise
  /\ loop' = Wake
  /\ call' = "none"
  /\ UNCHANGED <<verdict, aborted, signal, streamVars, chunks, attempts, priority, entries,
                 doubled, earlier, cursor, stopped, subscribed, socket, heard, told>>

\* synthesizeStream has returned: the rest of runSynthesis.
AttemptReturns ==
  /\ call = "returned"
  /\ \/ /\ verdict = "ok"
        /\ SettleAs("done") /\ UNCHANGED timers
     \/ /\ verdict # "ok" /\ signal
        /\ SettleAs("cancelled") /\ UNCHANGED timers
     \/ /\ verdict # "ok" /\ ~signal
        /\ SettleAs("failed") /\ UNCHANGED timers
     \/ /\ verdict # "ok" /\ ~signal /\ MayRetry
        /\ state' = "queued" /\ call' = "none" /\ timers' = timers + 1
        /\ UNCHANGED <<verdict, aborted, signal, streamVars, chunks, attempts, priority,
                       entries, promise, doubled, earlier, pumpVars>>

\* A backoff timer: nothing to resume, or an aborted job, or back into the queue,
\* whether or not the job is there already.
BackoffFires ==
  /\ timers > 0
  /\ timers' = timers - 1
  /\ \/ /\ state # "queued"
        /\ UNCHANGED <<callVars, signal, streamVars, chunks, state, attempts, priority, entries,
                       promise, doubled, earlier, pumpVars>>
     \/ /\ state = "queued" /\ signal
        /\ SettleAs("cancelled")
     \/ /\ state = "queued" /\ ~signal
        /\ entries' = entries + 1
        /\ UNCHANGED <<callVars, signal, streamVars, chunks, state, attempts, priority, promise,
                       doubled, earlier, pumpVars>>

Next ==
  \/ Attempt \/ CallRuns \/ Receive \/ AttemptReturns \/ BackoffFires
  \/ \E r \in Listeners : \/ Attach(r) \/ Written(r) \/ Resume(r) \/ Ended(r) \/ Throws(r)
                          \/ Drain(r) \/ HangUp(r) \/ Closed(r)

Spec == Init /\ [][Next]_vars

\* The event loop runs what is due, its timers fire, and the 'close' event follows
\* the end of a socket.  A client that does not hang up reads in the end.  The
\* sidecar may fall silent, and nobody has to hang up.
Fairness ==
  /\ WF_vars(Attempt) /\ WF_vars(BackoffFires) /\ WF_vars(AttemptReturns)
  /\ WF_vars(Timeout /\ UNCHANGED <<jobVars, pumpVars>>)
  /\ WF_vars((Unreachable \/ ReadDone \/ ReadAborted \/ ReaderCancelled)
             /\ UNCHANGED <<jobVars, pumpVars>>)
  /\ WF_vars(Receive)
  /\ \A r \in Listeners : /\ WF_vars(Written(r) \/ Ended(r)) /\ WF_vars(Resume(r))
                          /\ WF_vars(Drain(r)) /\ WF_vars(Closed(r))

FairSpec == Spec /\ Fairness

-------------------------------------------------------------------------------
(* Properties *)

\* However the network cuts a response, what an attempt adds to the chunks of the job
\* are the frames the sidecar sent, in order and whole, and a job is done only with
\* all of them, up to the frame that says so.  The chunks are of one attempt: an
\* attempt finds some of an earlier one only if the job was promoted out of its
\* backoff, which queues it twice, and has settled since.
HeardAsSent ==
  /\ IsPrefix(chunks, earlier \o frames)
  /\ state = "done" => ending = "ok" /\ chunks = earlier \o frames
  /\ earlier # <<>> => doubled /\ promise # "pending"

\* A subscriber is sent the job's chunks and then its end, as LogReader says, however
\* its pump, its socket and the frames interleave.  The end of a job is for good,
\* unless it was promoted out of its backoff: that one may run again, and a subscriber
\* that is still reading is sent the second rendering as well.
Reader == INSTANCE LogReader
            WITH Readers <- Listeners, Outcomes <- Settled, log <- chunks,
                 outcome <- IF state \in Live THEN "live" ELSE state, final <- ~doubled
ImplementsLogReader == Reader!Spec

\* No pump sleeps through the last event, waits for a socket that is gone, or
\* survives its client: every route that attached a subscriber returns.
PumpsReturn == \A r \in Listeners : loop[r] # "none" ~> loop[r] = "over"
=============================================================================
