------------------------------ MODULE TtsSidecar ------------------------------
(***************************************************************************)
(* The synthesis service, tts-sidecar/app.py: a semaphore that admits a    *)
(* few requests, one lock around the model, and for each admitted request  *)
(* a worker thread.  The worker of a /synthesize/stream request hands its  *)
(* frames to the response generator through a queue; that of /synthesize   *)
(* returns to its handler, whose one answer is left out.                   *)
(*                                                                         *)
(* A step is what a thread does between two synchronisation points, or     *)
(* what the event loop does between two awaits.                            *)
(***************************************************************************)
EXTENDS Integers, Sequences, FiniteSets

CONSTANTS
  Streams,        \* /synthesize/stream requests
  Plains,         \* /synthesize requests
  MaxConcurrent,  \* MAX_CONCURRENT_REQUESTS
  MaxFrames       \* bound: audio frames of one text

Requests == Streams \cup Plains

ASSUME ConstantsAssumption ==
  /\ Streams \cap Plains = {} /\ IsFiniteSet(Requests)
  /\ MaxConcurrent \in Nat \ {0} /\ MaxFrames \in Nat

VARIABLES
  permits,    \* the value of _ADMISSION_SEMAPHORE
  locked,     \* is _infer_lock held?
  handler,    \* request -> its handler or response generator
  worker,     \* request -> where its worker thread is
  cancelled,  \* request -> cancel_event.is_set()
  client,     \* request -> "there" or "gone"
  queue,      \* stream -> out_queue
  sent        \* stream -> what the response carried

vars == <<permits, locked, handler, worker, cancelled, client, queue, sent>>

\* The lock is held from "acquired" to "releasing".  A worker at "closing" still
\* has _STREAM_DONE to put, one at "leaving" the permit to return.
Locking  == {"acquired", "inferring", "releasing"}
Admitted == {"polling", "closing", "leaving"} \cup Locking
Items    == {"audio", "ok", "error", "busy", "done"}

TypeOK ==
  /\ permits \in 0 .. MaxConcurrent
  /\ locked \in BOOLEAN
  /\ handler \in [Requests -> {"new", "serving", "ended"}]
  /\ worker \in [Requests -> {"none", "ended"} \cup Admitted]
  /\ cancelled \in [Requests -> BOOLEAN]
  /\ client \in [Requests -> {"there", "gone"}]
  /\ queue \in [Streams -> Seq(Items)]
  /\ sent \in [Streams -> Seq(Items)]

Init ==
  /\ permits = MaxConcurrent /\ locked = FALSE
  /\ handler = [r \in Requests |-> "new"]
  /\ worker = [r \in Requests |-> "none"]
  /\ cancelled = [r \in Requests |-> FALSE]
  /\ client = [r \in Requests |-> "there"]
  /\ queue = [r \in Streams |-> <<>>]
  /\ sent = [r \in Streams |-> <<>>]

Goto(r, place) == worker' = [worker EXCEPT ![r] = place]

Put(r, item) == queue' = [queue EXCEPT ![r] = Append(@, item)]

-------------------------------------------------------------------------------
(* Admission *)

\* Mutant: no look at the semaphore's value.
AdmitMutant(r) ==
  /\ handler[r] = "new"
  /\ permits' = IF permits > 0 THEN permits - 1 ELSE permits
  /\ handler' = [handler EXCEPT ![r] = "serving"]
  /\ Goto(r, "polling")
  /\ UNCHANGED <<locked, cancelled, client, queue, sent>>

Admit(r) ==
  /\ handler[r] = "new"
  /\ permits > 0
  /\ permits' = permits - 1
  /\ handler' = [handler EXCEPT ![r] = "serving"]
  /\ Goto(r, "polling")
  /\ UNCHANGED <<locked, cancelled, client, queue, sent>>

\* 429 at once; or the worker thread of a stream cannot be started, and the
\* permit it had taken is given back.
Reject(r) ==
  /\ handler[r] = "new"
  /\ permits = 0 \/ r \in Streams
  /\ handler' = [handler EXCEPT ![r] = "ended"]
  /\ IF r \in Plains THEN UNCHANGED sent
     ELSE sent' = [sent EXCEPT ![r] = IF permits = 0 THEN <<"busy">> ELSE <<"error">>]
  /\ UNCHANGED <<permits, locked, worker, cancelled, client, queue>>

\* The client closes its connection.
Disconnect(r) ==
  /\ client[r] = "there"
  /\ client' = [client EXCEPT ![r] = "gone"]
  /\ UNCHANGED <<permits, locked, handler, worker, cancelled, queue, sent>>

\* generate() ends, or watch_disconnect() of /synthesize: the event is set.
NoticeDisconnect(r) ==
  /\ handler[r] = "serving" /\ client[r] = "gone" /\ ~cancelled[r]
  /\ cancelled' = [cancelled EXCEPT ![r] = TRUE]
  /\ handler' = [handler EXCEPT ![r] = IF r \in Streams THEN "ended" ELSE @]
  /\ UNCHANGED <<permits, locked, worker, client, queue, sent>>

-------------------------------------------------------------------------------
(* The worker *)

\* Mutant: the polling loop gives up as if it had the lock.
GiveUpMutant(r) ==
  /\ worker[r] = "polling"
  /\ Goto(r, "releasing")
  /\ UNCHANGED <<permits, locked, handler, cancelled, client, queue, sent>>

\* _acquire_lock_polling returns False: the wait is over, or the event is set.
GiveUp(r) ==
  /\ worker[r] = "polling"
  /\ Goto(r, "leaving")
  /\ IF r \in Streams THEN Put(r, "busy") ELSE UNCHANGED queue
  /\ UNCHANGED <<permits, locked, handler, cancelled, client, sent>>

Lock(r) ==
  /\ worker[r] = "polling"
  /\ ~locked
  /\ locked' = TRUE
  /\ Goto(r, "acquired")
  /\ UNCHANGED <<permits, handler, cancelled, client, queue, sent>>

\* The event is looked at once more before the model is used.
Recheck(r) ==
  /\ worker[r] = "acquired"
  /\ Goto(r, IF cancelled[r] THEN "releasing" ELSE "inferring")
  /\ UNCHANGED <<permits, locked, handler, cancelled, client, queue, sent>>

\* A frame of audio.
Frame(r) ==
  /\ worker[r] = "inferring" /\ r \in Streams /\ ~cancelled[r]
  /\ Len(queue[r]) + Len(sent[r]) < MaxFrames
  /\ Put(r, "audio")
  /\ UNCHANGED <<permits, locked, handler, worker, cancelled, client, sent>>

\* Mutant: a model that fails ends the stream without a frame that says so.
FinishMutant(r) ==
  /\ worker[r] = "inferring"
  /\ Goto(r, "releasing")
  /\ IF r \in Streams /\ ~cancelled[r] THEN Put(r, "ok") \/ UNCHANGED queue
     ELSE UNCHANGED queue
  /\ UNCHANGED <<permits, locked, handler, cancelled, client, sent>>

\* The frame that ends the stream, or the end of infer(); a cancelled stream
\* stops between two frames, an infer() runs to its end.
Finish(r) ==
  /\ worker[r] = "inferring"
  /\ Goto(r, "releasing")
  /\ IF r \in Streams /\ ~cancelled[r] THEN \E item \in {"ok", "error"} : Put(r, item)
     ELSE UNCHANGED queue
  /\ UNCHANGED <<permits, locked, handler, cancelled, client, sent>>

Unlock(r) ==
  /\ worker[r] = "releasing"
  /\ locked' = FALSE
  /\ Goto(r, IF r \in Streams THEN "closing" ELSE "leaving")
  /\ UNCHANGED <<permits, handler, cancelled, client, queue, sent>>

\* Mutant: a bounded queue, whose put() waits for a reader.
CloseQueueMutant(r) ==
  /\ worker[r] = "closing" /\ Len(queue[r]) < 1
  /\ Put(r, "done")
  /\ Goto(r, "leaving")
  /\ UNCHANGED <<permits, locked, handler, cancelled, client, sent>>

\* _STREAM_DONE goes into the unbounded queue, whether anyone still reads it or not.
CloseQueue(r) ==
  /\ worker[r] = "closing"
  /\ Put(r, "done")
  /\ Goto(r, "leaving")
  /\ UNCHANGED <<permits, locked, handler, cancelled, client, sent>>

\* Mutant: only a worker that had something to say returns its permit.
ReturnPermitMutant(r) ==
  /\ worker[r] = "leaving"
  /\ permits' = IF cancelled[r] THEN permits ELSE permits + 1
  /\ Goto(r, "ended")
  /\ IF r \in Streams THEN UNCHANGED <<handler, cancelled>>
     ELSE /\ handler' = [handler EXCEPT ![r] = "ended"]
          /\ cancelled' = [cancelled EXCEPT ![r] = TRUE]
  /\ UNCHANGED <<locked, client, queue, sent>>

\* The last `finally`: of the thread, or of the /synthesize handler.
ReturnPermit(r) ==
  /\ worker[r] = "leaving"
  /\ permits' = permits + 1
  /\ Goto(r, "ended")
  /\ IF r \in Streams THEN UNCHANGED <<handler, cancelled>>
     ELSE /\ handler' = [handler EXCEPT ![r] = "ended"]
          /\ cancelled' = [cancelled EXCEPT ![r] = TRUE]
  /\ UNCHANGED <<locked, client, queue, sent>>

Work(r) ==
  \/ GiveUp(r) \/ Lock(r) \/ Recheck(r) \/ Frame(r) \/ Finish(r)
  \/ Unlock(r) \/ CloseQueue(r) \/ ReturnPermit(r)

-------------------------------------------------------------------------------
(* The response generator *)

\* Mutant: "busy" is sent on like a frame, and the generator waits for more.
ForwardMutant(r) ==
  LET item == Head(queue[r])
      last == item = "done"
  IN  /\ handler[r] = "serving" /\ queue[r] # <<>>
      /\ queue' = [queue EXCEPT ![r] = Tail(@)]
      /\ sent' = [sent EXCEPT ![r] = IF item = "done" THEN @ ELSE Append(@, item)]
      /\ handler' = [handler EXCEPT ![r] = IF last THEN "ended" ELSE @]
      /\ cancelled' = [cancelled EXCEPT ![r] = @ \/ last]
      /\ UNCHANGED <<permits, locked, worker, client>>

\* generate() takes an item: a frame is sent on, _STREAM_BUSY and _STREAM_DONE end
\* the response, and the `finally` sets the event.
Forward(r) ==
  LET item == Head(queue[r])
      last == item \in {"busy", "done"}
  IN  /\ handler[r] = "serving" /\ queue[r] # <<>>
      /\ queue' = [queue EXCEPT ![r] = Tail(@)]
      /\ sent' = [sent EXCEPT ![r] = IF item = "done" THEN @ ELSE Append(@, item)]
      /\ handler' = [handler EXCEPT ![r] = IF last THEN "ended" ELSE @]
      /\ cancelled' = [cancelled EXCEPT ![r] = @ \/ last]
      /\ UNCHANGED <<permits, locked, worker, client>>

-------------------------------------------------------------------------------
Next ==
  \/ \E r \in Requests : Admit(r) \/ Reject(r) \/ Disconnect(r) \/ NoticeDisconnect(r) \/ Work(r)
  \/ \E r \in Streams : Forward(r)

Spec == Init /\ [][Next]_vars

\* Threads and the event loop run on and the model finishes what it was given;
\* nothing makes a client ask or hang up.  The polling loop's deadline passes.
FairSpec ==
  /\ Spec
  /\ \A r \in Requests : WF_vars(Work(r)) /\ WF_vars(NoticeDisconnect(r))
  /\ \A r \in Streams : WF_vars(Forward(r))

-------------------------------------------------------------------------------
(* Properties *)

\* The model is used by one worker at a time, and the lock is held by exactly
\* the worker that will release it, whichever way it leaves.
OneInference ==
  /\ \A r, s \in Requests : worker[r] \in Locking /\ worker[s] \in Locking => r = s
  /\ locked <=> \E r \in Requests : worker[r] \in Locking

\* A permit is out for each admitted request and for nothing else: none leaks
\* when a wait times out, a client leaves or the model fails.
PermitsConserved ==
  permits + Cardinality({r \in Requests : worker[r] \in Admitted}) = MaxConcurrent

\* A client that stays gets a stream that says how it ended, in its last frame:
\* what the backend takes for a broken stream is one.
StreamsTerminated ==
  \A r \in Streams :
    handler[r] = "ended" /\ client[r] = "there" =>
      sent[r] # <<>> /\ sent[r][Len(sent[r])] \in {"ok", "error", "busy"}

\* Nothing follows the frame that ends a stream, and "busy" never follows audio:
\* the backend may retry a busy call, since nobody has heard any of it.
OneEnding ==
  \A r \in Streams : \A i \in DOMAIN sent[r] :
    /\ sent[r][i] \in {"ok", "error", "busy"} => i = Len(sent[r])
    /\ sent[r][i] = "busy" => i = 1

\* A stream ends once, in a way the client can tell.
StreamsEndOnce == StreamsTerminated /\ OneEnding

\* Every admitted request is answered or given up, and gives its permit back, whether
\* its client stays or not.
RequestsEnd ==
  \A r \in Requests : /\ handler[r] = "serving" ~> handler[r] = "ended"
                      /\ worker[r] = "polling" ~> worker[r] = "ended"
=============================================================================
