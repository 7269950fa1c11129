--------------------------- MODULE SpeechJobs_proofs ---------------------------
(***************************************************************************)
(* What holds of the speech jobs for any number of questions, requests,    *)
(* jobs, retries and chunks.                                               *)
(***************************************************************************)
EXTENDS SpeechJobs, SequenceLemmas

States     == {"none"} \cup Live \cup Settled
Priorities == {"foreground", "background"}

-------------------------------------------------------------------------------
(* The queue's operators *)

\* The first background job's position, or the one after the last.
LEMMA FirstBackgroundType ==
  ASSUME NEW q \in Seq(Jobs), NEW prio
  PROVE  /\ FirstBackground(q, prio) \in 1 .. Len(q) + 1
         /\ Backgrounds(q, prio) \subseteq 1 .. Len(q)
<1>1. Backgrounds(q, prio) \subseteq 1 .. Len(q)
  BY DEF Backgrounds
<1>2. CASE Backgrounds(q, prio) = {}
  BY <1>1, <1>2 DEF FirstBackground
<1>3. CASE Backgrounds(q, prio) # {}
  <2>1. Min(Backgrounds(q, prio)) \in Backgrounds(q, prio)
    BY <1>1, <1>3, MinIsLeast
  <2> QED
    BY <1>1, <1>3, <2>1 DEF FirstBackground
<1> QED
  BY <1>2, <1>3

\* Inserting, promoting and dropping jobs gives a queue of jobs.
LEMMA InsertByPriorityType ==
  ASSUME NEW q \in Seq(Jobs), NEW prio, NEW j \in Jobs
  PROVE  InsertByPriority(q, prio, j) \in Seq(Jobs)
BY FirstBackgroundType, InsertAtType DEF InsertByPriority

\* promoteToForeground moves a job of the queue, or leaves the queue alone.
LEMMA PromoteType ==
  ASSUME NEW q \in Seq(Jobs), NEW prio, NEW j \in Jobs
  PROVE  PromoteToForeground(q, prio, j) \in Seq(Jobs)
<1> DEFINE at == {i \in DOMAIN q : q[i] = j}
<1>1. at \subseteq 1 .. Len(q)
  OBVIOUS
<1>2. at # {} => RemoveAt(q, Min(at)) \in Seq(Jobs)
  <2> SUFFICES ASSUME at # {} PROVE RemoveAt(q, Min(at)) \in Seq(Jobs)
    OBVIOUS
  <2> HIDE DEF at
  <2>1. at \in SUBSET Nat
    BY <1>1
  <2>2. Min(at) \in 1 .. Len(q)
    BY <1>1, <2>1, MinIsLeast
  <2> QED
    BY <2>2, RemoveAtType
<1> QED
  BY <1>2, InsertByPriorityType DEF PromoteToForeground

\* What evictQueueOverflow leaves is a queue of jobs.
LEMMA AfterOverflowType ==
  ASSUME NEW q \in Seq(Jobs), NEW prio
  PROVE  AfterOverflow(q, prio) \in Seq(Jobs)
<1> DEFINE first == FirstBackground(q, prio)
           bg    == Backgrounds(q, prio)
           over  == Overflow(q, prio)
<1>1. first \in 1 .. Len(q) + 1 /\ bg \subseteq 1 .. Len(q)
  BY FirstBackgroundType
<1>2. over \subseteq bg
  BY DEF Overflow
<1>3. over \subseteq first .. Len(q)
  <2>1. \A i \in bg : first <= i
    BY <1>1, MinIsLeast DEF FirstBackground
  <2> QED
    BY <1>1, <1>2, <2>1
<1> HIDE DEF first, bg, over
<1>4. Cardinality(over) \in Nat /\ Cardinality(over) <= Len(q) + 1 - first
  <2>1. first \in Int /\ Len(q) \in Int
    BY <1>1
  <2>2. /\ IsFiniteSet(first .. Len(q))
        /\ Cardinality(first .. Len(q)) = IF first > Len(q) THEN 0 ELSE Len(q) - first + 1
    BY <2>1, FS_Interval
  <2>3. IsFiniteSet(over) /\ Cardinality(over) <= Cardinality(first .. Len(q))
    BY <1>3, <2>2, FS_Subset
  <2> QED
    BY <1>1, <2>2, <2>3, FS_CardinalityType
<1>5. first + Cardinality(over) \in 1 .. Len(q) + 1
  BY <1>1, <1>4
<1> QED
  BY <1>1, <1>5, CutType DEF AfterOverflow, first, over

-------------------------------------------------------------------------------
(* Types *)

\* TypeOK in three parts: the jobs, the scheduler and the subscribers.
JobTypes ==
  /\ created \in 0 .. MaxJobs
  /\ question \in [Jobs -> Questions \cup {NoQuestion}]
  /\ state \in [Jobs -> States]
  /\ priority \in [Jobs -> Priorities]
  /\ chunks \in [Jobs -> Seq(Nat)]
  /\ retryCount \in [Jobs -> Nat]
  /\ promise \in [Jobs -> {"pending", "resolved", "handled"}]
  /\ doneAt \in [Jobs -> Nat] /\ clock \in Nat
  /\ registry \in [Questions -> Jobs \cup {NoJob}]
  /\ timers \in [Jobs -> Nat]
  /\ untouched \subseteq Questions

SchedulerTypes ==
  /\ queue \in Seq(Jobs)
  /\ activeJob \in Jobs \cup {NoJob}
  /\ attempts \in [Jobs -> Nat]
  /\ open \subseteq Jobs \X Nat /\ ended \subseteq Jobs \X Nat /\ closing \subseteq Jobs \X Nat

SubscriberTypes ==
  /\ subscriber \in [Requests -> Jobs \cup {NoJob}]
  /\ connection \in [Requests -> {"none", "open", "broken", "closed"}]
  /\ cursor \in [Requests -> Nat]
  /\ outcome \in [Requests -> {"none", "pumping", "stopped"} \cup Settled]

FlagTypes == aborted \in [Jobs -> BOOLEAN] /\ draining \in BOOLEAN

\* TypeOK in four parts, each with variables the provers handle alike.
LEMMA TypeParts == TypeOK <=> JobTypes /\ SchedulerTypes /\ SubscriberTypes /\ FlagTypes
BY Zenon DEF TypeOK, JobTypes, SchedulerTypes, SubscriberTypes, FlagTypes, States, Priorities

\* kickScheduler moves the head of the queue to the slot and opens its call.
LEMMA KickType ==
  ASSUME SchedulerTypes, NEW q \in Seq(Jobs), NEW a \in Jobs \cup {NoJob},
         NEW s \in [Jobs -> States], KickScheduler(q, a, s)
  PROVE  /\ queue' \in Seq(Jobs)
         /\ activeJob' \in Jobs \cup {NoJob}
         /\ state' \in [Jobs -> States]
         /\ attempts' \in [Jobs -> Nat]
         /\ open' \subseteq Jobs \X Nat
<1> USE DEF SchedulerTypes
<1>1. CASE a # NoJob \/ q = <<>>
  BY <1>1 DEF KickScheduler
<1>2. CASE ~(a # NoJob \/ q = <<>>)
  <2>1. Head(q) \in Jobs /\ Tail(q) \in Seq(Jobs)
    BY <1>2
  <2>2. attempts[Head(q)] + 1 \in Nat
    BY <2>1
  <2>3. queue' = Tail(q) /\ activeJob' = Head(q) /\ state' = [s EXCEPT ![Head(q)] = "running"]
    BY <1>2 DEF KickScheduler
  <2>4. /\ attempts' = [attempts EXCEPT ![Head(q)] = attempts[Head(q)] + 1]
        /\ open' = open \cup {<<Head(q), attempts[Head(q)] + 1>>}
    BY <1>2 DEF KickScheduler
  <2>5. state' \in [Jobs -> States]
    BY <2>3 DEF States, Live
  <2>6. attempts' \in [Jobs -> Nat] /\ open' \subseteq Jobs \X Nat
    BY <2>1, <2>2, <2>4
  <2> QED
    BY <2>1, <2>3, <2>5, <2>6
<1> QED
  BY <1>1, <1>2

\* Settling a set of jobs gives states and promises their types again.
LEMMA SettleType ==
  ASSUME state \in [Jobs -> States], promise \in [Jobs -> {"pending", "resolved", "handled"}],
         NEW S, NEW result \in Settled
  PROVE  /\ SettledState(S, result) \in [Jobs -> States]
         /\ ResolvedPromise(S) \in [Jobs -> {"pending", "resolved", "handled"}]
<1>1. SettledState(S, result) \in [Jobs -> States]
  BY DEF SettledState, States
<1>2. ResolvedPromise(S) \in [Jobs -> {"pending", "resolved", "handled"}]
  BY DEF ResolvedPromise
<1> QED
  BY <1>1, <1>2

\* The shared jobs: a request reuses the registered job or creates one.
LEMMA EnsureJobType ==
  ASSUME JobTypes, SchedulerTypes, NEW q \in Questions, NEW p \in Priorities, NEW j \in Jobs,
         EnsureJob(q, p, j)
  PROVE  JobTypes' /\ SchedulerTypes'
<1> USE DEF JobTypes, SchedulerTypes
<1>1. PICK reg : /\ reg \in {Without(Oldest(n)) : n \in Evictions}
                 /\ \/ reg[q] = j /\ registry' = reg /\ ReuseJob(j, p)
                    \/ /\ reg[q] = NoJob /\ j = created + 1 
                       /\ registry' = [reg EXCEPT ![q] = j] /\ CreateJob(j, q, p)
  BY DEF EnsureJob
<1>2. reg \in [Questions -> Jobs \cup {NoJob}]
  <2>1. \A S : Without(S) \in [Questions -> Jobs \cup {NoJob}]
    BY DEF Without
  <2> QED
    BY <1>1, <2>1
<1>3. /\ UNCHANGED <<chunks, retryCount, doneAt, clock, ended, closing, timers>>
      /\ untouched' \subseteq Questions
  BY DEF EnsureJob
<1>4. registry' \in [Questions -> Jobs \cup {NoJob}]
  BY <1>1, <1>2
<1>5. CASE ReuseJob(j, p)
  <2>1. UNCHANGED <<created, question, state, promise, activeJob, open, attempts>>
    BY <1>5 DEF ReuseJob
  <2>2. priority' \in [Jobs -> Priorities]
    BY <1>5 DEF ReuseJob, Priorities
  <2>3. queue' \in Seq(Jobs)
    BY <1>5, PromoteType DEF ReuseJob
  <2> QED
    BY <1>3, <1>4, <2>1, <2>2, <2>3
<1>6. CASE j = created + 1 /\ CreateJob(j, q, p)
  <2> DEFINE prio    == [priority EXCEPT ![j] = p]
             pushed  == InsertByPriority(queue, prio, j)
             dropped == {pushed[i] : i \in Overflow(pushed, prio)}
             left    == AfterOverflow(pushed, prio)
             s       == [SettledState(dropped, "cancelled") EXCEPT ![j] = "queued"]
  <2>1. /\ created' = j
        /\ question' = [question EXCEPT ![j] = q]
        /\ priority' = prio
        /\ promise' = ResolvedPromise(dropped)
        /\ KickScheduler(left, activeJob, s)
    BY <1>6 DEF CreateJob
  <2>2. pushed \in Seq(Jobs)
    BY InsertByPriorityType
  <2>3. left \in Seq(Jobs)
    <3> HIDE DEF pushed, prio
    <3> QED
      BY <2>2, AfterOverflowType
  <2>4. /\ SettledState(dropped, "cancelled") \in [Jobs -> States]
        /\ ResolvedPromise(dropped) \in [Jobs -> {"pending", "resolved", "handled"}]
    <3> HIDE DEF dropped
    <3> QED
      BY SettleType DEF Settled
  <2>5. s \in [Jobs -> States]
    <3> HIDE DEF dropped
    <3> QED
      BY <2>4 DEF States, Live
  <2>6. created' \in 0 .. MaxJobs /\ question' \in [Jobs -> Questions \cup {NoQuestion}]
    BY <2>1, ConstantsAssumption DEF Jobs
  <2>7. priority' \in [Jobs -> Priorities]
    BY <2>1
  <2> HIDE DEF prio, pushed, dropped, left, s
  <2>8. /\ queue' \in Seq(Jobs) /\ activeJob' \in Jobs \cup {NoJob} /\ state' \in [Jobs -> States]
        /\ attempts' \in [Jobs -> Nat] /\ open' \subseteq Jobs \X Nat
    BY <2>1, <2>3, <2>5, KickType
  <2> QED
    BY <1>3, <1>4, <2>1, <2>4, <2>6, <2>7, <2>8
<1> QED
  BY <1>1, <1>5, <1>6

\* A call that ends is of a job; settling it or queueing it again is well typed.
LEMMA AttemptType ==
  ASSUME JobTypes, SchedulerTypes, NEW c \in Calls,
         AttemptEnds(c) \/ AttemptFinally(c) \/ ReceiveChunk(c)
  PROVE  JobTypes' /\ SchedulerTypes'
<1> USE DEF JobTypes, SchedulerTypes
<1>1. c[1] \in Jobs /\ c[2] \in Nat /\ c \in Jobs \X Nat
  BY DEF Calls
<1>2. CASE ReceiveChunk(c)
  <2>1. chunks' = [chunks EXCEPT ![c[1]] = Append(chunks[c[1]], c[2])]
    BY <1>2 DEF ReceiveChunk
  <2>2. chunks' \in [Jobs -> Seq(Nat)]
    BY <1>1, <2>1
  <2> QED
    BY <1>2, <2>2 DEF ReceiveChunk, slotVars, callVars
<1>3. CASE ReceiveEnd(c)
  BY <1>1, <1>3 DEF ReceiveEnd, jobVars, slotVars
<1>4. ASSUME NEW result \in Settled, Settle(c[1], result)
      PROVE  /\ state' \in [Jobs -> States] /\ promise' \in [Jobs -> {"pending", "resolved", "handled"}]
             /\ doneAt' \in [Jobs -> Nat] /\ clock' \in Nat
  <2>1. state' = SettledState({c[1]}, result) /\ promise' = ResolvedPromise({c[1]})
    BY <1>4 DEF Settle
  <2>2. clock + 1 \in Nat
    OBVIOUS
  <2>3. clock' \in {clock, clock + 1} /\ doneAt' = [doneAt EXCEPT ![c[1]] =
                                                 IF result = "done" THEN clock + 1 ELSE doneAt[c[1]]]
    BY <1>4 DEF Settle
  <2>4. doneAt' \in [Jobs -> Nat]
    BY <1>1, <2>2, <2>3
  <2> QED
    BY <2>1, <2>2, <2>3, <2>4, SettleType
<1>5. CASE AttemptSucceeds(c) \/ AttemptCancelled(c) \/ AttemptFails(c)
  <2>1. \E result \in Settled : Settle(c[1], result)
    BY <1>5 DEF AttemptSucceeds, AttemptCancelled, AttemptFails, Settled
  <2>2. /\ UNCHANGED <<created, question, priority, chunks, registry, queue, activeJob, attempts,
                       untouched, retryCount, timers>>
        /\ open' \subseteq Jobs \X Nat /\ ended' \subseteq Jobs \X Nat /\ closing' \subseteq Jobs \X Nat
    BY <1>1, <1>5 DEF AttemptSucceeds, AttemptCancelled, AttemptFails, AttemptFrame, slotVars
  <2> QED
    BY <1>4, <2>1, <2>2
<1>6. CASE AttemptRetries(c)
  <2>1. /\ UNCHANGED <<created, question, priority, chunks, registry, queue, activeJob, attempts,
                       untouched, ended, promise, doneAt, clock>>
        /\ open' \subseteq Jobs \X Nat /\ closing' \subseteq Jobs \X Nat
    BY <1>1, <1>6 DEF AttemptRetries, AttemptFrame, slotVars
  <2>2. state' \in [Jobs -> States]
    BY <1>6 DEF AttemptRetries, States, Live
  <2>3. retryCount' \in [Jobs -> Nat] /\ timers' \in [Jobs -> Nat]
    BY SMTT(30), <1>1, <1>6 DEF AttemptRetries
  <2> QED
    BY <2>1, <2>2, <2>3
<1>7. CASE AttemptFinally(c)
  <2>1. /\ UNCHANGED <<created, question, priority, chunks, retryCount, promise, doneAt, clock,
                       registry, ended, timers, untouched>>
        /\ closing' \subseteq Jobs \X Nat
        /\ \E a \in Jobs \cup {NoJob} : KickScheduler(queue, a, state)
    BY <1>7 DEF AttemptFinally
  <2> QED
    BY <2>1, KickType
<1> QED
  BY <1>2, <1>3, <1>5, <1>6, <1>7 DEF AttemptEnds

\* The two delayed steps of a job: the reaction to its settlement and its timer.
LEMMA DelayedType ==
  ASSUME JobTypes, SchedulerTypes, NEW j \in Jobs, SettledThen(j) \/ BackoffFires(j)
  PROVE  JobTypes' /\ SchedulerTypes'
<1> USE DEF JobTypes, SchedulerTypes
<1>1. CASE SettledThen(j)
  <2>1. /\ promise' \in [Jobs -> {"pending", "resolved", "handled"}]
        /\ registry' \in [Questions -> Jobs \cup {NoJob}]
    BY <1>1 DEF SettledThen
  <2> QED
    BY <1>1, <2>1 DEF SettledThen, slotVars, callVars
<1>2. CASE BackoffFires(j)
  <2>1. /\ UNCHANGED <<created, registry, ended, closing, untouched>>
        /\ timers[j] > 0 /\ timers' = [timers EXCEPT ![j] = timers[j] - 1]
    BY <1>2 DEF BackoffFires
  <2>2. timers' \in [Jobs -> Nat]
    BY SMTT(30), <2>1
  <2>3. CASE state[j] # "queued"
    BY <1>2, <2>1, <2>2, <2>3 DEF BackoffFires, jobVars, slotVars
  <2>4. CASE state[j] = "queued" /\ aborted[j]
    <3>1. UNCHANGED <<question, priority, chunks, retryCount, queue, activeJob, open, attempts>>
      BY <1>2, <2>4 DEF BackoffFires, slotVars
    <3>2. /\ state' = SettledState({j}, "cancelled") /\ promise' = ResolvedPromise({j})
          /\ UNCHANGED <<doneAt, clock>>
      BY <1>2, <2>4 DEF BackoffFires, Settle
    <3>3. state' \in [Jobs -> States] /\ promise' \in [Jobs -> {"pending", "resolved", "handled"}]
      BY <3>2, SettleType DEF Settled
    <3> QED
      BY <2>1, <2>2, <3>1, <3>2, <3>3
  <2>5. CASE state[j] = "queued" /\ ~aborted[j]
    <3>1. /\ UNCHANGED <<question, priority, chunks, retryCount, promise, doneAt, clock>>
          /\ KickScheduler(InsertByPriority(queue, priority, j), activeJob, state)
      BY <1>2, <2>5 DEF BackoffFires
    <3>2. InsertByPriority(queue, priority, j) \in Seq(Jobs)
      BY InsertByPriorityType
    <3> QED
      BY <2>1, <2>2, <3>1, <3>2, KickType
  <2> QED
    BY <2>3, <2>4, <2>5
<1> QED
  BY <1>1, <1>2

\* The subscribers.
LEMMA SubscriberType ==
  ASSUME SubscriberTypes, state \in [Jobs -> States], [Next]_vars
  PROVE  SubscriberTypes'
<1> USE DEF SubscriberTypes
<1>1. ASSUME UNCHANGED subVars PROVE SubscriberTypes'
  BY <1>1 DEF subVars
<1>2. ASSUME NEW q \in Questions, Prefetch(q) PROVE SubscriberTypes'
  BY <1>1, <1>2 DEF Prefetch
<1>3. ASSUME NEW r \in Requests, NEW q \in Questions, Listen(r, q) PROVE SubscriberTypes'
  BY <1>3 DEF Listen
<1>4. ASSUME NEW r \in Requests, PumpChunk(r) PROVE SubscriberTypes'
  BY <1>4 DEF PumpChunk
<1>5. ASSUME NEW r \in Requests, PumpTerminal(r) PROVE SubscriberTypes'
  BY <1>5 DEF PumpTerminal
<1>6. ASSUME NEW r \in Requests, PumpThrows(r) PROVE SubscriberTypes'
  BY <1>6 DEF PumpThrows
<1>7. ASSUME NEW r \in Requests, Close(r) PROVE SubscriberTypes'
  BY <1>7 DEF Close
<1>8. CASE AbortAllAndDrain
  BY <1>1, <1>8 DEF AbortAllAndDrain
<1>9. ASSUME NEW c, ReceiveChunk(c) \/ AttemptEnds(c) \/ AttemptFinally(c) PROVE SubscriberTypes'
  BY <1>1, <1>9 DEF ReceiveChunk, AttemptEnds, ReceiveEnd, AttemptSucceeds, AttemptCancelled,
     AttemptFails, AttemptRetries, AttemptFrame, AttemptFinally
<1>10. ASSUME NEW j \in Jobs, SettledThen(j) \/ BackoffFires(j) PROVE SubscriberTypes'
  BY <1>1, <1>10 DEF SettledThen, BackoffFires
<1>11. CASE UNCHANGED vars
  BY <1>1, <1>11 DEF vars
<1> QED
  BY <1>2, <1>3, <1>4, <1>5, <1>6, <1>7, <1>8, <1>9, <1>10, <1>11 DEF Next, Pump

\* The flags.
LEMMA FlagType == FlagTypes /\ [Next]_vars => FlagTypes'
<1> SUFFICES ASSUME FlagTypes, [Next]_vars PROVE FlagTypes'
  OBVIOUS
<1>1. ASSUME UNCHANGED <<aborted, draining>> PROVE FlagTypes'
  BY <1>1 DEF FlagTypes
<1>2. ASSUME NEW r \in Requests, Close(r) PROVE FlagTypes'
  <2>1. draining' = draining
    BY <1>2 DEF Close
  <2>2. PICK b \in BOOLEAN : aborted' = [aborted EXCEPT ![subscriber[r]] = b]
    BY <1>2, Zenon DEF Close
  <2> QED
    BY <2>1, <2>2 DEF FlagTypes
<1>3. CASE AbortAllAndDrain
  <2>1. draining' = TRUE
    BY <1>3 DEF AbortAllAndDrain
  <2>2. aborted' \in [Jobs -> BOOLEAN]
    BY <1>3 DEF AbortAllAndDrain
  <2> QED
    BY <2>1, <2>2 DEF FlagTypes
<1>4. ASSUME NEW q \in Questions, NEW p, NEW j, EnsureJob(q, p, j) PROVE FlagTypes'
  BY <1>1, <1>4 DEF EnsureJob
<1>5. CASE \E q \in Questions : Prefetch(q) \/ \E r \in Requests : Listen(r, q)
  BY <1>4, <1>5 DEF Prefetch, Listen
<1>6. ASSUME NEW r \in Requests, Pump(r) \/ PumpThrows(r) PROVE FlagTypes'
  BY <1>1, <1>6 DEF Pump, PumpThrows, jobVars
<1>7. ASSUME NEW c, ReceiveChunk(c) \/ AttemptEnds(c) \/ AttemptFinally(c) PROVE FlagTypes'
  BY <1>1, <1>7 DEF ReceiveChunk, AttemptEnds, ReceiveEnd, AttemptSucceeds, AttemptCancelled,
     AttemptFails, AttemptRetries, AttemptFrame, AttemptFinally, jobVars
<1>8. ASSUME NEW j \in Jobs, SettledThen(j) \/ BackoffFires(j) PROVE FlagTypes'
  BY <1>1, <1>8 DEF SettledThen, BackoffFires, jobVars
<1>9. CASE UNCHANGED vars
  BY <1>1, <1>9 DEF vars, jobVars
<1> QED
  BY <1>2, <1>3, <1>5, <1>6, <1>7, <1>8, <1>9 DEF Next

\* Steps of subscribers and of the shutdown touch neither jobs nor scheduler.
LEMMA OutsideType ==
  ASSUME JobTypes, SchedulerTypes, NEW r,
         Pump(r) \/ PumpThrows(r) \/ Close(r) \/ AbortAllAndDrain \/ UNCHANGED vars
  PROVE  JobTypes' /\ SchedulerTypes'
<1>1. UNCHANGED <<created, question, state, priority, chunks, retryCount, promise, doneAt, clock,
                  registry, timers, untouched, queue, activeJob, attempts, open, ended, closing>>
  BY DEF Pump, PumpThrows, Close, AbortAllAndDrain, vars, jobVars, slotVars, callVars
<1> QED
  BY <1>1 DEF JobTypes, SchedulerTypes

\* Every state has the types TypeOK gives it, for any sizes and bounds.
THEOREM Typing == Spec => []TypeOK
<1>1. Init => JobTypes /\ SchedulerTypes /\ SubscriberTypes /\ FlagTypes
  <2> SUFFICES ASSUME Init PROVE JobTypes /\ SchedulerTypes /\ SubscriberTypes /\ FlagTypes
    OBVIOUS
  <2>1. JobTypes
    BY ConstantsAssumption DEF Init, JobTypes, States, Priorities
  <2>2. SchedulerTypes
    BY DEF Init, SchedulerTypes
  <2>3. SubscriberTypes
    BY DEF Init, SubscriberTypes
  <2>4. FlagTypes
    BY DEF Init, FlagTypes
  <2> QED
    BY <2>1, <2>2, <2>3, <2>4
<1>2. /\ JobTypes /\ SchedulerTypes /\ SubscriberTypes /\ FlagTypes /\ [Next]_vars
      => JobTypes' /\ SchedulerTypes' /\ SubscriberTypes' /\ FlagTypes'
  <2> SUFFICES ASSUME JobTypes, SchedulerTypes, SubscriberTypes, FlagTypes, [Next]_vars
               PROVE  JobTypes' /\ SchedulerTypes' /\ SubscriberTypes' /\ FlagTypes'
    OBVIOUS
  <2>1. state \in [Jobs -> States]
    BY DEF JobTypes
  <2>2. SubscriberTypes' /\ FlagTypes'
    BY <2>1, SubscriberType, FlagType
  <2>3. ASSUME NEW q \in Questions, Prefetch(q) \/ \E r \in Requests : Listen(r, q)
        PROVE  JobTypes' /\ SchedulerTypes'
    BY <2>3, EnsureJobType DEF Prefetch, Listen, Priorities
  <2>4. ASSUME NEW c \in Calls, ReceiveChunk(c) \/ AttemptEnds(c) \/ AttemptFinally(c)
        PROVE  JobTypes' /\ SchedulerTypes'
    BY <2>4, AttemptType
  <2>5. ASSUME NEW j \in Jobs, SettledThen(j) \/ BackoffFires(j)
        PROVE  JobTypes' /\ SchedulerTypes'
    BY <2>5, DelayedType
  <2>6. ASSUME NEW r, Pump(r) \/ PumpThrows(r) \/ Close(r) \/ AbortAllAndDrain \/ UNCHANGED vars
        PROVE  JobTypes' /\ SchedulerTypes'
    BY <2>6, OutsideType
  <2>7. open \subseteq Calls
    BY DEF Calls
  <2> QED
    BY <2>2, <2>3, <2>4, <2>5, <2>6, <2>7 DEF Next
<1> QED
  BY <1>1, <1>2, TypeParts, PTL DEF Spec

-------------------------------------------------------------------------------
(* One synthesis at a time *)

\* OneSynthesisAtATime is not inductive alone: .finally must find no other trace
\* of the call it ends, or it would free the slot of a call still being made.
SlotInv ==
  /\ OneSynthesisAtATime
  /\ open \cap ended = {} /\ open \cap closing = {} /\ ended \cap closing = {}

\* kickScheduler opens a call only on a free slot, and the slot is free only
\* when no call is left: as it was found, or after the .finally of the last one.
LEMMA KickSlot ==
  ASSUME SlotInv, NEW q \in Seq(Jobs), NEW a, NEW s, KickScheduler(q, a, s), ended' = ended,
         \/ a = activeJob /\ closing' = closing
         \/ a = NoJob /\ open = {} /\ ended = {} /\ closing' = {}
  PROVE  SlotInv'
<1> USE DEF SlotInv, OneSynthesisAtATime, Calls
<1>1. CASE a # NoJob \/ q = <<>>
  <2>1. activeJob' = a /\ open' = open
    BY <1>1 DEF KickScheduler
  <2> QED
    BY <2>1
<1>2. CASE ~(a # NoJob \/ q = <<>>)
  <2>1. Head(q) \in Jobs /\ Head(q) # NoJob
    BY <1>2, ConstantsAssumption DEF Jobs, NoJob
  <2>2. activeJob' = Head(q) /\ open' = open \cup {<<Head(q), attempts[Head(q)] + 1>>}
    BY <1>2 DEF KickScheduler
  <2>3. open = {} /\ ended' = {} /\ closing' = {}
    BY <1>2
  <2> QED
    BY <2>1, <2>2, <2>3
<1> QED
  BY <1>1, <1>2

\* A call that ends only moves towards its .finally.
LEMMA AttemptSlot ==
  ASSUME SlotInv, NEW c \in Calls, AttemptEnds(c) PROVE SlotInv'
<1>1. /\ activeJob' = activeJob
      /\ \/ c \in open /\ open' = open \ {c} /\ ended' = ended \cup {c} /\ closing' = closing
         \/ c \in ended /\ open' = open /\ ended' = ended \ {c} /\ closing' = closing \cup {c}
         \/ c \in open /\ open' = open \ {c} /\ ended' = ended /\ closing' = closing \cup {c}
  BY DEF AttemptEnds, ReceiveEnd, AttemptSucceeds, AttemptCancelled, AttemptFails, AttemptRetries,
     AttemptFrame, slotVars
<1>2. Calls' = Calls
  BY <1>1 DEF Calls
<1> QED
  BY <1>1, <1>2 DEF SlotInv, OneSynthesisAtATime

\* A request for a question kicks the scheduler only when it creates a job.
LEMMA EnsureJobSlot ==
  ASSUME SlotInv, JobTypes, SchedulerTypes, NEW q \in Questions, NEW p, NEW j \in Jobs,
         EnsureJob(q, p, j)
  PROVE  SlotInv'
<1>1. UNCHANGED <<ended, closing>> /\ (ReuseJob(j, p) \/ CreateJob(j, q, p))
  BY DEF EnsureJob
<1>2. CASE ReuseJob(j, p)
  BY <1>1, <1>2 DEF ReuseJob, SlotInv, OneSynthesisAtATime, Calls
<1>3. CASE CreateJob(j, q, p)
  <2> DEFINE prio   == [priority EXCEPT ![j] = p]
             pushed == InsertByPriority(queue, prio, j)
             left   == AfterOverflow(pushed, prio)
  <2>1. \E s : KickScheduler(left, activeJob, s)
    BY <1>3 DEF CreateJob
  <2>2. pushed \in Seq(Jobs)
    BY InsertByPriorityType DEF SchedulerTypes
  <2>3. left \in Seq(Jobs)
    <3> HIDE DEF pushed, prio
    <3> QED
      BY <2>2, AfterOverflowType
  <2> HIDE DEF left
  <2> QED
    BY <1>1, <2>1, <2>3, KickSlot
<1> QED
  BY <1>1, <1>2, <1>3

\* SlotInv holds in every step.
LEMMA SlotStep ==
  ASSUME JobTypes, SchedulerTypes, SlotInv, [Next]_vars PROVE SlotInv'
<1>1. ASSUME UNCHANGED <<activeJob, open, ended, closing>> PROVE SlotInv'
  BY <1>1 DEF SlotInv, OneSynthesisAtATime, Calls
<1>2. ASSUME NEW q \in Questions, Prefetch(q) \/ \E r \in Requests : Listen(r, q) PROVE SlotInv'
  BY <1>2, EnsureJobSlot DEF Prefetch, Listen
<1>3. ASSUME NEW r, Pump(r) \/ PumpThrows(r) \/ Close(r) \/ AbortAllAndDrain \/ UNCHANGED vars
      PROVE  SlotInv'
  BY <1>1, <1>3 DEF Pump, PumpThrows, Close, AbortAllAndDrain, vars, slotVars, callVars
<1>4. ASSUME NEW c, ReceiveChunk(c) PROVE SlotInv'
  BY <1>1, <1>4 DEF ReceiveChunk, slotVars, callVars
<1>5. ASSUME NEW c \in Calls, AttemptEnds(c) PROVE SlotInv'
  BY <1>5, AttemptSlot
<1>6. ASSUME NEW c \in Calls, AttemptFinally(c) PROVE SlotInv'
  <2>1. c \in closing /\ closing' = closing \ {c} /\ ended' = ended
    BY <1>6 DEF AttemptFinally
  <2>2. /\ activeJob = c[1] /\ open = {} /\ ended = {} /\ closing' = {}
    BY <2>1 DEF SlotInv, OneSynthesisAtATime, Calls
  <2>3. KickScheduler(queue, NoJob, state)
    BY <1>6, <2>2 DEF AttemptFinally
  <2> QED
    BY <2>1, <2>2, <2>3, KickSlot DEF SchedulerTypes
<1>7. ASSUME NEW j \in Jobs, SettledThen(j) PROVE SlotInv'
  BY <1>1, <1>7 DEF SettledThen, slotVars, callVars
<1>8. ASSUME NEW j \in Jobs, BackoffFires(j) PROVE SlotInv'
  <2>1. UNCHANGED <<ended, closing>>
    BY <1>8 DEF BackoffFires
  <2>2. CASE UNCHANGED <<slotVars, open>>
    BY <1>1, <2>1, <2>2 DEF slotVars
  <2>3. CASE KickScheduler(InsertByPriority(queue, priority, j), activeJob, state)
    BY <2>1, <2>3, InsertByPriorityType, KickSlot DEF SchedulerTypes
  <2> QED
    BY <1>8, <2>2, <2>3 DEF BackoffFires
<1>9. open \subseteq Calls
  BY DEF Calls
<1> QED
  BY <1>2, <1>3, <1>4, <1>5, <1>6, <1>7, <1>8, <1>9 DEF Next

\* OneSynthesisAtATime: never two calls to the sidecar between kickScheduler
\* and its .finally, and the slot taken exactly while there is one, however
\* many questions, requests and retries there are.
THEOREM SingleSynthesis == Spec => []OneSynthesisAtATime
<1>1. Init => SlotInv
  BY DEF Init, SlotInv, OneSynthesisAtATime, Calls
<1>2. JobTypes /\ SchedulerTypes /\ SlotInv /\ [Next]_vars => SlotInv'
  BY SlotStep
<1>3. SlotInv => OneSynthesisAtATime
  BY DEF SlotInv
<1> QED
  BY <1>1, <1>2, <1>3, Typing, TypeParts, PTL DEF Spec

-------------------------------------------------------------------------------
(* What the queue's overflow may drop *)

\* Who listens to a job made it a foreground job, and no job becomes a prefetch
\* afterwards: only the next job to be created has its priority set freely.
ListenInv ==
  /\ \A q \in Questions : registry[q] <= created
  /\ \A r \in Requests : subscriber[r] <= created
  /\ \A r \in Requests : connection[r] = "open" =>
       subscriber[r] \in Jobs /\ priority[subscriber[r]] = "foreground"

\* ensureJob returns a created job with the priority asked for, or a better one,
\* and demotes none.
LEMMA EnsureJobPriority ==
  ASSUME JobTypes, ListenInv, NEW q \in Questions, NEW p \in Priorities, NEW j \in Jobs,
         EnsureJob(q, p, j)
  PROVE  /\ created <= created' /\ j <= created'
         /\ \A k \in Questions : registry'[k] <= created'
         /\ p = "foreground" => priority'[j] = "foreground"
         /\ \A k \in Jobs : k <= created /\ priority[k] = "foreground" => priority'[k] = "foreground"
<1> USE DEF JobTypes
<1>0. created \in Nat /\ Jobs \subseteq Nat
  BY ConstantsAssumption DEF Jobs
<1>1. PICK reg : /\ reg \in {Without(Oldest(n)) : n \in Evictions}
                 /\ \/ reg[q] = j /\ registry' = reg /\ ReuseJob(j, p)
                    \/ /\ j = created + 1
                       /\ registry' = [reg EXCEPT ![q] = j] /\ CreateJob(j, q, p)
  BY DEF EnsureJob
<1>2. /\ reg \in [Questions -> Jobs \cup {NoJob}]
      /\ \A k \in Questions : reg[k] = NoJob \/ reg[k] = registry[k]
  <2>1. \A S : /\ Without(S) \in [Questions -> Jobs \cup {NoJob}]
               /\ \A k \in Questions : Without(S)[k] = NoJob \/ Without(S)[k] = registry[k]
    BY DEF Without
  <2> QED
    BY <1>1, <2>1
<1>3. \A k \in Questions : reg[k] <= created
  BY <1>0, <1>2 DEF ListenInv, NoJob
<1>4. CASE reg[q] = j /\ registry' = reg /\ ReuseJob(j, p)
  <2>1. /\ created' = created
        /\ priority' = [priority EXCEPT ![j] =
             IF p = "foreground" /\ priority[j] = "background" THEN "foreground" ELSE priority[j]]
    BY <1>4 DEF ReuseJob
  <2>2. priority[j] \in {"foreground", "background"}
    BY DEF Priorities
  <2>3. /\ p = "foreground" => priority'[j] = "foreground"
        /\ \A k \in Jobs : priority[k] = "foreground" => priority'[k] = "foreground"
    BY <2>1, <2>2
  <2>4. j <= created
    BY <1>3, <1>4
  <2> QED
    BY <1>0, <1>3, <1>4, <2>1, <2>3, <2>4
<1>5. CASE j = created + 1 /\ registry' = [reg EXCEPT ![q] = j] /\ CreateJob(j, q, p)
  <2>1. created' = created + 1 /\ priority' = [priority EXCEPT ![j] = p]
    BY <1>5 DEF CreateJob
  <2>2. ASSUME NEW k \in Questions PROVE registry'[k] <= created'
    <3>1. reg[k] \in Nat
      <4>1. reg[k] \in Jobs \cup {NoJob}
        BY <1>2
      <4> QED
        BY <4>1, ConstantsAssumption DEF Jobs, NoJob
    <3>2. registry'[k] \in {reg[k], created + 1}
      BY <1>2, <1>5
    <3>3. reg[k] <= created
      BY <1>3
    <3> QED
      BY <1>0, <2>1, <3>1, <3>2, <3>3
  <2> QED
    BY <1>0, <1>5, <2>1, <2>2
<1> QED
  BY <1>1, <1>4, <1>5

\* Every other step leaves priorities and jobs alone, attaches nobody, and keeps
\* or empties what is registered.
LEMMA OtherListen ==
  ASSUME JobTypes, ListenInv, UNCHANGED <<created, priority, subscriber>>,
         \A q \in Questions : registry'[q] \in {registry[q], NoJob},
         \A r \in Requests : connection'[r] = "open" => connection[r] = "open"
  PROVE  ListenInv'
<1>1. created \in Nat
  BY ConstantsAssumption DEF JobTypes
<1>2. \A q \in Questions : registry'[q] <= created'
  BY <1>1 DEF ListenInv, NoJob
<1>3. \A r \in Requests : subscriber'[r] <= created'
  BY DEF ListenInv
<1>4. \A r \in Requests : connection'[r] = "open" =>
        subscriber'[r] \in Jobs /\ priority'[subscriber'[r]] = "foreground"
  BY DEF ListenInv
<1> QED
  BY <1>2, <1>3, <1>4 DEF ListenInv

\* ListenInv holds in every step.
LEMMA ListenStep ==
  ASSUME JobTypes, SubscriberTypes, ListenInv, [Next]_vars PROVE ListenInv'
<1>0. created \in Nat /\ Jobs \subseteq Nat /\ \A r \in Requests : subscriber[r] \in Nat
  BY ConstantsAssumption DEF JobTypes, SubscriberTypes, Jobs, NoJob
<1>1. ASSUME NEW q \in Questions, Prefetch(q) PROVE ListenInv'
  <2>1. PICK j \in Jobs : EnsureJob(q, "background", j)
    BY <1>1 DEF Prefetch
  <2>2. UNCHANGED subVars /\ "background" \in Priorities
    BY <1>1 DEF Prefetch, Priorities
  <2>3. /\ created <= created'
        /\ \A k \in Questions : registry'[k] <= created'
        /\ \A k \in Jobs : k <= created /\ priority[k] = "foreground" => priority'[k] = "foreground"
    BY <2>1, <2>2, EnsureJobPriority
  <2>4. created' \in Nat
    BY <2>1, <1>0 DEF EnsureJob, ReuseJob, CreateJob
  <2> QED
    BY <1>0, <2>2, <2>3, <2>4 DEF ListenInv, subVars
<1>2. ASSUME NEW q \in Questions, NEW r \in Requests, Listen(r, q) PROVE ListenInv'
  <2>1. PICK j \in Jobs : EnsureJob(q, "foreground", j) /\ subscriber' = [subscriber EXCEPT ![r] = j]
    BY <1>2 DEF Listen
  <2>2. connection' = [connection EXCEPT ![r] = "open"] /\ "foreground" \in Priorities
    BY <1>2 DEF Listen, Priorities
  <2>3. /\ created <= created' /\ j <= created' /\ priority'[j] = "foreground"
        /\ \A k \in Questions : registry'[k] <= created'
        /\ \A k \in Jobs : k <= created /\ priority[k] = "foreground" => priority'[k] = "foreground"
    BY <2>1, <2>2, EnsureJobPriority
  <2>4. created' \in Nat
    BY <2>1, <1>0 DEF EnsureJob, ReuseJob, CreateJob
  <2>5. ASSUME NEW s \in Requests
        PROVE  /\ subscriber'[s] <= created'
               /\ connection'[s] = "open" =>
                    subscriber'[s] \in Jobs /\ priority'[subscriber'[s]] = "foreground"
    <3>1. CASE s = r
      BY <2>1, <2>3, <3>1 DEF SubscriberTypes
    <3>2. CASE s # r
      <4>1. subscriber'[s] = subscriber[s] /\ connection'[s] = connection[s]
        BY <2>1, <2>2, <3>2 DEF SubscriberTypes
      <4> QED
        BY <1>0, <2>3, <2>4, <4>1 DEF ListenInv
    <3> QED
      BY <3>1, <3>2
  <2> QED
    BY <2>3, <2>5 DEF ListenInv
<1>3. ASSUME NEW r, Pump(r) \/ PumpThrows(r) \/ Close(r) \/ AbortAllAndDrain \/ UNCHANGED vars
      PROVE  ListenInv'
  <2>1. UNCHANGED <<created, priority, subscriber, registry>>
    BY <1>3 DEF Pump, PumpChunk, PumpTerminal, PumpThrows, Close, AbortAllAndDrain, vars, jobVars, subVars
  <2>2. \/ connection' = connection
        \/ connection' = [connection EXCEPT ![r] = "broken"]
        \/ connection' = [connection EXCEPT ![r] = "closed"]
    BY <1>3 DEF Pump, PumpChunk, PumpTerminal, PumpThrows, Close, AbortAllAndDrain, vars, subVars
  <2>3. \A s \in Requests : connection'[s] = "open" => connection[s] = "open"
    BY <2>2 DEF SubscriberTypes
  <2> QED
    BY <2>1, <2>3, OtherListen
<1>4. ASSUME NEW c, ReceiveChunk(c) \/ AttemptEnds(c) \/ AttemptFinally(c) PROVE ListenInv'
  <2>1. UNCHANGED <<created, priority, subscriber, registry, connection>>
    BY <1>4 DEF ReceiveChunk, AttemptEnds, ReceiveEnd, AttemptSucceeds, AttemptCancelled,
       AttemptFails, AttemptRetries, AttemptFrame, AttemptFinally, jobVars, subVars
  <2> QED
    BY <2>1, OtherListen
<1>5. ASSUME NEW j \in Jobs, SettledThen(j) \/ BackoffFires(j) PROVE ListenInv'
  <2>1. UNCHANGED <<created, priority, subscriber, connection>>
    BY <1>5 DEF SettledThen, BackoffFires, jobVars, subVars
  <2>2. \A q \in Questions : registry'[q] \in {registry[q], NoJob}
    BY <1>5 DEF SettledThen, BackoffFires, JobTypes
  <2> QED
    BY <2>1, <2>2, OtherListen
<1> QED
  BY <1>1, <1>2, <1>3, <1>4, <1>5 DEF Next

\* A job cancelled by the creation of another was a background job.
LEMMA CreateDropsBackground ==
  ASSUME JobTypes, SchedulerTypes, NEW j \in Jobs, NEW q, NEW p \in Priorities, CreateJob(j, q, p),
         NEW k \in Jobs, state[k] \in Live, state'[k] = "cancelled"
  PROVE  priority[k] = "background"
<1> DEFINE prio    == [priority EXCEPT ![j] = p]
           pushed  == InsertByPriority(queue, prio, j)
           over    == Overflow(pushed, prio)
           dropped == {pushed[i] : i \in over}
           s       == [SettledState(dropped, "cancelled") EXCEPT ![j] = "queued"]
           left    == AfterOverflow(pushed, prio)
<1>1. KickScheduler(left, activeJob, s)
  BY DEF CreateJob
<1>2. \A i \in over : prio[pushed[i]] = "background"
  BY DEF Overflow, Backgrounds
<1>3. /\ prio \in [Jobs -> Priorities] /\ \A i \in Jobs : i # j => prio[i] = priority[i]
  BY DEF JobTypes
<1>4. pushed \in Seq(Jobs)
  BY InsertByPriorityType DEF SchedulerTypes
<1>5. left \in Seq(Jobs)
  <2> HIDE DEF pushed, prio
  <2> QED
    BY <1>4, AfterOverflowType
<1> HIDE DEF prio, pushed, over, left
<1>6. SettledState(dropped, "cancelled") \in [Jobs -> States]
  <2> HIDE DEF dropped
  <2> QED
    BY SettleType DEF Settled, JobTypes
<1>7. s[j] = "queued" /\ \A i \in Jobs : i # j => s[i] = SettledState(dropped, "cancelled")[i]
  <2> HIDE DEF dropped
  <2> QED
    BY <1>6
<1>8. s \in [Jobs -> States]
  <2> HIDE DEF dropped
  <2> QED
    BY <1>6 DEF States, Live
<1> HIDE DEF s
<1>9. state' = s \/ \E h \in Jobs : state' = [s EXCEPT ![h] = "running"]
  BY <1>1, <1>5 DEF KickScheduler
<1>10. s[k] = "cancelled"
  BY <1>8, <1>9
<1>11. k # j /\ SettledState(dropped, "cancelled")[k] = "cancelled"
  BY <1>7, <1>10
<1>12. k \in dropped
  <2> HIDE DEF dropped
  <2> QED
    BY <1>11 DEF SettledState, Live
<1> QED
  BY <1>2, <1>3, <1>11, <1>12

\* OverflowHurtsNobody: a job cancelled without having been aborted is a
\* prefetch that the overflow dropped, and nobody listens to it, for any
\* backlog limit and any number of jobs.
THEOREM OverflowIsHarmless == Spec => OverflowHurtsNobody
<1> DEFINE Harmless == \A j \in Jobs :
             state[j] \in Live /\ state'[j] = "cancelled" /\ ~aborted[j] => Listeners(j) = {}
<1>1. Init => ListenInv
  BY ConstantsAssumption DEF Init, ListenInv, NoJob
<1>2. JobTypes /\ SubscriberTypes /\ ListenInv /\ [Next]_vars => ListenInv'
  BY ListenStep
<1>3. JobTypes /\ SchedulerTypes /\ ListenInv /\ Next => Harmless
  <2> SUFFICES ASSUME JobTypes, SchedulerTypes, ListenInv, Next, NEW j \in Jobs,
                      state[j] \in Live, state'[j] = "cancelled", ~aborted[j]
               PROVE  Listeners(j) = {}
    OBVIOUS
  <2>0. state[j] # "cancelled"
    BY DEF Live
  <2>1. ASSUME NEW q \in Questions, NEW p \in Priorities, NEW k \in Jobs, EnsureJob(q, p, k)
        PROVE  Listeners(j) = {}
    <3>1. CreateJob(k, q, p)
      BY <2>0, <2>1 DEF EnsureJob, ReuseJob
    <3>2. priority[j] = "background"
      BY <3>1, CreateDropsBackground
    <3> QED
      BY <3>2 DEF Listeners, ListenInv
  <2>2. ASSUME NEW q \in Questions, Prefetch(q) \/ \E r \in Requests : Listen(r, q)
        PROVE  Listeners(j) = {}
    BY <2>1, <2>2 DEF Prefetch, Listen, Priorities
  <2>3. ASSUME NEW r, Pump(r) \/ PumpThrows(r) \/ Close(r) \/ AbortAllAndDrain PROVE FALSE
    BY <2>0, <2>3 DEF Pump, PumpThrows, Close, AbortAllAndDrain, jobVars
  <2>4. ASSUME NEW c, ReceiveChunk(c) \/ ReceiveEnd(c) PROVE FALSE
    BY <2>0, <2>4 DEF ReceiveChunk, ReceiveEnd, jobVars
  <2>5. ASSUME NEW c \in Calls, AttemptSucceeds(c) \/ AttemptCancelled(c) \/ AttemptFails(c) PROVE FALSE
    <3>1. CASE AttemptCancelled(c)
      <4>1. state' = SettledState({c[1]}, "cancelled") /\ aborted[c[1]]
        BY <3>1 DEF AttemptCancelled, Settle
      <4>2. c[1] # j
        BY <4>1
      <4> QED
        BY <2>0, <4>1, <4>2 DEF SettledState
    <3>2. CASE AttemptSucceeds(c) \/ AttemptFails(c)
      <4>1. state' = SettledState({c[1]}, "done") \/ state' = SettledState({c[1]}, "failed")
        BY <3>2 DEF AttemptSucceeds, AttemptFails, Settle
      <4> QED
        BY <2>0, <4>1 DEF SettledState
    <3> QED
      BY <2>5, <3>1, <3>2
  <2>6. ASSUME NEW c, AttemptRetries(c) PROVE FALSE
    BY <2>0, <2>6 DEF AttemptRetries, JobTypes
  <2>7. ASSUME NEW a, NEW q \in Seq(Jobs), KickScheduler(q, a, state) PROVE FALSE
    <3>1. state' = state \/ \E h \in Jobs : state' = [state EXCEPT ![h] = "running"]
      BY <2>7 DEF KickScheduler
    <3> QED
      BY <2>0, <3>1 DEF JobTypes
  <2>8. ASSUME NEW c, AttemptFinally(c) PROVE FALSE
    BY <2>7, <2>8 DEF AttemptFinally, SchedulerTypes
  <2>9. ASSUME NEW k \in Jobs, SettledThen(k) PROVE FALSE
    BY <2>0, <2>9 DEF SettledThen
  <2>10. ASSUME NEW k \in Jobs, BackoffFires(k) PROVE FALSE
    <3>1. CASE UNCHANGED jobVars
      BY <2>0, <3>1 DEF jobVars
    <3>2. CASE aborted[k] /\ Settle(k, "cancelled")
      <4>1. state' = SettledState({k}, "cancelled") /\ k # j
        BY <3>2 DEF Settle
      <4> QED
        BY <2>0, <4>1 DEF SettledState
    <3>3. CASE KickScheduler(InsertByPriority(queue, priority, k), activeJob, state)
      BY <2>7, <3>3, InsertByPriorityType DEF SchedulerTypes
    <3> QED
      BY <2>10, <3>1, <3>2, <3>3 DEF BackoffFires
  <2> QED
    BY <2>2, <2>3, <2>4, <2>5, <2>6, <2>8, <2>9, <2>10 DEF Next, AttemptEnds
<1>4. JobTypes /\ SchedulerTypes /\ ListenInv /\ [Next]_vars => [Harmless]_vars
  BY <1>3
<1> QED
  BY <1>1, <1>2, <1>4, Typing, TypeParts, PTL DEF Spec, OverflowHurtsNobody

-------------------------------------------------------------------------------
(* The order and the contents of the queue *)

\* Background jobs come after all others.
Sorted(q, prio) ==
  \A i, k \in DOMAIN q : i < k /\ prio[q[i]] = "background" => prio[q[k]] = "background"

\* Jobs that leave the queue leave it sorted.
LEMMA CutSorted ==
  ASSUME NEW q \in Seq(Jobs), NEW c \in Seq(Jobs), NEW k, NEW m, IsCut(c, q, k, m),
         NEW prio, Sorted(q, prio)
  PROVE  Sorted(c, prio)
<1> DEFINE pos == Left(q, k, m)
<1>1. GapAt(pos, c, q, k .. m - 1)
  BY LeftPlaces
<1> HIDE DEF pos
<1> QED
  BY <1>1 DEF GapAt, Sorted

\* In a sorted queue the background jobs are those from the first one on.
LEMMA BackgroundsAtEnd ==
  ASSUME NEW q \in Seq(Jobs), NEW prio, Sorted(q, prio)
  PROVE  Backgrounds(q, prio) = FirstBackground(q, prio) .. Len(q)
<1> DEFINE first == FirstBackground(q, prio)
           bg    == Backgrounds(q, prio)
<1>1. first \in 1 .. Len(q) + 1 /\ bg \subseteq 1 .. Len(q) /\ DOMAIN q = 1 .. Len(q)
  BY FirstBackgroundType
<1>2. CASE bg = {}
  <2>1. first = Len(q) + 1
    BY <1>2 DEF FirstBackground
  <2> QED
    BY <1>2, <2>1
<1>3. CASE bg # {}
  <2>1. first \in bg /\ \A i \in bg : first <= i
    <3>1. bg \in SUBSET Nat
      BY <1>1
    <3>2. Min(bg) \in bg /\ \A i \in bg : Min(bg) <= i
      BY <1>3, <3>1, MinIsLeast
    <3> QED
      BY <1>3, <3>2 DEF FirstBackground
  <2>2. \A i \in 1 .. Len(q) : first < i => i \in bg
    BY <1>1, <2>1 DEF Sorted, Backgrounds
  <2> HIDE DEF first, bg
  <2>3. \A i \in 1 .. Len(q) : i \in bg <=> first <= i
    <3> SUFFICES ASSUME NEW i \in 1 .. Len(q) PROVE i \in bg <=> first <= i
      OBVIOUS
    <3>1. i = first \/ first < i \/ i < first
      BY <1>1
    <3> QED
      BY <1>1, <2>1, <2>2, <3>1
  <2>4. first .. Len(q) = {i \in 1 .. Len(q) : first <= i}
    BY <1>1
  <2>5. bg = first .. Len(q)
    BY <1>1, <2>3, <2>4
  <2> QED
    BY <2>5 DEF first, bg
<1> QED
  BY <1>2, <1>3

\* ins is q with j put in at a position: behind no background job and before no
\* other, unless it is one itself.
InsertedAt(ins, q, prio, j, at) ==
  /\ at \in 1 .. Len(q) + 1
  /\ ins \in Seq(Jobs) /\ ins[at] = j /\ IsCut(q, ins, at, at + 1)
  /\ prio[j] = "background" => at = Len(q) + 1
  /\ prio[j] # "background" =>
       \A i \in DOMAIN q : prio[q[i]] = "background" <=> at <= i

LEMMA InsertPlace ==
  ASSUME NEW q \in Seq(Jobs), NEW prio \in [Jobs -> Priorities], NEW j \in Jobs, Sorted(q, prio)
  PROVE  \E at : InsertedAt(InsertByPriority(q, prio, j), q, prio, j, at)
<1>1. CASE prio[j] = "background"
  <2> DEFINE ins == Append(q, j)
             at  == Len(q) + 1
  <2>1. /\ ins \in Seq(Jobs) /\ ins[at] = j /\ at \in 1 .. Len(q) + 1
        /\ Len(ins) = Len(q) + 1 /\ \A i \in 1 .. Len(q) : ins[i] = q[i]
    OBVIOUS
  <2> HIDE DEF ins
  <2>2. IsCut(q, ins, at, at + 1)
    BY <2>1 DEF IsCut
  <2>3. InsertByPriority(q, prio, j) = ins
    BY <1>1 DEF InsertByPriority, ins
  <2> QED
    BY <1>1, <2>1, <2>2, <2>3 DEF InsertedAt
<1>2. CASE prio[j] # "background"
  <2> DEFINE at == FirstBackground(q, prio)
  <2>1. at \in 1 .. Len(q) + 1 /\ DOMAIN q = 1 .. Len(q)
    BY FirstBackgroundType
  <2>2. Backgrounds(q, prio) = at .. Len(q)
    BY BackgroundsAtEnd
  <2> HIDE DEF at
  <2>3. /\ InsertAt(q, at, j) \in Seq(Jobs) /\ InsertAt(q, at, j)[at] = j
        /\ IsCut(q, InsertAt(q, at, j), at, at + 1)
    BY <2>1, InsertIsCut
  <2>4. \A i \in DOMAIN q : prio[q[i]] = "background" <=> at <= i
    BY <2>1, <2>2 DEF Backgrounds
  <2>5. InsertByPriority(q, prio, j) = InsertAt(q, at, j)
    BY <1>2 DEF InsertByPriority, at
  <2> QED
    BY <1>2, <2>1, <2>3, <2>4, <2>5 DEF InsertedAt
<1> QED
  BY <1>1, <1>2

\* insertByPriority puts the job in and keeps the queue sorted; the others stay
\* as they are.
LEMMA InsertKeeps ==
  ASSUME NEW q \in Seq(Jobs), NEW prio \in [Jobs -> Priorities], NEW j \in Jobs, Sorted(q, prio),
         NEW ins, ins = InsertByPriority(q, prio, j)
  PROVE  /\ ins \in Seq(Jobs) /\ ToSet(ins) = ToSet(q) \cup {j}
         /\ Sorted(ins, prio)
         /\ \A x : x # j /\ Once(q, x) => Once(ins, x)
         /\ j \notin ToSet(q) => Once(ins, j)
         /\ prio[j] = "background" => ins[Len(ins)] = j
<1>0. PICK at : InsertedAt(ins, q, prio, j, at)
  BY InsertPlace
<1>1. /\ at \in 1 .. Len(q) + 1 /\ ins \in Seq(Jobs) /\ ins[at] = j /\ IsCut(q, ins, at, at + 1)
      /\ prio[j] = "background" => at = Len(q) + 1
      /\ prio[j] # "background" =>
           \A i \in DOMAIN q : prio[q[i]] = "background" <=> at <= i
  BY <1>0 DEF InsertedAt
<1> DEFINE next == at + 1
<1>2. q \in Seq(Jobs) /\ ins \in Seq(Jobs) /\ IsCut(q, ins, at, next) /\ {at} = at .. next - 1
  BY <1>1
<1> DEFINE pos == Left(ins, at, next)
<1> HIDE DEF next
<1>3. /\ {at} \subseteq DOMAIN ins /\ DOMAIN ins \subseteq Nat /\ DOMAIN q \subseteq Nat
      /\ pos \in [DOMAIN q -> DOMAIN ins]
      /\ \A i \in DOMAIN q : q[i] = ins[pos[i]] /\ pos[i] \notin {at}
      /\ \A i, n \in DOMAIN q : i < n <=> pos[i] < pos[n]
      /\ \A i \in DOMAIN ins : i \notin {at} => \E n \in DOMAIN q : pos[n] = i
  <2>1. GapAt(pos, q, ins, {at})
    BY <1>2, LeftPlaces
  <2> HIDE DEF pos
  <2> QED
    BY <2>1 DEF GapAt
<1>4. /\ Len(q) = Len(ins) - 1 /\ Len(ins) \in Nat /\ DOMAIN ins = 1 .. Len(ins) /\ DOMAIN q = 1 .. Len(q)
      /\ \A i \in DOMAIN q : pos[i] = IF i < at THEN i ELSE i + 1
  BY <1>1 DEF IsCut, Left, next
<1> HIDE DEF pos
<1>5. /\ ToSet(q) \subseteq ToSet(ins)
      /\ \A x \in ToSet(ins) \ ToSet(q) : x = j
      /\ \A x : x # j /\ Once(q, x) => Once(ins, x)
  <2>1. /\ ToSet(q) \subseteq ToSet(ins)
        /\ \A x \in ToSet(ins) \ ToSet(q) : \E i \in {at} : ins[i] = x
        /\ \A x : (\A i \in {at} : ins[i] # x) /\ Once(q, x) => Once(ins, x)
    BY ONLY <1>2, CutKeeps
  <2> QED
    BY <1>1, <2>1
<1>6. j \in ToSet(ins)
  BY <1>1, <1>3 DEF ToSet
<1>7. ASSUME j \notin ToSet(q) PROVE Once(ins, j)
  <2>1. \A i \in DOMAIN ins : ins[i] = j => i = at
    BY <1>3, <1>7 DEF ToSet
  <2> QED
    BY <2>1 DEF Once
<1>8. Sorted(ins, prio)
  <2> SUFFICES ASSUME NEW i \in DOMAIN ins, NEW n \in DOMAIN ins, i < n,
                      prio[ins[i]] = "background"
               PROVE  prio[ins[n]] = "background"
    BY DEF Sorted
  <2>0. i \in Nat /\ n \in Nat
    BY <1>3
  <2>1. CASE i # at /\ n # at
    <3>1. PICK a \in DOMAIN q, b \in DOMAIN q : pos[a] = i /\ pos[b] = n
      BY <1>3, <2>1
    <3>2. a < b
      BY <1>3, <3>1
    <3> QED
      BY <1>3, <3>1, <3>2 DEF Sorted
  <2>2. CASE i = at
    <3>1. prio[j] = "background"
      BY <1>1, <2>2
    <3> QED
      BY <1>1, <1>4, <2>0, <2>2, <3>1
  <2>3. CASE i # at /\ n = at
    <3>1. PICK a \in DOMAIN q : pos[a] = i
      BY <1>3, <2>3
    <3>2. a < at /\ prio[q[a]] = "background"
      BY <1>3, <1>4, <2>0, <2>3, <3>1
    <3>3. a \in Nat /\ ~(at <= a)
      BY <1>1, <1>3, <3>2
    <3> QED
      BY <1>1, <2>3, <3>1, <3>2, <3>3
  <2> QED
    BY <2>1, <2>2, <2>3
<1>9. prio[j] = "background" => ins[Len(ins)] = j
  BY <1>1, <1>4
<1> QED
  BY <1>1, <1>5, <1>6, <1>7, <1>8, <1>9

\* In a sorted queue the overflow is the block in front of the last
\* MaxPendingBackground background jobs; the last job in the queue is not in it.
LEMMA OverflowIsBlock ==
  ASSUME NEW q \in Seq(Jobs), NEW prio, Sorted(q, prio), NEW left, left = AfterOverflow(q, prio)
  PROVE  LET first == FirstBackground(q, prio)
         IN  \E m \in first .. Len(q) + 1 :
               /\ left \in Seq(Jobs) /\ IsCut(left, q, first, m)
               /\ Overflow(q, prio) = first .. m - 1
               /\ Len(q) \notin first .. m - 1
               /\ Len(q) - m + 1 <= MaxPendingBackground
<1> DEFINE first == FirstBackground(q, prio)
           bg    == Backgrounds(q, prio)
           L     == Len(q)
           M     == MaxPendingBackground
           m     == IF L - M < first THEN first ELSE L - M + 1
<1>1. first \in 1 .. L + 1 /\ L \in Nat /\ M \in Nat /\ M > 0
  BY FirstBackgroundType, ConstantsAssumption
<1>2. bg = first .. L
  BY BackgroundsAtEnd
<1>3. ASSUME NEW i \in first .. L PROVE Cardinality({k \in bg : k >= i}) = L - i + 1
  <2> HIDE DEF first, bg, L
  <2>1. i \in Int /\ {k \in bg : k >= i} = i .. L /\ i <= L
    BY <1>1, <1>2
  <2>2. Cardinality(i .. L) = L - i + 1
    BY <1>1, <2>1, FS_Interval
  <2> QED
    BY <2>1, <2>2
<1>4. Overflow(q, prio) = {i \in first .. L : L - i + 1 > M}
  <2>1. Overflow(q, prio) = {i \in bg : Cardinality({k \in bg : k >= i}) > M}
    BY DEF Overflow
  <2> HIDE DEF first, bg, L, M
  <2> QED
    BY <1>2, <1>3, <2>1
<1> DEFINE over == Overflow(q, prio)
           n    == Cardinality(over)
<1>5. left = Cut(q, first, first + n)
  BY DEF AfterOverflow, Cut
<1> HIDE DEF first, L, M, over, bg
<1>6. m \in first .. L + 1 /\ over = first .. m - 1 /\ L \notin first .. m - 1 /\ L - m + 1 <= M
  <2>1. CASE L - M < first
    <3>1. m = first
      BY <2>1
    <3>2. over = {}
      BY <1>1, <1>4, <2>1 DEF over
    <3> QED
      BY <1>1, <2>1, <3>1, <3>2
  <2>2. CASE ~(L - M < first)
    <3>1. m = L - M + 1
      BY <2>2
    <3>2. over = first .. L - M
      BY <1>1, <1>4 DEF over
    <3> QED
      BY <1>1, <2>2, <3>1, <3>2
  <2> QED
    BY <2>1, <2>2
<1> HIDE DEF m
<1>7. first + n = m
  <2>1. first \in Int /\ m \in Int /\ m - 1 \in Int /\ first <= m
    BY <1>1, <1>6
  <2>2. n = IF first > m - 1 THEN 0 ELSE (m - 1) - first + 1
    BY <1>6, <2>1, FS_Interval
  <2> QED
    BY <2>1, <2>2
<1>8. left \in Seq(Jobs) /\ IsCut(left, q, first, m)
  <2>1. first \in 1 .. Len(q) + 1 /\ m \in first .. Len(q) + 1 /\ left = Cut(q, first, m)
    BY <1>1, <1>5, <1>6, <1>7 DEF L
  <2> QED
    BY <2>1, CutIsCut
<1> QED
  BY <1>6, <1>8 DEF first, L, M, over

-------------------------------------------------------------------------------
(* Where a job is *)

\* The jobs with a call to the sidecar under way.
Calling == {c[1] : c \in open \cup ended}

\* Not promoted: a job promoted during its backoff may be queued twice.
Plain(j, prio, quest) == prio[j] = "background" \/ quest[j] \notin Prefetched

\* Such a job waits in the queue once, waits for one timer, or has a call, and
\* its state says which.
OnePlace(j, q, s, tm, calling) ==
  /\ Once(q, j)
  /\ j \in ToSet(q) => s[j] = "queued" /\ tm[j] = 0
  /\ tm[j] > 0 => s[j] = "queued" /\ tm[j] = 1
  /\ j \in calling => s[j] = "running"

\* A live job, promoted or not, will be heard of again.
SomePlace(j, q, s, tm, calling) ==
  /\ s[j] = "queued" => tm[j] > 0 \/ j \in ToSet(q)
  /\ s[j] = "running" => j \in calling

NoPlace(j, q, s, tm, calling) ==
  s[j] = "none" /\ tm[j] = 0 /\ j \notin ToSet(q) /\ j \notin calling

\* Where job j is with the queue q, the priorities prio, the questions quest,
\* the states s, the timers tm, the jobs calling and `made` jobs created.
Place(j, q, prio, quest, s, tm, calling, made) ==
  /\ j > made => NoPlace(j, q, s, tm, calling)
  /\ Plain(j, prio, quest) => OnePlace(j, q, s, tm, calling)
  /\ SomePlace(j, q, s, tm, calling)

PlaceInv(q, prio, quest, s, tm, calling, made) ==
  Sorted(q, prio) /\ \A j \in Jobs : Place(j, q, prio, quest, s, tm, calling, made)

\* A job is put into the queue: a new one, one back from its backoff, or one
\* that was taken out to be promoted.
LEMMA InsertPlaces ==
  ASSUME NEW q \in Seq(Jobs), NEW prio \in [Jobs -> Priorities], NEW quest, NEW s, NEW s2, NEW tm, NEW tm2,
         NEW calling, NEW made, NEW j \in Jobs, Sorted(q, prio),
         \A x \in Jobs : x # j => /\ Place(x, q, prio, quest, s, tm, calling, made)
                                  /\ s2[x] = s[x] /\ tm2[x] = tm[x],
         ~(j > made), s2[j] = "queued",
         Plain(j, prio, quest) => j \notin ToSet(q) /\ tm2[j] = 0 /\ j \notin calling
  PROVE  PlaceInv(InsertByPriority(q, prio, j), prio, quest, s2, tm2, calling, made)
<1> DEFINE ins == InsertByPriority(q, prio, j)
<1>1. /\ ToSet(ins) = ToSet(q) \cup {j}
      /\ Sorted(ins, prio)
      /\ \A x : x # j /\ Once(q, x) => Once(ins, x)
      /\ j \notin ToSet(q) => Once(ins, j)
  BY InsertKeeps
<1> HIDE DEF ins
<1>2. ASSUME NEW x \in Jobs, x # j PROVE Place(x, ins, prio, quest, s2, tm2, calling, made)
  BY <1>1, <1>2 DEF Place, NoPlace, OnePlace, SomePlace
<1>3. Place(j, ins, prio, quest, s2, tm2, calling, made)
  BY <1>1 DEF Place, OnePlace, SomePlace
<1> QED
  BY <1>1, <1>2, <1>3 DEF PlaceInv, ins

\* The overflow is cut out of the queue and cancelled.
LEMMA DropPlaces ==
  ASSUME NEW q \in Seq(Jobs), NEW prio \in [Jobs -> Priorities], NEW quest, NEW s, NEW s2, NEW tm,
         NEW calling, NEW made, PlaceInv(q, prio, quest, s, tm, calling, made),
         NEW c \in Seq(Jobs), NEW k, NEW m, IsCut(c, q, k, m),
         \A i \in k .. m - 1 : prio[q[i]] = "background",
         \A x \in Jobs : s2[x] = IF \E i \in k .. m - 1 : q[i] = x THEN "cancelled" ELSE s[x]
  PROVE  PlaceInv(c, prio, quest, s2, tm, calling, made)
<1> DEFINE gap == k .. m - 1
<1>1. /\ ToSet(c) \subseteq ToSet(q)
      /\ \A x : Once(q, x) => Once(c, x)
      /\ \A x : Once(q, x) /\ (\E i \in gap : q[i] = x) => x \notin ToSet(c)
      /\ \A x \in ToSet(q) \ ToSet(c) : \E i \in gap : q[i] = x
  BY CutKeeps
<1>2. gap \subseteq DOMAIN q
  BY LeftPlaces DEF GapAt
<1>3. Sorted(c, prio)
  BY CutSorted DEF PlaceInv
<1> HIDE DEF gap
<1>4. ASSUME NEW x \in Jobs PROVE Place(x, c, prio, quest, s2, tm, calling, made)
  <2>1. Place(x, q, prio, quest, s, tm, calling, made)
    BY DEF PlaceInv
  <2>2. CASE \E i \in gap : q[i] = x
    <3>1. prio[x] = "background" /\ x \in ToSet(q) /\ s2[x] = "cancelled"
      BY <1>2, <2>2 DEF ToSet, gap
    <3>2. OnePlace(x, q, s, tm, calling) /\ ~(x > made)
      BY <2>1, <3>1 DEF Place, NoPlace, Plain
    <3> QED
      BY <1>1, <2>2, <3>1, <3>2 DEF Place, OnePlace, SomePlace
  <2>3. CASE ~\E i \in gap : q[i] = x
    <3>1. (x \in ToSet(c) <=> x \in ToSet(q)) /\ s2[x] = s[x]
      BY <1>1, <2>3 DEF gap
    <3> QED
      BY <1>1, <2>1, <3>1 DEF Place, NoPlace, OnePlace, SomePlace
  <2> QED
    BY <2>2, <2>3
<1> QED
  BY <1>3, <1>4 DEF PlaceInv

\* The head of the queue gets the slot, and a call.
LEMMA StartPlaces ==
  ASSUME NEW q \in Seq(Jobs), q # <<>>, NEW prio, NEW quest, NEW s, NEW s2, NEW tm,
         NEW calling, NEW made, PlaceInv(q, prio, quest, s, tm, calling, made),
         s2[Head(q)] = "running", \A x \in Jobs : x # Head(q) => s2[x] = s[x]
  PROVE  PlaceInv(Tail(q), prio, quest, s2, tm, calling \cup {Head(q)}, made)
<1> DEFINE h == Head(q)
           c == Tail(q)
<1>1. c \in Seq(Jobs) /\ h \in Jobs /\ h = q[1] /\ 1 \in DOMAIN q /\ IsCut(c, q, 1, 2)
  BY DEF IsCut
<1> HIDE DEF c, h
<1>2. Sorted(c, prio)
  BY <1>1, CutSorted DEF PlaceInv
<1>3. /\ ToSet(c) \subseteq ToSet(q)
      /\ \A x : Once(q, x) => Once(c, x)
      /\ Once(q, h) => h \notin ToSet(c)
      /\ \A x \in ToSet(q) \ ToSet(c) : x = h
  <2>1. 1 .. 2 - 1 = {1}
    OBVIOUS
  <2>2. /\ ToSet(c) \subseteq ToSet(q)
        /\ \A x : Once(q, x) => Once(c, x)
        /\ \A x : Once(q, x) /\ (\E i \in 1 .. 2 - 1 : q[i] = x) => x \notin ToSet(c)
        /\ \A x \in ToSet(q) \ ToSet(c) : \E i \in 1 .. 2 - 1 : q[i] = x
    BY <1>1, CutKeeps
  <2> QED
    BY <1>1, <2>1, <2>2
<1>4. h \in ToSet(q)
  BY <1>1 DEF ToSet
<1>5. ASSUME NEW x \in Jobs PROVE Place(x, c, prio, quest, s2, tm, calling \cup {h}, made)
  <2>1. Place(x, q, prio, quest, s, tm, calling, made)
    BY DEF PlaceInv
  <2>2. CASE x = h
    BY <1>3, <1>4, <2>1, <2>2 DEF Place, NoPlace, OnePlace, SomePlace, h
  <2>3. CASE x # h
    <3>1. (x \in ToSet(c) <=> x \in ToSet(q)) /\ s2[x] = s[x]
      BY <1>3, <2>3 DEF h
    <3> QED
      BY <1>3, <2>1, <2>3, <3>1 DEF Place, NoPlace, OnePlace, SomePlace
  <2> QED
    BY <2>2, <2>3
<1> QED
  BY <1>2, <1>5 DEF PlaceInv, c, h

-------------------------------------------------------------------------------
(* The jobs of the system are in their places *)

QueueInv ==
  /\ PlaceInv(queue, priority, question, state, timers, Calling, created)
  /\ \A j \in Jobs : j <= created /\ priority[j] = "background" => question[j] \in Prefetched

\* kickScheduler gives the head of the queue a call, or does nothing.
LEMMA KickPlaces ==
  ASSUME NEW q \in Seq(Jobs), NEW a, NEW s \in [Jobs -> States], KickScheduler(q, a, s), ended' = ended,
         NEW prio, NEW quest, NEW tm, NEW made, PlaceInv(q, prio, quest, s, tm, Calling, made)
  PROVE  PlaceInv(queue', prio, quest, state', tm, Calling', made)
<1>1. CASE a # NoJob \/ q = <<>>
  <2>1. queue' = q /\ state' = s /\ open' = open
    BY <1>1 DEF KickScheduler
  <2>2. Calling' = Calling
    BY <2>1 DEF Calling
  <2> QED
    BY <2>1, <2>2
<1>2. CASE ~(a # NoJob \/ q = <<>>)
  <2>1. /\ queue' = Tail(q) /\ state' = [s EXCEPT ![Head(q)] = "running"]
        /\ open' = open \cup {<<Head(q), attempts[Head(q)] + 1>>}
    BY <1>2 DEF KickScheduler
  <2>2. Calling' = Calling \cup {Head(q)}
    <3>1. PICK d : open' = open \cup {d} /\ d[1] = Head(q)
      <4>1. \A n : <<Head(q), n>>[1] = Head(q)
        OBVIOUS
      <4> QED
        BY <2>1, <4>1
    <3>2. Calling' = {c[1] : c \in (open \cup {d}) \cup ended}
      BY <3>1 DEF Calling
    <3>3. \A x : x \in Calling' <=> x \in Calling \/ x = d[1]
      BY <3>2 DEF Calling
    <3> QED
      BY <3>1, <3>3
  <2>3. Head(q) \in Jobs /\ q # <<>>
    BY <1>2
  <2>4. state'[Head(q)] = "running" /\ \A x \in Jobs : x # Head(q) => state'[x] = s[x]
    BY <2>1, <2>3
  <2>5. PlaceInv(Tail(q), prio, quest, state', tm, Calling \cup {Head(q)}, made)
    BY <2>3, <2>4, StartPlaces
  <2> QED
    BY <2>1, <2>2, <2>5
<1> QED
  BY <1>1, <1>2

\* A request for a job that exists: a promotion takes it out of the queue, if it
\* is there, and puts it back in front of the background jobs.
LEMMA ReusePlaces ==
  ASSUME JobTypes, SchedulerTypes, QueueInv, NEW p, NEW j \in Jobs, j <= created, ReuseJob(j, p),
         UNCHANGED <<timers, ended>>
  PROVE  /\ QueueInv'
         /\ ToSet(queue') \subseteq ToSet(queue) \cup {j} /\ (queue' # queue => state[j] = "queued")
<1> DEFINE promoted == p = "foreground" /\ priority[j] = "background"
           prio     == [priority EXCEPT ![j] = IF promoted THEN "foreground" ELSE priority[j]]
<1>1. /\ priority' = prio
      /\ queue' = IF promoted /\ state[j] = "queued" THEN PromoteToForeground(queue, prio, j) ELSE queue
      /\ UNCHANGED <<created, question, state, activeJob, open, timers>>
  BY DEF ReuseJob
<1>2. Calling' = Calling
  BY <1>1 DEF Calling
<1>3. /\ priority \in [Jobs -> Priorities] /\ prio \in [Jobs -> Priorities]
      /\ \A x \in Jobs : x # j => prio[x] = priority[x]
      /\ prio[j] = IF promoted THEN "foreground" ELSE priority[j]
  BY DEF JobTypes, Priorities
<1>4. queue \in Seq(Jobs) /\ created \in Nat
  BY ConstantsAssumption DEF JobTypes, SchedulerTypes
<1> HIDE DEF prio
<1>5. \A x \in Jobs : x <= created /\ prio[x] = "background" => question[x] \in Prefetched
  BY <1>3 DEF QueueInv
<1>6. CASE ~promoted
  <2>1. prio = priority
    BY <1>3, <1>6
  <2> QED
    BY <1>1, <1>2, <1>6, <2>1 DEF QueueInv
<1>7. CASE promoted
  <2>1. ~Plain(j, prio, question) /\ Plain(j, priority, question)
    BY <1>3, <1>7 DEF QueueInv, Plain
  <2>2. Place(j, queue, priority, question, state, timers, Calling, created)
    BY DEF QueueInv, PlaceInv
  <2>3. Once(queue, j) /\ (j \in ToSet(queue) => state[j] = "queued")
    BY <2>1, <2>2 DEF Place, OnePlace
  <2>4. \A x \in Jobs : x # j => Place(x, queue, prio, question, state, timers, Calling, created)
    BY <1>3 DEF QueueInv, PlaceInv, Place, Plain
  <2>5. ASSUME NEW c \in Seq(Jobs), j \notin ToSet(c), Sorted(c, priority) PROVE Sorted(c, prio)
    <3>1. \A i \in DOMAIN c : c[i] \in Jobs /\ c[i] # j
      BY <2>5 DEF ToSet
    <3> QED
      BY <1>3, <2>5, <3>1 DEF Sorted
  <2>6. CASE state[j] # "queued"
    <3>1. queue' = queue /\ Sorted(queue, prio)
      BY <1>1, <1>4, <2>3, <2>5, <2>6 DEF QueueInv, PlaceInv
    <3>2. Place(j, queue, prio, question, state, timers, Calling, created)
      BY <1>4, <2>1, <2>2, <2>6 DEF Place
    <3>3. PlaceInv(queue, prio, question, state, timers, Calling, created)
      BY <2>4, <3>1, <3>2 DEF PlaceInv
    <3> QED
      BY <1>1, <1>2, <1>5, <3>1, <3>3 DEF QueueInv
  <2>7. CASE state[j] = "queued"
    <3> DEFINE at   == {i \in DOMAIN queue : queue[i] = j}
               rest == IF at = {} THEN queue ELSE RemoveAt(queue, Min(at))
    <3>1. queue' = InsertByPriority(rest, prio, j)
      BY <1>1, <1>7, <2>7 DEF PromoteToForeground
    <3>2. /\ rest \in Seq(Jobs) /\ j \notin ToSet(rest) /\ Sorted(rest, priority)
          /\ \A x : Once(queue, x) => Once(rest, x)
          /\ \A x : x # j => (x \in ToSet(rest) <=> x \in ToSet(queue))
      <4>1. CASE at = {}
        BY <1>4, <4>1 DEF ToSet, QueueInv, PlaceInv
      <4>2. CASE at # {}
        <5> DEFINE k == Min(at)
                   m == k + 1
        <5>1. at \in SUBSET Nat
          BY <1>4
        <5>2. k \in at
          BY <4>2, <5>1, MinIsLeast
        <5>3. k \in 1 .. Len(queue) /\ queue[k] = j
          BY <1>4, <5>2
        <5>4. rest = Cut(queue, k, m)
          BY <4>2 DEF RemoveAt, Cut
        <5> HIDE DEF at, rest, k
        <5>5. k \in 1 .. Len(queue) + 1 /\ m \in k .. Len(queue) + 1 /\ {k} = k .. m - 1
          BY <1>4, <5>3
        <5> HIDE DEF m
        <5>6. rest \in Seq(Jobs) /\ IsCut(rest, queue, k, m)
          BY <1>4, <5>4, <5>5, CutIsCut
        <5>7. Sorted(rest, priority)
          BY <1>4, <5>6, CutSorted DEF QueueInv, PlaceInv
        <5>8. /\ ToSet(rest) \subseteq ToSet(queue)
              /\ \A x : Once(queue, x) => Once(rest, x)
              /\ \A x : Once(queue, x) /\ (\E i \in {k} : queue[i] = x) => x \notin ToSet(rest)
              /\ \A x \in ToSet(queue) \ ToSet(rest) : \E i \in {k} : queue[i] = x
          BY <1>4, <5>5, <5>6, CutKeeps
        <5> QED
          BY <2>3, <5>3, <5>6, <5>7, <5>8
      <4> QED
        BY <4>1, <4>2
    <3> HIDE DEF rest
    <3>3. Sorted(rest, prio)
      BY <2>5, <3>2
    <3>4. ASSUME NEW x \in Jobs, x # j
          PROVE  Place(x, rest, prio, question, state, timers, Calling, created)
      BY <2>4, <3>2, <3>4 DEF Place, NoPlace, OnePlace, SomePlace
    <3>5. ~(j > created)
      BY <1>4 DEF Jobs
    <3>6. PlaceInv(InsertByPriority(rest, prio, j), prio, question, state, timers, Calling, created)
      BY <1>3, <2>1, <2>7, <3>2, <3>3, <3>4, <3>5, InsertPlaces
    <3>7. ToSet(InsertByPriority(rest, prio, j)) = ToSet(rest) \cup {j}
      BY <1>3, <3>2, <3>3, InsertKeeps
    <3>8. ToSet(queue') \subseteq ToSet(queue) \cup {j}
      BY <3>1, <3>2, <3>7
    <3> QED
      BY <1>1, <1>2, <1>5, <2>7, <3>1, <3>6, <3>8 DEF QueueInv
  <2> QED
    BY <2>6, <2>7
<1> QED
  BY <1>6, <1>7

\* Background jobs from a position on are no more than there are positions, with
\* or without the head of the queue.
LEMMA FewBackgrounds ==
  ASSUME NEW q \in Seq(Jobs), NEW prio, NEW first \in 1 .. Len(q) + 1,
         \A i \in DOMAIN q : prio[q[i]] = "background" => first <= i,
         Len(q) - first + 1 <= MaxPendingBackground
  PROVE  /\ Cardinality(Backgrounds(q, prio)) <= MaxPendingBackground
         /\ q # <<>> => Cardinality(Backgrounds(Tail(q), prio)) <= MaxPendingBackground
<1>1. ASSUME NEW a \in Int, NEW b \in Int, b - a + 1 <= MaxPendingBackground, NEW T, T \subseteq a .. b
      PROVE  Cardinality(T) <= MaxPendingBackground
  <2>1. IsFiniteSet(a .. b) /\ Cardinality(a .. b) = IF a > b THEN 0 ELSE b - a + 1
    BY FS_Interval
  <2>2. IsFiniteSet(T) /\ Cardinality(T) <= Cardinality(a .. b)
    BY <1>1, <2>1, FS_Subset
  <2>3. Cardinality(T) \in Nat /\ MaxPendingBackground \in Nat
    BY <2>2, FS_CardinalityType, ConstantsAssumption
  <2> QED
    BY <1>1, <2>1, <2>2, <2>3
<1>2. Backgrounds(q, prio) \subseteq first .. Len(q)
  BY DEF Backgrounds
<1>3. ASSUME q # <<>> PROVE Backgrounds(Tail(q), prio) \subseteq first - 1 .. Len(q) - 1
  <2>1. \A i \in DOMAIN Tail(q) : i \in 1 .. Len(q) - 1 /\ Tail(q)[i] = q[i + 1] /\ i + 1 \in DOMAIN q
    BY <1>3
  <2> QED
    BY <2>1 DEF Backgrounds
<1> QED
  BY <1>1, <1>2, <1>3

\* What the creation of job j does to job x: x is j and may start, stays as it is,
\* is cancelled as a prefetch that was waiting, or starts from the queue.
CreateMoves(x, j) ==
  \/ x = j /\ state'[x] \in Live /\ promise'[x] = promise[x]
  \/ x # j /\ state'[x] = state[x] /\ promise'[x] = promise[x]
  \/ /\ x # j /\ priority[x] = "background" /\ state[x] = "queued" /\ state'[x] = "cancelled"
     /\ promise'[x] = IF promise[x] = "pending" THEN "resolved" ELSE promise[x]
  \/ /\ x # j /\ x <= created /\ (Plain(x, priority, question) => state[x] = "queued")
     /\ state'[x] = "running" /\ promise'[x] = promise[x]

\* A request that creates a job: it goes into the queue, the overflow goes out of
\* it, and the head may start.
LEMMA CreatePlaces ==
  ASSUME JobTypes, SchedulerTypes, QueueInv, NEW q, NEW p \in Priorities, NEW j \in Jobs,
         j = created + 1, CreateJob(j, q, p), p = "background" => q \in Prefetched,
         UNCHANGED <<timers, ended>>
  PROVE  /\ QueueInv'
         /\ Cardinality(Backgrounds(queue', priority')) <= MaxPendingBackground
         /\ \A x \in Jobs : CreateMoves(x, j)
<1> DEFINE prio    == [priority EXCEPT ![j] = p]
           quest   == [question EXCEPT ![j] = q]
           pushed  == InsertByPriority(queue, prio, j)
           dropped == {pushed[i] : i \in Overflow(pushed, prio)}
           left    == AfterOverflow(pushed, prio)
           s1      == [state EXCEPT ![j] = "queued"]
           s2      == [SettledState(dropped, "cancelled") EXCEPT ![j] = "queued"]
           first   == FirstBackground(pushed, prio)
<1>1. /\ created' = j /\ question' = quest /\ priority' = prio
      /\ KickScheduler(left, activeJob, s2)
      /\ promise' = ResolvedPromise(dropped)
  BY DEF CreateJob
<1>2. /\ created \in Nat /\ j > created /\ Jobs \subseteq Nat /\ ~(j > j)
      /\ queue \in Seq(Jobs) /\ state \in [Jobs -> States]
      /\ priority \in [Jobs -> Priorities] /\ question \in [Jobs -> Questions \cup {NoQuestion}]
      /\ timers' = timers /\ ended' = ended
  BY ConstantsAssumption DEF JobTypes, SchedulerTypes, Jobs
<1>3. /\ prio \in [Jobs -> Priorities] /\ prio[j] = p /\ \A x \in Jobs : x # j => prio[x] = priority[x]
      /\ quest[j] = q /\ \A x \in Jobs : x # j => quest[x] = question[x]
      /\ s1[j] = "queued" /\ \A x \in Jobs : x # j => s1[x] = state[x]
  BY <1>2
<1>4. NoPlace(j, queue, state, timers, Calling)
  BY <1>2 DEF QueueInv, PlaceInv, Place
<1>5. SettledState(dropped, "cancelled") \in [Jobs -> States]
  <2> HIDE DEF dropped
  <2> QED
    BY <1>2, SettleType DEF Settled, JobTypes
<1>6. /\ s2 \in [Jobs -> States] /\ s2[j] = "queued"
      /\ \A x \in Jobs : x # j => s2[x] = SettledState(dropped, "cancelled")[x]
  <2> HIDE DEF dropped
  <2> QED
    BY <1>5 DEF States, Live
<1> HIDE DEF prio, quest, s1, s2
<1>7. /\ pushed \in Seq(Jobs) /\ Sorted(pushed, prio)
      /\ prio[j] = "background" => pushed[Len(pushed)] = j
      /\ ToSet(pushed) = ToSet(queue) \cup {j} /\ Once(pushed, j)
  <2>1. Sorted(queue, prio)
    <3>1. \A i \in DOMAIN queue : queue[i] \in Jobs /\ queue[i] # j
      BY <1>2, <1>4 DEF NoPlace, ToSet
    <3> QED
      BY <1>3, <3>1 DEF Sorted, QueueInv, PlaceInv
  <2> QED
    BY <1>2, <1>3, <1>4, <2>1, InsertKeeps DEF NoPlace
<1>8. PlaceInv(pushed, prio, quest, s1, timers, Calling, j)
  <2>1. ASSUME NEW x \in Jobs, x # j
        PROVE  Place(x, queue, prio, quest, state, timers, Calling, j)
    <3>1. Place(x, queue, priority, question, state, timers, Calling, created)
      BY DEF QueueInv, PlaceInv
    <3>2. (x > j => x > created) /\ (Plain(x, prio, quest) <=> Plain(x, priority, question))
      BY <1>2, <1>3, <2>1 DEF Plain
    <3> QED
      BY <3>1, <3>2 DEF Place
  <2>2. Sorted(queue, prio)
    <3>1. \A i \in DOMAIN queue : queue[i] \in Jobs /\ queue[i] # j
      BY <1>2, <1>4 DEF NoPlace, ToSet
    <3> QED
      BY <1>3, <3>1 DEF Sorted, QueueInv, PlaceInv
  <2>3. j \notin ToSet(queue) /\ timers[j] = 0 /\ j \notin Calling
    BY <1>4 DEF NoPlace
  <2>4. \A x \in Jobs : x # j => /\ Place(x, queue, prio, quest, state, timers, Calling, j)
                                 /\ s1[x] = state[x] /\ timers[x] = timers[x]
    BY <1>3, <2>1
  <2>5. /\ queue \in Seq(Jobs) /\ prio \in [Jobs -> Priorities] /\ j \in Jobs /\ ~(j > j)
        /\ s1[j] = "queued"
        /\ Plain(j, prio, quest) => j \notin ToSet(queue) /\ timers[j] = 0 /\ j \notin Calling
    BY <1>2, <1>3, <2>3
  <2>6. PlaceInv(InsertByPriority(queue, prio, j), prio, quest, s1, timers, Calling, j)
    BY ONLY <2>2, <2>4, <2>5, InsertPlaces
  <2> QED
    BY <2>6
<1> HIDE DEF pushed
<1>9. PICK m \in first .. Len(pushed) + 1 :
        /\ left \in Seq(Jobs) /\ IsCut(left, pushed, first, m)
        /\ Overflow(pushed, prio) = first .. m - 1
        /\ Len(pushed) \notin first .. m - 1
        /\ Len(pushed) - m + 1 <= MaxPendingBackground
  BY <1>7, OverflowIsBlock
<1> HIDE DEF left, first
<1>10. \A i \in first .. m - 1 : prio[pushed[i]] = "background" /\ pushed[i] # j /\ i \in DOMAIN pushed
  <2>1. \A i \in first .. m - 1 : prio[pushed[i]] = "background" /\ i \in DOMAIN pushed
    BY <1>9 DEF Overflow, Backgrounds
  <2>2. ASSUME NEW i \in first .. m - 1, pushed[i] = j PROVE FALSE
    <3>1. pushed[Len(pushed)] = j /\ i \in DOMAIN pushed
      BY <1>7, <2>1, <2>2
    <3>2. i = Len(pushed)
      BY <1>7, <2>2, <3>1 DEF Once
    <3> QED
      BY <1>9, <3>2
  <2> QED
    BY <2>1, <2>2
<1>11. ASSUME NEW x \in Jobs
       PROVE  s2[x] = IF \E i \in first .. m - 1 : pushed[i] = x THEN "cancelled" ELSE s1[x]
  <2>1. x \in dropped <=> \E i \in first .. m - 1 : pushed[i] = x
    BY <1>9
  <2>2. CASE x = j
    BY <1>3, <1>6, <1>10, <2>2
  <2>3. CASE x # j
    <3>1. s2[x] = IF x \in dropped /\ state[x] \in Live THEN "cancelled" ELSE state[x]
      <4> HIDE DEF dropped
      <4> QED
        BY <1>6, <2>3 DEF SettledState
    <3>2. ASSUME x \in dropped PROVE state[x] \in Live
      <4>1. prio[x] = "background" /\ x \in ToSet(pushed)
        BY <1>10, <2>1, <3>2 DEF ToSet
      <4>2. Place(x, pushed, prio, quest, s1, timers, Calling, j)
        BY <1>8 DEF PlaceInv
      <4>3. s1[x] = "queued"
        BY <4>1, <4>2 DEF Place, Plain, OnePlace
      <4> QED
        BY <1>3, <2>3, <4>3 DEF Live
    <3> HIDE DEF dropped
    <3> QED
      BY <1>3, <2>1, <2>3, <3>1, <3>2
  <2> QED
    BY <2>2, <2>3
<1>12. PlaceInv(left, prio, quest, s2, timers, Calling, j)
  BY <1>3, <1>7, <1>8, <1>9, <1>10, <1>11, DropPlaces
<1>13. PlaceInv(queue', prio, quest, state', timers, Calling', j)
  BY <1>1, <1>2, <1>6, <1>9, <1>12, KickPlaces
<1>14. \A x \in Jobs : x <= j /\ prio[x] = "background" => quest[x] \in Prefetched
  <2> SUFFICES ASSUME NEW x \in Jobs, x <= j, prio[x] = "background" PROVE quest[x] \in Prefetched
    OBVIOUS
  <2>1. CASE x = j
    BY <1>3, <2>1
  <2>2. CASE x # j
    <3>1. x <= created
      BY <1>2, <2>2
    <3> QED
      BY <1>3, <2>2, <3>1 DEF QueueInv
  <2> QED
    BY <2>1, <2>2
<1>15. QueueInv'
  BY <1>1, <1>2, <1>13, <1>14 DEF QueueInv
<1>16. Cardinality(Backgrounds(queue', priority')) <= MaxPendingBackground
  <2>1. first \in 1 .. Len(pushed) + 1 /\ \A i \in DOMAIN pushed : prio[pushed[i]] = "background" => first <= i
    <3>1. first \in 1 .. Len(pushed) + 1 /\ Backgrounds(pushed, prio) = first .. Len(pushed)
      BY <1>7, FirstBackgroundType, BackgroundsAtEnd DEF first
    <3> QED
      BY <3>1 DEF Backgrounds
  <2>2. Len(left) = Len(pushed) - (m - first) /\ \A i \in 1 .. first - 1 : left[i] = pushed[i]
    BY <1>9 DEF IsCut
  <2>3. \A i \in DOMAIN left : prio[left[i]] = "background" => first <= i
    BY <1>7, <1>9, <2>1, <2>2
  <2>4. Len(left) - first + 1 <= MaxPendingBackground /\ first \in 1 .. Len(left) + 1
    BY <1>7, <1>9, <2>1, <2>2
  <2>5. /\ Cardinality(Backgrounds(left, prio)) <= MaxPendingBackground
        /\ left # <<>> => Cardinality(Backgrounds(Tail(left), prio)) <= MaxPendingBackground
    BY <1>9, <2>3, <2>4, FewBackgrounds
  <2>6. queue' = left \/ (left # <<>> /\ queue' = Tail(left))
    BY <1>1 DEF KickScheduler
  <2> QED
    BY <1>1, <2>5, <2>6
<1>17. ASSUME NEW x \in Jobs PROVE CreateMoves(x, j)
  <2> DEFINE out == \E i \in first .. m - 1 : pushed[i] = x
  <2>1. state'[x] = s2[x] \/ (x \in ToSet(left) /\ state'[x] = "running")
    <3>1. state' = s2 \/ (left # <<>> /\ state' = [s2 EXCEPT ![Head(left)] = "running"])
      BY <1>1 DEF KickScheduler
    <3>2. left # <<>> => Head(left) \in ToSet(left)
      BY <1>9 DEF ToSet
    <3> QED
      BY <1>6, <3>1, <3>2
  <2>2. s2[x] = IF out THEN "cancelled" ELSE s1[x]
    BY <1>11
  <2>3. promise'[x] = IF x \in dropped /\ state[x] \in Live /\ promise[x] = "pending"
                      THEN "resolved" ELSE promise[x]
    <3> HIDE DEF dropped
    <3> QED
      BY <1>1 DEF ResolvedPromise
  <2>4. x \in dropped <=> out
    BY <1>9
  <2>5. out => x # j /\ prio[x] = "background" /\ x \in ToSet(pushed)
    BY <1>10 DEF ToSet
  <2> HIDE DEF dropped, out
  <2>6. out => x # j /\ priority[x] = "background" /\ state[x] = "queued"
    <3> SUFFICES ASSUME out PROVE x # j /\ priority[x] = "background" /\ state[x] = "queued"
      OBVIOUS
    <3>1. Place(x, pushed, prio, quest, s1, timers, Calling, j)
      BY <1>8 DEF PlaceInv
    <3> QED
      BY <1>3, <2>5, <3>1 DEF Place, Plain, OnePlace
  <2>7. x \in ToSet(left) => x <= j /\ (Plain(x, prio, quest) => s2[x] = "queued")
    <3>1. Place(x, left, prio, quest, s2, timers, Calling, j)
      BY <1>12 DEF PlaceInv
    <3> QED
      BY <1>2, <3>1 DEF Place, NoPlace, OnePlace
  <2>8. CASE x = j
    BY <1>3, <2>1, <2>2, <2>3, <2>4, <2>6, <2>8 DEF CreateMoves, Live
  <2>9. CASE x # j /\ out
    <3>1. ~(x \in ToSet(left))
      <4>1. Plain(x, prio, quest) /\ s2[x] = "cancelled"
        BY <2>2, <2>5, <2>9 DEF Plain
      <4> QED
        BY <2>7, <4>1
    <3> QED
      BY <2>1, <2>2, <2>3, <2>4, <2>6, <2>9, <3>1 DEF CreateMoves, Live
  <2>10. CASE x # j /\ ~out
    <3>1. promise'[x] = promise[x] /\ s2[x] = state[x]
      BY <1>3, <2>2, <2>3, <2>4, <2>10
    <3>2. Plain(x, prio, quest) <=> Plain(x, priority, question)
      BY <1>3, <2>10 DEF Plain
    <3>3. x \in Nat
      BY <1>2
    <3>4. x <= j => x <= created
      BY <1>2, <2>10, <3>3
    <3> QED
      BY <2>1, <2>7, <2>10, <3>1, <3>2, <3>4 DEF CreateMoves
  <2> QED
    BY <2>8, <2>9, <2>10
<1> QED
  BY <1>15, <1>16, <1>17

\* Whatever ensureJob does, jobs are in their places, and a new job leaves no
\* more than MaxPendingBackground prefetches waiting.
LEMMA EnsurePlaces ==
  ASSUME JobTypes, SchedulerTypes, ListenInv, QueueInv, NEW q \in Questions, NEW p \in Priorities,
         NEW j \in Jobs, EnsureJob(q, p, j), p = "background" => q \in Prefetched
  PROVE  /\ QueueInv'
         /\ created' # created => Cardinality(Backgrounds(queue', priority')) <= MaxPendingBackground
<1>1. UNCHANGED <<timers, ended>>
  BY DEF EnsureJob
<1>2. PICK reg : /\ reg \in {Without(Oldest(n)) : n \in Evictions}
                 /\ \/ reg[q] = j /\ j # NoJob /\ ReuseJob(j, p)
                    \/ j = created + 1 /\ CreateJob(j, q, p)
  BY DEF EnsureJob
<1>3. CASE reg[q] = j /\ j # NoJob /\ ReuseJob(j, p)
  <2>1. \A S : Without(S)[q] \in {NoJob, registry[q]}
    BY DEF Without
  <2>2. registry[q] = j
    BY <1>2, <1>3, <2>1
  <2>3. j <= created
    BY <2>2 DEF ListenInv
  <2>4. created' = created
    BY <1>3 DEF ReuseJob
  <2> QED
    BY <1>1, <1>3, <2>3, <2>4, ReusePlaces
<1>4. CASE j = created + 1 /\ CreateJob(j, q, p)
  BY <1>1, <1>4, CreatePlaces
<1> QED
  BY <1>2, <1>3, <1>4

\* With a call under way there is one, and when it returns there is none.
LEMMA CallingOne ==
  ASSUME SlotInv, NEW c \in Calls,
         AttemptSucceeds(c) \/ AttemptCancelled(c) \/ AttemptFails(c) \/ AttemptRetries(c)
  PROVE  Calling = {c[1]} /\ Calling' = {}
<1>1. \A d \in open \cup ended : d = c
  BY DEF SlotInv, OneSynthesisAtATime, Calls
<1>2. /\ c \in open \cup ended
      /\ \/ open' = open \ {c} /\ ended' = ended /\ c \in open
         \/ ended' = ended \ {c} /\ open' = open /\ c \in ended
  BY DEF AttemptSucceeds, AttemptCancelled, AttemptFails, AttemptRetries
<1>3. open \cap ended = {}
  BY DEF SlotInv
<1>4. open' = {} /\ ended' = {}
  BY <1>1, <1>2, <1>3
<1> QED
  BY <1>1, <1>2, <1>4 DEF Calling

\* An attempt that returns settles its job, or leaves it to a timer.
LEMMA AttemptPlaces ==
  ASSUME JobTypes, SchedulerTypes, SlotInv, QueueInv, NEW c \in Calls, AttemptEnds(c)
  PROVE  QueueInv'
<1> DEFINE j == c[1]
<1>0. j \in Jobs /\ state \in [Jobs -> States] /\ timers \in [Jobs -> Nat]
  BY DEF Calls, JobTypes, SchedulerTypes
<1>1. UNCHANGED <<created, question, priority, queue>>
  BY DEF AttemptEnds, ReceiveEnd, AttemptSucceeds, AttemptCancelled, AttemptFails, AttemptRetries,
     AttemptFrame, slotVars, jobVars
<1>2. CASE ReceiveEnd(c)
  <2>1. UNCHANGED <<state, timers>> /\ open' \cup ended' = open \cup ended
    BY <1>2 DEF ReceiveEnd, jobVars
  <2>2. Calling' = Calling
    BY <2>1 DEF Calling
  <2> QED
    BY <1>1, <2>1, <2>2 DEF QueueInv
<1>3. ASSUME Calling = {j}, Calling' = {}, NEW result \in States,
             \A x \in Jobs : x # j => state'[x] = state[x] /\ timers'[x] = timers[x],
             \/ /\ state'[j] = IF state[j] \in Live THEN result ELSE state[j]
                /\ result \notin Live /\ timers' = timers
             \/ state'[j] = "queued" /\ timers'[j] = timers[j] + 1
      PROVE  QueueInv'
  <2>1. ASSUME NEW x \in Jobs
        PROVE  Place(x, queue, priority, question, state', timers', {}, created)
    <3>1. Place(x, queue, priority, question, state, timers, {j}, created)
      BY <1>3 DEF QueueInv, PlaceInv
    <3>2. CASE x # j
      BY <1>3, <3>1, <3>2 DEF Place, NoPlace, OnePlace, SomePlace
    <3>3. CASE x = j
      <4>1. timers[j] \in Nat /\ (Plain(j, priority, question) => state[j] = "running")
        BY <1>0, <3>1, <3>3 DEF Place, OnePlace
      <4>2. ~(j > created)
        BY <3>1, <3>3 DEF Place, NoPlace
      <4>3. SomePlace(j, queue, state', timers', {})
        BY <1>3, <4>1 DEF SomePlace, Live
      <4>4. ASSUME Plain(j, priority, question) PROVE OnePlace(j, queue, state', timers', {})
        <5>1. Once(queue, j) /\ j \notin ToSet(queue) /\ timers[j] = 0
          BY <3>1, <3>3, <4>1, <4>4 DEF Place, OnePlace
        <5> QED
          BY <1>3, <4>1, <4>4, <5>1 DEF OnePlace, Live
      <4> QED
        BY <3>3, <4>2, <4>3, <4>4 DEF Place
    <3> QED
      BY <3>2, <3>3
  <2> QED
    BY <1>1, <1>3, <2>1 DEF QueueInv, PlaceInv
<1>4. CASE AttemptSucceeds(c) \/ AttemptCancelled(c) \/ AttemptFails(c)
  <2>1. PICK result \in Settled : state' = SettledState({j}, result) /\ timers' = timers
    BY <1>4 DEF AttemptSucceeds, AttemptCancelled, AttemptFails, Settle, Settled
  <2>2. Calling = {j} /\ Calling' = {}
    BY <1>4, CallingOne
  <2>3. result \in States /\ result \notin Live
    BY DEF States, Live, Settled
  <2>4. /\ \A x \in Jobs : x # j => state'[x] = state[x]
        /\ state'[j] = IF state[j] \in Live THEN result ELSE state[j]
    BY <1>0, <2>1 DEF SettledState
  <2> QED
    BY <1>3, <2>1, <2>2, <2>3, <2>4
<1>5. CASE AttemptRetries(c)
  <2>1. state' = [state EXCEPT ![j] = "queued"] /\ timers' = [timers EXCEPT ![j] = timers[j] + 1]
    BY <1>5 DEF AttemptRetries
  <2>2. Calling = {j} /\ Calling' = {}
    BY <1>5, CallingOne
  <2>3. /\ \A x \in Jobs : x # j => state'[x] = state[x] /\ timers'[x] = timers[x]
        /\ state'[j] = "queued" /\ timers'[j] = timers[j] + 1
    BY <1>0, <2>1
  <2> QED
    BY <1>3, <2>2, <2>3 DEF States, Live
<1> QED
  BY <1>2, <1>4, <1>5 DEF AttemptEnds

\* A backoff timer that fires finds its job settled, cancels it, or puts it back
\* into the queue.
LEMMA BackoffPlaces ==
  ASSUME JobTypes, SchedulerTypes, QueueInv, NEW j \in Jobs, BackoffFires(j)
  PROVE  QueueInv'
<1>0. /\ state \in [Jobs -> States] /\ timers \in [Jobs -> Nat] /\ queue \in Seq(Jobs)
      /\ priority \in [Jobs -> Priorities]
  BY DEF JobTypes, SchedulerTypes
<1>1. /\ UNCHANGED <<created, ended, question, priority>>
      /\ timers[j] > 0 /\ timers' = [timers EXCEPT ![j] = timers[j] - 1]
  BY DEF BackoffFires, jobVars
<1>2. \A x \in Jobs : timers'[x] = IF x = j THEN timers[j] - 1 ELSE timers[x]
  BY <1>0, <1>1
<1>3. timers[j] \in Nat /\ \A x \in Jobs : Place(x, queue, priority, question, state, timers, Calling, created)
  BY <1>0 DEF QueueInv, PlaceInv
<1>4. ~(j > created)
  BY <1>1, <1>3 DEF Place, NoPlace
<1>5. Plain(j, priority, question) =>
        state[j] = "queued" /\ timers[j] = 1 /\ Once(queue, j) /\ j \notin ToSet(queue) /\ j \notin Calling
  BY <1>1, <1>3 DEF Place, OnePlace
<1>6. ASSUME NEW s, \A x \in Jobs : x # j => s[x] = state[x], s[j] # "queued",
             s[j] = state[j] \/ s[j] = "cancelled",
             UNCHANGED <<queue, open>>, state' = s
      PROVE  QueueInv'
  <2>1. Calling' = Calling
    BY <1>1, <1>6 DEF Calling
  <2>2. ASSUME NEW x \in Jobs
        PROVE  Place(x, queue, priority, question, s, timers', Calling, created)
    <3>1. CASE x # j
      BY <1>2, <1>3, <1>6, <3>1 DEF Place, NoPlace, OnePlace, SomePlace
    <3>2. CASE x = j
      <4>1. SomePlace(j, queue, s, timers', Calling)
        BY <1>3, <1>6 DEF Place, SomePlace
      <4>2. Plain(j, priority, question) => OnePlace(j, queue, s, timers', Calling)
        BY <1>2, <1>5 DEF OnePlace
      <4> QED
        BY <1>4, <3>2, <4>1, <4>2 DEF Place
    <3> QED
      BY <3>1, <3>2
  <2> QED
    BY <1>1, <1>6, <2>1, <2>2 DEF QueueInv, PlaceInv
<1>7. CASE state[j] # "queued" /\ UNCHANGED <<state, queue, open>>
  BY <1>6, <1>7
<1>8. CASE state[j] = "queued" /\ Settle(j, "cancelled") /\ UNCHANGED <<queue, open>>
  <2>1. state' = SettledState({j}, "cancelled")
    BY <1>8 DEF Settle
  <2>2. state'[j] = "cancelled" /\ \A x \in Jobs : x # j => state'[x] = state[x]
    BY <1>0, <1>8, <2>1 DEF SettledState, Live
  <2> QED
    BY <1>6, <1>8, <2>2
<1>9. CASE state[j] = "queued" /\ KickScheduler(InsertByPriority(queue, priority, j), activeJob, state)
  <2>1. \A x \in Jobs : x # j => /\ Place(x, queue, priority, question, state, timers, Calling, created)
                                 /\ state[x] = state[x] /\ timers'[x] = timers[x]
    BY <1>2, <1>3
  <2>2. Plain(j, priority, question) => j \notin ToSet(queue) /\ timers'[j] = 0 /\ j \notin Calling
    BY <1>2, <1>5
  <2>3. Sorted(queue, priority)
    BY DEF QueueInv, PlaceInv
  <2> DEFINE tm == timers'
  <2> HIDE DEF tm
  <2>4. PlaceInv(InsertByPriority(queue, priority, j), priority, question, state, tm, Calling, created)
    <3>1. /\ \A x \in Jobs : x # j => /\ Place(x, queue, priority, question, state, timers, Calling, created)
                                      /\ state[x] = state[x] /\ tm[x] = timers[x]
          /\ Plain(j, priority, question) => j \notin ToSet(queue) /\ tm[j] = 0 /\ j \notin Calling
      BY <2>1, <2>2 DEF tm
    <3> QED
      BY ONLY <1>0, <1>4, <1>9, <2>3, <3>1, j \in Jobs, InsertPlaces
  <2>5. InsertByPriority(queue, priority, j) \in Seq(Jobs)
    BY <1>0, InsertByPriorityType
  <2>6. PlaceInv(queue', priority, question, state', tm, Calling', created)
    BY <1>0, <1>1, <1>9, <2>4, <2>5, KickPlaces
  <2> QED
    BY <1>1, <2>6 DEF QueueInv, tm
<1>10. \/ state[j] # "queued" /\ UNCHANGED <<state, queue, open>>
       \/ state[j] = "queued" /\ Settle(j, "cancelled") /\ UNCHANGED <<queue, open>>
       \/ state[j] = "queued" /\ KickScheduler(InsertByPriority(queue, priority, j), activeJob, state)
  BY DEF BackoffFires, jobVars, slotVars
<1> QED
  BY <1>7, <1>8, <1>9, <1>10

\* QueueInv holds in every step, and a new job brings the backlog of prefetches
\* within its limit.
LEMMA QueueStep ==
  ASSUME JobTypes, SchedulerTypes, SlotInv, ListenInv, QueueInv, [Next]_vars
  PROVE  /\ QueueInv'
         /\ created' # created => Cardinality(Backgrounds(queue', priority')) <= MaxPendingBackground
<1>1. ASSUME UNCHANGED <<created, question, priority, queue, state, timers, open, ended>>
      PROVE  QueueInv' /\ created' = created
  BY <1>1 DEF QueueInv, Calling
<1>2. ASSUME NEW q \in Questions, Prefetch(q) \/ \E r \in Requests : Listen(r, q)
      PROVE  /\ QueueInv'
             /\ created' # created => Cardinality(Backgrounds(queue', priority')) <= MaxPendingBackground
  <2>1. PICK p \in Priorities, j \in Jobs : EnsureJob(q, p, j) /\ (p = "background" => q \in Prefetched)
    BY <1>2 DEF Prefetch, Listen, Priorities
  <2> QED
    BY <2>1, EnsurePlaces
<1>3. ASSUME NEW r, Pump(r) \/ PumpThrows(r) \/ Close(r) \/ AbortAllAndDrain \/ UNCHANGED vars
      PROVE  QueueInv' /\ created' = created
  BY <1>1, <1>3 DEF Pump, PumpThrows, Close, AbortAllAndDrain, vars, jobVars, slotVars, callVars
<1>4. ASSUME NEW c, ReceiveChunk(c) PROVE QueueInv' /\ created' = created
  BY <1>1, <1>4 DEF ReceiveChunk, slotVars, callVars
<1>5. ASSUME NEW c \in Calls, AttemptEnds(c) PROVE QueueInv' /\ created' = created
  <2>1. created' = created
    BY <1>5 DEF AttemptEnds, ReceiveEnd, AttemptSucceeds, AttemptCancelled, AttemptFails, AttemptRetries,
       AttemptFrame
  <2> QED
    BY <1>5, <2>1, AttemptPlaces
<1>6. ASSUME NEW c \in Calls, AttemptFinally(c) PROVE QueueInv' /\ created' = created
  <2>1. /\ UNCHANGED <<created, question, priority, ended, timers>>
        /\ \E a : KickScheduler(queue, a, state)
    BY <1>6 DEF AttemptFinally
  <2>2. queue \in Seq(Jobs) /\ state \in [Jobs -> States]
    BY DEF JobTypes, SchedulerTypes
  <2>3. PlaceInv(queue', priority, question, state', timers, Calling', created)
    BY <2>1, <2>2, KickPlaces DEF QueueInv
  <2> QED
    BY <2>1, <2>3 DEF QueueInv
<1>7. ASSUME NEW j \in Jobs, SettledThen(j) PROVE QueueInv' /\ created' = created
  BY <1>1, <1>7 DEF SettledThen, slotVars, callVars
<1>8. ASSUME NEW j \in Jobs, BackoffFires(j) PROVE QueueInv' /\ created' = created
  BY <1>8, BackoffPlaces DEF BackoffFires
<1>9. open \subseteq Calls
  BY DEF Calls
<1> QED
  BY <1>2, <1>3, <1>4, <1>5, <1>6, <1>7, <1>8, <1>9 DEF Next

-------------------------------------------------------------------------------
(* The idle scheduler *)

\* kickScheduler leaves the slot free only if the queue is empty.
LEMMA KickIdle ==
  ASSUME NEW q \in Seq(Jobs), NEW a, NEW s, KickScheduler(q, a, s)
  PROVE  activeJob' = NoJob => queue' = <<>>
<1>1. CASE a # NoJob
  BY <1>1 DEF KickScheduler
<1>2. CASE q = <<>>
  BY <1>2 DEF KickScheduler
<1>3. CASE a = NoJob /\ q # <<>>
  <2>1. Head(q) \in Jobs /\ activeJob' = Head(q)
    BY <1>3 DEF KickScheduler
  <2> QED
    BY <2>1, ConstantsAssumption DEF Jobs, NoJob
<1> QED
  BY <1>1, <1>2, <1>3

\* NoStall holds in every step: a promotion puts only such a job into the queue
\* of an idle scheduler as has its timer left.
LEMMA IdleStep ==
  ASSUME JobTypes, SchedulerTypes, SlotInv, ListenInv, QueueInv, NoStall, [Next]_vars
  PROVE  NoStall'
<1>0. queue \in Seq(Jobs) /\ state \in [Jobs -> States] /\ timers \in [Jobs -> Nat]
  BY DEF JobTypes, SchedulerTypes
<1>1. ASSUME UNCHANGED <<activeJob, queue, state, timers>> PROVE NoStall'
  BY <1>1 DEF NoStall
<1>2. ASSUME queue' = <<>> PROVE NoStall'
  BY <1>2 DEF NoStall
<1>3. ASSUME NEW q \in Seq(Jobs), NEW a, NEW s, KickScheduler(q, a, s) PROVE NoStall'
  <2>1. activeJob' = NoJob => queue' = <<>>
    BY <1>3, KickIdle
  <2> QED
    BY <1>2, <2>1 DEF NoStall
<1>4. ASSUME NEW q \in Questions, NEW p \in Priorities, NEW j \in Jobs, EnsureJob(q, p, j) PROVE NoStall'
  <2>1. UNCHANGED <<timers, ended>>
    BY <1>4 DEF EnsureJob
  <2>2. PICK reg : /\ reg \in {Without(Oldest(n)) : n \in Evictions}
                   /\ \/ reg[q] = j /\ j # NoJob /\ ReuseJob(j, p)
                      \/ CreateJob(j, q, p)
    BY <1>4 DEF EnsureJob
  <2>3. CASE reg[q] = j /\ j # NoJob /\ ReuseJob(j, p)
    <3>1. j <= created
      <4>1. \A S : Without(S)[q] \in {NoJob, registry[q]}
        BY DEF Without
      <4>2. registry[q] = j
        BY <2>2, <2>3, <4>1
      <4> QED
        BY <4>2 DEF ListenInv
    <3>2. ToSet(queue') \subseteq ToSet(queue) \cup {j} /\ (queue' # queue => state[j] = "queued")
      BY <2>1, <2>3, <3>1, ReusePlaces
    <3>3. UNCHANGED <<activeJob, state>>
      BY <2>3 DEF ReuseJob
    <3>4. state[j] = "queued" => timers[j] > 0 \/ j \in ToSet(queue)
      BY DEF QueueInv, PlaceInv, Place, SomePlace
    <3>5. activeJob = NoJob => \A x \in ToSet(queue) : state[x] = "queued" => timers[x] > 0
      BY DEF NoStall, ToSet
    <3>6. activeJob = NoJob => \A x \in ToSet(queue') : state[x] = "queued" => timers[x] > 0
      BY <3>2, <3>4, <3>5
    <3> QED
      BY <2>1, <3>3, <3>6 DEF NoStall, ToSet
  <2>4. CASE CreateJob(j, q, p)
    <3> DEFINE prio   == [priority EXCEPT ![j] = p]
               pushed == InsertByPriority(queue, prio, j)
               left   == AfterOverflow(pushed, prio)
    <3>1. \E s : KickScheduler(left, activeJob, s)
      BY <2>4 DEF CreateJob
    <3>2. pushed \in Seq(Jobs)
      BY <1>0, InsertByPriorityType
    <3>3. left \in Seq(Jobs)
      <4> HIDE DEF pushed, prio
      <4> QED
        BY <3>2, AfterOverflowType
    <3> HIDE DEF left
    <3> QED
      BY <1>3, <3>1, <3>3
  <2> QED
    BY <2>2, <2>3, <2>4
<1>5. ASSUME NEW q \in Questions, Prefetch(q) \/ \E r \in Requests : Listen(r, q) PROVE NoStall'
  BY <1>4, <1>5 DEF Prefetch, Listen, Priorities
<1>6. ASSUME NEW r, Pump(r) \/ PumpThrows(r) \/ Close(r) \/ AbortAllAndDrain \/ UNCHANGED vars
      PROVE  NoStall'
  BY <1>1, <1>6 DEF Pump, PumpThrows, Close, AbortAllAndDrain, vars, jobVars, slotVars
<1>7. ASSUME NEW c, ReceiveChunk(c) PROVE NoStall'
  BY <1>1, <1>7 DEF ReceiveChunk, slotVars
<1>8. ASSUME NEW c \in Calls, AttemptEnds(c) PROVE NoStall'
  <2>1. activeJob' = activeJob
    BY <1>8 DEF AttemptEnds, ReceiveEnd, AttemptSucceeds, AttemptCancelled, AttemptFails, AttemptRetries,
       AttemptFrame, slotVars
  <2>2. activeJob # NoJob
    BY DEF SlotInv, OneSynthesisAtATime
  <2> QED
    BY <2>1, <2>2 DEF NoStall
<1>9. ASSUME NEW c \in Calls, AttemptFinally(c) PROVE NoStall'
  BY <1>0, <1>3, <1>9 DEF AttemptFinally
<1>10. ASSUME NEW j \in Jobs, SettledThen(j) PROVE NoStall'
  BY <1>1, <1>10 DEF SettledThen, slotVars
<1>11. ASSUME NEW j \in Jobs, BackoffFires(j) PROVE NoStall'
  <2>1. timers' = [timers EXCEPT ![j] = timers[j] - 1]
    BY <1>11 DEF BackoffFires
  <2>2. \A x \in Jobs : x # j => timers'[x] = timers[x]
    BY <1>0, <2>1
  <2>3. ASSUME UNCHANGED <<queue, activeJob>>, state'[j] # "queued",
               \A x \in Jobs : x # j => state'[x] = state[x]
        PROVE  NoStall'
    <3>1. \A i \in DOMAIN queue : queue[i] \in Jobs
      BY <1>0
    <3> QED
      BY <2>2, <2>3, <3>1 DEF NoStall
  <2>4. CASE state[j] # "queued" /\ UNCHANGED <<state, queue, activeJob>>
    BY <2>3, <2>4
  <2>5. CASE Settle(j, "cancelled") /\ state[j] = "queued" /\ UNCHANGED <<queue, activeJob>>
    <3>1. state' = SettledState({j}, "cancelled")
      BY <2>5 DEF Settle
    <3>2. state'[j] = "cancelled" /\ \A x \in Jobs : x # j => state'[x] = state[x]
      BY <1>0, <2>5, <3>1 DEF SettledState, Live
    <3> QED
      BY <2>3, <2>5, <3>2
  <2>6. CASE KickScheduler(InsertByPriority(queue, priority, j), activeJob, state)
    BY <1>0, <1>3, <2>6, InsertByPriorityType
  <2> QED
    BY <1>11, <2>4, <2>5, <2>6 DEF BackoffFires, jobVars, slotVars
<1>12. open \subseteq Calls
  BY DEF Calls
<1> QED
  BY <1>5, <1>6, <1>7, <1>8, <1>9, <1>10, <1>11, <1>12 DEF Next

-------------------------------------------------------------------------------
(* The queue's theorems *)

\* The inductive invariant behind them.
SchedulerInv == SlotInv /\ ListenInv /\ QueueInv

LEMMA SchedulerInvHolds == Spec => []SchedulerInv
<1>1. Init => SchedulerInv
  <2> SUFFICES ASSUME Init PROVE SchedulerInv
    OBVIOUS
  <2>1. SlotInv
    BY DEF Init, SlotInv, OneSynthesisAtATime, Calls
  <2>2. ListenInv
    BY ConstantsAssumption DEF Init, ListenInv, NoJob
  <2>3. QueueInv
    <3>1. \A j \in Jobs : j \in Nat /\ j > 0
      BY ConstantsAssumption DEF Jobs
    <3>2. Calling = {} /\ ToSet(queue) = {} /\ DOMAIN queue = {}
      BY DEF Init, Calling, ToSet
    <3> QED
      BY <3>1, <3>2 DEF Init, QueueInv, PlaceInv, Place, NoPlace, OnePlace, SomePlace, Sorted, Once
  <2> QED
    BY <2>1, <2>2, <2>3 DEF SchedulerInv
<1>2. JobTypes /\ SchedulerTypes /\ SubscriberTypes /\ SchedulerInv /\ [Next]_vars => SchedulerInv'
  BY SlotStep, ListenStep, QueueStep DEF SchedulerInv
<1> QED
  BY <1>1, <1>2, Typing, TypeParts, PTL DEF Spec

\* ForegroundFirst: however jobs are inserted, promoted, retried and dropped, a
\* question somebody waits to hear is never behind a prefetch.
THEOREM WaitersFirst == Spec => []ForegroundFirst
<1>1. QueueInv => ForegroundFirst
  BY DEF QueueInv, PlaceInv, Sorted, ForegroundFirst
<1> QED
  BY <1>1, SchedulerInvHolds, PTL DEF SchedulerInv

\* NoLostJob: a queued job is in the queue or has a timer armed, a job promoted in its
\* backoff perhaps both, and every running one has a call that will return.
THEOREM NothingIsLost == Spec => []NoLostJob
<1>1. QueueInv => NoLostJob
  BY DEF QueueInv, PlaceInv, Place, SomePlace, Calling, ToSet, NoLostJob
<1> QED
  BY <1>1, SchedulerInvHolds, PTL DEF SchedulerInv

\* NoStall: with the slot free nothing is in the queue but jobs promoted in their
\* backoff; such a job does wait there, until its timer fires or somebody else kicks
\* the scheduler.
THEOREM IdleHasNothingToStart == Spec => []NoStall
<1>1. Init => NoStall
  BY DEF Init, NoStall
<1>2. JobTypes /\ SchedulerTypes /\ SchedulerInv /\ NoStall /\ [Next]_vars => NoStall'
  BY IdleStep DEF SchedulerInv
<1> QED
  BY <1>1, <1>2, SchedulerInvHolds, Typing, TypeParts, PTL DEF Spec

\* AdmissionTrimsBacklog: a job that is created leaves at most
\* MaxPendingBackground prefetches in the queue, whatever retries put back before.
THEOREM BacklogIsTrimmed == Spec => AdmissionTrimsBacklog
<1> DEFINE Trims == created' # created =>
                      Cardinality(Backgrounds(queue', priority')) <= MaxPendingBackground
<1>1. JobTypes /\ SchedulerTypes /\ SchedulerInv /\ [Next]_vars => [Trims]_vars
  BY QueueStep DEF SchedulerInv
<1> QED
  BY <1>1, SchedulerInvHolds, Typing, TypeParts, PTL DEF Spec, AdmissionTrimsBacklog

-------------------------------------------------------------------------------
(* The registry and the promises *)

\* What the state, the promise and the registration of job j have to do with each
\* other: an unsettled job is the registered one of its question; a registered
\* job whose settlement was handled was done; and a job never promoted out of its
\* backoff is live exactly until it settles.
Shared(j, prio, quest, s, pr, da, reg, made) ==
  /\ j <= made => quest[j] \in Questions /\ s[j] # "none"
  /\ j > made => pr[j] = "pending" /\ da[j] = 0
  /\ j <= made /\ pr[j] = "pending" => s[j] \in Live /\ reg[quest[j]] = j
  /\ j <= made /\ pr[j] = "handled" /\ reg[quest[j]] = j => da[j] > 0
  /\ \A q \in Questions : reg[q] = j => quest[j] = q
  /\ s[j] = "done" => da[j] > 0
  /\ Plain(j, prio, quest) => /\ s[j] \in Live => pr[j] = "pending"
                              /\ da[j] > 0 => s[j] = "done"

RegistryInv ==
  \A j \in Jobs : Shared(j, priority, question, state, promise, doneAt, registry, created)

\* kickScheduler changes no job but the one it starts.
LEMMA KickShared ==
  ASSUME NEW q \in Seq(Jobs), NEW a, NEW s \in [Jobs -> States], KickScheduler(q, a, s), NEW x \in Jobs
  PROVE  state'[x] = s[x] \/ (x \in ToSet(q) /\ state'[x] = "running")
<1>1. CASE state' = s
  BY <1>1
<1>2. CASE q # <<>> /\ state' = [s EXCEPT ![Head(q)] = "running"]
  <2>1. Head(q) \in ToSet(q)
    BY <1>2 DEF ToSet
  <2> QED
    BY <1>2, <2>1
<1> QED
  BY <1>1, <1>2 DEF KickScheduler

\* Eviction takes only done jobs out of the registry.
LEMMA EvictShared ==
  ASSUME JobTypes, RegistryInv, NEW reg, reg \in {Without(Oldest(n)) : n \in Evictions}
  PROVE  /\ reg \in [Questions -> Jobs \cup {NoJob}]
         /\ \A q \in Questions : reg[q] = registry[q] \/ (reg[q] = NoJob /\ state[registry[q]] = "done")
         /\ \A j \in Jobs : Shared(j, priority, question, state, promise, doneAt, reg, created)
<1>1. PICK n : reg = Without(Oldest(n))
  OBVIOUS
<1>2. \A j \in Oldest(n) : state[j] = "done"
  BY DEF Oldest, DoneCached
<1>3. /\ reg \in [Questions -> Jobs \cup {NoJob}]
      /\ \A q \in Questions : reg[q] = registry[q] \/ (reg[q] = NoJob /\ state[registry[q]] = "done")
  BY <1>1, <1>2 DEF Without, JobTypes
<1>4. ASSUME NEW j \in Jobs
      PROVE  Shared(j, priority, question, state, promise, doneAt, reg, created)
  <2>1. Shared(j, priority, question, state, promise, doneAt, registry, created) /\ j # NoJob
    BY ConstantsAssumption DEF RegistryInv, Jobs, NoJob
  <2>2. \A q \in Questions : reg[q] = j => registry[q] = j
    BY <1>3, <2>1
  <2>3. \A q \in Questions : registry[q] = j /\ state[j] # "done" => reg[q] = j
    BY <1>3
  <2> QED
    BY <2>1, <2>2, <2>3 DEF Shared, Live
<1> QED
  BY <1>3, <1>4

\* A request that reuses a job, or creates one.
LEMMA EnsureShared ==
  ASSUME JobTypes, SchedulerTypes, ListenInv, QueueInv, RegistryInv, NEW q \in Questions,
         NEW p \in Priorities, NEW j \in Jobs, EnsureJob(q, p, j), p = "background" => q \in Prefetched
  PROVE  RegistryInv'
<1>0. /\ created \in Nat /\ Jobs \subseteq Nat \ {0}
      /\ state \in [Jobs -> States] /\ priority \in [Jobs -> Priorities]
      /\ promise \in [Jobs -> {"pending", "resolved", "handled"}]
      /\ question \in [Jobs -> Questions \cup {NoQuestion}]
  BY ConstantsAssumption DEF JobTypes, Jobs
<1>1. UNCHANGED <<doneAt, timers, ended>>
  BY DEF EnsureJob
<1>2. PICK reg : /\ reg \in {Without(Oldest(n)) : n \in Evictions}
                 /\ \/ registry' = reg /\ ReuseJob(j, p)
                    \/ /\ reg[q] = NoJob /\ j = created + 1
                       /\ registry' = [reg EXCEPT ![q] = j] /\ CreateJob(j, q, p)
  BY DEF EnsureJob
<1>3. /\ reg \in [Questions -> Jobs \cup {NoJob}]
      /\ \A k \in Questions : reg[k] = registry[k] \/ (reg[k] = NoJob /\ state[registry[k]] = "done")
      /\ \A x \in Jobs : Shared(x, priority, question, state, promise, doneAt, reg, created)
  BY <1>2, EvictShared
<1>4. CASE registry' = reg /\ ReuseJob(j, p)
  <2>1. /\ UNCHANGED <<created, question, state, promise>>
        /\ priority' = [priority EXCEPT ![j] =
             IF p = "foreground" /\ priority[j] = "background" THEN "foreground" ELSE priority[j]]
    BY <1>4 DEF ReuseJob
  <2>2. \A x \in Jobs : priority'[x] = "background" => priority[x] = "background"
    BY <1>0, <2>1
  <2> QED
    BY <1>1, <1>3, <1>4, <2>1, <2>2 DEF RegistryInv, Shared, Plain
<1>5. CASE reg[q] = NoJob /\ j = created + 1 /\ registry' = [reg EXCEPT ![q] = j] /\ CreateJob(j, q, p)
  <2>1. \A x \in Jobs : CreateMoves(x, j)
    BY <1>1, <1>5, CreatePlaces
  <2>2. created' = j /\ question' = [question EXCEPT ![j] = q] /\ priority' = [priority EXCEPT ![j] = p]
    BY <1>5 DEF CreateJob
  <2>3. \A k \in Questions : registry'[k] = IF k = q THEN j ELSE reg[k]
    BY <1>3, <1>5
  <2>4. \A x \in Jobs : x # j => question'[x] = question[x] /\ priority'[x] = priority[x]
    BY <1>0, <2>2
  <2>5. question'[j] = q
    BY <1>0, <2>2
  <2>6. ASSUME NEW x \in Jobs
        PROVE  Shared(x, priority', question', state', promise', doneAt, registry', j)
    <3>1. Shared(x, priority, question, state, promise, doneAt, reg, created)
      BY <1>3
    <3>2. CreateMoves(x, j)
      BY <2>1
    <3>3. CASE x = j
      <4>1. promise[j] = "pending" /\ doneAt[j] = 0 /\ state'[j] \in Live /\ promise'[j] = "pending"
        BY <1>0, <1>5, <3>1, <3>2, <3>3 DEF Shared, CreateMoves
      <4>2. ~(j > j) /\ j <= j /\ ~(doneAt[j] > 0)
        BY <1>0, <4>1
      <4>3. \A k \in Questions : registry'[k] = j => k = q
        <5>1. ASSUME NEW k \in Questions, reg[k] = j PROVE FALSE
          <6>1. registry[k] = j
            BY <1>0, <1>3, <5>1 DEF NoJob
          <6> QED
            BY <1>0, <1>5, <6>1 DEF ListenInv
        <5> QED
          BY <2>3, <5>1
      <4> QED
        BY <2>3, <2>5, <3>3, <4>1, <4>2, <4>3 DEF Shared, Live
    <3>4. CASE x # j
      <4>1. (x <= j <=> x <= created) /\ (x > j => x > created) /\ ~(x <= created /\ x > created)
        BY <1>0, <1>5, <3>4
      <4>2. Plain(x, priority', question') <=> Plain(x, priority, question)
        BY <2>4, <3>4 DEF Plain
      <4>3. \A k \in Questions : registry'[k] = x => reg[k] = x
        BY <2>3, <3>4
      <4>4. x <= created /\ promise[x] = "pending" => registry'[question[x]] = x
        BY <1>0, <1>5, <2>3, <3>1 DEF Shared, NoJob
      <4>5. CASE state'[x] = state[x] /\ promise'[x] = promise[x]
        BY <2>4, <3>1, <3>4, <4>1, <4>2, <4>3, <4>4, <4>5 DEF Shared
      <4>6. CASE /\ priority[x] = "background" /\ state[x] = "queued" /\ state'[x] = "cancelled"
                 /\ promise'[x] = IF promise[x] = "pending" THEN "resolved" ELSE promise[x]
        <5>1. x <= created /\ promise[x] = "pending" /\ ~(doneAt[x] > 0)
          <6>1. Place(x, queue, priority, question, state, timers, Calling, created)
            BY DEF QueueInv, PlaceInv
          <6>2. ~(x > created)
            BY <4>6, <6>1 DEF Place, NoPlace
          <6>3. x <= created
            BY <1>0, <6>2
          <6> QED
            BY <3>1, <4>6, <6>3 DEF Shared, Plain, Live
        <5>2. promise'[x] = "resolved" /\ state'[x] = "cancelled"
          BY <4>6, <5>1
        <5> QED
          BY <2>4, <3>1, <3>4, <4>1, <4>2, <4>3, <5>1, <5>2 DEF Shared, Live
      <4>7. CASE /\ x <= created /\ (Plain(x, priority, question) => state[x] = "queued")
                 /\ state'[x] = "running" /\ promise'[x] = promise[x]
        BY <2>4, <3>1, <3>4, <4>1, <4>2, <4>3, <4>4, <4>7 DEF Shared, Live
      <4> QED
        BY <3>2, <3>4, <4>5, <4>6, <4>7 DEF CreateMoves
    <3> QED
      BY <3>3, <3>4
  <2> QED
    BY <1>1, <2>2, <2>6 DEF RegistryInv
<1> QED
  BY <1>2, <1>4, <1>5

\* Settling a live job resolves its promise; a job that is not live is as it was,
\* except that a late success dates it again.
LEMMA SettleShared ==
  ASSUME JobTypes, RegistryInv, NEW j \in Jobs, NEW result \in Settled, Settle(j, result),
         j <= created, Plain(j, priority, question) => state[j] \in Live,
         UNCHANGED <<created, question, priority, registry>>
  PROVE  RegistryInv'
<1>0. /\ state \in [Jobs -> States] /\ promise \in [Jobs -> {"pending", "resolved", "handled"}]
      /\ doneAt \in [Jobs -> Nat] /\ clock \in Nat /\ created \in Nat /\ Jobs \subseteq Nat
  BY ConstantsAssumption DEF JobTypes, Jobs
<1>1. /\ state' = SettledState({j}, result) /\ promise' = ResolvedPromise({j})
      /\ doneAt' = [doneAt EXCEPT ![j] = IF result = "done" THEN clock + 1 ELSE doneAt[j]]
  BY DEF Settle
<1>2. ASSUME NEW x \in Jobs
      PROVE  /\ state'[x] = IF x = j /\ state[x] \in Live THEN result ELSE state[x]
             /\ promise'[x] = IF x = j /\ state[x] \in Live /\ promise[x] = "pending"
                              THEN "resolved" ELSE promise[x]
             /\ doneAt'[x] = IF x = j /\ result = "done" THEN clock + 1 ELSE doneAt[x]
  BY <1>0, <1>1 DEF SettledState, ResolvedPromise
<1>3. ASSUME NEW x \in Jobs
      PROVE  Shared(x, priority, question, state', promise', doneAt', registry, created)
  <2>1. Shared(x, priority, question, state, promise, doneAt, registry, created)
    BY DEF RegistryInv
  <2>2. CASE x # j
    BY <1>2, <2>1, <2>2 DEF Shared
  <2>3. CASE x = j
    <3>1. ~(j > created) /\ clock + 1 > 0 /\ doneAt[j] \in Nat
      BY <1>0
    <3>2. result \notin Live /\ result # "none"
      BY DEF Settled, Live
    <3>3. promise'[j] # "pending"
      BY <1>2, <2>1, <2>3 DEF Shared
    <3>4. promise'[j] = "handled" => promise[j] = "handled"
      BY <1>2
    <3>5. doneAt[j] > 0 => doneAt'[j] > 0
      BY <1>2, <3>1
    <3>6. state'[j] = "done" => doneAt'[j] > 0
      BY <1>2, <2>1, <2>3, <3>1, <3>5 DEF Shared
    <3>7. Plain(j, priority, question) => state'[j] = result /\ (doneAt'[j] > 0 => result = "done")
      BY <1>2, <2>1, <2>3 DEF Shared, Live
    <3> QED
      BY <1>2, <2>1, <2>3, <3>1, <3>2, <3>3, <3>4, <3>5, <3>6, <3>7 DEF Shared
  <2> QED
    BY <2>2, <2>3
<1> QED
  BY <1>3 DEF RegistryInv

\* An attempt that returns.
LEMMA AttemptShared ==
  ASSUME JobTypes, SchedulerTypes, QueueInv, RegistryInv, NEW c \in Calls, AttemptEnds(c)
  PROVE  RegistryInv'
<1> DEFINE j == c[1]
<1>1. UNCHANGED <<created, question, priority, registry>>
  BY DEF AttemptEnds, ReceiveEnd, AttemptSucceeds, AttemptCancelled, AttemptFails, AttemptRetries,
     AttemptFrame, jobVars
<1>2. CASE ReceiveEnd(c)
  BY <1>1, <1>2 DEF ReceiveEnd, jobVars, RegistryInv
<1>3. j \in Jobs /\ clock \in Nat /\ state \in [Jobs -> States]
      /\ created \in Nat /\ Jobs \subseteq Nat
  BY ConstantsAssumption DEF Calls, JobTypes, SchedulerTypes, Jobs
<1>4. ASSUME c \in open \cup ended
      PROVE  j <= created /\ (Plain(j, priority, question) => state[j] = "running")
  <2>1. j \in Calling
    BY <1>4 DEF Calling
  <2>2. Place(j, queue, priority, question, state, timers, Calling, created)
    BY <1>3 DEF QueueInv, PlaceInv
  <2>3. ~(j > created)
    BY ONLY <2>1, <2>2 DEF Place, NoPlace
  <2>4. Plain(j, priority, question) => state[j] = "running"
    BY ONLY <2>1, <2>2 DEF Place, OnePlace
  <2>5. j \in Nat /\ created \in Nat
    BY <1>3
  <2> HIDE DEF j
  <2> QED
    BY <2>3, <2>4, <2>5
<1>5. CASE AttemptSucceeds(c) \/ AttemptCancelled(c) \/ AttemptFails(c)
  <2>1. PICK result \in Settled : Settle(j, result)
    BY <1>5 DEF AttemptSucceeds, AttemptCancelled, AttemptFails, Settled
  <2>2. c \in open \cup ended
    BY <1>5 DEF AttemptSucceeds, AttemptCancelled, AttemptFails
  <2>3. j <= created /\ (Plain(j, priority, question) => state[j] \in Live)
    BY <1>4, <2>2 DEF Live
  <2> QED
    BY <1>1, <1>3, <2>1, <2>3, SettleShared
<1>6. CASE AttemptRetries(c)
  <2>1. /\ state' = [state EXCEPT ![j] = "queued"] /\ UNCHANGED <<promise, doneAt>>
        /\ c \in open \cup ended
    BY <1>6 DEF AttemptRetries
  <2>2. ASSUME NEW x \in Jobs
        PROVE  Shared(x, priority, question, state', promise, doneAt, registry, created)
    <3>1. Shared(x, priority, question, state, promise, doneAt, registry, created)
      BY DEF RegistryInv
    <3>2. state'[x] = IF x = j THEN "queued" ELSE state[x]
      BY <1>3, <2>1
    <3> QED
      BY <1>4, <2>1, <3>1, <3>2 DEF Shared, Live
  <2> QED
    BY <1>1, <2>1, <2>2 DEF RegistryInv
<1> QED
  BY <1>2, <1>5, <1>6 DEF AttemptEnds

\* The reaction to a settlement takes a job that is not done out of the registry.
LEMMA SettledThenShared ==
  ASSUME JobTypes, RegistryInv, NEW j \in Jobs, SettledThen(j) PROVE RegistryInv'
<1>0. /\ registry \in [Questions -> Jobs \cup {NoJob}]
      /\ promise \in [Jobs -> {"pending", "resolved", "handled"}]
      /\ Jobs \subseteq Nat \ {0} /\ created \in Nat
  BY ConstantsAssumption DEF JobTypes, Jobs
<1>1. /\ promise[j] = "resolved" /\ promise' = [promise EXCEPT ![j] = "handled"]
      /\ registry' = IF state[j] # "done" /\ registry[question[j]] = j
                     THEN [registry EXCEPT ![question[j]] = NoJob] ELSE registry
      /\ UNCHANGED <<created, question, state, priority, doneAt>>
  BY DEF SettledThen
<1>2. \A k \in Questions : registry'[k] = IF k = question[j] /\ state[j] # "done" /\ registry[k] = j
                                          THEN NoJob ELSE registry[k]
  BY <1>0, <1>1
<1>3. \A x \in Jobs : promise'[x] = IF x = j THEN "handled" ELSE promise[x]
  BY <1>0, <1>1
<1>4. ASSUME NEW x \in Jobs
      PROVE  Shared(x, priority, question, state, promise', doneAt, registry', created)
  <2>1. Shared(x, priority, question, state, promise, doneAt, registry, created)
    BY DEF RegistryInv
  <2>2. \A k \in Questions : registry'[k] = x => registry[k] = x
    BY <1>0, <1>2 DEF NoJob
  <2>3. CASE x # j
    <3>1. \A k \in Questions : registry[k] = x => registry'[k] = x
      BY <1>2, <2>3
    <3> QED
      BY <1>3, <2>1, <2>2, <2>3, <3>1 DEF Shared
  <2>4. CASE x = j
    <3>1. ~(j > created) /\ j <= created
      <4>1. ~(j > created)
        BY <1>1, <2>1, <2>4 DEF Shared
      <4> QED
        BY <1>0, <4>1
    <3>2. promise'[j] = "handled" /\ (Plain(j, priority, question) => state[j] \notin Live)
      BY <1>1, <1>3, <2>1, <2>4 DEF Shared
    <3>3. registry'[question[j]] = j => doneAt[j] > 0
      BY <1>0, <1>2, <2>1, <2>4, <3>1 DEF Shared, NoJob
    <3> QED
      BY <2>1, <2>2, <2>4, <3>1, <3>2, <3>3 DEF Shared
  <2> QED
    BY <2>3, <2>4
<1> QED
  BY <1>1, <1>4 DEF RegistryInv

\* A kick that starts a job from the queue, or from its timer.
LEMMA KickRegistry ==
  ASSUME JobTypes, RegistryInv, NEW q \in Seq(Jobs), NEW a, KickScheduler(q, a, state),
         \A x \in ToSet(q) : x <= created /\ (Plain(x, priority, question) => state[x] = "queued"),
         UNCHANGED <<created, question, priority, promise, doneAt, registry>>
  PROVE  RegistryInv'
<1>0. state \in [Jobs -> States] /\ created \in Nat /\ Jobs \subseteq Nat
  BY ConstantsAssumption DEF JobTypes, Jobs
<1>1. ASSUME NEW x \in Jobs
      PROVE  Shared(x, priority, question, state', promise, doneAt, registry, created)
  <2>1. Shared(x, priority, question, state, promise, doneAt, registry, created)
    BY DEF RegistryInv
  <2>2. state'[x] = state[x] \/ (x \in ToSet(q) /\ state'[x] = "running")
    BY <1>0, KickShared
  <2>3. \/ state'[x] = state[x]
        \/ /\ x <= created /\ (Plain(x, priority, question) => state[x] = "queued")
           /\ state'[x] = "running"
    BY <2>2
  <2>4. ~(x <= created /\ x > created)
    BY <1>0
  <2> DEFINE s2 == state'
  <2> HIDE DEF s2
  <2>5. Shared(x, priority, question, s2, promise, doneAt, registry, created)
    BY <2>1, <2>3, <2>4 DEF Shared, Live, s2
  <2> QED
    BY <2>5 DEF s2
<1> QED
  BY <1>1 DEF RegistryInv

\* RegistryInv holds in every step.
LEMMA RegistryStep ==
  ASSUME JobTypes, SchedulerTypes, SchedulerInv, RegistryInv, [Next]_vars PROVE RegistryInv'
<1>0. /\ queue \in Seq(Jobs) /\ state \in [Jobs -> States] /\ created \in Nat /\ Jobs \subseteq Nat
      /\ SlotInv /\ ListenInv /\ QueueInv
  BY ConstantsAssumption DEF JobTypes, SchedulerTypes, Jobs, SchedulerInv
<1>1. ASSUME UNCHANGED <<created, question, priority, state, promise, doneAt, registry>>
      PROVE  RegistryInv'
  BY <1>1 DEF RegistryInv
<1>2. ASSUME NEW q \in Questions, Prefetch(q) \/ \E r \in Requests : Listen(r, q) PROVE RegistryInv'
  <2>1. PICK p \in Priorities, j \in Jobs : EnsureJob(q, p, j) /\ (p = "background" => q \in Prefetched)
    BY <1>2 DEF Prefetch, Listen, Priorities
  <2> QED
    BY <1>0, <2>1, EnsureShared
<1>3. ASSUME NEW r, Pump(r) \/ PumpThrows(r) \/ Close(r) \/ AbortAllAndDrain \/ UNCHANGED vars
      PROVE  RegistryInv'
  BY <1>1, <1>3 DEF Pump, PumpThrows, Close, AbortAllAndDrain, vars, jobVars
<1>4. ASSUME NEW c, ReceiveChunk(c) PROVE RegistryInv'
  BY <1>1, <1>4 DEF ReceiveChunk
<1>5. ASSUME NEW c \in Calls, AttemptEnds(c) PROVE RegistryInv'
  BY <1>0, <1>5, AttemptShared
<1>6. \A x \in Jobs : Place(x, queue, priority, question, state, timers, Calling, created)
  BY <1>0 DEF QueueInv, PlaceInv
<1>7. \A x \in ToSet(queue) :
        x \in Jobs /\ x <= created /\ (Plain(x, priority, question) => state[x] = "queued")
  <2> SUFFICES ASSUME NEW x \in ToSet(queue)
               PROVE  x \in Jobs /\ x <= created /\ (Plain(x, priority, question) => state[x] = "queued")
    OBVIOUS
  <2>1. x \in Jobs
    BY <1>0 DEF ToSet
  <2>2. ~(x > created) /\ (Plain(x, priority, question) => state[x] = "queued")
    BY <1>6, <2>1 DEF Place, NoPlace, OnePlace
  <2> QED
    BY <1>0, <2>1, <2>2
<1>8. ASSUME NEW c \in Calls, AttemptFinally(c) PROVE RegistryInv'
  <2>1. /\ UNCHANGED <<created, question, priority, promise, doneAt, registry>>
        /\ \E a : KickScheduler(queue, a, state)
    BY <1>8 DEF AttemptFinally
  <2> QED
    BY <1>0, <1>7, <2>1, KickRegistry
<1>9. ASSUME NEW j \in Jobs, SettledThen(j) PROVE RegistryInv'
  BY <1>9, SettledThenShared
<1>10. ASSUME NEW j \in Jobs, BackoffFires(j) PROVE RegistryInv'
  <2>1. UNCHANGED <<created, registry, question, priority>> /\ timers[j] > 0
    BY <1>10 DEF BackoffFires, jobVars
  <2>2. j <= created
    <3>1. timers[j] \in Nat
      BY DEF JobTypes
    <3>2. ~(j > created)
      BY <1>6, <2>1, <3>1 DEF Place, NoPlace
    <3> QED
      BY <1>0, <3>2
  <2>3. CASE UNCHANGED <<state, promise, doneAt>>
    BY <1>1, <2>1, <2>3
  <2>4. CASE state[j] = "queued" /\ Settle(j, "cancelled")
    BY <2>1, <2>2, <2>4, SettleShared DEF Settled, Live
  <2>5. CASE /\ state[j] = "queued" /\ UNCHANGED <<promise, doneAt>>
             /\ KickScheduler(InsertByPriority(queue, priority, j), activeJob, state)
    <3> DEFINE ins == InsertByPriority(queue, priority, j)
    <3>1. Sorted(queue, priority) /\ priority \in [Jobs -> Priorities]
      BY <1>0 DEF QueueInv, PlaceInv, JobTypes
    <3>2. ins \in Seq(Jobs) /\ ToSet(ins) = ToSet(queue) \cup {j}
      BY <1>0, <3>1, InsertKeeps
    <3> HIDE DEF ins
    <3>3. \A x \in ToSet(ins) : x <= created /\ (Plain(x, priority, question) => state[x] = "queued")
      BY <1>7, <2>2, <2>5, <3>2
    <3>4. KickScheduler(ins, activeJob, state)
      BY <2>5 DEF ins
    <3> QED
      BY <2>1, <2>5, <3>2, <3>3, <3>4, KickRegistry
  <2> QED
    BY <1>10, <2>3, <2>4, <2>5 DEF BackoffFires, jobVars
<1>11. open \subseteq Calls
  BY DEF Calls
<1> QED
  BY <1>2, <1>3, <1>4, <1>5, <1>8, <1>9, <1>10, <1>11 DEF Next

\* RegistryInv holds in every state.
LEMMA RegistryInvHolds == Spec => []RegistryInv
<1>1. Init => RegistryInv
  <2>1. \A j \in Jobs : j \in Nat /\ j > 0
    BY ConstantsAssumption DEF Jobs
  <2> QED
    BY <2>1 DEF Init, RegistryInv, Shared, Live, NoJob
<1>2. JobTypes /\ SchedulerTypes /\ SchedulerInv /\ RegistryInv /\ [Next]_vars => RegistryInv'
  BY RegistryStep
<1> QED
  BY <1>1, <1>2, SchedulerInvHolds, Typing, TypeParts, PTL DEF Spec

\* OneLiveJobPerQuestion: of the jobs of a question that have not settled before,
\* at most one is live; for a question that is never prefetched, of all its jobs.
THEOREM RequestsShareJobs == Spec => []OneLiveJobPerQuestion
<1>1. JobTypes /\ SchedulerInv /\ RegistryInv => OneLiveJobPerQuestion
  <2> SUFFICES ASSUME JobTypes, SchedulerInv, RegistryInv, NEW j \in Jobs, NEW k \in Jobs,
                      state[j] \in Live, state[k] \in Live, question[j] = question[k],
                      question[j] \in Prefetched => promise[j] = "pending" /\ promise[k] = "pending"
               PROVE  j = k
    BY DEF OneLiveJobPerQuestion
  <2>1. ASSUME NEW x \in {j, k} PROVE x <= created /\ promise[x] = "pending"
    <3>1. /\ Shared(x, priority, question, state, promise, doneAt, registry, created)
          /\ Place(x, queue, priority, question, state, timers, Calling, created)
          /\ state[x] \in Live
      BY <2>1 DEF SchedulerInv, QueueInv, PlaceInv, RegistryInv
    <3>2. promise[x] = "pending"
      BY <2>1, <3>1 DEF Shared, Plain
    <3>3. ~(x > created)
      BY <3>1 DEF Place, NoPlace, Live
    <3>4. x \in Nat /\ created \in Nat
      BY ConstantsAssumption DEF Jobs, JobTypes
    <3> QED
      BY <3>2, <3>3, <3>4
  <2>2. registry[question[j]] = j /\ registry[question[k]] = k
    BY <2>1 DEF RegistryInv, Shared
  <2> QED
    BY <2>2
<1> QED
  BY <1>1, SchedulerInvHolds, RegistryInvHolds, Typing, TypeParts, PTL

\* FailuresAreForgotten: a registered job that failed or was cancelled is about
\* to be taken out of the registry.
THEOREM FailuresAreNotCached == Spec => []FailuresAreForgotten
<1>1. JobTypes /\ SchedulerInv /\ RegistryInv => FailuresAreForgotten
  <2> SUFFICES ASSUME JobTypes, SchedulerInv, RegistryInv, NEW q \in Questions,
                      registry[q] # NoJob, state[registry[q]] \in {"failed", "cancelled"},
                      q \in Prefetched => doneAt[registry[q]] = 0
               PROVE  promise[registry[q]] = "resolved"
    BY DEF FailuresAreForgotten
  <2> DEFINE j == registry[q]
  <2>1. /\ j \in Jobs /\ j <= created /\ created \in Nat /\ doneAt[j] \in Nat
        /\ promise[j] \in {"pending", "resolved", "handled"}
    BY ConstantsAssumption DEF JobTypes, SchedulerInv, ListenInv
  <2>2. Shared(j, priority, question, state, promise, doneAt, registry, created)
    BY <2>1 DEF RegistryInv
  <2> HIDE DEF j
  <2>3. question[j] = q /\ registry[question[j]] = j
    BY <2>2 DEF Shared, j
  <2>4. promise[j] # "pending"
    BY <2>1, <2>2 DEF Shared, Live, j
  <2>5. promise[j] # "handled"
    <3> SUFFICES ASSUME promise[j] = "handled" PROVE FALSE
      OBVIOUS
    <3>1. doneAt[j] > 0
      BY <2>1, <2>2, <2>3 DEF Shared
    <3>2. q \notin Prefetched
      BY <2>1, <3>1 DEF j
    <3> QED
      BY <2>2, <2>3, <3>1, <3>2 DEF Shared, Plain, j
  <2> QED
    BY <2>1, <2>4, <2>5 DEF j
<1> QED
  BY <1>1, SchedulerInvHolds, RegistryInvHolds, Typing, TypeParts, PTL

-------------------------------------------------------------------------------
(* Whose audio a job holds *)

\* Its first life: not a prefetched job that has settled.
Fresh(x, quest, pr) == quest[x] \in Prefetched => pr[x] = "pending"

\* In its first life a job waits without audio, all the audio it has is of its
\* latest call, and the job a call is made for is running.
Rendered(x, quest, pr, s, ch, att, calling) ==
  Fresh(x, quest, pr) =>
    /\ s[x] \in {"none", "queued"} => ch[x] = <<>>
    /\ \A i \in DOMAIN ch[x] : ch[x][i] = att[x]
    /\ x \in calling => s[x] = "running"

\* The call that may deliver audio is the latest one of its job.
LatestCall == \A c \in open : c[2] = attempts[c[1]]

RenderInv ==
  LatestCall /\ \A x \in Jobs : Rendered(x, question, promise, state, chunks, attempts, Calling)

\* kickScheduler opens no call, or the only one, for the head of the queue.
LEMMA KickOpens ==
  ASSUME SlotInv, NEW q \in Seq(Jobs), NEW a, NEW s, KickScheduler(q, a, s), ended' = ended,
         a = activeJob \/ (open = {} /\ ended = {})
  PROVE  \/ open' = open /\ attempts' = attempts /\ Calling' = Calling
         \/ /\ q # <<>> /\ Calling = {} /\ Calling' = {Head(q)}
            /\ open' = {<<Head(q), attempts[Head(q)] + 1>>}
            /\ attempts' = [attempts EXCEPT ![Head(q)] = attempts[Head(q)] + 1]
            /\ state' = [s EXCEPT ![Head(q)] = "running"]
<1>1. CASE a # NoJob \/ q = <<>>
  <2>1. open' = open /\ attempts' = attempts
    BY <1>1 DEF KickScheduler
  <2> QED
    BY <2>1 DEF Calling
<1>2. CASE ~(a # NoJob \/ q = <<>>)
  <2>1. open = {} /\ ended = {}
    BY <1>2 DEF SlotInv, OneSynthesisAtATime, Calls
  <2>2. /\ open' = open \cup {<<Head(q), attempts[Head(q)] + 1>>}
        /\ attempts' = [attempts EXCEPT ![Head(q)] = attempts[Head(q)] + 1]
        /\ state' = [s EXCEPT ![Head(q)] = "running"]
    BY <1>2 DEF KickScheduler
  <2>3. PICK d : d = <<Head(q), attempts[Head(q)] + 1>>
    OBVIOUS
  <2>4. open' = {d} /\ ended' = {} /\ d[1] = Head(q)
    BY <2>1, <2>2, <2>3
  <2>5. Calling = {} /\ Calling' = {Head(q)}
    BY <2>1, <2>4 DEF Calling
  <2> QED
    BY <1>2, <2>2, <2>3, <2>4, <2>5
<1> QED
  BY <1>1, <1>2

\* The call it opens is for a job without audio, if the job is in its first life.
LEMMA KickRenders ==
  ASSUME SchedulerTypes, SlotInv, LatestCall, NEW q \in Seq(Jobs), NEW a, NEW s \in [Jobs -> States],
         KickScheduler(q, a, s), ended' = ended, a = activeJob \/ (open = {} /\ ended = {}),
         UNCHANGED chunks, NEW quest, NEW pr,
         \A x \in Jobs : Rendered(x, quest, pr, state', chunks, attempts, Calling),
         /\ q # <<>> /\ Calling = {} /\ state'[Head(q)] = "running" /\ Fresh(Head(q), quest, pr)
         => chunks[Head(q)] = <<>>
  PROVE  /\ LatestCall'
         /\ \A x \in Jobs : Rendered(x, quest, pr, state', chunks', attempts', Calling')
<1>1. CASE open' = open /\ attempts' = attempts /\ Calling' = Calling
  BY <1>1 DEF LatestCall
<1>2. CASE /\ q # <<>> /\ Calling = {} /\ Calling' = {Head(q)}
           /\ open' = {<<Head(q), attempts[Head(q)] + 1>>}
           /\ attempts' = [attempts EXCEPT ![Head(q)] = attempts[Head(q)] + 1]
           /\ state' = [s EXCEPT ![Head(q)] = "running"]
  <2> DEFINE h == Head(q)
  <2>1. h \in Jobs /\ attempts \in [Jobs -> Nat]
    BY <1>2 DEF SchedulerTypes
  <2>2. LatestCall'
    BY <1>2, <2>1 DEF LatestCall
  <2>3. /\ state'[h] = "running" /\ (Fresh(h, quest, pr) => chunks[h] = <<>>)
        /\ Calling' = {h} /\ \A x \in Jobs : x # h => attempts'[x] = attempts[x]
    BY <1>2, <2>1
  <2> HIDE DEF h
  <2>4. ASSUME NEW x \in Jobs
        PROVE  Rendered(x, quest, pr, state', chunks, attempts', Calling')
    <3>1. Rendered(x, quest, pr, state', chunks, attempts, Calling)
      OBVIOUS
    <3>2. CASE x # h
      BY <2>3, <3>1, <3>2 DEF Rendered
    <3>3. CASE x = h
      <4>1. Fresh(h, quest, pr) => DOMAIN chunks[h] = {}
        BY <2>3
      <4> QED
        BY <2>3, <3>3, <4>1 DEF Rendered
    <3> QED
      BY <3>2, <3>3
  <2> QED
    BY <2>2, <2>4
<1> QED
  BY <1>1, <1>2, KickOpens

\* With the slot free, a job of its first life that waits its turn has no audio.
LEMMA HeadWaits ==
  ASSUME QueueInv, RegistryInv, RenderInv, Calling = {}, NEW x \in Jobs, x <= created,
         Plain(x, priority, question) => state[x] = "queued", Fresh(x, question, promise)
  PROVE  chunks[x] = <<>>
<1>1. /\ Shared(x, priority, question, state, promise, doneAt, registry, created)
      /\ Place(x, queue, priority, question, state, timers, Calling, created)
      /\ Rendered(x, question, promise, state, chunks, attempts, Calling)
  BY DEF RegistryInv, QueueInv, PlaceInv, RenderInv
<1>2. state[x] \in Live
  BY <1>1 DEF Shared, Fresh, Plain, Live
<1>3. state[x] # "running"
  BY <1>1 DEF Place, SomePlace
<1> QED
  BY <1>1, <1>2, <1>3 DEF Rendered, Live

\* A new job has no audio, one that the overflow cancels has settled, and the one
\* that starts has waited.
LEMMA CreateRenders ==
  ASSUME JobTypes, SchedulerTypes, SlotInv, QueueInv, RegistryInv, RenderInv,
         NEW q, NEW p \in Priorities, NEW j \in Jobs, j = created + 1, CreateJob(j, q, p),
         p = "background" => q \in Prefetched, UNCHANGED <<timers, ended, chunks>>
  PROVE  RenderInv'
<1> DEFINE prio    == [priority EXCEPT ![j] = p]
           pushed  == InsertByPriority(queue, prio, j)
           dropped == {pushed[i] : i \in Overflow(pushed, prio)}
           left    == AfterOverflow(pushed, prio)
           s2      == [SettledState(dropped, "cancelled") EXCEPT ![j] = "queued"]
<1>1. KickScheduler(left, activeJob, s2) /\ question' = [question EXCEPT ![j] = q]
  BY DEF CreateJob
<1>2. /\ created \in Nat /\ j > created /\ Jobs \subseteq Nat
      /\ question \in [Jobs -> Questions \cup {NoQuestion}]
  BY ConstantsAssumption DEF JobTypes, Jobs
<1>3. left \in Seq(Jobs)
  <2>1. pushed \in Seq(Jobs)
    BY InsertByPriorityType DEF SchedulerTypes
  <2> HIDE DEF pushed, prio
  <2> QED
    BY <2>1, AfterOverflowType
<1>4. s2 \in [Jobs -> States]
  <2> HIDE DEF dropped
  <2>1. SettledState(dropped, "cancelled") \in [Jobs -> States]
    BY SettleType DEF Settled, JobTypes
  <2> QED
    BY <2>1 DEF States, Live
<1> HIDE DEF left, s2
<1>5. \A x \in Jobs : CreateMoves(x, j)
  BY CreatePlaces
<1>6. \A x \in Jobs : x # j => question'[x] = question[x]
  BY <1>1, <1>2
<1>7. \A x \in Jobs : /\ Rendered(x, question, promise, state, chunks, attempts, Calling)
                      /\ Place(x, queue, priority, question, state, timers, Calling, created)
                      /\ Shared(x, priority, question, state, promise, doneAt, registry, created)
  BY DEF RenderInv, QueueInv, PlaceInv, RegistryInv
<1>8. chunks[j] = <<>> /\ j \notin Calling
  <2>1. state[j] = "none" /\ promise[j] = "pending" /\ j \notin Calling
    BY <1>2, <1>7 DEF Place, NoPlace, Shared
  <2> QED
    BY <1>7, <2>1 DEF Rendered, Fresh
<1>9. ASSUME NEW x \in Jobs
      PROVE  Rendered(x, question', promise', state', chunks, attempts, Calling)
  <2>1. CASE x = j
    <3>1. DOMAIN chunks[j] = {}
      BY <1>8
    <3> QED
      BY <1>8, <2>1, <3>1 DEF Rendered
  <2>2. CASE x # j /\ state'[x] = state[x] /\ promise'[x] = promise[x]
    BY <1>6, <1>7, <2>2 DEF Rendered, Fresh
  <2>3. CASE /\ x # j /\ priority[x] = "background" /\ state[x] = "queued" /\ state'[x] = "cancelled"
             /\ promise'[x] = IF promise[x] = "pending" THEN "resolved" ELSE promise[x]
    <3>1. ~(x > created)
      BY <1>7, <2>3 DEF Place, NoPlace
    <3>2. question[x] \in Prefetched
      BY <1>2, <2>3, <3>1 DEF QueueInv
    <3> QED
      BY <1>6, <2>3, <3>2 DEF Rendered, Fresh
  <2>4. CASE x # j /\ state'[x] = "running" /\ promise'[x] = promise[x]
    BY <1>6, <1>7, <2>4 DEF Rendered, Fresh
  <2> QED
    BY <1>5, <2>1, <2>2, <2>3, <2>4 DEF CreateMoves
<1>10. ASSUME left # <<>>, Calling = {}, state'[Head(left)] = "running", Fresh(Head(left), question', promise')
       PROVE  chunks[Head(left)] = <<>>
  <2>1. PICK h \in Jobs : h = Head(left)
    <3>1. \A l \in Seq(Jobs) : l # <<>> => Head(l) \in Jobs
      OBVIOUS
    <3> QED
      BY <1>3, <1>10, <3>1
  <2>2. CASE h = j
    BY <1>8, <2>1, <2>2
  <2>3. CASE h # j
    <3>1. CreateMoves(h, j) /\ state'[h] = "running" /\ Fresh(h, question', promise')
      BY <1>5, <1>10, <2>1
    <3>2. state[h] # "running"
      BY <1>7, <1>10 DEF Place, SomePlace
    <3>3. h <= created /\ (Plain(h, priority, question) => state[h] = "queued") /\ promise'[h] = promise[h]
      BY <2>3, <3>1, <3>2 DEF CreateMoves
    <3>4. Fresh(h, question, promise)
      BY <1>6, <2>3, <3>1, <3>3 DEF Fresh
    <3> QED
      BY <1>10, <2>1, <3>3, <3>4, HeadWaits
  <2> QED
    BY <2>2, <2>3
<1>11. /\ LatestCall'
       /\ \A x \in Jobs : Rendered(x, question', promise', state', chunks', attempts', Calling')
  <2> DEFINE quest == question'
             pr    == promise'
  <2>1. /\ \A x \in Jobs : Rendered(x, quest, pr, state', chunks, attempts, Calling)
        /\ /\ left # <<>> /\ Calling = {} /\ state'[Head(left)] = "running" /\ Fresh(Head(left), quest, pr)
           => chunks[Head(left)] = <<>>
    BY <1>9, <1>10
  <2> HIDE DEF quest, pr
  <2>2. /\ LatestCall'
        /\ \A x \in Jobs : Rendered(x, quest, pr, state', chunks', attempts', Calling')
    BY <1>1, <1>3, <1>4, <2>1, KickRenders DEF RenderInv
  <2> QED
    BY <2>2 DEF quest, pr
<1> QED
  BY <1>11 DEF RenderInv

\* Settling a job nobody is calling for ends its first life, or leaves its audio.
LEMMA SettleRenders ==
  ASSUME JobTypes, RegistryInv, RenderInv, NEW j \in Jobs, NEW result \in Settled, Settle(j, result),
         j <= created, NEW calling, calling \subseteq Calling,
         Fresh(j, question, promise) => j \notin calling
  PROVE  \A x \in Jobs : Rendered(x, question, promise', state', chunks, attempts, calling)
<1>0. /\ state \in [Jobs -> States] /\ promise \in [Jobs -> {"pending", "resolved", "handled"}]
      /\ result \notin {"none", "queued"}
  BY DEF JobTypes, Settled
<1>1. ASSUME NEW x \in Jobs
      PROVE  /\ state'[x] = IF x = j /\ state[x] \in Live THEN result ELSE state[x]
             /\ promise'[x] = IF x = j /\ state[x] \in Live /\ promise[x] = "pending"
                              THEN "resolved" ELSE promise[x]
  BY <1>0 DEF Settle, SettledState, ResolvedPromise
<1>2. ASSUME NEW x \in Jobs
      PROVE  Rendered(x, question, promise', state', chunks, attempts, calling)
  <2>1. /\ Rendered(x, question, promise, state, chunks, attempts, Calling)
        /\ Shared(x, priority, question, state, promise, doneAt, registry, created)
    BY DEF RenderInv, RegistryInv
  <2>2. CASE x # j
    BY <1>1, <2>1, <2>2 DEF Rendered, Fresh
  <2>3. CASE x = j
    <3>1. promise[j] = "pending" => state[j] \in Live
      BY <2>1, <2>3 DEF Shared
    <3>2. promise'[j] # "pending"
      BY <1>1, <3>1
    <3> QED
      BY <1>0, <1>1, <2>1, <2>3, <3>2 DEF Rendered, Fresh
  <2> QED
    BY <2>2, <2>3
<1> QED
  BY <1>2

\* An attempt that returns settles its job, or retries it without audio.
LEMMA AttemptRenders ==
  ASSUME JobTypes, SchedulerTypes, SlotInv, QueueInv, RegistryInv, RenderInv,
         NEW c \in Calls, AttemptEnds(c)
  PROVE  RenderInv'
<1> DEFINE j == c[1]
<1>1. UNCHANGED <<question, chunks, attempts>> /\ open' \subseteq open
  BY DEF AttemptEnds, ReceiveEnd, AttemptSucceeds, AttemptCancelled, AttemptFails, AttemptRetries,
     AttemptFrame, jobVars
<1>2. LatestCall' /\ \A x \in Jobs : Rendered(x, question, promise, state, chunks, attempts, Calling)
  BY <1>1 DEF LatestCall, RenderInv
<1>3. CASE ReceiveEnd(c)
  <2>1. UNCHANGED <<state, promise>> /\ open' \cup ended' = open \cup ended
    BY <1>3 DEF ReceiveEnd, jobVars
  <2>2. Calling' = Calling
    BY <2>1 DEF Calling
  <2> QED
    BY <1>1, <1>2, <2>1, <2>2 DEF RenderInv
<1>4. CASE AttemptSucceeds(c) \/ AttemptCancelled(c) \/ AttemptFails(c)
  <2>1. PICK result \in Settled : Settle(j, result)
    BY <1>4 DEF AttemptSucceeds, AttemptCancelled, AttemptFails, Settled
  <2>2. Calling = {j} /\ Calling' = {}
    BY <1>4, CallingOne
  <2>3. j \in Jobs /\ j \in Nat /\ created \in Nat
    BY ConstantsAssumption DEF Calls, SchedulerTypes, JobTypes, Jobs
  <2>4. ~(j > created)
    <3> HIDE DEF j
    <3> QED
      BY <2>2, <2>3 DEF QueueInv, PlaceInv, Place, NoPlace
  <2>5. \A x \in Jobs : Rendered(x, question, promise', state', chunks, attempts, {})
    <3>1. j <= created
      BY <2>3, <2>4
    <3> HIDE DEF j
    <3> QED
      BY <2>1, <2>3, <3>1, SettleRenders
  <2> QED
    BY <1>1, <1>2, <2>2, <2>5 DEF RenderInv
<1>5. CASE AttemptRetries(c)
  <2>1. /\ state' = [state EXCEPT ![j] = "queued"] /\ promise' = promise /\ chunks[j] = <<>>
    BY <1>5 DEF AttemptRetries, MayRetry
  <2>2. Calling = {j} /\ Calling' = {}
    BY <1>5, CallingOne
  <2>3. \A x \in Jobs : x # j => state'[x] = state[x]
    BY <2>1 DEF JobTypes
  <2>4. DOMAIN chunks[j] = {}
    BY <2>1
  <2>5. \A x \in Jobs : Rendered(x, question, promise, state', chunks, attempts, {})
    BY <1>2, <2>1, <2>3, <2>4 DEF Rendered
  <2> QED
    BY <1>1, <1>2, <2>1, <2>2, <2>5 DEF RenderInv
<1> QED
  BY <1>3, <1>4, <1>5 DEF AttemptEnds

\* RenderInv holds in every step.
LEMMA RenderStep ==
  ASSUME JobTypes, SchedulerTypes, SchedulerInv, RegistryInv, RenderInv, [Next]_vars PROVE RenderInv'
<1>0. /\ queue \in Seq(Jobs) /\ state \in [Jobs -> States] /\ created \in Nat /\ Jobs \subseteq Nat
      /\ chunks \in [Jobs -> Seq(Nat)] /\ timers \in [Jobs -> Nat] /\ priority \in [Jobs -> Priorities]
      /\ promise \in [Jobs -> {"pending", "resolved", "handled"}]
      /\ SlotInv /\ ListenInv /\ QueueInv
  BY ConstantsAssumption DEF JobTypes, SchedulerTypes, Jobs, SchedulerInv
<1>1. /\ LatestCall
      /\ \A x \in Jobs : /\ Rendered(x, question, promise, state, chunks, attempts, Calling)
                         /\ Place(x, queue, priority, question, state, timers, Calling, created)
                         /\ Shared(x, priority, question, state, promise, doneAt, registry, created)
  BY <1>0 DEF RenderInv, QueueInv, PlaceInv, RegistryInv
<1>2. ASSUME UNCHANGED <<question, state, promise, chunks, open, ended, attempts>> PROVE RenderInv'
  BY <1>2 DEF RenderInv, Calling, LatestCall
<1>3. ASSUME NEW q \in Questions, Prefetch(q) \/ \E r \in Requests : Listen(r, q) PROVE RenderInv'
  <2>1. PICK p \in Priorities, j \in Jobs : EnsureJob(q, p, j) /\ (p = "background" => q \in Prefetched)
    BY <1>3 DEF Prefetch, Listen, Priorities
  <2>2. /\ UNCHANGED <<timers, ended, chunks>>
        /\ ReuseJob(j, p) \/ (j = created + 1 /\ CreateJob(j, q, p))
    BY <2>1 DEF EnsureJob
  <2>3. CASE ReuseJob(j, p)
    BY <1>2, <2>2, <2>3 DEF ReuseJob
  <2>4. CASE j = created + 1 /\ CreateJob(j, q, p)
    BY <1>0, <2>1, <2>2, <2>4, CreateRenders
  <2> QED
    BY <2>2, <2>3, <2>4
<1>4. ASSUME NEW r, Pump(r) \/ PumpThrows(r) \/ Close(r) \/ AbortAllAndDrain \/ UNCHANGED vars
      PROVE  RenderInv'
  BY <1>2, <1>4 DEF Pump, PumpThrows, Close, AbortAllAndDrain, vars, jobVars, callVars
<1>5. ASSUME NEW c \in open, ReceiveChunk(c) PROVE RenderInv'
  <2> DEFINE j == c[1]
  <2>1. /\ UNCHANGED <<question, state, promise, open, ended, attempts>>
        /\ chunks' = [chunks EXCEPT ![j] = Append(chunks[j], c[2])]
    BY <1>5 DEF ReceiveChunk, callVars
  <2>2. j \in Jobs /\ c[2] \in Nat /\ c[2] = attempts[j] /\ j \in Calling /\ chunks[j] \in Seq(Nat)
    BY <1>0, <1>1 DEF SchedulerTypes, Calling, LatestCall
  <2>3. Calling' = Calling /\ LatestCall'
    BY <1>1, <2>1 DEF Calling, LatestCall
  <2> HIDE DEF j
  <2>4. ASSUME NEW x \in Jobs
        PROVE  Rendered(x, question, promise, state, chunks', attempts, Calling)
    <3>1. CASE x # j
      <4>1. chunks'[x] = chunks[x]
        BY <1>0, <2>1, <3>1
      <4> QED
        BY <1>1, <4>1 DEF Rendered
    <3>2. CASE x = j
      <4>1. chunks'[j] = Append(chunks[j], c[2])
        BY <1>0, <2>1, <2>2
      <4>2. \A i \in DOMAIN chunks'[j] :
              \/ i \in DOMAIN chunks[j] /\ chunks'[j][i] = chunks[j][i]
              \/ chunks'[j][i] = c[2]
        BY <2>2, <4>1
      <4>3. Rendered(j, question, promise, state, chunks, attempts, Calling)
        BY <1>1, <2>2
      <4> QED
        BY <2>2, <3>2, <4>2, <4>3 DEF Rendered
    <3> QED
      BY <3>1, <3>2
  <2> QED
    BY <2>1, <2>3, <2>4 DEF RenderInv
<1>6. ASSUME NEW c \in Calls, AttemptEnds(c) PROVE RenderInv'
  BY <1>0, <1>6, AttemptRenders
<1>7. \A x \in ToSet(queue) :
        x \in Jobs /\ x <= created /\ (Plain(x, priority, question) => state[x] = "queued")
  <2> SUFFICES ASSUME NEW x \in ToSet(queue)
               PROVE  x \in Jobs /\ x <= created /\ (Plain(x, priority, question) => state[x] = "queued")
    OBVIOUS
  <2>1. x \in Jobs
    BY <1>0 DEF ToSet
  <2>2. ~(x > created) /\ (Plain(x, priority, question) => state[x] = "queued")
    BY <1>1, <2>1 DEF Place, NoPlace, OnePlace
  <2> QED
    BY <1>0, <2>1, <2>2
<1>8. ASSUME NEW q \in Seq(Jobs), NEW a, KickScheduler(q, a, state),
             UNCHANGED <<question, promise, chunks, ended>>, a = activeJob \/ (open = {} /\ ended = {}),
             \A x \in ToSet(q) : x <= created /\ (Plain(x, priority, question) => state[x] = "queued")
      PROVE  RenderInv'
  <2>1. ASSUME NEW x \in Jobs
        PROVE  Rendered(x, question, promise, state', chunks, attempts, Calling)
    <3>1. state'[x] = state[x] \/ state'[x] = "running"
      BY <1>0, <1>8, KickShared
    <3> QED
      BY <1>1, <3>1 DEF Rendered
  <2>2. /\ q # <<>> /\ Calling = {} /\ state'[Head(q)] = "running" /\ Fresh(Head(q), question, promise)
        => chunks[Head(q)] = <<>>
    <3>1. q # <<>> => Head(q) \in ToSet(q) /\ Head(q) \in Jobs
      BY ONLY <1>8, q \in Seq(Jobs) DEF ToSet
    <3> QED
      BY <1>0, <1>8, <3>1, HeadWaits
  <2>3. /\ LatestCall'
        /\ \A x \in Jobs : Rendered(x, question, promise, state', chunks', attempts', Calling')
    BY <1>0, <1>1, <1>8, <2>1, <2>2, KickRenders
  <2> QED
    BY <1>8, <2>3 DEF RenderInv
<1>9. ASSUME NEW c \in Calls, AttemptFinally(c) PROVE RenderInv'
  <2>1. /\ c \in closing /\ UNCHANGED <<question, promise, chunks, ended>>
        /\ KickScheduler(queue, IF activeJob = c[1] THEN NoJob ELSE activeJob, state)
    BY <1>9 DEF AttemptFinally
  <2>2. open = {} /\ ended = {}
    BY <1>0, <2>1 DEF SlotInv, OneSynthesisAtATime, Calls
  <2> QED
    BY <1>0, <1>7, <1>8, <2>1, <2>2
<1>10. ASSUME NEW j \in Jobs, SettledThen(j) PROVE RenderInv'
  <2>1. /\ promise[j] = "resolved" /\ promise' = [promise EXCEPT ![j] = "handled"]
        /\ UNCHANGED <<question, state, chunks, open, ended, attempts>>
    BY <1>10 DEF SettledThen, callVars
  <2>2. Calling' = Calling /\ LatestCall'
    BY <1>1, <2>1 DEF Calling, LatestCall
  <2>3. \A x \in Jobs : promise'[x] = "pending" => promise[x] = "pending"
    BY <1>0, <2>1
  <2> QED
    BY <1>1, <2>1, <2>2, <2>3 DEF RenderInv, Rendered, Fresh
<1>11. ASSUME NEW j \in Jobs, BackoffFires(j) PROVE RenderInv'
  <2>1. UNCHANGED <<question, chunks, ended>> /\ timers[j] > 0
    BY <1>11 DEF BackoffFires, jobVars
  <2>2. j <= created
    <3>1. timers[j] \in Nat
      BY DEF JobTypes
    <3>2. ~(j > created)
      BY <1>1, <2>1, <3>1 DEF Place, NoPlace
    <3> QED
      BY <1>0, <3>2
  <2>3. CASE UNCHANGED <<state, promise, open, attempts>>
    BY <1>2, <2>1, <2>3
  <2>4. CASE state[j] = "queued" /\ Settle(j, "cancelled") /\ UNCHANGED <<open, attempts>>
    <3>1. Calling' = Calling /\ LatestCall'
      BY <1>1, <2>1, <2>4 DEF Calling, LatestCall
    <3>2. \A x \in Jobs : Rendered(x, question, promise', state', chunks, attempts, Calling)
      <4>1. Fresh(j, question, promise) => j \notin Calling
        BY <1>1, <2>4 DEF Rendered
      <4> QED
        BY <2>2, <2>4, <4>1, SettleRenders DEF Settled
    <3> QED
      BY <2>1, <2>4, <3>1, <3>2 DEF RenderInv
  <2>5. CASE /\ state[j] = "queued" /\ UNCHANGED promise
             /\ KickScheduler(InsertByPriority(queue, priority, j), activeJob, state)
    <3> DEFINE ins == InsertByPriority(queue, priority, j)
    <3>1. Sorted(queue, priority)
      BY <1>0 DEF QueueInv, PlaceInv
    <3>2. ins \in Seq(Jobs) /\ ToSet(ins) = ToSet(queue) \cup {j}
      BY <1>0, <3>1, InsertKeeps
    <3> HIDE DEF ins
    <3>3. \A x \in ToSet(ins) : x <= created /\ (Plain(x, priority, question) => state[x] = "queued")
      BY <1>7, <2>2, <2>5, <3>2
    <3>4. KickScheduler(ins, activeJob, state)
      BY <2>5 DEF ins
    <3> QED
      BY <1>8, <2>1, <2>5, <3>2, <3>3, <3>4
  <2> QED
    BY <1>11, <2>3, <2>4, <2>5 DEF BackoffFires, jobVars
<1>12. open \subseteq Calls
  BY DEF Calls
<1> QED
  BY <1>3, <1>4, <1>5, <1>6, <1>9, <1>10, <1>11, <1>12 DEF Next

\* RenderedOnce: until a prefetched job settles, and for good if its question was
\* never prefetched, all the audio a job holds comes from one call to the sidecar.
THEOREM JobsAreRenderedOnce == Spec => []RenderedOnce
<1>1. Init => RenderInv
  <2>1. Init => Calling = {}
    BY DEF Init, Calling
  <2> QED
    BY <2>1 DEF Init, RenderInv, LatestCall, Rendered
<1>2. JobTypes /\ SchedulerTypes /\ SchedulerInv /\ RegistryInv /\ RenderInv /\ [Next]_vars => RenderInv'
  BY RenderStep
<1>3. RenderInv => RenderedOnce
  BY DEF RenderInv, RenderedOnce, Rendered, Fresh
<1> QED
  BY <1>1, <1>2, <1>3, SchedulerInvHolds, RegistryInvHolds, Typing, TypeParts, PTL DEF Spec
=============================================================================
