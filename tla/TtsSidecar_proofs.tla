-------------------------- MODULE TtsSidecar_proofs --------------------------
(***************************************************************************)
(* The sidecar's semaphore and its lock are never lost, however many       *)
(* requests it is sent and however many it admits.                         *)
(***************************************************************************)
EXTENDS TtsSidecar, SequenceLemmas

\* The requests that hold a permit.
Out == {r \in Requests : worker[r] \in Admitted}

\* The types, with no bound yet on the permits: that no more are returned than
\* were taken is PermitsConserved.
Types ==
  /\ permits \in Nat
  /\ locked \in BOOLEAN
  /\ handler \in [Requests -> {"new", "serving", "ended"}]
  /\ worker \in [Requests -> {"none", "ended"} \cup Admitted]
  /\ cancelled \in [Requests -> BOOLEAN]
  /\ client \in [Requests -> {"there", "gone"}]
  /\ queue \in [Streams -> Seq(Items)]
  /\ sent \in [Streams -> Seq(Items)]

\* A request whose handler has not run has no worker.
NotStarted == \A r \in Requests : handler[r] = "new" => worker[r] = "none"

PermitInv == Types /\ NotStarted /\ PermitsConserved

-------------------------------------------------------------------------------
(* What a step does to the workers *)

\* Nobody's worker moves.
Still == UNCHANGED <<permits, locked, worker>>

\* The worker of r goes from a place to a place, and permits change by n.
Moves(r, from, to, n) ==
  /\ worker[r] = from
  /\ worker' = [worker EXCEPT ![r] = to]
  /\ permits' = permits + n

\* Every action leaves the workers alone or moves one of them, taking a permit
\* when it is admitted, returning it when it ends, and never in between.
LEMMA Steps ==
  ASSUME Types, NotStarted, [Next]_vars
  PROVE \/ Still
        \/ \E r \in Requests :
             \/ permits > 0 /\ Moves(r, "none", "polling", -1)
             \/ Moves(r, "leaving", "ended", 1)
             \/ \E from, to \in Admitted : Moves(r, from, to, 0)
<1> USE DEF Types, Admitted, Locking
<1>1. ASSUME NEW r \in Requests, Admit(r)
      PROVE permits > 0 /\ Moves(r, "none", "polling", -1)
  BY <1>1 DEF Admit, Goto, Moves, NotStarted
<1>2. ASSUME NEW r \in Requests, Reject(r) \/ Disconnect(r) \/ NoticeDisconnect(r) PROVE Still
  BY <1>2 DEF Reject, Disconnect, NoticeDisconnect, Still
<1>3. ASSUME NEW r \in Requests, ReturnPermit(r) PROVE Moves(r, "leaving", "ended", 1)
  BY <1>3 DEF ReturnPermit, Goto, Moves
<1>4. ASSUME NEW r \in Requests, Frame(r) PROVE Still
  BY <1>4 DEF Frame, Still
<1>5. ASSUME NEW r \in Requests,
             GiveUp(r) \/ Lock(r) \/ Recheck(r) \/ Finish(r) \/ Unlock(r) \/ CloseQueue(r)
      PROVE \E from, to \in Admitted : Moves(r, from, to, 0)
  <2>1. worker[r] \in Admitted /\ permits' = permits + 0
    BY <1>5 DEF GiveUp, Lock, Recheck, Finish, Unlock, CloseQueue
  <2>2. \E to \in Admitted : worker' = [worker EXCEPT ![r] = to]
    BY <1>5 DEF GiveUp, Lock, Recheck, Finish, Unlock, CloseQueue, Goto
  <2> QED
    BY <2>1, <2>2 DEF Moves
<1>6. ASSUME NEW r \in Streams, Forward(r) PROVE Still
  BY <1>6 DEF Forward, Still
<1>7. CASE UNCHANGED vars
  BY <1>7 DEF vars, Still
<1> QED
  BY <1>1, <1>2, <1>3, <1>4, <1>5, <1>6, <1>7 DEF Next, Work

\* So the permits out and the permits left always add up to what there was.
LEMMA PermitsKept ==
  ASSUME Types, Types', NotStarted, PermitsConserved, [Next]_vars
  PROVE PermitsConserved'
<1> USE DEF Types
<1>0. IsFiniteSet(Out) /\ Cardinality(Out) \in Nat
  BY ConstantsAssumption, FS_Subset, FS_CardinalityType DEF Out
<1>1. permits + Cardinality(Out) = MaxConcurrent
  BY DEF PermitsConserved, Out
<1>2. ASSUME permits' + Cardinality(Out') = MaxConcurrent PROVE PermitsConserved'
  BY <1>2 DEF PermitsConserved, Out
<1>3. CASE Still
  BY <1>1, <1>2, <1>3 DEF Still, Out
<1>4. ASSUME NEW r \in Requests, Moves(r, "none", "polling", -1) PROVE PermitsConserved'
  <2>1. Out' = Out \cup {r} /\ r \notin Out
    BY <1>4 DEF Moves, Out, Admitted, Locking
  <2>2. Cardinality(Out') = Cardinality(Out) + 1
    BY <2>1, <1>0, FS_AddElement
  <2> QED
    BY <2>2, <1>0, <1>1, <1>2, <1>4 DEF Moves
<1>5. ASSUME NEW r \in Requests, Moves(r, "leaving", "ended", 1) PROVE PermitsConserved'
  <2>1. Out' = Out \ {r} /\ r \in Out
    BY <1>5 DEF Moves, Out, Admitted, Locking
  <2>2. Cardinality(Out') = Cardinality(Out) - 1
    BY <2>1, <1>0, FS_RemoveElement
  <2> QED
    BY <2>2, <1>0, <1>1, <1>2, <1>5 DEF Moves
<1>6. ASSUME NEW r \in Requests, NEW from \in Admitted, NEW to \in Admitted,
             Moves(r, from, to, 0)
      PROVE PermitsConserved'
  <2>1. Out' = Out
    BY <1>6 DEF Moves, Out
  <2> QED
    BY <2>1, <1>0, <1>1, <1>2, <1>6 DEF Moves
<1> QED
  BY Steps, <1>3, <1>4, <1>5, <1>6

-------------------------------------------------------------------------------
(* The types *)

\* Items put into a queue, and taken from it and sent, are Items.
LEMMA QueueTypes ==
  ASSUME Types, [Next]_vars
  PROVE queue' \in [Streams -> Seq(Items)] /\ sent' \in [Streams -> Seq(Items)]
<1> USE DEF Types, Items
<1>1. ASSUME NEW r \in Requests, Admit(r) \/ Disconnect(r) \/ NoticeDisconnect(r)
                                 \/ Lock(r) \/ Recheck(r) \/ Unlock(r) \/ ReturnPermit(r)
      PROVE UNCHANGED <<queue, sent>>
  BY <1>1 DEF Admit, Disconnect, NoticeDisconnect, Lock, Recheck, Unlock, ReturnPermit
<1>2. ASSUME NEW r \in Requests, Reject(r)
      PROVE UNCHANGED queue /\ sent' \in [Streams -> Seq(Items)]
  <2>1. <<"busy">> \in Seq(Items) /\ <<"error">> \in Seq(Items)
    OBVIOUS
  <2>2. UNCHANGED sent \/ \E answer \in Seq(Items) : sent' = [sent EXCEPT ![r] = answer]
    BY <1>2, <2>1 DEF Reject
  <2> QED
    BY <1>2, <2>2 DEF Reject
<1>3. ASSUME NEW r \in Requests, GiveUp(r) \/ Frame(r) \/ Finish(r) \/ CloseQueue(r)
      PROVE UNCHANGED sent /\ queue' \in [Streams -> Seq(Items)]
  <2>1. UNCHANGED sent
    BY <1>3 DEF GiveUp, Frame, Finish, CloseQueue
  <2>2. UNCHANGED queue \/ \E item \in Items : Put(r, item)
    BY <1>3 DEF GiveUp, Frame, Finish, CloseQueue
  <2> QED
    <3>1. ASSUME NEW item \in Items, Put(r, item), r \in Streams
          PROVE queue' \in [Streams -> Seq(Items)]
      <4>1. Append(queue[r], item) \in Seq(Items)
        BY <3>1
      <4> QED
        BY <3>1, <4>1 DEF Put
    <3>2. ASSUME NEW item \in Items, Put(r, item), r \notin Streams
          PROVE queue' \in [Streams -> Seq(Items)]
      BY <3>2 DEF Put
    <3> QED
      BY <2>1, <2>2, <3>1, <3>2
<1>4. ASSUME NEW r \in Streams, Forward(r)
      PROVE queue' \in [Streams -> Seq(Items)] /\ sent' \in [Streams -> Seq(Items)]
  <2>1. queue[r] \in Seq(Items) /\ queue[r] # <<>>
    BY <1>4 DEF Forward
  <2>2. Head(queue[r]) \in Items /\ Tail(queue[r]) \in Seq(Items)
    BY <2>1
  <2> QED
    BY <1>4, <2>2 DEF Forward
<1>5. CASE UNCHANGED vars
  BY <1>5 DEF vars
<1> QED
  BY <1>1, <1>2, <1>3, <1>4, <1>5 DEF Next, Work

\* The other variables keep their types.
LEMMA PlaceTypes ==
  ASSUME Types, NotStarted, [Next]_vars
  PROVE /\ permits' \in Nat
        /\ handler' \in [Requests -> {"new", "serving", "ended"}]
        /\ worker' \in [Requests -> {"none", "ended"} \cup Admitted]
        /\ client' \in [Requests -> {"there", "gone"}]
<1>1. permits' \in Nat /\ worker' \in [Requests -> {"none", "ended"} \cup Admitted]
  <2> DEFINE Places == {"none", "ended"} \cup Admitted
             Goal == permits' \in Nat /\ worker' \in [Requests -> Places]
  <2>1. permits \in Nat /\ worker \in [Requests -> Places]
    BY DEF Types
  <2>2. "polling" \in Places /\ "ended" \in Places /\ Admitted \subseteq Places
    BY DEF Admitted, Locking
  <2> HIDE DEF Places
  <2>3. ASSUME NEW r \in Requests, NEW from, NEW to \in Places, NEW n \in Int,
               Moves(r, from, to, n), permits + n >= 0
        PROVE  Goal
    BY <2>1, <2>3 DEF Moves
  <2>4. ASSUME Still PROVE Goal
    BY <2>1, <2>4 DEF Still
  <2>5. ASSUME NEW r \in Requests, permits > 0, Moves(r, "none", "polling", -1) PROVE Goal
    BY <2>1, <2>2, <2>3, <2>5
  <2>6. ASSUME NEW r \in Requests, Moves(r, "leaving", "ended", 1) PROVE Goal
    BY <2>1, <2>2, <2>3, <2>6
  <2>7. ASSUME NEW r \in Requests, NEW from \in Admitted, NEW to \in Admitted,
               Moves(r, from, to, 0)
        PROVE  Goal
    BY <2>1, <2>2, <2>3, <2>7
  <2> QED
    BY Steps, <2>4, <2>5, <2>6, <2>7 DEF Places
<1>2. ASSUME NEW r \in Requests, Admit(r) \/ Reject(r) \/ Disconnect(r) \/ NoticeDisconnect(r)
      PROVE /\ handler' \in [Requests -> {"new", "serving", "ended"}]
            /\ client' \in [Requests -> {"there", "gone"}]
  BY <1>2 DEF Types, Admit, Reject, Disconnect, NoticeDisconnect
<1>3. ASSUME NEW r \in Requests, Work(r)
      PROVE UNCHANGED client /\ handler' \in [Requests -> {"new", "serving", "ended"}]
  BY <1>3 DEF Types, Work, GiveUp, Lock, Recheck, Frame, Finish, Unlock, CloseQueue, ReturnPermit
<1>4. ASSUME NEW r \in Streams, Forward(r)
      PROVE UNCHANGED client /\ handler' \in [Requests -> {"new", "serving", "ended"}]
  BY <1>4 DEF Types, Forward
<1>5. CASE UNCHANGED vars
  BY <1>5 DEF Types, vars
<1>6. /\ handler' \in [Requests -> {"new", "serving", "ended"}]
      /\ client' \in [Requests -> {"there", "gone"}]
  BY <1>2, <1>3, <1>4, <1>5 DEF Next, Types
<1> QED
  BY <1>1, <1>6

\* The lock and the events are TRUE or FALSE.
LEMMA FlagTypes ==
  ASSUME Types, [Next]_vars
  PROVE locked' \in BOOLEAN /\ cancelled' \in [Requests -> BOOLEAN]
<1>1. locked \in BOOLEAN /\ cancelled \in [Requests -> BOOLEAN]
  BY DEF Types
<1>2. ASSUME NEW r \in Requests, Admit(r) \/ Reject(r) \/ Disconnect(r)
      PROVE UNCHANGED <<locked, cancelled>>
  BY <1>2 DEF Admit, Reject, Disconnect
<1>3. ASSUME NEW r \in Requests, NoticeDisconnect(r)
      PROVE UNCHANGED locked /\ cancelled' = [cancelled EXCEPT ![r] = TRUE]
  BY <1>3 DEF NoticeDisconnect
<1>4. ASSUME NEW r \in Requests,
             GiveUp(r) \/ Lock(r) \/ Recheck(r) \/ Frame(r) \/ Finish(r) \/ Unlock(r) \/ CloseQueue(r)
      PROVE UNCHANGED cancelled /\ locked' \in BOOLEAN
  BY <1>1, <1>4 DEF GiveUp, Lock, Recheck, Frame, Finish, Unlock, CloseQueue
<1>5. ASSUME NEW r \in Requests, ReturnPermit(r)
      PROVE UNCHANGED locked
            /\ (UNCHANGED cancelled \/ cancelled' = [cancelled EXCEPT ![r] = TRUE])
  BY <1>5 DEF ReturnPermit
<1>6. ASSUME NEW r \in Streams, Forward(r)
      PROVE UNCHANGED locked /\ cancelled' \in [Requests -> BOOLEAN]
  <2>1. \E last \in BOOLEAN : cancelled' = [cancelled EXCEPT ![r] = @ \/ last]
    BY <1>6 DEF Forward
  <2>2. UNCHANGED locked
    BY <1>6 DEF Forward
  <2> QED
    BY <1>1, <2>1, <2>2, Zenon
<1>7. CASE UNCHANGED vars
  BY <1>1, <1>7 DEF vars
<1> QED
  BY <1>1, <1>2, <1>3, <1>4, <1>5, <1>6, <1>7, Zenon DEF Next, Work

-------------------------------------------------------------------------------
(* The theorems *)

\* Types, NotStarted and PermitsConserved together are inductive.
LEMMA PermitInvariant == Spec => []PermitInv
<1>1. Init => PermitInv
  <2> SUFFICES ASSUME Init PROVE PermitInv
    OBVIOUS
  <2>a. locked \in BOOLEAN /\ cancelled \in [Requests -> BOOLEAN]
    BY Zenon DEF Init
  <2>b. /\ permits \in Nat
        /\ handler \in [Requests -> {"new", "serving", "ended"}]
        /\ worker \in [Requests -> {"none", "ended"} \cup Admitted]
        /\ client \in [Requests -> {"there", "gone"}]
        /\ queue \in [Streams -> Seq(Items)]
        /\ sent \in [Streams -> Seq(Items)]
    BY ConstantsAssumption DEF Init
  <2>1. Types /\ NotStarted
    BY <2>a, <2>b, Zenon DEF Init, Types, NotStarted
  <2>2. Out = {}
    BY DEF Init, Out, Admitted, Locking
  <2>3. Cardinality(Out) = 0 /\ permits = MaxConcurrent /\ MaxConcurrent \in Nat
    BY <2>2, FS_EmptySet, ConstantsAssumption DEF Init
  <2>4. PermitsConserved
    BY <2>3 DEF PermitsConserved, Out
  <2> QED
    BY <2>1, <2>4 DEF PermitInv
<1>2. PermitInv /\ [Next]_vars => PermitInv'
  <2> SUFFICES ASSUME PermitInv, [Next]_vars PROVE PermitInv'
    OBVIOUS
  <2>1. Types'
    BY QueueTypes, PlaceTypes, FlagTypes DEF PermitInv, Types
  <2>2. NotStarted'
    <3>1. ASSUME NEW r \in Requests, handler'[r] = "new"
          PROVE handler[r] = "new" /\ worker'[r] = worker[r]
      BY <3>1 DEF PermitInv, Types, NotStarted, Next, Work, Admit, Reject, Disconnect,
        NoticeDisconnect, GiveUp, Lock, Recheck, Frame, Finish, Unlock, CloseQueue, ReturnPermit,
        Forward, Goto, vars
    <3> QED
      BY <3>1 DEF PermitInv, NotStarted
  <2>3. PermitsConserved'
    BY <2>1, PermitsKept DEF PermitInv
  <2> QED
    BY <2>1, <2>2, <2>3 DEF PermitInv
<1> QED
  BY <1>1, <1>2, PTL DEF Spec

\* No permit leaks and none is returned twice.
THEOREM PermitsAreConserved == Spec => []PermitsConserved
BY PermitInvariant, PTL DEF PermitInv

\* Every state has the types TypeOK gives it: there are never more permits than
\* MAX_CONCURRENT_REQUESTS.
THEOREM Typing == Spec => []TypeOK
<1>1. PermitInv => TypeOK
  <2> SUFFICES ASSUME PermitInv PROVE TypeOK
    OBVIOUS
  <2>1. IsFiniteSet(Out)
    BY ConstantsAssumption, FS_Subset DEF Out
  <2>2. Cardinality(Out) \in Nat
    BY <2>1, FS_CardinalityType
  <2>3. permits \in Nat /\ permits + Cardinality(Out) = MaxConcurrent
    BY DEF PermitInv, Types, PermitsConserved, Out
  <2>4. permits >= 0
    BY DEF PermitInv, Types
  <2>5. permits \in 0 .. MaxConcurrent
    BY <2>2, <2>3, <2>4, ConstantsAssumption
  <2> QED
    BY <2>5 DEF PermitInv, Types, TypeOK
<1> QED
  BY <1>1, PermitInvariant, PTL

-------------------------------------------------------------------------------
(* The lock around the model *)

\* The workers that run with the lock held.
Inside == {r \in Requests : worker[r] \in Locking}

\* OneInference, said of the set.
HeldOnce ==
  \/ locked /\ \E r \in Requests : Inside = {r}
  \/ ~locked /\ Inside = {}

\* Both say that the lock is held by the one worker inside, if there is one.
LEMMA SameLock == HeldOnce => OneInference
BY DEF HeldOnce, OneInference, Inside

\* Only Lock lets a worker in, when nobody is, and Unlock lets it out.
LEMMA LockStep == ASSUME Types, NotStarted, HeldOnce, [Next]_vars PROVE HeldOnce'
<1>1. ASSUME NEW r \in Requests, Lock(r) PROVE HeldOnce'
  <2>1. Inside = {} /\ locked'
    BY <1>1, Zenon DEF Lock, HeldOnce
  <2>2. Inside' = {r}
    BY <1>1, <2>1 DEF Types, Lock, Goto, Inside, Locking
  <2> QED
    BY <2>1, <2>2, Zenon DEF HeldOnce
<1>2. ASSUME NEW r \in Requests, Unlock(r) PROVE HeldOnce'
  <2>1. r \in Inside /\ ~locked'
    BY <1>2 DEF Unlock, Inside, Locking
  <2>2. Inside = {r}
    BY <2>1, Zenon DEF HeldOnce
  <2>3. Inside' = {}
    BY <1>2, <2>2 DEF Types, Unlock, Goto, Inside, Locking
  <2> QED
    BY <2>1, <2>3, Zenon DEF HeldOnce
<1>3. ASSUME UNCHANGED locked, Inside' = Inside PROVE HeldOnce'
  BY <1>3, Zenon DEF HeldOnce
<1>4. ASSUME NEW r \in Requests,
             Reject(r) \/ Disconnect(r) \/ NoticeDisconnect(r) \/ Frame(r)
      PROVE HeldOnce'
  BY <1>3, <1>4 DEF Reject, Disconnect, NoticeDisconnect, Frame, Inside
<1>5. ASSUME NEW r \in Requests, Admit(r) PROVE HeldOnce'
  <2>1. worker[r] = "none"
    BY <1>5 DEF Admit, NotStarted
  <2>2. Inside' = Inside /\ UNCHANGED locked
    BY <1>5, <2>1 DEF Types, Admit, Goto, Inside, Locking
  <2> QED
    BY <2>2, <1>3
<1>6. ASSUME NEW r \in Requests,
             GiveUp(r) \/ Recheck(r) \/ Finish(r) \/ CloseQueue(r) \/ ReturnPermit(r)
      PROVE HeldOnce'
  <2>1. UNCHANGED locked
    BY <1>6 DEF GiveUp, Recheck, Finish, CloseQueue, ReturnPermit
  <2>2. Inside' = Inside
    BY <1>6 DEF Types, GiveUp, Recheck, Finish, CloseQueue, ReturnPermit, Goto, Inside, Locking
  <2> QED
    BY <2>1, <2>2, <1>3
<1>7. ASSUME NEW r \in Streams, Forward(r) PROVE HeldOnce'
  BY <1>3, <1>7 DEF Forward, Inside
<1>8. CASE UNCHANGED vars
  BY <1>3, <1>8 DEF vars, Inside
<1> QED
  BY <1>1, <1>2, <1>3, <1>4, <1>5, <1>6, <1>7, <1>8 DEF Next, Work

\* The model is used by one worker at a time, and whoever has the lock is there
\* to release it.
THEOREM OneInferenceAtATime == Spec => []OneInference
<1>1. Init => HeldOnce
  BY DEF Init, HeldOnce, Inside, Locking
<1>2. PermitInv /\ HeldOnce /\ [Next]_vars => HeldOnce'
  BY LockStep DEF PermitInv
<1> QED
  BY <1>1, <1>2, SameLock, PermitInvariant, PTL DEF Spec
-------------------------------------------------------------------------------
(* The streams *)

\* What a stream has been given so far: the part that was sent on, and the part
\* that waits in its queue.
Carried(r) == sent[r] \o queue[r]

Playing(t)  == \A i \in 1 .. Len(t) : t[i] = "audio"
Answered(t) == /\ Len(t) > 0 /\ t[Len(t)] \in {"ok", "error"}
               /\ \A i \in 1 .. Len(t) - 1 : t[i] = "audio"
Complete(t) == /\ Len(t) > 1 /\ t[Len(t)] = "done" /\ t[Len(t) - 1] \in {"ok", "error"}
               /\ \A i \in 1 .. Len(t) - 2 : t[i] = "audio"

\* What the worker has put by the time it is at a place, as long as somebody reads.
Shape(place, t) ==
  /\ place # "none"
  /\ place \in {"polling", "acquired"} => t = <<>>
  /\ place = "inferring" => Playing(t)
  /\ place \in {"releasing", "closing"} => Answered(t)
  /\ place \in {"leaving", "ended"} => t = <<"busy">> \/ Complete(t)

\* StreamsEndOnce, of one stream.
EndsOnce(r) ==
  /\ handler[r] = "ended" /\ client[r] = "there" =>
       sent[r] # <<>> /\ sent[r][Len(sent[r])] \in {"ok", "error", "busy"}
  /\ \A i \in DOMAIN sent[r] :
       /\ sent[r][i] \in {"ok", "error", "busy"} => i = Len(sent[r])
       /\ sent[r][i] = "busy" => i = 1

\* A stream that is read is not cancelled, so that its worker says how it ended.
StreamInv(r) ==
  /\ handler[r] = "new" => sent[r] = <<>> /\ queue[r] = <<>> /\ ~cancelled[r]
  /\ handler[r] = "serving" =>
       /\ ~cancelled[r] /\ Shape(worker[r], Carried(r))
       /\ \A i \in 1 .. Len(sent[r]) : sent[r][i] \notin {"busy", "done"}
  /\ EndsOnce(r)

\* A step that leaves a stream alone, or only takes its client away.
LEMMA StreamStays ==
  ASSUME NEW r \in Streams, StreamInv(r),
         handler'[r] = handler[r], worker'[r] = worker[r], cancelled'[r] = cancelled[r],
         queue'[r] = queue[r], sent'[r] = sent[r],
         client'[r] = "there" => client[r] = "there"
  PROVE  StreamInv(r)'
<1>1. EndsOnce(r)'
  BY DEF StreamInv, EndsOnce
<1>2. Carried(r)' = Carried(r)
  BY DEF Carried
<1> QED
  BY <1>1, <1>2, Zenon DEF StreamInv

\* Each thing a worker puts takes the stream from one shape to the next.
LEMMA NextShape ==
  ASSUME NEW t \in Seq(Items)
  PROVE  /\ t = <<>> => Playing(t) /\ Append(t, "busy") = <<"busy">>
         /\ Playing(t) => /\ Playing(Append(t, "audio"))
                          /\ \A item \in {"ok", "error"} : Answered(Append(t, item))
         /\ Answered(t) => Complete(Append(t, "done"))
<1>1. ASSUME NEW item \in Items
      PROVE  /\ Append(t, item) \in Seq(Items) /\ Len(Append(t, item)) = Len(t) + 1
             /\ Append(t, item)[Len(t) + 1] = item
             /\ \A i \in 1 .. Len(t) : Append(t, item)[i] = t[i]
  OBVIOUS
<1>2. Len(t) \in Nat /\ {"audio", "ok", "error", "busy", "done"} \subseteq Items
  BY DEF Items
<1>3. t = <<>> => Playing(t) /\ Append(t, "busy") = <<"busy">>
  BY DEF Playing
<1>4. Playing(t) => Playing(Append(t, "audio"))
  BY <1>1, <1>2 DEF Playing
<1>5. Playing(t) => \A item \in {"ok", "error"} : Answered(Append(t, item))
  BY <1>1, <1>2 DEF Playing, Answered
<1>6. Answered(t) => Complete(Append(t, "done"))
  BY <1>1, <1>2 DEF Answered, Complete
<1> QED
  BY <1>3, <1>4, <1>5, <1>6

\* Where an item may stand in a stream of a worker that had the model.
LEMMA ItemOfStream ==
  ASSUME NEW t \in Seq(Items), NEW k \in 1 .. Len(t), Playing(t) \/ Answered(t) \/ Complete(t)
  PROVE  /\ t[k] # "busy"
         /\ t[k] = "done" => k = Len(t) /\ Complete(t)
         /\ t[k] # "done" => \A i \in 1 .. k - 1 : t[i] = "audio"
<1>1. CASE Playing(t)
  BY <1>1 DEF Playing
<1>2. CASE Answered(t)
  BY <1>2 DEF Answered
<1>3. CASE Complete(t)
  <2>1. k = Len(t) \/ k = Len(t) - 1 \/ k \in 1 .. Len(t) - 2
    OBVIOUS
  <2> QED
    BY <1>3, <2>1 DEF Complete
<1> QED
  BY <1>1, <1>2, <1>3

\* What the head of the queue says of what was sent before it.
LEMMA HeadOfStream ==
  ASSUME NEW s \in Seq(Items), NEW q \in Seq(Items), q # <<>>,
         s \o q = <<"busy">> \/ Playing(s \o q) \/ Answered(s \o q) \/ Complete(s \o q)
  PROVE  /\ Head(q) = "done" => Complete(s \o q) /\ Len(q) = 1
         /\ Head(q) = "busy" => s = <<>>
         /\ Head(q) \notin {"busy", "done"} => \A i \in 1 .. Len(s) : s[i] = "audio"
<1> DEFINE t == s \o q
           k == Len(s) + 1
<1>1. /\ t \in Seq(Items) /\ Len(t) = Len(s) + Len(q) /\ k \in 1 .. Len(t) /\ t[k] = Head(q)
      /\ \A i \in 1 .. Len(s) : t[i] = s[i]
  OBVIOUS
<1>2. Len(s) \in Nat /\ Len(q) \in Nat
  OBVIOUS
<1>4. k - 1 = Len(s)
  BY <1>2
<1> HIDE DEF t
<1>3. k = Len(t) => Len(q) = 1
  <2>1. \A m, n \in Nat : m + 1 = m + n => n = 1
    OBVIOUS
  <2> QED
    BY <1>1, <1>2, <2>1
<1> HIDE DEF k
<1>5. CASE t = <<"busy">>
  <2>1. Len(s) = 0 /\ Head(q) = "busy"
    BY <1>1, <1>2, <1>5 DEF k
  <2> QED
    BY <2>1
<1>6. CASE Playing(t) \/ Answered(t) \/ Complete(t)
  <2>1. /\ t[k] # "busy"
        /\ t[k] = "done" => k = Len(t) /\ Complete(t)
        /\ t[k] # "done" => \A i \in 1 .. k - 1 : t[i] = "audio"
    BY <1>1, <1>6, ItemOfStream
  <2>2. Head(q) = "done" => Complete(s \o q) /\ Len(q) = 1
    BY <1>1, <1>3, <2>1 DEF t
  <2>3. Head(q) # "done" => \A i \in 1 .. Len(s) : s[i] = "audio"
    BY <1>1, <1>4, <2>1
  <2> QED
    BY <1>1, <2>1, <2>2, <2>3
<1> QED
  BY <1>5, <1>6 DEF t

\* A worker goes from one place to another, with what it puts on the way.
LEMMA WorkerStream ==
  ASSUME Types, NotStarted, NEW r \in Streams, StreamInv(r), Work(r)
  PROVE  StreamInv(r)'
<1> DEFINE t == Carried(r)
<1> USE DEF Types
<1>0. r \in Requests /\ r \notin Plains /\ queue[r] \in Seq(Items) /\ sent[r] \in Seq(Items)
  BY ConstantsAssumption DEF Requests
<1>1. t \in Seq(Items)
  BY <1>0 DEF Carried
<1>2. /\ UNCHANGED <<handler, client, sent>> /\ cancelled'[r] = cancelled[r]
      /\ handler[r] # "new"
  BY <1>0 DEF Work, GiveUp, Lock, Recheck, Frame, Finish, Unlock, CloseQueue, ReturnPermit, NotStarted
<1>3. EndsOnce(r)'
  BY <1>2 DEF StreamInv, EndsOnce
<1>4. ASSUME handler[r] = "serving" PROVE Shape(worker[r], t) /\ ~cancelled[r]
  BY <1>4 DEF StreamInv
<1>5. ASSUME NEW item \in Items, Put(r, item) PROVE Carried(r)' = Append(t, item)
  BY <1>0, <1>2, <1>5, AppendConcat DEF Put, Carried
<1>6. ASSUME UNCHANGED queue PROVE Carried(r)' = t
  BY <1>2, <1>6 DEF Carried
<1>7. ASSUME NEW place, Goto(r, place) PROVE worker'[r] = place
  BY <1>0, <1>7 DEF Goto
<1> HIDE DEF t
<1>8. ASSUME handler[r] = "serving" PROVE Shape(worker[r], Carried(r))'
  <2> USE <1>0, <1>1, <1>4, <1>8
  <2>1. CASE GiveUp(r)
    <3>1. worker[r] = "polling" /\ worker'[r] = "leaving" /\ Carried(r)' = Append(t, "busy")
      BY <1>5, <1>7, <2>1 DEF GiveUp, Items
    <3> QED
      BY <3>1, NextShape DEF Shape
  <2>2. CASE Lock(r)
    <3>1. worker[r] = "polling" /\ worker'[r] = "acquired" /\ Carried(r)' = t
      BY <1>6, <1>7, <2>2 DEF Lock
    <3> QED
      BY <3>1 DEF Shape
  <2>3. CASE Recheck(r)
    <3>1. worker[r] = "acquired" /\ worker'[r] = "inferring" /\ Carried(r)' = t
      BY <1>6, <1>7, <2>3 DEF Recheck
    <3> QED
      BY <3>1, NextShape DEF Shape
  <2>4. CASE Frame(r)
    <3>1. worker[r] = "inferring" /\ worker'[r] = "inferring" /\ Carried(r)' = Append(t, "audio")
      BY <1>5, <2>4 DEF Frame, Items
    <3> QED
      BY <3>1, NextShape DEF Shape
  <2>5. CASE Finish(r)
    <3>1. PICK item \in {"ok", "error"} : Put(r, item)
      BY <2>5 DEF Finish
    <3>2. worker[r] = "inferring" /\ worker'[r] = "releasing" /\ Carried(r)' = Append(t, item)
      BY <1>5, <1>7, <2>5, <3>1 DEF Finish, Items
    <3> QED
      BY <3>2, NextShape DEF Shape
  <2>6. CASE Unlock(r)
    <3>1. worker[r] = "releasing" /\ worker'[r] = "closing" /\ Carried(r)' = t
      BY <1>6, <1>7, <2>6 DEF Unlock
    <3> QED
      BY <3>1 DEF Shape
  <2>7. CASE CloseQueue(r)
    <3>1. worker[r] = "closing" /\ worker'[r] = "leaving" /\ Carried(r)' = Append(t, "done")
      BY <1>5, <1>7, <2>7 DEF CloseQueue, Items
    <3> QED
      BY <3>1, NextShape DEF Shape
  <2>8. CASE ReturnPermit(r)
    <3>1. worker[r] = "leaving" /\ worker'[r] = "ended" /\ Carried(r)' = t
      BY <1>6, <1>7, <2>8 DEF ReturnPermit
    <3> QED
      BY <3>1 DEF Shape
  <2> QED
    BY <2>1, <2>2, <2>3, <2>4, <2>5, <2>6, <2>7, <2>8 DEF Work
<1>9. handler[r] = "serving" =>
        ~cancelled'[r] /\ \A i \in 1 .. Len(sent'[r]) : sent'[r][i] \notin {"busy", "done"}
  BY <1>2 DEF StreamInv
<1> QED
  BY <1>2, <1>3, <1>8, <1>9 DEF StreamInv

\* The generator takes the head: a frame, or the item that ends the response.
LEMMA ForwardStream ==
  ASSUME Types, NEW r \in Streams, StreamInv(r), Forward(r)
  PROVE  StreamInv(r)'
<1> DEFINE s    == sent[r]
           q    == queue[r]
           item == Head(q)
<1>0. r \in Requests /\ q \in Seq(Items) /\ s \in Seq(Items) /\ q # <<>> /\ handler[r] = "serving"
  BY DEF Types, Requests, Forward
<1>1. item \in Items /\ Tail(q) \in Seq(Items) /\ Len(Tail(q)) = Len(q) - 1 /\ q[1] = item /\ Len(q) > 0
  BY <1>0
<1>2. Shape(worker[r], s \o q) /\ ~cancelled[r] /\ \A i \in 1 .. Len(s) : s[i] \notin {"busy", "done"}
  BY <1>0 DEF StreamInv, Carried
<1>3. /\ s \o q \in Seq(Items) /\ Len(s \o q) = Len(s) + Len(q)
      /\ \A i \in 1 .. Len(s) : (s \o q)[i] = s[i]
  <2>1. s \in Seq(Items) /\ q \in Seq(Items)
    BY <1>0
  <2> HIDE DEF s, q
  <2> QED
    BY <2>1, ConcatElements
<1>4. /\ queue'[r] = Tail(q) /\ sent'[r] = IF item = "done" THEN s ELSE Append(s, item)
      /\ handler'[r] = IF item \in {"busy", "done"} THEN "ended" ELSE "serving"
      /\ UNCHANGED <<worker, client>>
  BY <1>0 DEF Types, Forward
<1>5. item \notin {"busy", "done"} => cancelled'[r] = cancelled[r]
  <2>1. cancelled' = [cancelled EXCEPT ![r] = @ \/ item \in {"busy", "done"}]
    BY DEF Types, Forward
  <2> HIDE DEF item
  <2>2. item \notin {"busy", "done"} => (cancelled[r] \/ item \in {"busy", "done"}) = cancelled[r]
    <3>1. cancelled[r] \in BOOLEAN
      BY <1>0 DEF Types
    <3> QED
      BY <3>1, Zenon
  <2> QED
    BY <1>0, <2>1, <2>2 DEF Types
<1> HIDE DEF item, s, q
<1>a. /\ item = "done" => Complete(s \o q) /\ Len(q) = 1
      /\ item = "busy" => s = <<>>
      /\ item \notin {"busy", "done"} => \A i \in 1 .. Len(s) : s[i] = "audio"
  <2>1. s \o q # <<>>
    BY <1>0, <1>1, <1>3
  <2>2. s \o q = <<"busy">> \/ Playing(s \o q) \/ Answered(s \o q) \/ Complete(s \o q)
    <3>1. worker[r] \in {"none", "ended"} \cup Admitted
      BY <1>0 DEF Types
    <3> QED
      BY <1>2, <2>1, <3>1 DEF Shape, Admitted, Locking
  <2> QED
    <3>1. s \in Seq(Items) /\ q \in Seq(Items) /\ q # <<>>
      BY <1>0
    <3> HIDE DEF s, q
    <3> QED
      BY <2>2, <3>1, HeadOfStream DEF item
<1>6. CASE item = "done"
  <2>1. Complete(s \o q) /\ Len(q) = 1
    BY <1>a, <1>6
  <2>2. /\ Len(s) > 0 /\ s[Len(s)] \in {"ok", "error"}
        /\ \A i \in 1 .. Len(s) - 1 : s[i] = "audio"
    BY <1>0, <1>3, <2>1 DEF Complete
  <2>3. EndsOnce(r)'
    BY <1>0, <1>4, <1>6, <2>2 DEF EndsOnce
  <2> QED
    BY <1>4, <1>6, <2>3 DEF StreamInv
<1>7. CASE item = "busy"
  <2>1. s = <<>>
    BY <1>a, <1>7
  <2>2. sent'[r] = <<"busy">>
    BY <1>4, <1>7, <2>1
  <2>3. EndsOnce(r)'
    BY <2>2 DEF EndsOnce
  <2> QED
    BY <1>4, <1>7, <2>3 DEF StreamInv
<1>8. CASE item \notin {"busy", "done"}
  <2>1. sent'[r] = Append(s, item) /\ handler'[r] = "serving" /\ ~cancelled'[r]
    BY <1>2, <1>4, <1>5, <1>8
  <2>2. Carried(r)' = s \o q
    <3>1. Append(s, Head(q)) \o Tail(q) = s \o q
      BY <1>0, MoveHead
    <3> QED
      BY <1>4, <2>1, <3>1 DEF Carried, item, q
  <2>3. \A i \in 1 .. Len(s) : s[i] = "audio"
    BY <1>a, <1>8
  <2>4. /\ Len(Append(s, item)) = Len(s) + 1 /\ Append(s, item)[Len(s) + 1] = item
        /\ \A i \in 1 .. Len(s) : Append(s, item)[i] = "audio"
        /\ DOMAIN Append(s, item) = 1 .. Len(s) + 1
    BY <1>0, <1>1, <2>3
  <2>5. EndsOnce(r)'
    BY <1>0, <1>8, <2>1, <2>4 DEF EndsOnce
  <2>6. \A i \in 1 .. Len(sent'[r]) : sent'[r][i] \notin {"busy", "done"}
    BY <1>0, <1>8, <2>1, <2>4
  <2> QED
    BY <1>2, <1>4, <2>1, <2>2, <2>5, <2>6 DEF StreamInv
<1> QED
  BY <1>6, <1>7, <1>8

\* StreamInv of every stream is inductive: a request's step concerns no other
\* stream, and a generator gives up only when it knows its client is gone.
LEMMA StreamStep ==
  ASSUME Types, NotStarted, \A r \in Streams : StreamInv(r), [Next]_vars, NEW r \in Streams
  PROVE  StreamInv(r)'
<1> USE DEF Types
<1>0. r \in Requests /\ r \notin Plains
  BY ConstantsAssumption DEF Requests
<1>1. ASSUME NEW o \in Requests, o # r,
             Admit(o) \/ Reject(o) \/ Disconnect(o) \/ NoticeDisconnect(o) \/ Work(o)
      PROVE  StreamInv(r)'
  <2>1. handler'[r] = handler[r] /\ worker'[r] = worker[r] /\ client'[r] = client[r]
    BY <1>0, <1>1 DEF Admit, Reject, Disconnect, NoticeDisconnect, Work, GiveUp, Lock, Recheck,
       Frame, Finish, Unlock, CloseQueue, ReturnPermit, Goto
  <2>2. queue'[r] = queue[r] /\ sent'[r] = sent[r] /\ cancelled'[r] = cancelled[r]
    BY <1>0, <1>1 DEF Admit, Reject, Disconnect, NoticeDisconnect, Work, GiveUp, Lock, Recheck,
       Frame, Finish, Unlock, CloseQueue, ReturnPermit, Put
  <2> QED
    BY <2>1, <2>2, StreamStays
<1>2. ASSUME NEW o \in Streams, o # r, Forward(o) PROVE StreamInv(r)'
  <2>1. /\ handler'[r] = handler[r] /\ worker'[r] = worker[r] /\ client'[r] = client[r]
        /\ queue'[r] = queue[r] /\ sent'[r] = sent[r] /\ cancelled'[r] = cancelled[r]
    BY <1>2 DEF Forward
  <2> QED
    BY <2>1, StreamStays
<1>3. CASE Admit(r)
  <2>1. /\ handler'[r] = "serving" /\ worker'[r] = "polling" /\ UNCHANGED <<cancelled, queue, sent>>
        /\ sent[r] = <<>> /\ queue[r] = <<>> /\ ~cancelled[r]
    BY <1>0, <1>3 DEF Admit, Goto, StreamInv
  <2>2. Carried(r)' = <<>>
    BY <2>1 DEF Carried
  <2>3. Shape(worker[r], Carried(r))'
    BY <2>1, <2>2 DEF Shape
  <2>4. EndsOnce(r)'
    BY <2>1 DEF EndsOnce
  <2> QED
    BY <2>1, <2>3, <2>4 DEF StreamInv
<1>4. CASE Reject(r)
  <2>1. handler'[r] = "ended" /\ \E item \in {"busy", "error"} : sent'[r] = <<item>>
    BY <1>0, <1>4 DEF Reject
  <2>2. EndsOnce(r)'
    BY <2>1 DEF EndsOnce
  <2> QED
    BY <2>1, <2>2 DEF StreamInv
<1>5. CASE Disconnect(r)
  <2>1. /\ UNCHANGED <<handler, worker, cancelled, queue, sent>> /\ client'[r] = "gone"
    BY <1>0, <1>5 DEF Disconnect
  <2> QED
    BY <2>1, StreamStays
<1>6. CASE NoticeDisconnect(r)
  <2>1. handler'[r] = "ended" /\ client'[r] = "gone" /\ UNCHANGED sent
    BY <1>0, <1>6 DEF NoticeDisconnect
  <2>2. EndsOnce(r)'
    BY <2>1 DEF EndsOnce, StreamInv
  <2> QED
    BY <2>1, <2>2 DEF StreamInv
<1>7. CASE Work(r)
  BY <1>7, WorkerStream
<1>8. CASE Forward(r)
  BY <1>8, ForwardStream
<1>9. CASE UNCHANGED vars
  BY <1>9, StreamStays DEF vars
<1> QED
  BY <1>1, <1>2, <1>3, <1>4, <1>5, <1>6, <1>7, <1>8, <1>9 DEF Next

\* StreamsEndOnce: a client that stays gets one ending, in the last frame, and
\* "busy" only instead of audio, for any requests, frames and limits.
THEOREM StreamsEnd == Spec => []StreamsEndOnce
<1> DEFINE Inv == \A r \in Streams : StreamInv(r)
<1>1. Init => Inv
  <2> SUFFICES ASSUME Init, NEW r \in Streams PROVE StreamInv(r)
    OBVIOUS
  <2>1. handler[r] = "new" /\ sent[r] = <<>> /\ queue[r] = <<>> /\ ~cancelled[r]
    BY DEF Init, Requests
  <2> QED
    BY <2>1 DEF StreamInv, EndsOnce
<1>2. PermitInv /\ Inv /\ [Next]_vars => Inv'
  BY StreamStep DEF PermitInv
<1>3. Inv => StreamsEndOnce
  BY DEF StreamInv, EndsOnce, StreamsEndOnce, StreamsTerminated, OneEnding
<1> QED
  BY <1>1, <1>2, <1>3, PermitInvariant, PTL DEF Spec
=============================================================================
