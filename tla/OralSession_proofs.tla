-------------------------- MODULE OralSession_proofs --------------------------
(***************************************************************************)
(* What holds of a session for every blueprint and any number of crashes.  *)
(***************************************************************************)
EXTENDS OralSession, SequenceLemmas

-------------------------------------------------------------------------------
(* Operators *)

\* The slot asked next is a pending one, and no slot before it is pending.
LEMMA NextSlotIsFirst ==
  ASSUME PendingSlots # {}
  PROVE  /\ NextPendingSlot \in PendingSlots
         /\ \A s \in PendingSlots : NextPendingSlot <= s
<1>1. PendingSlots \in SUBSET Nat
  BY ConstantsAssumption DEF PendingSlots, Slots
<1> QED
  BY <1>1, MinIsLeast DEF NextPendingSlot

\* Overriding or approving an item changes nothing else of it.
LEMMA ItemUpdates ==
  ASSUME NEW x \in Items, NEW level \in {"none", "level"}
  PROVE  /\ [x EXCEPT !.override = level] \in Items
         /\ [x EXCEPT !.approver = "lecturer"] \in Items
BY DEF Items

\* The items a review adds are rubric items that nobody has approved.
LEMMA NewItemsType ==
  ASSUME NEW n \in Nat, NEW out \in ReviewOutputs(n)
  PROVE  /\ NewItems(out) \in Seq(Items) /\ Len(NewItems(out)) = Len(out)
         /\ \A i \in DOMAIN NewItems(out) : NewItems(out)[i].approver = "none"
<1>1. PICK k \in 1 .. n :
        out \in [1 .. k -> [question : 1 .. n, ai : {"graded", "insufficient_evidence"}]]
  BY DEF ReviewOutputs
<1>2. \A i \in 1 .. k : NewItems(out)[i] \in Items /\ NewItems(out)[i].approver = "none"
  BY <1>1 DEF NewItems, Items
<1>3. NewItems(out) \in [1 .. k -> Items] /\ Len(out) = k
  BY <1>1, <1>2 DEF NewItems
<1> QED
  BY <1>2, <1>3, FunctionIsSeq

-------------------------------------------------------------------------------
(* Types *)

\* TypeOK without the lock, which the solvers take better on its own.
TablesOK ==
  /\ status \in {"none", "in_progress", "completed", "reviewed", "approved"}
  /\ slotOf \in Seq(Slots)
  /\ turns \in Seq(Nat) /\ Len(turns) = Len(slotOf)
  /\ items \in Seq(Items)
  /\ report \in {"none", "draft", "approved"}
  /\ calls \subseteq AskCalls \cup ReviewCalls
  /\ crashes \in Nat

LockOK == busy \in BOOLEAN

\* The lock is TRUE or FALSE.
LEMMA LockType == LockOK /\ [Next]_vars => LockOK'
BY Zenon DEF LockOK, Next, vars, StartSession, SubmitTurn, AskNextQuestion, EndSession, DraftReview, Reply,
   QuestionGenerated, ReviewDrafted, CallFails, EndCall, OverrideItem, ApproveReport, CrashIdle,
   CrashWhileAnswering, CrashWhileDrafting, CrashWhileApproving, Crash, tables

\* Asking the next question stores nothing but the session's status.
LEMMA AskType ==
  ASSUME TablesOK, AskNextQuestion, UNCHANGED slotOf
  PROVE  /\ status' \in {"completed", "in_progress"}
         /\ calls' \subseteq AskCalls \cup ReviewCalls
<1>1. CASE PendingSlots = {}
  BY <1>1 DEF AskNextQuestion, TablesOK
<1>2. CASE PendingSlots # {}
  <2>1. NextPendingSlot \in Slots
    BY <1>2, NextSlotIsFirst DEF PendingSlots
  <2>2. [kind |-> "ask", slot |-> NextPendingSlot, seen |-> Len(slotOf)] \in AskCalls
    BY <2>1 DEF AskCalls, TablesOK
  <2> QED
    BY <1>2, <2>2 DEF AskNextQuestion, TablesOK
<1> QED
  BY <1>1, <1>2

\* Every step keeps the tables and the calls well typed.
LEMMA TablesType == TablesOK /\ [Next]_vars => TablesOK'
<1> SUFFICES ASSUME TablesOK, [Next]_vars PROVE TablesOK'
  OBVIOUS
<1> USE DEF TablesOK
<1>1. CASE StartSession
  <2>1. AskNextQuestion /\ UNCHANGED <<slotOf, turns, items, report, crashes>>
    BY <1>1 DEF StartSession
  <2> QED
    BY <2>1, AskType
<1>2. ASSUME NEW q \in Questions, SubmitTurn(q) PROVE TablesOK'
  <2>1. AskNextQuestion /\ UNCHANGED <<slotOf, items, report, crashes>>
    BY <1>2 DEF SubmitTurn
  <2>2. turns' \in Seq(Nat) /\ Len(turns') = Len(turns)
    BY <1>2 DEF SubmitTurn, Questions
  <2> QED
    BY <2>1, <2>2, AskType
<1>3. CASE EndSession
  BY <1>3 DEF EndSession
<1>4. CASE DraftReview
  <2>1. [kind |-> "review", seen |-> Len(slotOf), turns |-> turns] \in ReviewCalls
    BY DEF ReviewCalls
  <2> QED
    BY <1>4, <2>1 DEF DraftReview, tables
<1>5. ASSUME NEW c \in calls, QuestionGenerated(c) PROVE TablesOK'
  <2>1. c.slot \in Slots
    BY <1>5 DEF QuestionGenerated, AskCalls, ReviewCalls
  <2> QED
    BY <1>5, <2>1 DEF QuestionGenerated, EndCall
<1>6. ASSUME NEW c \in calls, CallFails(c) PROVE TablesOK'
  BY <1>6 DEF CallFails, EndCall, tables
<1>7. ASSUME NEW c \in calls PROVE c.seen \in Nat
  BY DEF AskCalls, ReviewCalls
<1>8. ASSUME NEW c \in calls, ReviewDrafted(c) PROVE TablesOK'
  <2>1. items' \in Seq(Items)
    BY <1>7, <1>8, NewItemsType DEF ReviewDrafted
  <2> QED
    BY <1>8, <2>1 DEF ReviewDrafted, EndCall
<1>9. ASSUME NEW i \in DOMAIN items, NEW level \in {"none", "level"}, OverrideItem(i, level)
      PROVE  TablesOK'
  <2> DEFINE new == [items[i] EXCEPT !.override = level]
  <2>1. items[i] \in Items
    OBVIOUS
  <2>2. new \in Items
    BY <2>1, ItemUpdates
  <2>3. items' = [items EXCEPT ![i] = new]
    BY <1>9 DEF OverrideItem
  <2> HIDE DEF new
  <2>4. items' \in Seq(Items)
    BY <2>2, <2>3
  <2> QED
    BY <1>9, <2>4 DEF OverrideItem
<1>10. ApproveItems \in Seq(Items)
  <2>1. \A i \in DOMAIN items : items[i] \in Items
    OBVIOUS
  <2>2. \A i \in DOMAIN items : [items[i] EXCEPT !.approver = "lecturer"] \in Items
    BY <2>1, ItemUpdates
  <2>3. ApproveItems \in [1 .. Len(items) -> Items] /\ Len(items) \in Nat
    BY <2>2 DEF ApproveItems
  <2> QED
    BY <2>3, FunctionIsSeq
<1>11. CASE ApproveReport
  BY <1>10, <1>11 DEF ApproveReport
<1>12. CASE CrashIdle
  BY <1>12 DEF CrashIdle, Crash, tables
<1>13. CASE CrashWhileApproving
  BY <1>10, <1>13 DEF CrashWhileApproving, Crash
<1>14. ASSUME NEW c \in calls, CrashWhileDrafting(c) PROVE TablesOK'
  <2>1. PICK out \in ReviewOutputs(c.seen) :
          \/ \E k \in 0 .. Len(out) : items' = items \o SubSeq(NewItems(out), 1, k)
          \/ items' = items \o NewItems(out)
    BY <1>14 DEF CrashWhileDrafting
  <2>2. NewItems(out) \in Seq(Items) /\ Len(NewItems(out)) = Len(out)
    BY <1>7, NewItemsType
  <2>3. \A k \in 0 .. Len(out) : SubSeq(NewItems(out), 1, k) \in Seq(Items)
    BY <2>2
  <2>4. \A k \in 0 .. Len(out) : items \o SubSeq(NewItems(out), 1, k) \in Seq(Items)
    BY <2>3
  <2>5. items \o NewItems(out) \in Seq(Items)
    BY <2>2
  <2>6. items' \in Seq(Items)
    BY <2>1, <2>4, <2>5
  <2> QED
    BY <1>14, <2>6 DEF CrashWhileDrafting, Crash
<1>15. CASE UNCHANGED vars
  BY <1>15 DEF vars, tables
<1>16. ASSUME NEW q \in Questions, CrashWhileAnswering(q) PROVE TablesOK'
  <2>1. turns' \in Seq(Nat) /\ Len(turns') = Len(turns)
    BY <1>16 DEF CrashWhileAnswering, Questions
  <2> QED
    BY <1>16, <2>1 DEF CrashWhileAnswering, Crash
<1> QED
  BY <1>1, <1>2, <1>3, <1>4, <1>5, <1>6, <1>8, <1>9, <1>11, <1>12, <1>13, <1>14, <1>15, <1>16
     DEF Next, Reply

\* Every state has the types TypeOK gives it.
THEOREM Typing == Spec => []TypeOK
<1>1. TypeOK <=> TablesOK /\ LockOK
  BY Zenon DEF TypeOK, TablesOK, LockOK
<1>2. Init => TablesOK
  BY DEF Init, TablesOK
<1>3. Init => LockOK
  BY Zenon DEF Init, LockOK
<1> QED
  BY <1>1, <1>2, <1>3, LockType, TablesType, PTL DEF Spec

-------------------------------------------------------------------------------
(* The room lock *)

\* Nothing is there before the session starts.
NothingBeforeStart ==
  status = "none" => slotOf = <<>> /\ calls = {} /\ items = <<>> /\ report = "none"

\* Asking with no call in flight makes at most one, and the session has started.
LEMMA AskLock ==
  ASSUME calls = {}, ~busy, AskNextQuestion
  PROVE  status' # "none" /\ LockHeldByItsCall'
<1>1. status' # "none"
  BY DEF AskNextQuestion
<1>2. CASE PendingSlots = {}
  <2>1. busy' = busy /\ calls' = calls
    BY <1>2 DEF AskNextQuestion
  <2> QED
    BY <1>1, <2>1 DEF LockHeldByItsCall
<1>3. CASE PendingSlots # {}
  <2>1. PICK c : calls' = {c}
    BY <1>3 DEF AskNextQuestion
  <2>2. busy'
    BY <1>3 DEF AskNextQuestion
  <2> QED
    BY <1>1, <2>1, <2>2 DEF LockHeldByItsCall
<1> QED
  BY <1>2, <1>3

\* A call is only made by who finds the lock free, and every way out of a call ends
\* it and frees the lock.
LEMMA LockInvariant == Spec => [](NothingBeforeStart /\ LockHeldByItsCall)
<1> DEFINE LockInv == NothingBeforeStart /\ LockHeldByItsCall
<1>1. Init => LockInv
  BY DEF Init, NothingBeforeStart, LockHeldByItsCall
<1>2. LockInv /\ [Next]_vars => LockInv'
  <2> SUFFICES ASSUME LockInv, [Next]_vars PROVE LockInv'
    OBVIOUS
  <2> USE DEF NothingBeforeStart, LockHeldByItsCall
  <2>1. CASE StartSession
    BY <2>1, AskLock DEF StartSession
  <2>2. ASSUME NEW q \in Questions, SubmitTurn(q) PROVE LockInv'
    BY <2>2, AskLock DEF SubmitTurn
  <2>3. CASE EndSession
    BY <2>3 DEF EndSession
  <2>4. CASE DraftReview
    BY <2>4 DEF DraftReview, tables
  <2>5. ASSUME NEW c \in calls, Reply(c) PROVE LockInv'
    BY <2>5 DEF Reply, QuestionGenerated, ReviewDrafted, CallFails, EndCall, tables
  <2>6. ASSUME NEW i \in DOMAIN items, NEW level \in {"none", "level"}, OverrideItem(i, level)
        PROVE  LockInv'
    BY <2>6 DEF OverrideItem
  <2>7. CASE ApproveReport
    BY <2>7 DEF ApproveReport
  <2>8. CASE CrashIdle
    BY <2>8 DEF CrashIdle, Crash, tables
  <2>9. CASE CrashWhileApproving
    BY <2>9 DEF CrashWhileApproving, Crash
  <2>10. ASSUME NEW c \in calls, CrashWhileDrafting(c) PROVE LockInv'
    BY <2>10 DEF CrashWhileDrafting, Crash
  <2>11. CASE UNCHANGED vars
    BY <2>11 DEF vars, tables
  <2>12. ASSUME NEW q \in Questions, CrashWhileAnswering(q) PROVE LockInv'
    BY <2>12 DEF CrashWhileAnswering, Crash
  <2> QED
    BY <2>1, <2>2, <2>3, <2>4, <2>5, <2>6, <2>7, <2>8, <2>9, <2>10, <2>11, <2>12 DEF Next
<1> QED
  BY <1>1, <1>2, PTL DEF Spec

\* The lock is held exactly by the one call in flight, whatever crashes or fails.
THEOREM LockIsHeldByItsCall == Spec => []LockHeldByItsCall
BY LockInvariant, PTL

-------------------------------------------------------------------------------
(* Questions and answers *)

\* What a call made by asking is told, when no other call is in flight.
LEMMA AskCall ==
  ASSUME calls = {}, AskNextQuestion, NEW c \in calls'
  PROVE  /\ PendingSlots # {}
         /\ c = [kind |-> "ask", slot |-> NextPendingSlot, seen |-> Len(slotOf)]
BY DEF AskNextQuestion

\* Steps that neither add a question nor record an answer.
QuietStep ==
  \/ EndSession \/ DraftReview \/ ApproveReport \/ CrashIdle \/ CrashWhileApproving
  \/ UNCHANGED vars
  \/ \E c \in calls : CallFails(c) \/ ReviewDrafted(c) \/ CrashWhileDrafting(c)
  \/ \E i \in DOMAIN items, level \in {"none", "level"} : OverrideItem(i, level)

\* They leave the questions and answers alone and ask for no new question.
LEMMA QuietStepKeepsExam ==
  ASSUME QuietStep
  PROVE  /\ UNCHANGED <<slotOf, turns>>
         /\ \A c \in calls' : \/ c \in calls
                              \/ DraftReview /\ c = [kind |-> "review", seen |-> Len(slotOf),
                                                     turns |-> turns]
<1>1. CASE EndSession \/ ApproveReport \/ UNCHANGED vars
  BY <1>1 DEF EndSession, ApproveReport, vars, tables
<1>2. CASE DraftReview
  BY <1>2 DEF DraftReview, tables
<1>3. CASE CrashIdle \/ CrashWhileApproving
  BY <1>3 DEF CrashIdle, CrashWhileApproving, Crash, tables
<1>4. ASSUME NEW c \in calls, CallFails(c) \/ ReviewDrafted(c) \/ CrashWhileDrafting(c)
      PROVE  UNCHANGED <<slotOf, turns>> /\ \A d \in calls' : d \in calls
  BY <1>4 DEF CallFails, ReviewDrafted, CrashWhileDrafting, Crash, EndCall, tables
<1>5. ASSUME NEW i \in DOMAIN items, NEW level \in {"none", "level"}, OverrideItem(i, level)
      PROVE  UNCHANGED <<slotOf, turns, calls>>
  BY <1>5 DEF OverrideItem
<1> QED
  BY <1>1, <1>2, <1>3, <1>4, <1>5 DEF QuietStep

\* The steps that are not quiet.
LEMMA ExamSteps ==
  ASSUME [Next]_vars
  PROVE  \/ StartSession \/ QuietStep
         \/ \E q \in Questions : SubmitTurn(q) \/ CrashWhileAnswering(q)
         \/ \E c \in calls : QuestionGenerated(c)
BY DEF Next, Reply, QuietStep

\* The session has at most one open question, and none while the next one is being
\* generated: answers are taken for unanswered questions only, outside the lock's
\* critical section, and the next question is asked only in the step of an answer.
THEOREM AtMostOneOpenQuestion == Spec => []OneOpenQuestion
<1>1. Init => OneOpenQuestion
  BY DEF Init, OneOpenQuestion, Unanswered, Questions
<1>2. /\ TypeOK /\ NothingBeforeStart /\ LockHeldByItsCall /\ OneOpenQuestion /\ [Next]_vars
      => OneOpenQuestion'
  <2> SUFFICES ASSUME TablesOK, NothingBeforeStart, LockHeldByItsCall, OneOpenQuestion, [Next]_vars
               PROVE  OneOpenQuestion'
    BY DEF TypeOK, TablesOK
  <2> USE DEF TablesOK, OneOpenQuestion, Unanswered, Questions
  <2>1. CASE StartSession
    BY <2>1 DEF StartSession, NothingBeforeStart
  <2>2. CASE QuietStep
    BY <2>2, QuietStepKeepsExam
  <2>3. ASSUME NEW q \in Questions, SubmitTurn(q) \/ CrashWhileAnswering(q)
        PROVE  OneOpenQuestion'
    <3>1. turns[q] = 0 /\ slotOf' = slotOf /\ turns' = [turns EXCEPT ![q] = @ + 1]
      BY <2>3 DEF SubmitTurn, CrashWhileAnswering
    <3>2. Unanswered' = {}
      BY <3>1
    <3> QED
      BY <3>2
  <2>4. ASSUME NEW c \in calls, QuestionGenerated(c) PROVE OneOpenQuestion'
    <3>1. Unanswered = {} /\ calls' = {}
      BY <2>4 DEF QuestionGenerated, EndCall, LockHeldByItsCall
    <3>2. Len(slotOf') = Len(slotOf) + 1 /\ \A r \in Questions : turns'[r] = turns[r]
      BY <2>4 DEF QuestionGenerated
    <3>3. \A r \in Unanswered' : r = Len(slotOf) + 1
      BY <2>4, <3>1, <3>2 DEF QuestionGenerated
    <3> QED
      BY <3>1, <3>3
  <2> QED
    BY <2>1, <2>2, <2>3, <2>4, ExamSteps
<1> QED
  BY <1>1, <1>2, Typing, LockInvariant, PTL DEF Spec

\* No question has two answers.
THEOREM NoSecondTurn == Spec => []OneTurnPerQuestion
<1>1. Init => OneTurnPerQuestion
  BY DEF Init, OneTurnPerQuestion, Questions
<1>2. TypeOK /\ OneTurnPerQuestion /\ [Next]_vars => OneTurnPerQuestion'
  <2> SUFFICES ASSUME TablesOK, OneTurnPerQuestion, [Next]_vars PROVE OneTurnPerQuestion'
    BY DEF TypeOK, TablesOK
  <2> USE DEF TablesOK, OneTurnPerQuestion, Questions
  <2>1. CASE StartSession
    BY <2>1 DEF StartSession
  <2>2. CASE QuietStep
    BY <2>2, QuietStepKeepsExam
  <2>3. ASSUME NEW q \in Questions, SubmitTurn(q) \/ CrashWhileAnswering(q)
        PROVE  OneTurnPerQuestion'
    <3>1. turns[q] = 0 /\ slotOf' = slotOf /\ turns' = [turns EXCEPT ![q] = @ + 1]
      BY <2>3 DEF SubmitTurn, CrashWhileAnswering
    <3> QED
      BY <3>1
  <2>4. ASSUME NEW c \in calls, QuestionGenerated(c) PROVE OneTurnPerQuestion'
    BY <2>4 DEF QuestionGenerated
  <2> QED
    BY <2>1, <2>2, <2>3, <2>4, ExamSteps
<1> QED
  BY <1>1, <1>2, Typing, PTL DEF Spec

\* What a CLI call was told is still so when its reply arrives: whoever could add
\* a question or an answer needs the lock that the call holds.
THEOREM PromptIsCurrent == Spec => []PromptStaysCurrent
<1>1. Init => PromptStaysCurrent
  BY DEF Init, PromptStaysCurrent
<1>2. /\ NothingBeforeStart /\ LockHeldByItsCall /\ PromptStaysCurrent /\ [Next]_vars
      => PromptStaysCurrent'
  <2> SUFFICES ASSUME NothingBeforeStart, LockHeldByItsCall, PromptStaysCurrent, [Next]_vars
               PROVE  PromptStaysCurrent'
    OBVIOUS
  <2>1. ASSUME AskNextQuestion, calls = {}, slotOf' = slotOf PROVE PromptStaysCurrent'
    BY <2>1, AskCall DEF PromptStaysCurrent
  <2>2. CASE StartSession
    BY <2>1, <2>2 DEF StartSession, NothingBeforeStart
  <2>3. CASE QuietStep
    BY <2>3, QuietStepKeepsExam DEF PromptStaysCurrent
  <2>4. ASSUME NEW q \in Questions, SubmitTurn(q) PROVE PromptStaysCurrent'
    BY <2>1, <2>4 DEF SubmitTurn, LockHeldByItsCall
  <2>5. ASSUME NEW c \in calls, QuestionGenerated(c) PROVE PromptStaysCurrent'
    <3>1. calls' = {}
      BY <2>5 DEF QuestionGenerated, EndCall, LockHeldByItsCall
    <3> QED
      BY <3>1 DEF PromptStaysCurrent
  <2>6. ASSUME NEW q \in Questions, CrashWhileAnswering(q) PROVE PromptStaysCurrent'
    BY <2>6 DEF CrashWhileAnswering, Crash, PromptStaysCurrent
  <2> QED
    BY <2>2, <2>3, <2>4, <2>5, <2>6, ExamSteps
<1> QED
  BY <1>1, <1>2, LockInvariant, PTL DEF Spec

-------------------------------------------------------------------------------
(* The blueprint *)

\* A new question counts for its own slot only.
LEMMA AskedFromAppend ==
  ASSUME TablesOK, NEW s \in Slots, slotOf' = Append(slotOf, s), NEW t \in Slots
  PROVE  /\ AskedFrom(t) \in Nat
         /\ AskedFrom(t)' = IF t = s THEN AskedFrom(t) + 1 ELSE AskedFrom(t)
<1> DEFINE Of == {q \in Questions : slotOf[q] = t}
<1>1. Questions = 1 .. Len(slotOf) /\ Len(slotOf) \in Nat
  BY DEF Questions, TablesOK
<1>2. IsFiniteSet(Of)
  <2>1. IsFiniteSet(1 .. Len(slotOf)) /\ Of \in SUBSET (1 .. Len(slotOf))
    BY <1>1, FS_Interval
  <2> QED
    BY <2>1, FS_Subset
<1>3. Len(slotOf) + 1 \notin Of
  BY <1>1
<1>4. {q \in Questions' : slotOf'[q] = t} = IF t = s THEN Of \cup {Len(slotOf) + 1} ELSE Of
  BY <1>1 DEF Questions, TablesOK
<1> HIDE DEF Of
<1>5. Cardinality(Of) \in Nat /\ Cardinality(Of \cup {Len(slotOf) + 1}) = Cardinality(Of) + 1
  BY <1>2, <1>3, FS_AddElement, FS_CardinalityType
<1> QED
  BY <1>4, <1>5 DEF AskedFrom, Of

\* The strengthening: a question is about a slot only once every slot before it
\* is satisfied, and the slot being asked about is the first pending one.
SlotsInOrder ==
  /\ \A s \in Slots : AskedFrom(s) <= QuestionCount[s]
  /\ \A q \in Questions, s \in Slots : s < slotOf[q] => s \notin PendingSlots
  /\ \A q, r \in Questions : q < r => slotOf[q] <= slotOf[r]
  /\ \A c \in calls : c.kind = "ask" =>
       c.slot \in PendingSlots /\ \A s \in PendingSlots : c.slot <= s

\* The order is kept by every step.
LEMMA SlotsStayInOrder == Spec => []SlotsInOrder
<1> USE ConstantsAssumption DEF Slots
<1>1. Init => SlotsInOrder
  <2> SUFFICES ASSUME Init PROVE SlotsInOrder
    OBVIOUS
  <2>1. \A s \in Slots : AskedFrom(s) = 0
    BY FS_EmptySet DEF Init, AskedFrom, Questions
  <2> QED
    BY <2>1 DEF Init, SlotsInOrder, Questions
<1>2. /\ TypeOK /\ NothingBeforeStart /\ LockHeldByItsCall /\ SlotsInOrder /\ [Next]_vars
      => SlotsInOrder'
  <2> SUFFICES ASSUME TablesOK, NothingBeforeStart, LockHeldByItsCall, SlotsInOrder, [Next]_vars
               PROVE  SlotsInOrder'
    BY DEF TypeOK, TablesOK
  <2>1. ASSUME slotOf' = slotOf,
               \A c \in calls' : c.kind = "ask" => 
                 c.slot \in PendingSlots /\ \A s \in PendingSlots : c.slot <= s
        PROVE  SlotsInOrder'
    BY <2>1 DEF SlotsInOrder, PendingSlots, AskedFrom, Questions
  <2>2. ASSUME AskNextQuestion, calls = {}, slotOf' = slotOf PROVE SlotsInOrder'
    BY <2>1, <2>2, AskCall, NextSlotIsFirst
  <2>3. CASE StartSession
    BY <2>2, <2>3 DEF StartSession, NothingBeforeStart
  <2>4. CASE QuietStep
    BY <2>1, <2>4, QuietStepKeepsExam DEF SlotsInOrder
  <2>5. ASSUME NEW q \in Questions, SubmitTurn(q) PROVE SlotsInOrder'
    BY <2>2, <2>5 DEF SubmitTurn, LockHeldByItsCall
  <2>6. ASSUME NEW c \in calls, QuestionGenerated(c) PROVE SlotsInOrder'
    <3>1. slotOf' = Append(slotOf, c.slot) /\ calls' = {}
      BY <2>6 DEF QuestionGenerated, EndCall, LockHeldByItsCall
    <3>2. c.slot \in PendingSlots /\ c.slot \in Slots /\ \A s \in PendingSlots : c.slot <= s
      BY <2>6 DEF QuestionGenerated, SlotsInOrder, PendingSlots
    <3>3. \A s \in Slots : /\ AskedFrom(s) \in Nat
                           /\ AskedFrom(s)' = IF s = c.slot THEN AskedFrom(s) + 1 ELSE AskedFrom(s)
      BY <3>1, <3>2, AskedFromAppend
    <3>4. \A s \in Slots : AskedFrom(s)' <= QuestionCount[s]
      BY <3>2, <3>3 DEF SlotsInOrder, PendingSlots
    <3>5. \A s \in Slots : s \in PendingSlots' => s \in PendingSlots
      BY <3>3 DEF PendingSlots
    <3>6. /\ Len(slotOf) \in Nat /\ Questions = 1 .. Len(slotOf)
          /\ Questions' = 1 .. Len(slotOf) + 1
          /\ \A q \in Questions : slotOf'[q] = slotOf[q] /\ slotOf[q] \in Nat
          /\ slotOf'[Len(slotOf) + 1] = c.slot /\ c.slot \in Nat
      BY SMTT(30), <3>1, <3>2 DEF Questions, TablesOK
    <3>7. \A q \in Questions' : \/ q \in Questions /\ slotOf'[q] = slotOf[q]
                                \/ q = Len(slotOf) + 1 /\ slotOf'[q] = c.slot
      BY <3>6
    <3>8. \A q \in Questions', s \in Slots : s < slotOf'[q] => s \notin PendingSlots
      BY <3>2, <3>7 DEF SlotsInOrder
    <3>9. \A q \in Questions : slotOf[q] <= c.slot /\ q <= Len(slotOf)
      BY <3>2 DEF SlotsInOrder, Questions, TablesOK
    <3>10. ASSUME NEW q \in Questions', NEW r \in Questions', q < r
           PROVE  slotOf'[q] <= slotOf'[r]
      <4>1. q \in Questions /\ slotOf'[q] = slotOf[q]
        BY <3>6, <3>7, <3>10
      <4>2. CASE r \in Questions
        <5>1. slotOf[q] <= slotOf[r]
          BY <3>10, <4>1, <4>2 DEF SlotsInOrder
        <5> QED
          BY <3>6, <4>1, <4>2, <5>1
      <4>3. CASE r = Len(slotOf) + 1
        BY <3>6, <3>9, <4>1, <4>3
      <4> QED
        BY <3>7, <4>2, <4>3
    <3> QED
      BY <3>1, <3>4, <3>5, <3>8, <3>10 DEF SlotsInOrder
  <2>7. ASSUME NEW q \in Questions, CrashWhileAnswering(q) PROVE SlotsInOrder'
    BY <2>1, <2>7 DEF CrashWhileAnswering, Crash
  <2> QED
    BY <2>3, <2>4, <2>5, <2>6, <2>7, ExamSteps
<1> QED
  BY <1>1, <1>2, Typing, LockInvariant, PTL DEF Spec

\* The questions follow the blueprint slot by slot and never exceed a slot's count.
THEOREM BlueprintIsFollowed == Spec => []BlueprintFollowed
<1>1. SlotsInOrder => BlueprintFollowed
  BY DEF SlotsInOrder, BlueprintFollowed, PendingSlots
<1> QED
  BY <1>1, SlotsStayInOrder, PTL

-------------------------------------------------------------------------------
(* Review and report *)

\* A review in flight judges a completed session without a report; once anything
\* of a review is stored, the session is over and no question is being generated.
ReviewState ==
  /\ \A c \in calls : c.kind = "review" => status = "completed" /\ report = "none"
  /\ items # <<>> \/ report # "none" =>
       /\ status \in {"completed", "reviewed", "approved"}
       /\ \A c \in calls : c.kind # "ask"

\* ReviewState is kept by every step: asking needs a session in progress, and a
\* session never goes back to it.
LEMMA ReviewStateHolds == Spec => []ReviewState
<1>1. Init => ReviewState
  BY DEF Init, ReviewState
<1>2. NothingBeforeStart /\ LockHeldByItsCall /\ ReviewState /\ [Next]_vars => ReviewState'
  <2> SUFFICES ASSUME NothingBeforeStart, LockHeldByItsCall, ReviewState, [Next]_vars
               PROVE  ReviewState'
    OBVIOUS
  <2> USE DEF ReviewState
  <2>1. ASSUME AskNextQuestion, calls = {}, items = <<>>, report = "none",
               UNCHANGED <<items, report>>
        PROVE  ReviewState'
    BY <2>1, AskCall
  <2>2. CASE StartSession
    BY <2>1, <2>2 DEF StartSession, NothingBeforeStart
  <2>3. ASSUME NEW q \in Questions, SubmitTurn(q) PROVE ReviewState'
    BY <2>1, <2>3 DEF SubmitTurn, LockHeldByItsCall
  <2>4. CASE EndSession
    BY <2>4 DEF EndSession
  <2>5. CASE DraftReview
    <3>1. calls = {}
      BY <2>5 DEF DraftReview, LockHeldByItsCall
    <3> QED
      BY <2>5, <3>1 DEF DraftReview, tables
  <2>6. ASSUME NEW c \in calls, Reply(c) PROVE calls' = {}
    BY <2>6 DEF Reply, QuestionGenerated, ReviewDrafted, CallFails, EndCall, LockHeldByItsCall
  <2>7. ASSUME NEW c \in calls, QuestionGenerated(c) PROVE ReviewState'
    BY <2>6, <2>7 DEF Reply, QuestionGenerated
  <2>8. ASSUME NEW c \in calls, ReviewDrafted(c) PROVE ReviewState'
    BY <2>6, <2>8 DEF Reply, ReviewDrafted
  <2>9. ASSUME NEW c \in calls, CallFails(c) PROVE ReviewState'
    BY <2>6, <2>9 DEF Reply, CallFails, tables
  <2>10. ASSUME NEW i \in DOMAIN items, NEW level \in {"none", "level"}, OverrideItem(i, level)
         PROVE  ReviewState'
    BY <2>10 DEF OverrideItem
  <2>11. CASE ApproveReport
    BY <2>11 DEF ApproveReport
  <2>12. CASE CrashIdle
    BY <2>12 DEF CrashIdle, Crash, tables
  <2>13. CASE CrashWhileApproving
    BY <2>13 DEF CrashWhileApproving, Crash
  <2>14. ASSUME NEW c \in calls, CrashWhileDrafting(c) PROVE ReviewState'
    BY <2>14 DEF CrashWhileDrafting, Crash
  <2>15. CASE UNCHANGED vars
    BY <2>15 DEF vars, tables
  <2>16. ASSUME NEW q \in Questions, CrashWhileAnswering(q) PROVE ReviewState'
    BY <2>16 DEF CrashWhileAnswering, Crash
  <2> QED
    BY <2>2, <2>3, <2>4, <2>5, <2>7, <2>8, <2>9, <2>10, <2>11, <2>12, <2>13, <2>14, <2>15, <2>16
       DEF Next, Reply
<1> QED
  BY <1>1, <1>2, LockInvariant, PTL DEF Spec

\* Once anything of a review is stored, questions and answers do not change.
THEOREM ReviewedExamStaysFrozen == Spec => ReviewedExamIsFrozen
<1>1. ReviewState /\ [Next]_vars => [items # <<>> => UNCHANGED <<slotOf, turns>>]_vars
  <2> SUFFICES ASSUME ReviewState, [Next]_vars, items # <<>> PROVE UNCHANGED <<slotOf, turns>>
    OBVIOUS
  <2>1. /\ ~StartSession
        /\ \A q \in Questions : ~SubmitTurn(q) /\ ~CrashWhileAnswering(q)
        /\ \A c \in calls : ~QuestionGenerated(c)
    BY DEF ReviewState, StartSession, SubmitTurn, CrashWhileAnswering, QuestionGenerated
  <2> QED
    BY <2>1, ExamSteps, QuietStepKeepsExam
<1> QED
  BY <1>1, ReviewStateHolds, PTL DEF Spec, ReviewedExamIsFrozen

\* A session's status and its report only move forward.
THEOREM StatusMovesForward == Spec => OnlyForward
<1> DEFINE Forward == Rank(status) <= Rank(status') /\ Rank(report) <= Rank(report')
<1>1. TypeOK /\ ReviewState /\ [Next]_vars => [Forward]_vars
  <2> SUFFICES ASSUME TablesOK, ReviewState, Next PROVE Forward
    BY DEF TypeOK, TablesOK
  <2>1. /\ Rank("none") = 0 /\ Rank("in_progress") = 1 /\ Rank("completed") = 2
        /\ Rank("draft") = 1 /\ Rank("reviewed") = 3 /\ Rank("approved") = 4
    BY DEF Rank
  <2>2. Rank(status) \in 0 .. 4 /\ Rank(report) \in 0 .. 4
    BY <2>1 DEF TablesOK
  <2>3. ASSUME UNCHANGED <<status, report>> PROVE Forward
    BY <2>2, <2>3
  <2>4. CASE StartSession \/ \E q \in Questions : SubmitTurn(q)
    <3>1. status \in {"none", "in_progress"} /\ status' \in {"in_progress", "completed"}
      BY <2>4 DEF StartSession, SubmitTurn, AskNextQuestion
    <3>2. report' = report
      BY <2>4 DEF StartSession, SubmitTurn
    <3> QED
      BY <2>1, <2>2, <3>1, <3>2
  <2>5. CASE EndSession
    BY <2>1, <2>2, <2>5 DEF EndSession
  <2>6. CASE DraftReview
    BY <2>3, <2>6 DEF DraftReview, tables
  <2>7. ASSUME NEW c \in calls, QuestionGenerated(c) \/ CallFails(c) PROVE Forward
    BY <2>3, <2>7 DEF QuestionGenerated, CallFails, tables
  <2>8. ASSUME NEW c \in calls, ReviewDrafted(c) PROVE Forward
    BY <2>1, <2>8 DEF ReviewDrafted, ReviewState
  <2>9. ASSUME NEW i \in DOMAIN items, NEW level \in {"none", "level"}, OverrideItem(i, level)
        PROVE  Forward
    BY <2>3, <2>9 DEF OverrideItem
  <2>10. CASE ApproveReport
    BY <2>1, <2>2, <2>10 DEF ApproveReport
  <2>11. CASE CrashIdle
    BY <2>3, <2>11 DEF CrashIdle, tables
  <2>12. CASE CrashWhileApproving
    BY <2>1, <2>2, <2>12 DEF CrashWhileApproving
  <2>13. ASSUME NEW c \in calls, CrashWhileDrafting(c) PROVE Forward
    <3>1. status' = status /\ report = "none" /\ report' \in {"none", "draft"}
      BY <2>13 DEF CrashWhileDrafting, ReviewState
    <3> QED
      BY <2>1, <2>2, <3>1
  <2>14. CASE \E q \in Questions : CrashWhileAnswering(q)
    BY <2>3, <2>14 DEF CrashWhileAnswering
  <2> QED
    BY <2>4, <2>5, <2>6, <2>7, <2>8, <2>9, <2>10, <2>11, <2>12, <2>13, <2>14 DEF Next, Reply
<1> QED
  BY <1>1, Typing, ReviewStateHolds, PTL DEF Spec, OnlyForward

-------------------------------------------------------------------------------
(* Rubric items *)

\* What a validated review stores: an item about a question of the session, not
\* approved, and with an answer to that question if it is graded.
Grounded(x) ==
  /\ x.question \in Questions
  /\ x.ai = "graded" => turns[x.question] > 0

\* The items of a valid review cite the answers they rest on, and nobody has approved them.
LEMMA NewItemsGrounded ==
  ASSUME NEW n \in Nat, NEW out \in ReviewOutputs(n), ValidReviewOutput(out)
  PROVE  \A i \in DOMAIN NewItems(out) :
           Grounded(NewItems(out)[i]) /\ NewItems(out)[i].approver = "none"
BY DEF NewItems, ValidReviewOutput, Grounded

\* The steps that store items append such items, all of them or, in a crash, a
\* first part of them.
LEMMA StoredItems ==
  ASSUME TablesOK, NEW c \in calls, ReviewDrafted(c) \/ CrashWhileDrafting(c)
  PROVE  \A i \in DOMAIN items' :
           \/ i \in DOMAIN items /\ items'[i] = items[i]
           \/ Grounded(items'[i]) /\ items'[i].approver = "none"
<1>1. c.seen \in Nat
  BY DEF TablesOK, AskCalls, ReviewCalls
<1>2. PICK out \in ReviewOutputs(c.seen) :
        /\ ValidReviewOutput(out)
        /\ \/ items' = items \o NewItems(out)
           \/ \E k \in 0 .. Len(out) : items' = items \o SubSeq(NewItems(out), 1, k)
  BY DEF ReviewDrafted, CrashWhileDrafting
<1>3. NewItems(out) \in Seq(Items) /\ Len(NewItems(out)) = Len(out)
  BY <1>1, NewItemsType
<1>4. \A i \in DOMAIN NewItems(out) :
        Grounded(NewItems(out)[i]) /\ NewItems(out)[i].approver = "none"
  BY <1>1, <1>2, NewItemsGrounded
<1>5. ASSUME items' = items \o NewItems(out), NEW i \in DOMAIN items'
      PROVE  \/ i \in DOMAIN items /\ items'[i] = items[i]
             \/ i - Len(items) \in DOMAIN NewItems(out) /\ items'[i] = NewItems(out)[i - Len(items)]
  BY <1>3, <1>5 DEF TablesOK
<1>6. ASSUME NEW k \in 0 .. Len(out), items' = items \o SubSeq(NewItems(out), 1, k),
             NEW i \in DOMAIN items'
      PROVE  \/ i \in DOMAIN items /\ items'[i] = items[i]
             \/ i - Len(items) \in DOMAIN NewItems(out) /\ items'[i] = NewItems(out)[i - Len(items)]
  <2> DEFINE part == SubSeq(NewItems(out), 1, k)
  <2>1. /\ part \in Seq(Items) /\ Len(part) = k
        /\ \A m \in 1 .. k : part[m] = NewItems(out)[m]
    BY <1>3
  <2> HIDE DEF part
  <2>2. items' = items \o part
    BY <1>6 DEF part
  <2>3. \/ i \in DOMAIN items /\ items'[i] = items[i]
        \/ i - Len(items) \in 1 .. k /\ items'[i] = part[i - Len(items)]
    BY <2>1, <2>2 DEF TablesOK
  <2> QED
    BY <1>3, <2>1, <2>3
<1> QED
  BY <1>2, <1>4, <1>5, <1>6

\* Every other step keeps the items, but for overrides and approval.
SameItem(x, y) == y.question = x.question /\ y.ai = x.ai

\* A step that stores no review keeps the items, up to override and approval.
LEMMA KeptItems ==
  ASSUME TablesOK, [Next]_vars, \A c \in calls : ~ReviewDrafted(c) /\ ~CrashWhileDrafting(c)
  PROVE  /\ DOMAIN items' = DOMAIN items
         /\ \A i \in DOMAIN items : SameItem(items[i], items'[i])
         /\ \/ report' = "approved"
            \/ report' = report /\ \A i \in DOMAIN items : items'[i].approver = items[i].approver
<1>1. ASSUME NEW i \in DOMAIN items, NEW level \in {"none", "level"}, OverrideItem(i, level)
      PROVE  /\ DOMAIN items' = DOMAIN items /\ report' = report
             /\ \A k \in DOMAIN items : /\ SameItem(items[k], items'[k])
                                        /\ items'[k].approver = items[k].approver
  <2>1. \A k \in DOMAIN items : items[k] \in Items
    BY DEF TablesOK
  <2>2. items' = [items EXCEPT ![i] = [items[i] EXCEPT !.override = level]] /\ report' = report
    BY <1>1 DEF OverrideItem
  <2>3. LET x == [items[i] EXCEPT !.override = level]
        IN  SameItem(items[i], x) /\ x.approver = items[i].approver
    BY <2>1 DEF SameItem, Items
  <2> QED
    BY <2>2, <2>3 DEF SameItem, TablesOK
<1>2. CASE ApproveReport \/ (CrashWhileApproving /\ items' = ApproveItems)
  <2>1. \A k \in DOMAIN items : items[k] \in Items
    BY DEF TablesOK
  <2>2. items' = ApproveItems /\ report' = "approved"
    BY <1>2 DEF ApproveReport, CrashWhileApproving
  <2>3. \A k \in DOMAIN items : SameItem(items[k], [items[k] EXCEPT !.approver = "lecturer"])
    BY <2>1 DEF SameItem, Items
  <2> QED
    BY <2>2, <2>3 DEF ApproveItems
<1>3. CASE CrashWhileApproving /\ items' = items
  BY <1>3 DEF CrashWhileApproving, SameItem
<1>4. ASSUME UNCHANGED <<items, report>>
      PROVE  /\ DOMAIN items' = DOMAIN items /\ report' = report
             /\ \A k \in DOMAIN items : /\ SameItem(items[k], items'[k])
                                        /\ items'[k].approver = items[k].approver
  BY <1>4 DEF SameItem
<1>5. CASE StartSession \/ EndSession \/ DraftReview \/ CrashIdle \/ UNCHANGED vars
  BY <1>4, <1>5 DEF StartSession, EndSession, DraftReview, CrashIdle, vars, tables
<1>6. CASE \E q \in Questions : SubmitTurn(q) \/ CrashWhileAnswering(q)
  BY <1>4, <1>6 DEF SubmitTurn, CrashWhileAnswering
<1>7. CASE \E c \in calls : QuestionGenerated(c) \/ CallFails(c)
  BY <1>4, <1>7 DEF QuestionGenerated, CallFails, tables
<1>8. CrashWhileApproving => items' = items \/ items' = ApproveItems
  BY DEF CrashWhileApproving
<1> QED
  BY <1>1, <1>2, <1>3, <1>5, <1>6, <1>7, <1>8 DEF Next, Reply

\* The answers an item rests on do not go away.
LEMMA GroundedStays ==
  ASSUME TablesOK, [Next]_vars, NEW x, NEW y, Grounded(x), SameItem(x, y)
  PROVE  Grounded(y)'
<1> USE DEF Grounded, SameItem, TablesOK, Questions
<1>1. CASE StartSession
  BY <1>1 DEF StartSession
<1>2. CASE QuietStep
  BY <1>2, QuietStepKeepsExam
<1>3. ASSUME NEW q \in Questions, SubmitTurn(q) \/ CrashWhileAnswering(q)
      PROVE  Grounded(y)'
  <2>1. slotOf' = slotOf /\ turns' = [turns EXCEPT ![q] = @ + 1]
    BY <1>3 DEF SubmitTurn, CrashWhileAnswering
  <2> QED
    BY <2>1
<1>4. ASSUME NEW c \in calls, QuestionGenerated(c) PROVE Grounded(y)'
  BY <1>4 DEF QuestionGenerated
<1> QED
  BY <1>1, <1>2, <1>3, <1>4, ExamSteps

\* Every suggested grade rests on an answer to the question it grades, though the
\* review is validated after the call that produced it, and crashes may store
\* only a part of it.
THEOREM GradesRestOnAnswers == Spec => []GradesHaveEvidence
<1> DEFINE AllGrounded == \A i \in DOMAIN items : Grounded(items[i])
<1>1. Init => AllGrounded
  BY DEF Init
<1>2. TypeOK /\ AllGrounded /\ [Next]_vars => AllGrounded'
  <2> SUFFICES ASSUME TablesOK, AllGrounded, [Next]_vars, NEW i \in DOMAIN items'
               PROVE  Grounded(items[i])'
    BY DEF TypeOK, TablesOK
  <2>1. \E x : Grounded(x) /\ SameItem(x, items'[i])
    <3>1. CASE \E c \in calls : ReviewDrafted(c) \/ CrashWhileDrafting(c)
      BY <3>1, StoredItems DEF SameItem
    <3>2. CASE \A c \in calls : ~ReviewDrafted(c) /\ ~CrashWhileDrafting(c)
      BY <3>2, KeptItems
    <3> QED
      BY <3>1, <3>2
  <2> QED
    BY <2>1, GroundedStays
<1>3. AllGrounded => GradesHaveEvidence
  BY DEF Grounded, GradesHaveEvidence
<1> QED
  BY <1>1, <1>2, <1>3, Typing, PTL DEF Spec

\* No item is approved while its report is not: the report is approved first, and
\* a report that is there keeps every review away.
THEOREM ItemsFollowReport == Spec => []ItemsApprovedWithReport
<1>1. Init => ItemsApprovedWithReport
  BY DEF Init, ItemsApprovedWithReport
<1>2. TypeOK /\ ReviewState /\ ItemsApprovedWithReport /\ [Next]_vars => ItemsApprovedWithReport'
  <2> SUFFICES ASSUME TablesOK, ReviewState, ItemsApprovedWithReport, [Next]_vars
               PROVE  ItemsApprovedWithReport'
    BY DEF TypeOK, TablesOK
  <2> USE DEF ItemsApprovedWithReport
  <2>1. ASSUME NEW c \in calls, ReviewDrafted(c) \/ CrashWhileDrafting(c)
        PROVE  ItemsApprovedWithReport'
    <3>1. report = "none"
      BY <2>1 DEF ReviewDrafted, CrashWhileDrafting, ReviewState
    <3> QED
      BY <2>1, <3>1, StoredItems
  <2>2. CASE \A c \in calls : ~ReviewDrafted(c) /\ ~CrashWhileDrafting(c)
    BY <2>2, KeptItems
  <2> QED
    BY <2>1, <2>2
<1> QED
  BY <1>1, <1>2, Typing, ReviewStateHolds, PTL DEF Spec

-------------------------------------------------------------------------------
(* Until the first crash *)

\* Crashes are counted: a step after which there was none is none.
LEMMA NoCrash ==
  ASSUME TablesOK, [Next]_vars, crashes' = 0
  PROVE  /\ crashes = 0
         /\ ~CrashIdle /\ ~CrashWhileApproving /\ \A c \in calls : ~CrashWhileDrafting(c)
         /\ \A q \in Questions : ~CrashWhileAnswering(q)
<1> USE DEF TablesOK
<1>1. /\ ~CrashIdle /\ ~CrashWhileApproving /\ \A c \in calls : ~CrashWhileDrafting(c)
      /\ \A q \in Questions : ~CrashWhileAnswering(q)
  BY DEF CrashIdle, CrashWhileApproving, CrashWhileDrafting, CrashWhileAnswering, Crash
<1>2. crashes = 0
  BY <1>1 DEF Next, Reply, StartSession, SubmitTurn, AskNextQuestion, EndSession, DraftReview,
     QuestionGenerated, ReviewDrafted, CallFails, OverrideItem, ApproveReport, vars, tables
<1> QED
  BY <1>1, <1>2

\* Session, report and items tell the same story, and there is nothing to review
\* again before there is a report.
Story ==
  /\ status = "reviewed" <=> report = "draft"
  /\ status = "approved" <=> report = "approved"
  /\ \A i \in DOMAIN items : items[i].approver = "lecturer" <=> report = "approved"
  /\ report = "none" => items = <<>>

OneStory == crashes = 0 => Story

\* OneStory holds in every step: a crash makes it say nothing.
LEMMA OneStoryHolds == Spec => []OneStory
<1>1. Init => OneStory
  BY DEF Init, OneStory, Story
<1>2. TypeOK /\ NothingBeforeStart /\ ReviewState /\ OneStory /\ [Next]_vars => OneStory'
  <2> SUFFICES ASSUME TablesOK, NothingBeforeStart, ReviewState, OneStory, [Next]_vars,
                      crashes' = 0
               PROVE  Story'
    BY DEF TypeOK, TablesOK, OneStory
  <2> USE DEF Story
  <2>1. /\ ~CrashIdle /\ ~CrashWhileApproving /\ \A c \in calls : ~CrashWhileDrafting(c)
        /\ \A q \in Questions : ~CrashWhileAnswering(q)
    BY NoCrash
  <2>0. Story
    BY NoCrash DEF OneStory
  <2>2. CASE StartSession \/ \E q \in Questions : SubmitTurn(q)
    BY <2>0, <2>2 DEF StartSession, SubmitTurn, AskNextQuestion, NothingBeforeStart
  <2>3. CASE EndSession
    BY <2>0, <2>3 DEF EndSession
  <2>4. CASE DraftReview \/ UNCHANGED vars \/ \E c \in calls : QuestionGenerated(c) \/ CallFails(c)
    BY <2>0, <2>4 DEF DraftReview, QuestionGenerated, CallFails, vars, tables
  <2>5. ASSUME NEW c \in calls, ReviewDrafted(c) PROVE Story'
    <3>1. report = "none" /\ items = <<>>
      BY <2>0, <2>5 DEF ReviewDrafted, ReviewState
    <3>2. \A i \in DOMAIN items' : items'[i].approver = "none"
      BY <2>0, <2>5, <3>1, StoredItems
    <3> QED
      BY <2>0, <2>5, <3>2 DEF ReviewDrafted
  <2>6. ASSUME NEW i \in DOMAIN items, NEW level \in {"none", "level"}, OverrideItem(i, level)
        PROVE  Story'
    <3>1. /\ DOMAIN items' = DOMAIN items
          /\ \A k \in DOMAIN items : items'[k].approver = items[k].approver
      <4>1. \A k \in DOMAIN items : items[k] \in Items
        BY DEF TablesOK
      <4> QED
        BY <2>6, <4>1 DEF OverrideItem, Items
    <3> QED
      BY <2>0, <2>6, <3>1 DEF OverrideItem
  <2>7. CASE ApproveReport
    <3>1. \A k \in DOMAIN items : items[k] \in Items
      BY DEF TablesOK
    <3>2. DOMAIN items' = DOMAIN items /\ \A k \in DOMAIN items : items'[k].approver = "lecturer"
      BY <2>0, <2>7, <3>1 DEF ApproveReport, ApproveItems, Items
    <3> QED
      BY <2>0, <2>7, <3>2 DEF ApproveReport
  <2> QED
    BY <2>1, <2>2, <2>3, <2>4, <2>5, <2>6, <2>7 DEF Next, Reply
<1> QED
  BY <1>1, <1>2, Typing, LockInvariant, ReviewStateHolds, PTL DEF Spec

\* Until the first crash, session, report and items tell the same story.
THEOREM StatusesAgree == Spec => []StatusMatchesReport
<1>1. OneStory => StatusMatchesReport
  BY DEF OneStory, Story, StatusMatchesReport
<1> QED
  BY <1>1, OneStoryHolds, PTL

\* The two together: what the lecturer sees of a session agrees with what is stored.
THEOREM ReportAgreesWithSession == Spec => []ReportAgrees
<1>1. StatusMatchesReport /\ ItemsApprovedWithReport => ReportAgrees
  BY DEF ReportAgrees
<1> QED
  BY <1>1, StatusesAgree, ItemsFollowReport, PTL

\* Each question has an item, and no other item is about it.
OneItemEach ==
  \A q \in Questions : \E i \in DOMAIN items :
    \A k \in DOMAIN items : items[k].question = q <=> k = i

\* Each question has an item.
SomeItemEach == \A q \in Questions : \E i \in DOMAIN items : items[i].question = q

\* A review that is stored in full, and its report, leave an item for each question.
LEMMA ReviewCovers ==
  ASSUME TablesOK, ReviewState, NEW c \in calls, NEW out \in ReviewOutputs(c.seen),
         c.kind = "review", ValidReviewOutput(out), items' = items \o NewItems(out),
         UNCHANGED slotOf
  PROVE  /\ SomeItemEach'
         /\ items = <<>> => OneItemEach'
<1>1. c.seen \in Nat
  BY DEF TablesOK, AskCalls, ReviewCalls
<1>2. /\ NewItems(out) \in Seq(Items) /\ Len(NewItems(out)) = Len(out)
      /\ DOMAIN NewItems(out) = DOMAIN out
      /\ \A i \in DOMAIN out : NewItems(out)[i].question = out[i].question
  BY <1>1, NewItemsType DEF NewItems
<1>3. ASSUME NEW q \in Questions
      PROVE  \E i \in DOMAIN out : \A k \in DOMAIN out : out[k].question = q <=> k = i
  BY DEF ValidReviewOutput
<1>4. \A i \in DOMAIN out :
        Len(items) + i \in DOMAIN items' /\ items'[Len(items) + i] = NewItems(out)[i]
  BY <1>2, ConcatElements DEF TablesOK
<1>5. SomeItemEach'
  <2> SUFFICES ASSUME NEW q \in Questions PROVE \E i \in DOMAIN items' : items'[i].question = q
    BY DEF SomeItemEach, Questions
  <2>1. PICK i \in DOMAIN out : out[i].question = q
    BY <1>3
  <2> QED
    BY <1>2, <1>4, <2>1
<1>6. ASSUME items = <<>> PROVE OneItemEach'
  <2>1. items' = NewItems(out)
    BY <1>2, <1>6
  <2> QED
    BY <1>2, <1>3, <2>1 DEF OneItemEach, Questions
<1> QED
  BY <1>5, <1>6

\* A step that stores no review of a report keeps items and questions of one.
LEMMA CoverKept ==
  ASSUME TablesOK, ReviewState, [Next]_vars, report # "none"
  PROVE  /\ DOMAIN items' = DOMAIN items
         /\ \A i \in DOMAIN items : items'[i].question = items[i].question
         /\ slotOf' = slotOf
<1>1. \A c \in calls : ~ReviewDrafted(c) /\ ~CrashWhileDrafting(c)
  BY DEF ReviewState, ReviewDrafted, CrashWhileDrafting
<1>2. slotOf' = slotOf
  <2>1. /\ ~StartSession \/ slotOf' = slotOf
        /\ \A q \in Questions : ~SubmitTurn(q) /\ ~CrashWhileAnswering(q)
        /\ \A c \in calls : ~QuestionGenerated(c)
    BY DEF ReviewState, StartSession, SubmitTurn, CrashWhileAnswering, QuestionGenerated
  <2> QED
    BY <2>1, ExamSteps, QuietStepKeepsExam
<1> QED
  BY <1>1, <1>2, KeptItems DEF SameItem

\* A report appears with a review only.
LEMMA ReportAppears ==
  ASSUME TablesOK, [Next]_vars, report = "none", report' # "none"
  PROVE  \E c \in calls : /\ c.kind = "review"
                          /\ \E out \in ReviewOutputs(c.seen) :
                               ValidReviewOutput(out) /\ items' = items \o NewItems(out)
                          /\ UNCHANGED slotOf
<1>1. \E c \in calls : ReviewDrafted(c) \/ CrashWhileDrafting(c)
  BY DEF Next, Reply, StartSession, SubmitTurn, AskNextQuestion, EndSession, DraftReview,
     QuestionGenerated, CallFails, OverrideItem, ApproveReport, CrashIdle, CrashWhileApproving,
     CrashWhileAnswering, Crash, vars, tables
<1> QED
  BY <1>1 DEF ReviewDrafted, CrashWhileDrafting

\* A report is about every question: the review that made it was validated
\* against the questions, and no question or item is added to it later.  Until
\* the first crash there was nothing of an earlier review: it is about each once.
THEOREM ReportCoversExam == Spec => []CoveredDespiteCrash
<1> DEFINE Covered == report # "none" => SomeItemEach /\ (crashes = 0 => OneItemEach)
<1>1. Init => Covered
  BY DEF Init
<1>2. TypeOK /\ ReviewState /\ OneStory /\ Covered /\ [Next]_vars => Covered'
  <2> SUFFICES ASSUME TablesOK, ReviewState, OneStory, Covered, [Next]_vars, report' # "none"
               PROVE  SomeItemEach' /\ (crashes' = 0 => OneItemEach')
    BY DEF TypeOK, TablesOK
  <2>1. CASE report = "none"
    <3>1. SomeItemEach' /\ (items = <<>> => OneItemEach')
      BY <2>1, ReportAppears, ReviewCovers
    <3>2. crashes' = 0 => items = <<>>
      BY <2>1, NoCrash DEF OneStory, Story
    <3> QED
      BY <3>1, <3>2
  <2>2. CASE report # "none"
    <3>1. /\ DOMAIN items' = DOMAIN items
          /\ \A i \in DOMAIN items : items'[i].question = items[i].question
          /\ slotOf' = slotOf
      BY <2>2, CoverKept
    <3>2. SomeItemEach'
      BY <2>2, <3>1 DEF SomeItemEach, Questions
    <3>3. crashes' = 0 => OneItemEach'
      BY <2>2, <3>1, NoCrash DEF OneItemEach, Questions
    <3> QED
      BY <3>2, <3>3
  <2> QED
    BY <2>1, <2>2
<1>3. Covered => CoveredDespiteCrash
  <2>1. SomeItemEach => \A q \in Questions : ItemsOf(q) # {}
    BY DEF SomeItemEach, ItemsOf
  <2>2. ASSUME OneItemEach, NEW q \in Questions PROVE Cardinality(ItemsOf(q)) = 1
    <3>1. PICK i \in DOMAIN items : \A k \in DOMAIN items : items[k].question = q <=> k = i
      BY <2>2 DEF OneItemEach
    <3>2. ItemsOf(q) = {i}
      BY <3>1 DEF ItemsOf
    <3> QED
      BY <3>2, FS_Singleton
  <2> QED
    BY <2>1, <2>2 DEF CoveredDespiteCrash
<1> QED
  BY <1>1, <1>2, <1>3, Typing, ReviewStateHolds, OneStoryHolds, PTL DEF Spec
=============================================================================
