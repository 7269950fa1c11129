----------------------------- MODULE OralSession -----------------------------
(***************************************************************************)
(* One oral-test session, from its first question to its approved report:  *)
(* oral-session/{startSession,questionEngine,submitTurn}.ts, the room lock *)
(* of claude-cli/lock.ts, review/draftReview.ts, and the routes and tables *)
(* behind them.                                                            *)
(*                                                                         *)
(* A request handler runs without interruption up to its one await, the    *)
(* call of the Claude CLI, which it makes with the room lock held; the     *)
(* reply is a second step.  The tables survive a crash, the lock and the   *)
(* calls do not.  Sessions share no row and no lock: one is enough.        *)
(***************************************************************************)
EXTENDS Integers, Sequences, FiniteSets, FiniteSetsExt

CONSTANTS
  QuestionCount,  \* the blueprint: slot -> question_count, in the order of listSlotsForBlueprint
  MaxCrashes      \* bound: process crashes in a behaviour

ASSUME ConstantsAssumption ==
  /\ QuestionCount \in Seq(Nat \ {0})
  /\ MaxCrashes \in Nat

VARIABLES
  status,   \* assessment_sessions.status, "none" before the row exists
  slotOf,   \* questions: the slot of each, in order of creation
  turns,    \* oral_turns: how many there are for each question
  items,    \* rubric_items of the session, in order of creation
  report,   \* reports.status, "none" before the row exists
  busy,     \* busyRooms has the session
  calls,    \* CLI calls in flight
  crashes

tables == <<status, slotOf, turns, items, report>>
vars   == <<tables, busy, calls, crashes>>

Slots     == DOMAIN QuestionCount
Questions == DOMAIN slotOf
Items     == [question : Nat, ai : {"graded", "insufficient_evidence"},
              override : {"none", "level"}, approver : {"none", "lecturer"}]
AskCalls    == [kind : {"ask"}, slot : Slots, seen : Nat]
ReviewCalls == [kind : {"review"}, seen : Nat, turns : Seq(Nat)]

TypeOK ==
  /\ status \in {"none", "in_progress", "completed", "reviewed", "approved"}
  /\ slotOf \in Seq(Slots)
  /\ turns \in Seq(Nat) /\ Len(turns) = Len(slotOf)
  /\ items \in Seq(Items)
  /\ report \in {"none", "draft", "approved"}
  /\ busy \in BOOLEAN
  /\ calls \subseteq AskCalls \cup ReviewCalls
  /\ crashes \in Nat

Init ==
  /\ status = "none" /\ slotOf = <<>> /\ turns = <<>> /\ items = <<>> /\ report = "none"
  /\ busy = FALSE /\ calls = {} /\ crashes = 0

-------------------------------------------------------------------------------
(* Asking and answering *)

AskedFrom(s) == Cardinality({q \in Questions : slotOf[q] = s})

\* Mutants: a slot is pending until it has one question too many; slots are
\* counted from zero.
PendingSlotsMutant == {s \in Slots : AskedFrom(s) <= QuestionCount[s]}
PendingSlots == {s \in Slots : AskedFrom(s) < QuestionCount[s]}
NextPendingSlotMutant == Min(PendingSlots) - 1
NextPendingSlot == Min(PendingSlots)

\* askNextQuestionLocked up to its await, for a session that is in progress: the
\* lock is released at once if every slot is satisfied, else held for the call.
AskNextQuestion ==
  \/ /\ PendingSlots = {}
     /\ status' = "completed"
     /\ UNCHANGED <<busy, calls>>
  \/ /\ PendingSlots # {}
     /\ status' = "in_progress"
     /\ busy' = TRUE
     /\ calls' = calls \cup {[kind |-> "ask", slot |-> NextPendingSlot, seen |-> Len(slotOf)]}

StartSession ==
  /\ status = "none"
  /\ AskNextQuestion
  /\ UNCHANGED <<slotOf, turns, items, report, crashes>>

\* Mutant: no check that the question is still unanswered.
SubmitTurnMutant(q) ==
  /\ status = "in_progress"
  /\ ~busy
  /\ turns' = [turns EXCEPT ![q] = @ + 1]
  /\ AskNextQuestion
  /\ UNCHANGED <<slotOf, items, report, crashes>>

\* Every check is made before the lock is asked for, and nothing awaited between.
SubmitTurn(q) ==
  /\ status = "in_progress"
  /\ turns[q] = 0
  /\ ~busy
  /\ turns' = [turns EXCEPT ![q] = @ + 1]
  /\ AskNextQuestion
  /\ UNCHANGED <<slotOf, items, report, crashes>>

\* Mutant: no `finally` around the locked section.
EndCallMutant(c) == calls' = calls \ {c} /\ UNCHANGED busy

\* withRoomLock's way out.
EndCall(c) == calls' = calls \ {c} /\ busy' = FALSE

\* The CLI answers with a valid question about the slot it was asked about.  The
\* session's status is not looked at again.
QuestionGenerated(c) ==
  /\ c.kind = "ask"
  /\ slotOf' = Append(slotOf, c.slot)
  /\ turns' = Append(turns, 0)
  /\ EndCall(c)
  /\ UNCHANGED <<status, items, report, crashes>>

\* The call fails: no source chunks, a CLI error or its deadline, an invalid
\* block, another slot, a slot that could not be grounded, an invalid review.
CallFails(c) ==
  /\ EndCall(c)
  /\ UNCHANGED <<tables, crashes>>

\* POST .../end takes no lock.
EndSession ==
  /\ status = "in_progress"
  /\ status' = "completed"
  /\ UNCHANGED <<slotOf, turns, items, report, busy, calls, crashes>>

-------------------------------------------------------------------------------
(* Review, override and approval *)

\* Mutant: the review does not ask for the lock.
DraftReviewMutant ==
  /\ report = "none" /\ status = "completed" /\ slotOf # <<>>
  /\ busy' = TRUE
  /\ calls' = calls \cup {[kind |-> "review", seen |-> Len(slotOf), turns |-> turns]}
  /\ UNCHANGED <<tables, crashes>>

DraftReview ==
  /\ ~busy
  /\ report = "none" /\ status = "completed" /\ slotOf # <<>>
  /\ busy' = TRUE
  /\ calls' = calls \cup {[kind |-> "review", seen |-> Len(slotOf), turns |-> turns]}
  /\ UNCHANGED <<tables, crashes>>

\* What the CLI may suggest: a list of questions of the snapshot, each
\* graded on turns the CLI names or without evidence.
ReviewOutputs(n) ==
  UNION {[1 .. k -> [question : 1 .. n, ai : {"graded", "insufficient_evidence"}]] : k \in 1 .. n}

\* Mutant: the validation misses an uncovered question.
ValidUncoveredMutant(out) ==
  /\ \A i \in DOMAIN out : out[i].question \in Questions
  /\ \A i \in DOMAIN out : out[i].ai = "graded" => turns[out[i].question] > 0
  /\ \A i, k \in DOMAIN out : out[i].question = out[k].question => i = k

\* validateReviewOutputAgainstSession, on the rows the session has when the
\* reply arrives, with parseReviewOutputBlock's rule that a grade cites a turn.
ValidReviewOutput(out) ==
  /\ \A i \in DOMAIN out : out[i].question \in Questions
  /\ \A i \in DOMAIN out : out[i].ai = "graded" => turns[out[i].question] > 0
  /\ \A i, k \in DOMAIN out : out[i].question = out[k].question => i = k
  /\ \A q \in Questions : \E i \in DOMAIN out : out[i].question = q

NewItems(out) ==
  [i \in DOMAIN out |-> [question |-> out[i].question, ai |-> out[i].ai,
                         override |-> "none", approver |-> "none"]]

ReviewDrafted(c) ==
  /\ c.kind = "review"
  /\ \E out \in ReviewOutputs(c.seen) :
       /\ ValidReviewOutput(out)
       /\ items' = items \o NewItems(out)
  /\ report' = "draft"
  /\ status' = "reviewed"
  /\ EndCall(c)
  /\ UNCHANGED <<slotOf, turns, crashes>>

\* PUT .../rubric-items/:itemId looks at neither the report nor the session.
OverrideItem(i, level) ==
  /\ items' = [items EXCEPT ![i].override = level]
  /\ UNCHANGED <<status, slotOf, turns, report, busy, calls, crashes>>

ApproveItems == [i \in DOMAIN items |-> [items[i] EXCEPT !.approver = "lecturer"]]

\* Mutant: the approval forgets the session's status.
ApproveReportMutant ==
  /\ report = "draft"
  /\ report' = "approved"
  /\ items' = ApproveItems
  /\ UNCHANGED <<status, slotOf, turns, busy, calls, crashes>>

ApproveReport ==
  /\ report = "draft"
  /\ report' = "approved"
  /\ items' = ApproveItems
  /\ status' = "approved"
  /\ UNCHANGED <<slotOf, turns, busy, calls, crashes>>

-------------------------------------------------------------------------------
(* Crashes.  Every statement commits on its own: a crash inside a handler that *)
(* makes several writes keeps the ones before it.                              *)

Crash ==
  /\ crashes < MaxCrashes
  /\ crashes' = crashes + 1
  /\ busy' = FALSE /\ calls' = {}

CrashIdle == Crash /\ UNCHANGED tables

\* submitOralTurn: the answer without the status it may complete.
CrashWhileAnswering(q) ==
  /\ Crash
  /\ status = "in_progress" /\ turns[q] = 0 /\ ~busy
  /\ turns' = [turns EXCEPT ![q] = @ + 1]
  /\ UNCHANGED <<status, slotOf, items, report>>

\* draftReview: some of the items, or all of them, or the report as well.
CrashWhileDrafting(c) ==
  /\ Crash
  /\ c.kind = "review"
  /\ \E out \in ReviewOutputs(c.seen) :
       /\ ValidReviewOutput(out)
       /\ \/ /\ \E k \in 0 .. Len(out) : items' = items \o SubSeq(NewItems(out), 1, k)
             /\ UNCHANGED report
          \/ /\ items' = items \o NewItems(out)
             /\ report' = "draft"
  /\ UNCHANGED <<status, slotOf, turns>>

\* Mutant: the items are approved before the report.
CrashWhileApprovingMutant ==
  /\ Crash
  /\ report = "draft"
  /\ items' = ApproveItems
  /\ UNCHANGED <<status, slotOf, turns, report>>

\* The approve route: the report, or the report and the items.
CrashWhileApproving ==
  /\ Crash
  /\ report = "draft"
  /\ report' = "approved"
  /\ items' \in {items, ApproveItems}
  /\ UNCHANGED <<status, slotOf, turns>>

-------------------------------------------------------------------------------
Reply(c) == QuestionGenerated(c) \/ ReviewDrafted(c) \/ CallFails(c)

Next ==
  \/ StartSession \/ EndSession \/ DraftReview \/ ApproveReport
  \/ \E q \in Questions : SubmitTurn(q) \/ CrashWhileAnswering(q)
  \/ \E c \in calls : Reply(c) \/ CrashWhileDrafting(c)
  \/ \E i \in DOMAIN items, level \in {"none", "level"} : OverrideItem(i, level)
  \/ CrashIdle \/ CrashWhileApproving

Spec == Init /\ [][Next]_vars

\* runClaude's deadline ends every CLI call.
FairSpec == Spec /\ WF_vars(\E c \in calls : Reply(c))

-------------------------------------------------------------------------------
(* Properties *)

Unanswered == {q \in Questions : turns[q] = 0}

\* The room lock is held exactly while one CLI call of the session is in flight,
\* whatever way the call, its validation or the process ends.
LockHeldByItsCall ==
  /\ busy <=> calls # {}
  /\ \A c, d \in calls : c = d

\* The session never has two open questions, and none while the next one is
\* being generated: what a retried answer would break.
OneOpenQuestion ==
  /\ \A q, r \in Unanswered : q = r
  /\ \A c \in calls : c.kind = "ask" => Unanswered = {}

\* No question is answered twice.
OneTurnPerQuestion == \A q \in Questions : turns[q] <= 1

\* The questions follow the blueprint: slot by slot, never more than a slot's
\* question_count, counting the one being generated.
BlueprintFollowed ==
  /\ \A s \in Slots : AskedFrom(s) <= QuestionCount[s]
  /\ \A q, r \in Questions : q < r => slotOf[q] <= slotOf[r]
  /\ \A c \in calls : c.kind = "ask" => AskedFrom(c.slot) < QuestionCount[c.slot]

\* What a CLI call was told is still so when its reply arrives: no question was
\* added and no answer recorded in between, though /end takes no lock.
PromptStaysCurrent ==
  \A c \in calls : /\ c.seen = Len(slotOf)
                   /\ c.kind = "review" => c.turns = turns

\* Once anything of a review is stored, the exam it judges does not change.
ReviewedExamIsFrozen == [][items # <<>> => UNCHANGED <<slotOf, turns>>]_vars

\* A session's status and its report only move forward.
Rank(s) == CASE s = "none" -> 0 [] s = "in_progress" -> 1 [] s = "completed" -> 2
             [] s = "draft" -> 1 [] s = "reviewed" -> 3 [] s = "approved" -> 4
OnlyForward == [][Rank(status) <= Rank(status') /\ Rank(report) <= Rank(report')]_vars

ItemsOf(q) == {i \in DOMAIN items : items[i].question = q}

\* A reported session has one rubric item for each of its questions.
CoveredExactlyOnce ==
  report # "none" => \A q \in Questions : Cardinality(ItemsOf(q)) = 1

\* What is left of it in a server that may crash while it stores a review: no
\* question goes without an item, and until the first crash none has two.
CoveredDespiteCrash ==
  report # "none" =>
    /\ \A q \in Questions : ItemsOf(q) # {}
    /\ crashes = 0 => \A q \in Questions : Cardinality(ItemsOf(q)) = 1

\* Until the first crash, session, report and items tell the same story.
StatusMatchesReport ==
  crashes = 0 =>
    /\ status = "reviewed" <=> report = "draft"
    /\ status = "approved" <=> report = "approved"
    /\ \A i \in DOMAIN items : items[i].approver = "lecturer" <=> report = "approved"

\* No item is approved while its report is not, crashes or not.
ItemsApprovedWithReport ==
  \A i \in DOMAIN items : items[i].approver = "lecturer" => report = "approved"

\* Session, report and items agree as far as crashes let them.
ReportAgrees == StatusMatchesReport /\ ItemsApprovedWithReport

\* Every suggested grade rests on an answer to that very question.
GradesHaveEvidence ==
  \A i \in DOMAIN items : items[i].ai = "graded" => turns[items[i].question] > 0

\* The lock is always given back.
LockReleased == busy ~> ~busy

\* An answer is followed by the next question or by the end of the session: once
\* the session has a question and no call is in flight, there is one to answer.
NeverWedged == status = "in_progress" /\ ~busy /\ slotOf # <<>> => Unanswered # {}
=============================================================================
