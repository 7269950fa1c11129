------------------------------- MODULE LogReader -------------------------------
(***************************************************************************)
(* What a subscriber of a speech job is promised (the comment on           *)
(* pumpSpeechJob in oral-session/questionSpeechJobs.ts): the chunks of the *)
(* job in order, each once, however late it comes and however slowly it    *)
(* reads, and after the last one how the job ended.  The end of a log is   *)
(* for good, unless the job was told, while it was live, to run twice.     *)
(***************************************************************************)
EXTENDS Sequences, Integers

CONSTANTS Readers, Outcomes

VARIABLES
  log,      \* the job's chunks
  outcome,  \* "live", then one of Outcomes
  final,    \* the end of the log will be for good
  heard,    \* reader -> the chunks it was sent
  told      \* reader -> "nothing", then the outcome

Init ==
  /\ log = <<>> /\ outcome = "live" /\ final = TRUE
  /\ heard = [r \in Readers |-> <<>>]
  /\ told = [r \in Readers |-> "nothing"]

\* The log grows at its end while the job is live.
Extend ==
  /\ outcome = "live"
  /\ Len(log') >= Len(log)
  /\ \A i \in 1 .. Len(log) : log'[i] = log[i]
  /\ UNCHANGED <<outcome, final, heard, told>>

Settle ==
  /\ outcome = "live"
  /\ outcome' \in Outcomes
  /\ UNCHANGED <<log, final, heard, told>>

\* The exception: while it is live, and before anything is written, a log may be
\* marked for a second life, which then begins when it has ended.
Double ==
  /\ outcome = "live" /\ log = <<>>
  /\ final' = FALSE
  /\ UNCHANGED <<log, outcome, heard, told>>

Reopen ==
  /\ outcome \in Outcomes /\ ~final
  /\ outcome' = "live"
  /\ UNCHANGED <<log, final, heard, told>>

Hear(r) ==
  /\ told[r] = "nothing"
  /\ Len(heard[r]) < Len(log)
  /\ heard' = [heard EXCEPT ![r] = Append(@, log[Len(@) + 1])]
  /\ UNCHANGED <<log, outcome, final, told>>

BeTold(r) ==
  /\ told[r] = "nothing"
  /\ Len(heard[r]) = Len(log) /\ outcome \in Outcomes
  /\ told' = [told EXCEPT ![r] = outcome]
  /\ UNCHANGED <<log, outcome, final, heard>>

Next == Extend \/ Settle \/ Double \/ Reopen \/ \E r \in Readers : Hear(r) \/ BeTold(r)

Spec == Init /\ [][Next]_<<log, outcome, final, heard, told>>
=============================================================================
