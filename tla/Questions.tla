------------------------------ MODULE Questions ------------------------------
(***************************************************************************)
(* A request's questions to the operator: the form of questions.ts, the    *)
(* attempts and the one repair that packages/core/src/loop.ts counts       *)
(* (`questionHost', `questionAttempt', `questionReturned',                 *)
(* `repairQuestion') by the rule of questions-rule.ts, and the calls of a  *)
(* reply around them.  The model's replies are whatever it may send; the   *)
(* operator submits, cancels, adds input or stops at any step.             *)
(***************************************************************************)
EXTENDS Naturals, Sequences

CONSTANTS
  Responder,   \* someone shows forms (`options.questions')
  MaxAsks,     \* how many batches a request may attempt
  MaxReplies   \* bounds the model's replies

VARIABLES
  pc,          \* where the run is: at the model, among a reply's calls, at a form, behind it, or ended
  replies,
  batch,       \* the reply's calls that have no result yet
  cut,         \* the reply was cut at its length limit
  boundary,    \* a question of this reply has its outcome
  times, repaired, repairing, unresolved,   \* `asked'
  raised,      \* the model's last reply ended in a question, or its last ask was rejected
  input,       \* input of the operator's waits
  saved,       \* the forms whose answer is on disk
  told,        \* the forms whose answer is in the conversation
  forms,       \* forms shown
  ran,         \* a call that is no question ran as the last step
  repairs,     \* repairs asked for
  stopped, outcome
vars == <<pc, replies, batch, cut, boundary, times, repaired, repairing, unresolved, raised, input, saved, told, forms, ran, repairs, stopped, outcome>>
counters == <<times, repaired, repairing, unresolved, raised, repairs>>

Asks == {"ask", "badask"}
Calls == Asks \cup {"work"}

Init ==
  /\ pc = "model" /\ replies = 0 /\ batch = <<>> /\ cut = FALSE /\ boundary = FALSE
  /\ times = 0 /\ repaired = FALSE /\ repairing = FALSE /\ unresolved = FALSE /\ raised = FALSE
  /\ input = FALSE /\ saved = {} /\ told = {} /\ forms = 0 /\ ran = FALSE /\ repairs = 0
  /\ stopped = FALSE /\ outcome = "none"

Ends(as) == pc' = "ended" /\ outcome' = as
RepairOrProceed(blocking) ==
  IF ~blocking \/ repaired THEN "proceed" ELSE IF Responder /\ times < MaxAsks THEN "repair" ELSE "incomplete"
Repair(blocking) ==
  IF ~blocking THEN "proceed" ELSE IF Responder /\ ~repaired /\ times < MaxAsks THEN "repair" ELSE "incomplete"

\* The model answers without a call: input that waits goes first, else a
\* question in prose is repaired once.
Prose(blocking) ==
  /\ pc = "model" /\ ~stopped /\ replies < MaxReplies /\ replies' = replies + 1 /\ ran' = FALSE /\ raised' = blocking
  /\ UNCHANGED <<batch, cut, boundary, times, unresolved, saved, told, forms, stopped>>
  /\ IF input THEN input' = FALSE /\ repairing' = FALSE /\ UNCHANGED <<pc, outcome, repaired, repairs>>
     ELSE /\ UNCHANGED input
          /\ CASE Repair(blocking) = "proceed" -> Ends("completed") /\ repairing' = FALSE /\ UNCHANGED <<repaired, repairs>>
               [] Repair(blocking) = "repair" ->
                    repaired' = TRUE /\ repairing' = TRUE /\ repairs' = repairs + 1 /\ UNCHANGED <<pc, outcome>>
               [] OTHER -> Ends("incomplete") /\ UNCHANGED <<repaired, repairing, repairs>>

Reply(calls, short) ==
  /\ pc = "model" /\ ~stopped /\ replies < MaxReplies /\ replies' = replies + 1 /\ ran' = FALSE
  /\ pc' = "calls" /\ batch' = calls /\ cut' = short /\ boundary' = FALSE /\ raised' = FALSE
  /\ UNCHANGED <<times, repaired, repairing, unresolved, repairs, input, saved, told, forms, stopped, outcome>>

\* The call has its result, and a question's is the reply's boundary.
Resulted == batch' = Tail(batch) /\ boundary' = (boundary \/ Head(batch) \in Asks) /\ pc' = "calls"

\* The attempt is counted as the call is met: one that a repair does not
\* allow or that comes after the last batch leaves the question unresolved.
Refuses == (repairing /\ Head(batch) = "work") \/ (Head(batch) # "work" /\ times >= MaxAsks)
Counted == IF Head(batch) # "work" THEN times + 1 ELSE times

\* What a question that was rejected does: the one repair, or unresolved.
Returned(error, n, already) ==
  /\ raised' = error
  /\ IF ~error THEN repairing' = FALSE /\ unresolved' = already /\ UNCHANGED <<repaired, repairs>>
     ELSE IF Responder /\ ~repaired /\ n < MaxAsks
          THEN repaired' = TRUE /\ repairing' = TRUE /\ repairs' = repairs + 1 /\ unresolved' = already
          ELSE unresolved' = TRUE /\ UNCHANGED <<repaired, repairing, repairs>>

\* A call after a question's outcome, or once a question is unresolved.
Skips == boundary \/ unresolved
Skip ==
  /\ pc = "calls" /\ batch # <<>> /\ ~stopped /\ Skips /\ Resulted /\ ran' = FALSE
  /\ UNCHANGED <<replies, cut, counters, input, saved, told, forms, stopped, outcome>>

\* A call of a reply that was cut does not run, but a question counts.
Truncated ==
  /\ pc = "calls" /\ batch # <<>> /\ ~stopped /\ ~Skips /\ cut /\ Resulted /\ ran' = FALSE
  /\ UNCHANGED <<replies, cut, input, saved, told, forms, stopped, outcome>>
  /\ times' = IF Refuses THEN times ELSE Counted
  /\ IF Head(batch) # "work" THEN Returned(TRUE, times', Refuses)
     ELSE unresolved' = Refuses /\ UNCHANGED <<repaired, repairing, raised, repairs>>

Call ==
  /\ pc = "calls" /\ batch # <<>> /\ ~stopped /\ ~Skips /\ ~cut
  /\ UNCHANGED <<replies, cut, input, saved, told, stopped, outcome>>
  /\ \/ /\ Refuses /\ Resulted /\ unresolved' = TRUE /\ ran' = FALSE
        /\ UNCHANGED <<times, repaired, repairing, raised, repairs, forms>>
     \/ /\ ~Refuses /\ Head(batch) = "work" /\ Resulted /\ ran' = TRUE /\ UNCHANGED <<counters, forms>>
     \/ /\ ~Refuses /\ Head(batch) # "work" /\ times' = Counted /\ ran' = FALSE
        /\ IF Head(batch) = "ask" /\ Responder
           THEN pc' = "form" /\ forms' = forms + 1 /\ UNCHANGED <<batch, boundary, repaired, repairing, unresolved, raised, repairs>>
           ELSE Resulted /\ Returned(TRUE, times', FALSE) /\ UNCHANGED forms

\* The operator submits: an answer that is not of this batch leaves the form,
\* one given after the stop is not saved, one that cannot be saved ends all.
Submit ==
  /\ pc = "form" /\ ~stopped /\ ran' = FALSE
  /\ UNCHANGED <<replies, batch, cut, boundary, counters, input, told, forms, stopped>>
  /\ \/ pc' = "behind" /\ saved' = saved \cup {forms} /\ UNCHANGED outcome
     \/ Ends("error") /\ UNCHANGED saved

\* The operator cancels, or the stop releases the form; neither is an answer
\* and neither is repaired.
Cancel ==
  /\ pc = "form" /\ Resulted /\ Returned(FALSE, times, FALSE) /\ ran' = FALSE
  /\ UNCHANGED <<replies, cut, times, input, saved, told, forms, stopped, outcome>>

\* The handlers behind an answered call end, or the stop's grace does: the
\* answer was saved, so the call's result is the answer.
Kept == told' = told \cup {forms}
Behind ==
  /\ pc = "behind" /\ Resulted /\ Kept /\ ran' = FALSE
  /\ \/ Returned(FALSE, times, FALSE) /\ UNCHANGED times
     \/ stopped /\ UNCHANGED counters
  /\ UNCHANGED <<replies, cut, input, saved, forms, stopped, outcome>>

\* After the calls: the stop first, then a question left unresolved.
AfterCalls ==
  /\ pc = "calls" /\ batch = <<>> /\ ran' = FALSE
  /\ CASE stopped -> Ends("aborted") [] ~stopped /\ unresolved -> Ends("incomplete") [] OTHER -> pc' = "model" /\ UNCHANGED outcome
  /\ UNCHANGED <<replies, batch, cut, boundary, counters, input, saved, told, forms, stopped>>

Input == pc \in {"model", "calls", "form"} /\ ~input /\ input' = TRUE /\ ran' = FALSE /\ UNCHANGED <<pc, replies, batch, cut, boundary, counters, saved, told, forms, stopped, outcome>>
Stop == pc # "ended" /\ ~stopped /\ stopped' = TRUE /\ ran' = FALSE /\ UNCHANGED <<pc, replies, batch, cut, boundary, counters, input, saved, told, forms, outcome>>
\* The stop interrupts the turns; the calls that did not begin are answered.
Interrupted ==
  /\ stopped /\ pc \in {"model", "calls"} /\ Ends("aborted") /\ batch' = <<>> /\ ran' = FALSE
  /\ UNCHANGED <<replies, cut, boundary, counters, input, saved, told, forms, stopped>>

Replies == UNION {[1 .. n -> Calls] : n \in 1 .. 2}
Next ==
  \/ \E blocking \in BOOLEAN : Prose(blocking)
  \/ \E calls \in Replies, short \in BOOLEAN : Reply(calls, short)
  \/ Skip \/ Truncated \/ Call \/ Submit \/ Cancel \/ Behind \/ AfterCalls \/ Input \/ Stop \/ Interrupted
Spec == Init /\ [][Next]_vars
\* What follows a stop: the form is released, the handlers get their grace.
Settles == stopped /\ (Cancel \/ Behind \/ Interrupted)
FairSpec == Spec /\ WF_vars(Settles)

------------------------------------------------------------------------------
\* The types of the state.
TypeOK ==
  /\ pc \in {"model", "calls", "form", "behind", "ended"} /\ replies \in 0 .. MaxReplies /\ batch \in Seq(Calls)
  /\ {cut, boundary, repaired, repairing, unresolved, raised, input, ran, stopped} \subseteq BOOLEAN
  /\ times \in Nat /\ forms \in Nat /\ repairs \in Nat /\ saved \subseteq 1 .. forms /\ told \subseteq saved
  /\ outcome \in {"none", "completed", "incomplete", "error", "aborted"} /\ (outcome # "none") = (pc = "ended")

\* A request shows the operator at most three forms and sends the model back
\* for one repair, whichever of the two paths a question was met on.
QuestionsAreBounded == forms <= times /\ times <= MaxAsks /\ repairs <= 1

\* A run that ends as completed left no question in its last words and no
\* ask of its last calls rejected: it was answered, cancelled, taken back by
\* the model, or the run is incomplete and names it.
NoQuestionIsDropped == outcome = "completed" => ~raised /\ ~unresolved

\* While the model repairs a question, and after a question's outcome in the
\* same reply, no other tool runs.
QuestionsGoFirst == [][ran' => ~repairing /\ ~boundary]_vars

\* An answer that was saved is in the conversation when the run ends, though
\* the stop came while the call's handlers ran.
SavedAnswersAreTold == pc = "ended" => told = saved

\* A stop ends the run, whatever form the operator left open.
StopsEndTheForm == stopped ~> pc = "ended"

\* What a request promises of its questions, in one: bounded, never dropped,
\* their saved answers told, and nothing else run before or after them.
Safety == [](QuestionsAreBounded /\ NoQuestionIsDropped /\ SavedAnswersAreTold) /\ QuestionsGoFirst
=============================================================================
