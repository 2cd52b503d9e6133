---------------------------- MODULE ProviderRetry ----------------------------
(***************************************************************************)
(* One model reply and its retries: `streamed', `streamedOnce' and         *)
(* `replied' of packages/core/src/loop.ts inside a step the operator's     *)
(* stop interrupts, with the evidence of provider-retry.ts and the rule of *)
(* provider-retry-rule.ts.  A provider's answer is a reply or a failure:   *)
(* its kind, HTTP status and requested wait are what the model tells       *)
(* apart, and whether it reported its usage.  Time is in seconds.          *)
(***************************************************************************)
EXTENDS Integers, FiniteSets

CONSTANTS
  Failures,   \* failures a provider gives: [terminal, transient, status, wait]
  Seconds,    \* how long an attempt may take, and how much later than asked a timer may fire
  Limit,      \* retries of a reply
  Budget      \* seconds from the first failure in which a retry may begin

VARIABLES
  pc,         \* "calling", "waiting", "returned" or "recorded"
  attempt,    \* attempts begun
  evidence,   \* what the engine observed of the attempt: [terminal, transient, status, wait]
  retries, clock,
  first,      \* when the first failure came, -1 for none (`started')
  due,        \* when the wait ends
  given,      \* what the loop returned: "none", "reply", "failed", "error" or "aborted"
  entries,    \* attempts the file keeps as a retry's diagnostic
  replied,    \* attempts recorded as the reply
  counted,    \* attempts whose usage the session has counted
  gave,       \* history: attempts that gave a message, whole or failed, while the run waited
  stopped,    \* the run's signal
  left,       \* the run went on without the reply
  late        \* something was recorded after that
vars == <<pc, attempt, evidence, retries, clock, first, due, given, entries, replied, counted, gave, stopped, left, late>>

NoEvidence == [terminal |-> FALSE, transient |-> FALSE, status |-> 0, wait |-> 0]

Init ==
  /\ pc = "calling" /\ attempt = 1 /\ evidence = NoEvidence /\ retries = 0 /\ clock = 0 /\ first = -1 /\ due = 0
  /\ given = "none" /\ entries = {} /\ replied = {} /\ counted = {} /\ gave = {} /\ stopped = FALSE /\ left = FALSE /\ late = FALSE

\* The rule: terminal failures win; else a rate limit, a server's failure or
\* a transient one, within the retries and the time.
Refused(status) == status >= 400 /\ status < 500 /\ status # 429
RetryProviderCall(f, n, elapsed, delay) ==
  /\ ~f.terminal /\ ~Refused(f.status)
  /\ f.transient \/ f.status = 429 \/ (f.status >= 500 /\ f.status < 600)
  /\ n < Limit /\ elapsed + delay < Budget

\* What is read of a failure: each attempt has its own evidence, to which the
\* response's status and wait, when there were any, are added.
Observed(was, f) ==
  [terminal |-> f.terminal, transient |-> f.transient,
   status |-> IF f.status # 0 THEN f.status ELSE was.status, wait |-> IF f.wait > was.wait THEN f.wait ELSE was.wait]

Larger(a, b) == IF a > b THEN a ELSE b
Delay(f) == Larger(2 ^ retries, f.wait)
Records == late' = (late \/ left)

\* What an attempt gives reaches the step that waits for it, or no one.
Gives == gave' = (IF left THEN gave ELSE gave \cup {attempt})

\* The attempt ends with a reply or a call; a stopped or a left one is
\* returned as it is, whatever it says.
Answer ==
  /\ pc = "calling" /\ \E s \in Seconds : clock' = clock + s
  /\ pc' = "returned" /\ given' = "reply" /\ Gives /\ UNCHANGED <<attempt, evidence, retries, first, due, entries, replied, counted, stopped, left, late>>

\* The attempt fails with a message.  A failure that is retried is kept as a
\* diagnostic and its usage counted, on disk before the wait; no other is.
Fail(f) ==
  /\ pc = "calling" /\ (\E s \in Seconds : clock' = clock + s) /\ evidence' = Observed(evidence, f)
  /\ first' = IF first = -1 /\ ~stopped /\ ~left THEN clock' ELSE first
  /\ Gives /\ UNCHANGED <<attempt, replied, stopped, left>>
  /\ IF ~stopped /\ ~left /\ RetryProviderCall(evidence', retries, clock' - first', Delay(evidence'))
     THEN /\ pc' = "waiting" /\ retries' = retries + 1 /\ due' = clock' + Delay(evidence')
          /\ entries' = entries \cup {attempt} /\ counted' = counted \cup {attempt} /\ Records /\ UNCHANGED given
     ELSE pc' = "returned" /\ given' = "failed" /\ UNCHANGED <<retries, due, entries, counted, late>>

\* The provider throws after the stop: the attempt gives no message, so the
\* turn is aborted with nothing to record, whatever it had used.
Thrown(f) ==
  /\ pc = "calling" /\ stopped /\ (\E s \in Seconds : clock' = clock + s) /\ evidence' = Observed(evidence, f)
  /\ pc' = "returned" /\ given' = "aborted" /\ UNCHANGED <<attempt, retries, first, due, entries, replied, counted, gave, stopped, left, late>>

\* The provider rejects the conversation as too long: no retry, whatever it says.
Overflow == pc = "calling" /\ pc' = "returned" /\ given' = "failed" /\ Gives /\ UNCHANGED <<attempt, evidence, retries, clock, first, due, entries, replied, counted, stopped, left, late>>

\* The wait ends, or the stop interrupts it; a timer may fire late.
WokenKeeps ==  \* mutant: the evidence of one attempt is left to the next
  /\ pc = "waiting" /\ UNCHANGED <<retries, first, due, entries, replied, counted, gave, stopped, left, late>>
  /\ IF stopped THEN pc' = "returned" /\ given' = "aborted" /\ UNCHANGED <<attempt, evidence, clock>>
     ELSE /\ \E s \in Seconds : clock' = due + s
          /\ IF clock' - first >= Budget THEN pc' = "returned" /\ given' = "error" /\ UNCHANGED <<attempt, evidence>>
             ELSE pc' = "calling" /\ attempt' = attempt + 1 /\ UNCHANGED <<evidence, given>>
Woken ==
  /\ pc = "waiting" /\ UNCHANGED <<retries, first, due, entries, replied, counted, gave, stopped, left, late>>
  /\ IF stopped THEN pc' = "returned" /\ given' = "aborted" /\ UNCHANGED <<attempt, evidence, clock>>
     ELSE /\ \E s \in Seconds : clock' = due + s
          /\ IF clock' - first >= Budget THEN pc' = "returned" /\ given' = "error" /\ UNCHANGED <<attempt, evidence>>
             ELSE pc' = "calling" /\ attempt' = attempt + 1 /\ evidence' = NoEvidence /\ UNCHANGED given

\* The step records what it was given: a reply or a failed one, as a message
\* of the conversation, with its usage.
Record ==
  /\ pc = "returned" /\ ~left /\ pc' = "recorded"
  /\ IF given \in {"reply", "failed"} THEN replied' = replied \cup {attempt} /\ counted' = counted \cup {attempt} /\ Records
     ELSE UNCHANGED <<replied, counted, late>>
  /\ UNCHANGED <<attempt, evidence, retries, clock, first, due, given, entries, gave, stopped, left>>

Stop == pc # "recorded" /\ ~stopped /\ stopped' = TRUE /\ UNCHANGED <<pc, attempt, evidence, retries, clock, first, due, given, entries, replied, counted, gave, left, late>>
\* The provider did not report within the grace.
Leave == pc = "calling" /\ stopped /\ ~left /\ left' = TRUE /\ UNCHANGED <<pc, attempt, evidence, retries, clock, first, due, given, entries, replied, counted, gave, stopped, late>>

Next == Answer \/ (\E f \in Failures : Fail(f) \/ Thrown(f)) \/ Overflow \/ Woken \/ Record \/ Stop \/ Leave
Spec == Init /\ [][Next]_vars
\* An attempt that is stopped ends or is left; the timer fires.
Settles == Woken \/ Record \/ (stopped /\ Leave)
FairSpec == Spec /\ WF_vars(Settles)

------------------------------------------------------------------------------
\* The types of the state.
TypeOK ==
  /\ pc \in {"calling", "waiting", "returned", "recorded"} /\ attempt \in Nat /\ retries \in Nat /\ clock \in Nat
  /\ first \in Nat \cup {-1} /\ given \in {"none", "reply", "failed", "error", "aborted"}
  /\ entries \subseteq 1 .. attempt /\ replied \subseteq 1 .. attempt /\ counted \subseteq 1 .. attempt /\ gave \subseteq 1 .. attempt
  /\ {stopped, left, late} \subseteq BOOLEAN

\* A failure is retried only when it is itself transient and in time: the
\* status or the wait an earlier attempt met says nothing of this one.
RetriesAreForTheirOwnFailure == [][\A f \in Failures : Fail(f) /\ pc' = "waiting" => RetryProviderCall(f, retries, clock' - first', Delay(f))]_vars

\* No attempt begins once the retries or the time are used up, though the
\* provider asks for a wait or the timer fires late.
RetriesAreBounded == [][attempt' # attempt => (retries <= Limit /\ attempt = retries /\ clock' - first < Budget)]_vars

\* Every message an attempt gave while the run waited, whole or failed, is in
\* the file once, as a retry's diagnostic or as the reply, and counted once, as
\* soon as the step takes what the last one returned; nothing else is counted.
\* What a resumed session counts is what this one showed.  An attempt that
\* throws after the stop gives no message: its usage is in neither.
UsageIsCountedOnce ==
  /\ counted = entries \cup replied /\ entries \cap replied = {} /\ counted \subseteq gave
  /\ gave \ counted \subseteq (IF pc = "returned" /\ given \in {"reply", "failed"} THEN {attempt} ELSE {})

\* Once the run went on without the reply, nothing more is recorded of it.
LeftRepliesAreSilent == ~late

Safety == [](TypeOK /\ UsageIsCountedOnce /\ LeftRepliesAreSilent) /\ RetriesAreForTheirOwnFailure /\ RetriesAreBounded

\* A stop ends the reply, in a wait or a call.
StopsEndTheReply == stopped ~> (pc = "recorded" \/ left)
=============================================================================
