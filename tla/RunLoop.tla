------------------------------ MODULE RunLoop -------------------------------
(***************************************************************************)
(* The life of a session's runs in the agent loop                          *)
(* (packages/core/src/loop.ts): a prompt becomes a run once its request is *)
(* written, the model takes turns, input arrives meanwhile, jobs run in    *)
(* the background, and the run settles: its handlers finish, its           *)
(* extensions and then its verifier settle, and the settle rule sends it   *)
(* back or ends it.  The loop, the operator, the input handlers, the tool  *)
(* calls and the jobs are separate actors: an action is what one of them   *)
(* does between two awaits.                                                *)
(*                                                                         *)
(* Abstracted: what a message says, the events told to the shell, and the  *)
(* content of the journal (module Journal).  A turn's compaction, its      *)
(* provider retries and its question repair stay inside the stage `reply'. *)
(***************************************************************************)
EXTENDS Naturals, FiniteSets

CONSTANTS MaxRun,            \* bound: prompts that become runs
          MaxInput,          \* bound: messages sent while a run is going
          Jobs,              \* bound: the jobs calls may start
          ContinuationLimit, \* automatic continuations per run; 32 in the code
          Registered         \* whether the verifier registered a settle handler

ASSUME RunLoopAssumption ==
  /\ MaxRun \in Nat \ {0}
  /\ MaxInput \in Nat
  /\ ContinuationLimit \in Nat
  /\ Registered \in BOOLEAN

-----------------------------------------------------------------------------
(* The rule that decides what follows the two settlement phases of a run      *)
(* (packages/core/src/settle-rule.ts): pure functions of what the model's     *)
(* turns, the settle handlers and the operator did.                           *)
RunOutcome == {"completed", "aborted", "error"}

\* What a run's end says of it.
EndOutcome == {"completed", "incomplete", "aborted", "error"}

\* After the ordinary settle handlers: go on, verify, or only finalize.
AfterExtensions(outcome, cancelled, threw, continued, continuations, limit, finalizing) ==
  CASE cancelled \/ outcome # "completed" -> "finalize"
    [] ~cancelled /\ outcome = "completed" /\ finalizing -> "verify"
    [] ~cancelled /\ outcome = "completed" /\ ~finalizing /\ threw -> "finalize"
    [] ~cancelled /\ outcome = "completed" /\ ~finalizing /\ ~threw /\ ~continued -> "verify"
    [] OTHER -> IF continuations < limit THEN "continue" ELSE "finalize"

\* A completed run goes on or completes only behind a verification that ran.
VerifiedThrough(outcome, verifying, threw, registered, finalizing) ==  \* mutant: a throw is ignored
  outcome = "completed" /\ verifying /\ registered /\ ~finalizing
Verified(outcome, verifying, threw, registered, finalizing) ==
  outcome = "completed" /\ verifying /\ ~threw /\ registered /\ ~finalizing

\* After the verifier's settle handler: go on, or how the run ends.
AfterVerifier(outcome, verifying, cancelled, threw, registered, continued, pending, running, continuations, limit, finalizing) ==
  IF cancelled \/ outcome = "aborted" THEN "aborted"
  ELSE IF outcome = "error" /\ ~threw THEN "error"
  ELSE IF ~Verified(outcome, verifying, threw, registered, finalizing) THEN "incomplete"
  ELSE IF continued THEN IF continuations < limit THEN "continue" ELSE "incomplete"
  ELSE IF pending \/ running THEN "continue" ELSE "completed"
-----------------------------------------------------------------------------

Runs == 1 .. MaxRun
Inputs == 1 .. MaxInput

Stage == {"idle", "capturing", "input", "reply", "calling", "awaitJobs",
          "stoppingJobs", "handlers", "extensions", "verifier", "release", "failing"}

Behavior == {"steer", "followUp"}
\* A queued message is named by how it enters the conversation.
InputStatus == Behavior \cup {"unsent", "asking", "delivered", "withdrawn", "refused", "dropped"}
JobState == {"none", "running", "finished", "told"}
JobMode == {"background", "foreground"}
Decision == {"none", "automatic", "input", "end", "fail"}

VARIABLES
  run,            \* `runs': the last run whose request is written
  stage,          \* where the loop is suspended
  stopped,        \* the current controller's signal is aborted
  closed,         \* the run's end is written, or it never became a run
  broken,         \* a write to the journal failed: it takes no other
  input,          \* each message sent during a run: what became of it
  inputRun,       \* the run it was accepted in; 0 when none
  handling,       \* its input handlers run
  waiting,        \* its input handlers wait for the settlement to end
  awaited,        \* the handlers a `Promise.all(handling)' waits for
  errors,         \* handlers other than settle's threw since last taken
  job,            \* each job's state
  mode,           \* whether the call that started it waits for it
  callRun,        \* the run of the call that asked for the job
  startRun,       \* the run its start is written in
  endRun,         \* the run its end is written in; 0 while it is not
  stopping,       \* the jobs `stopJobs' waits for
  left,           \* runs that went on without a call still running
  ended,          \* how the turns ended; "incomplete" is completed with a question unresolved
  threw,          \* an ordinary settle handler threw in this settlement
  first,          \* what followed the extensions: "verify" or "finalize"
  decision,       \* what the settlement decided
  continuations,  \* automatic continuations so far
  runEnd,         \* each run's written end; "none" before
  failed          \* history: the runs that were stopped or in which something failed, before their end

inputVars == <<input, inputRun, handling, waiting, awaited, errors>>
jobVars == <<job, mode, callRun, startRun, endRun, stopping, left>>
settleVars == <<ended, threw, first, decision, continuations, runEnd, failed>>
loopVars == <<run, stage, stopped, closed, broken>>
vars == <<loopVars, inputVars, jobVars, settleVars>>

TypeOK ==
  /\ run \in 0 .. MaxRun
  /\ stage \in Stage
  /\ stopped \in BOOLEAN /\ closed \in BOOLEAN /\ broken \in BOOLEAN
  /\ input \in [Inputs -> InputStatus]
  /\ inputRun \in [Inputs -> 0 .. MaxRun]
  /\ handling \in SUBSET Inputs /\ waiting \in SUBSET Inputs /\ awaited \in SUBSET Inputs
  /\ errors \in BOOLEAN
  /\ job \in [Jobs -> JobState]
  /\ mode \in [Jobs -> JobMode]
  /\ callRun \in [Jobs -> 0 .. MaxRun]
  /\ startRun \in [Jobs -> 0 .. MaxRun]
  /\ endRun \in [Jobs -> 0 .. MaxRun]
  /\ stopping \in SUBSET Jobs
  /\ left \in SUBSET Runs
  /\ ended \in EndOutcome
  /\ threw \in BOOLEAN
  /\ first \in {"none", "verify", "finalize"}
  /\ decision \in Decision
  /\ continuations \in Nat
  /\ runEnd \in [Runs -> EndOutcome \cup {"none"}]
  /\ failed \subseteq 0 .. MaxRun

-----------------------------------------------------------------------------
(* What the loop reads of its state. *)

Queue == {i \in Inputs : input[i] \in Behavior}
Steers == {i \in Inputs : input[i] = "steer"}
RunningJobs == {j \in Jobs : job[j] = "running"}
FinishedJobs == {j \in Jobs : job[j] = "finished"}

\* The run the prompt is for, from the prompt on.
Current == IF stage = "capturing" THEN run + 1 ELSE run
FailsIf(fails) == failed' = IF fails THEN failed \cup {Current} ELSE failed

\* The request is not in the file yet: what depends on it waits for `recorded'.
RecordAtOnce == FALSE  \* mutant: a message does not wait for the request
RecordPending == stage = "capturing"

SettlingOnceQuiet == stage \in {"extensions", "verifier"}  \* mutant: set after the wait for handlers
settling == stage \in {"handlers", "extensions", "verifier"}

\* The outcome settlement is told, and whether an unresolved question finalizes.
EndedOutcome == IF ended = "incomplete" THEN "completed" ELSE ended
Finalizing == ended = "incomplete"

\* Whether a generation of turns takes another reply before it may end.
DueMessages(arrived) == arrived # {}  \* mutant: job ends do not count
Due(arrived) == arrived # {} \/ FinishedJobs # {}

-----------------------------------------------------------------------------
(* Steps several actions share. *)

\* deliver(): the given messages, and every background job that ended, enter
\* the conversation of run r.
Deliver(due, r) ==
  /\ input' = [i \in Inputs |-> IF i \in due THEN "delivered" ELSE input[i]]
  /\ job' = [j \in Jobs |-> IF job[j] = "finished" THEN "told" ELSE job[j]]
  /\ endRun' = [j \in Jobs |-> IF job[j] = "finished" THEN r ELSE endRun[j]]

DeliverNothing == UNCHANGED <<input, job, endRun>>

\* The turns ended: the jobs that still run are stopped first.
EndTurns(how) ==
  /\ ended' = how
  /\ stage' = IF RunningJobs = {} THEN "handlers" ELSE "stoppingJobs"
  /\ stopping' = RunningJobs
  /\ awaited' = handling

\* The turns start: a run already stopped takes none.
BeginTurns(due) ==
  IF stopped
  THEN EndTurns("aborted") /\ DeliverNothing
  ELSE stage' = "reply" /\ Deliver(due, run) /\ UNCHANGED <<ended, stopping, awaited>>

\* What a run keeps only while it goes is gone.
RunOver ==
  /\ stage' = "idle"
  /\ awaited' = {} /\ stopping' = {}
  /\ ended' = "completed" /\ threw' = FALSE /\ first' = "none" /\ decision' = "none"
  /\ continuations' = 0

Init ==
  /\ run = 0 /\ stage = "idle" /\ stopped = FALSE /\ closed = FALSE /\ broken = FALSE
  /\ input = [i \in Inputs |-> "unsent"]
  /\ inputRun = [i \in Inputs |-> 0]
  /\ handling = {} /\ waiting = {} /\ awaited = {} /\ errors = FALSE
  /\ job = [j \in Jobs |-> "none"]
  /\ mode = [j \in Jobs |-> "background"]
  /\ callRun = [j \in Jobs |-> 0]
  /\ startRun = [j \in Jobs |-> 0]
  /\ endRun = [j \in Jobs |-> 0]
  /\ stopping = {} /\ left = {}
  /\ ended = "completed" /\ threw = FALSE /\ first = "none" /\ decision = "none"
  /\ continuations = 0
  /\ runEnd = [r \in Runs |-> "none"]
  /\ failed = {}

-----------------------------------------------------------------------------
(* The operator. *)

\* Mutant: the queue is not emptied.
PromptKeepsQueue ==
  /\ stage = "idle" /\ run < MaxRun
  /\ stage' = "capturing" /\ stopped' = FALSE /\ closed' = FALSE
  /\ waiting' = {} /\ failed' = failed \ {run + 1}
  /\ UNCHANGED <<run, broken, input, inputRun, handling, awaited, errors, jobVars,
                 ended, threw, first, decision, continuations, runEnd>>

\* prompt() with no run going: what an earlier run left in the queue is gone.
Prompt ==
  /\ stage = "idle" /\ run < MaxRun
  /\ stage' = "capturing" /\ stopped' = FALSE /\ closed' = FALSE
  /\ input' = [i \in Inputs |-> IF i \in Queue THEN "dropped" ELSE input[i]]
  /\ waiting' = {}
  /\ failed' = failed \ {run + 1}
  /\ UNCHANGED <<run, broken, inputRun, handling, awaited, errors, jobVars,
                 ended, threw, first, decision, continuations, runEnd>>

\* amend(): a message sent during a run waits for the run's request, is refused
\* once its end is written, or is recorded and queued, its handlers run at once
\* or after the settlement in progress.
Send(i, b) ==
  /\ stage # "idle"
  /\ input[i] = "unsent" /\ \A k \in 1 .. (i - 1) : input[k] # "unsent"
  /\ \/ /\ RecordPending
        /\ input' = [input EXCEPT ![i] = "asking"]
        /\ UNCHANGED <<inputRun, handling, waiting>>
     \/ /\ ~RecordPending /\ (closed \/ broken)
        /\ input' = [input EXCEPT ![i] = "refused"]
        /\ UNCHANGED <<inputRun, handling, waiting>>
     \/ /\ ~RecordPending /\ ~closed /\ ~broken
        /\ input' = [input EXCEPT ![i] = b]
        /\ inputRun' = [inputRun EXCEPT ![i] = run]
        /\ IF settling
           THEN waiting' = waiting \cup {i} /\ UNCHANGED handling
           ELSE handling' = handling \cup {i} /\ UNCHANGED waiting
  /\ UNCHANGED <<loopVars, awaited, errors, jobVars, settleVars>>

\* withdrawPendingMessages(): the queue empties; handlers that wait stay.
Withdraw ==
  /\ Queue # {} /\ ~broken
  /\ input' = [i \in Inputs |-> IF i \in Queue THEN "withdrawn" ELSE input[i]]
  /\ UNCHANGED <<loopVars, inputRun, handling, waiting, awaited, errors, jobVars, settleVars>>

\* abort(): the run's signal.
Stop ==
  /\ stage # "idle" /\ ~stopped
  /\ stopped' = TRUE
  /\ FailsIf(~closed)
  /\ UNCHANGED <<run, stage, closed, broken, inputVars, jobVars,
                 ended, threw, first, decision, continuations, runEnd>>

-----------------------------------------------------------------------------
(* The input handlers. *)

\* A handler that throws is recorded; settlement counts it as a failure.
InputHandlerEnds(i, throws) ==
  /\ i \in handling
  /\ handling' = handling \ {i}
  /\ errors' = (errors \/ throws)
  /\ FailsIf(throws)
  /\ UNCHANGED <<loopVars, input, inputRun, waiting, awaited, jobVars,
                 ended, threw, first, decision, continuations, runEnd>>

-----------------------------------------------------------------------------
(* The jobs and the calls that start them. *)

ForegroundJobs == {j \in RunningJobs : mode[j] = "foreground" /\ callRun[j] = run}

JobStarts(j, m, caller) ==
  /\ job[j] = "none" /\ ~broken
  /\ job' = [job EXCEPT ![j] = "running"]
  /\ mode' = [mode EXCEPT ![j] = m]
  /\ callRun' = [callRun EXCEPT ![j] = caller]
  /\ startRun' = [startRun EXCEPT ![j] = run]
  /\ UNCHANGED <<loopVars, inputVars, endRun, stopping, settleVars>>

\* jobHost.start() by a call of the run.
StartJob(j, m) ==
  /\ stage = "calling" /\ ForegroundJobs = {}
  /\ JobStarts(j, m, run)
  /\ UNCHANGED left

\* jobHost.start() by a call its stopped run went on without: the checks and
\* the run are those of now.
LeftCallStartsJob(r, j, m) ==
  /\ r \in left
  /\ stage # "idle" /\ ~closed /\ run > 0
  /\ JobStarts(j, m, r)
  /\ left' = left \ {r}

\* It ends, refused by jobHost.start() or with no job to start.
LeftCallEnds(r) ==
  /\ r \in left
  /\ left' = left \ {r}
  /\ UNCHANGED <<loopVars, inputVars, job, mode, callRun, startRun, endRun, stopping, settleVars>>

\* A background job's end waits for the run to take it in; the end of one its
\* call waits for is written at once, in the run its start is in.
JobEnds(j) ==
  /\ job[j] = "running"
  /\ \/ /\ mode[j] = "background"
        /\ job' = [job EXCEPT ![j] = "finished"]
        /\ UNCHANGED endRun
     \/ /\ mode[j] = "foreground"
        /\ job' = [job EXCEPT ![j] = "told"]
        /\ \/ ~broken /\ endRun' = [endRun EXCEPT ![j] = startRun[j]]
           \/ broken /\ UNCHANGED endRun
  /\ UNCHANGED <<loopVars, inputVars, mode, callRun, startRun, stopping, left, settleVars>>

-----------------------------------------------------------------------------
(* The run starts. *)

\* Mutant: the messages that waited for it count the run once more.
RequestCountedTwice ==
  /\ stage = "capturing" /\ ~broken
  /\ run' = run + 1
  /\ stage' = "input"
  /\ LET asking == {i \in Inputs : input[i] = "asking"} IN
       /\ \E b \in [asking -> Behavior] :
            input' = [i \in Inputs |-> IF i \in asking THEN b[i] ELSE input[i]]
       /\ inputRun' = [i \in Inputs |-> IF i \in asking THEN run + 2 ELSE inputRun[i]]
       /\ handling' = handling \cup asking
  /\ UNCHANGED <<stopped, closed, broken, waiting, awaited, errors, jobVars, settleVars>>

\* The request is in the file: the run exists, and the messages that waited
\* for it follow it.
RequestWritten ==
  /\ stage = "capturing" /\ ~broken
  /\ run' = run + 1
  /\ stage' = "input"
  /\ LET asking == {i \in Inputs : input[i] = "asking"} IN
       /\ \E b \in [asking -> Behavior] :
            input' = [i \in Inputs |-> IF i \in asking THEN b[i] ELSE input[i]]
       /\ inputRun' = [i \in Inputs |-> IF i \in asking THEN run + 1 ELSE inputRun[i]]
       /\ handling' = handling \cup asking
  /\ UNCHANGED <<stopped, closed, broken, waiting, awaited, errors, jobVars, settleVars>>

\* Its base could not be captured, or its request not written: it is no run.
RequestFails ==
  /\ stage = "capturing"
  /\ IF broken THEN closed' \in {closed, TRUE} ELSE closed' = TRUE
  /\ input' = [i \in Inputs |-> IF input[i] = "asking" THEN "refused" ELSE input[i]]
  /\ stage' = "failing" /\ stopped' = TRUE /\ awaited' = handling
  /\ UNCHANGED <<run, broken, inputRun, handling, waiting, errors, jobVars, settleVars>>

\* The request's own handlers ran and the MCP servers had their while.
InputHandled(throws) ==
  /\ stage = "input" /\ ~broken
  /\ errors' = (errors \/ throws)
  /\ FailsIf(throws)
  /\ BeginTurns(Steers)
  /\ UNCHANGED <<run, stopped, closed, broken, inputRun, handling, waiting,
                 mode, callRun, startRun, left, threw, first, decision, continuations, runEnd>>

-----------------------------------------------------------------------------
(* The model's turns. *)

turnsUnchanged == <<run, stopped, closed, broken, inputRun, handling, waiting, errors,
                    mode, callRun, startRun, threw, first, decision, continuations, runEnd>>

\* The reply calls tools.
ReplyCalls ==
  /\ stage = "reply" /\ ~stopped /\ ~broken
  /\ stage' = "calling"
  /\ UNCHANGED <<run, stopped, closed, broken, inputVars, jobVars, settleVars>>

\* The reply is an error the loop does not retry.
ReplyFails ==
  /\ stage = "reply" /\ ~stopped /\ ~broken
  /\ EndTurns("error") /\ DeliverNothing /\ FailsIf(TRUE)
  /\ UNCHANGED <<turnsUnchanged, left>>

\* toolFreeEnd(): the model stopped.  Input and job ends that came meanwhile
\* enter and it goes on; with none, it waits for the jobs that run; with no
\* job either, its turns end or its one question repair takes another reply.
ToolFreeEnd(how) ==
  /\ stage \in {"reply", "awaitJobs"} /\ ~stopped /\ ~broken
  /\ \/ /\ Due(Queue)
        /\ Deliver(Queue, run)
        /\ stage' = "reply"
        /\ UNCHANGED <<ended, stopping, awaited>>
     \/ /\ ~Due(Queue) /\ RunningJobs # {} /\ stage = "reply"
        /\ stage' = "awaitJobs"
        /\ DeliverNothing /\ UNCHANGED <<ended, stopping, awaited>>
     \/ /\ ~Due(Queue) /\ RunningJobs = {}
        /\ \/ EndTurns(how)
           \/ stage' = "reply" /\ UNCHANGED <<ended, stopping, awaited>>
        /\ DeliverNothing
  /\ UNCHANGED <<turnsUnchanged, left, failed>>

\* A tool's event handler throws.
ToolHandlerThrows ==
  /\ stage = "calling" /\ ~errors
  /\ errors' = TRUE
  /\ FailsIf(TRUE)
  /\ UNCHANGED <<loopVars, input, inputRun, handling, waiting, awaited, jobVars,
                 ended, threw, first, decision, continuations, runEnd>>

\* afterCalls(): the reply's calls have their results; an unresolved question
\* ends the turns, or the next turn starts with the steers that came.
CallsEnd ==
  /\ stage = "calling" /\ ~stopped /\ ~broken /\ ForegroundJobs = {}
  /\ \/ BeginTurns(Steers)
     \/ EndTurns("incomplete") /\ DeliverNothing
  /\ UNCHANGED <<turnsUnchanged, left, failed>>

\* Mutant: the wait for jobs is not interrupted.
StopTurnsNotTheWait ==
  /\ stage \in {"reply", "calling"} /\ stopped /\ ~broken
  /\ EndTurns("aborted") /\ DeliverNothing
  /\ UNCHANGED <<turnsUnchanged, left, failed>>

\* The stop interrupts the turns; a call that does not report in the grace it
\* has is left running, unless it only waits for its job, which is stopped.
StopTurns ==
  /\ stage \in {"reply", "calling", "awaitJobs"} /\ stopped /\ ~broken
  /\ left' \in IF stage = "calling" /\ ForegroundJobs = {} THEN {left, left \cup {run}} ELSE {left}
  /\ EndTurns("aborted") /\ DeliverNothing
  /\ UNCHANGED <<turnsUnchanged, failed>>

\* stopJobs(): the jobs it stopped have ended, and their ends enter.
JobsStopped ==
  /\ stage = "stoppingJobs" /\ ~broken
  /\ stopping \cap RunningJobs = {}
  /\ Deliver({}, run)
  /\ stage' = "handlers" /\ awaited' = handling
  /\ stopping' = {}
  /\ UNCHANGED <<turnsUnchanged, left, ended, failed>>

-----------------------------------------------------------------------------
(* Settlement. *)

settleUnchanged == <<run, stopped, broken, input, inputRun, handling, waiting, awaited, jobVars>>

\* The input handlers that ran as the settlement began have finished.
HandlersFinished ==
  /\ stage = "handlers" /\ ~broken
  /\ awaited \cap handling = {}
  /\ stage' = "extensions" /\ awaited' = {}
  /\ UNCHANGED <<run, stopped, closed, broken, input, inputRun, handling, waiting, errors,
                 jobVars, settleVars>>

\* The ordinary settle handlers returned, and what else threw is taken.
ExtensionsSettled(continued, throws) ==
  /\ stage = "extensions" /\ ~broken
  /\ threw' = (errors \/ throws)
  /\ errors' = FALSE
  /\ FailsIf(throws)
  /\ LET next == AfterExtensions(EndedOutcome, stopped, errors \/ throws, continued,
                                 continuations, ContinuationLimit, Finalizing) IN
       \/ next = "continue" /\ stage' = "release" /\ decision' = "automatic" /\ UNCHANGED first
       \/ next # "continue" /\ stage' = "verifier" /\ first' = next /\ UNCHANGED decision
  /\ UNCHANGED <<settleUnchanged, closed, ended, continuations, runEnd>>

\* The verifier's settle handler returned: the decision and the run's end are
\* one step.
VerifierSettled(continued, throws) ==
  /\ stage = "verifier" /\ ~broken
  /\ errors' = FALSE
  /\ FailsIf(throws)
  /\ stage' = "release"
  /\ LET next == AfterVerifier(EndedOutcome, first = "verify", stopped, threw \/ errors \/ throws,
                               Registered, continued, Due(Queue), RunningJobs # {},
                               continuations, ContinuationLimit, Finalizing) IN
       \/ /\ next = "continue"
          /\ decision' = IF continued THEN "automatic" ELSE "input"
          /\ UNCHANGED <<runEnd, closed>>
       \/ /\ next # "continue"
          /\ decision' = "end"
          /\ runEnd' = [runEnd EXCEPT ![run] = next]
          /\ closed' = TRUE
  /\ UNCHANGED <<settleUnchanged, ended, threw, first, continuations>>

\* release(): the next handler that waited for the settlement runs.  After the
\* run's end what it throws belongs to no run.
WaitingHandlerRuns(i, throws) ==
  /\ stage = "release" /\ i \in waiting /\ \A k \in waiting : i <= k
  /\ waiting' = waiting \ {i}
  /\ errors' = (errors \/ throws)
  /\ FailsIf(throws /\ ~closed)
  /\ UNCHANGED <<loopVars, input, inputRun, handling, awaited, jobVars,
                 ended, threw, first, decision, continuations, runEnd>>

\* Every one that waited has run, and the loop acts on the decision.
Released ==
  /\ stage = "release" /\ waiting = {}
  /\ errors' = (errors /\ ~closed)
  /\ \/ /\ decision = "end"
        /\ RunOver /\ DeliverNothing /\ UNCHANGED stopped
     \/ /\ decision = "fail"
        /\ stage' = "failing" /\ stopped' = TRUE /\ awaited' = handling
        /\ DeliverNothing /\ UNCHANGED <<ended, stopping, threw, first, decision, continuations>>
     \/ /\ decision \in {"automatic", "input"} /\ ~broken
        /\ continuations' = IF decision = "automatic" THEN continuations + 1 ELSE continuations
        /\ threw' = FALSE /\ first' = "none" /\ decision' = "none"
        /\ BeginTurns(Queue)
        /\ UNCHANGED stopped
  /\ UNCHANGED <<run, closed, broken, inputRun, handling, waiting, mode,
                 callRun, startRun, left, runEnd, failed>>

-----------------------------------------------------------------------------
(* Failure. *)

\* A write to the journal fails; every later one is refused.
WriteFails ==
  /\ stage # "idle" /\ ~broken
  /\ broken' = TRUE
  /\ UNCHANGED <<run, stage, stopped, closed, inputVars, jobVars, settleVars>>

\* What the loop awaits rejects, or what it writes is refused.  Outside
\* settlement prompt() stops the run; settlement first releases its handlers.
RunFails ==
  /\ \/ broken /\ stage \in Stage \ {"idle", "capturing", "release", "failing"}
     \/ broken /\ stage = "release" /\ waiting = {} /\ decision \in {"automatic", "input"}
     \/ stage = "calling"
  /\ IF settling
     THEN /\ stage' = "release" /\ decision' = "fail"
          /\ UNCHANGED <<stopped, awaited>>
     ELSE /\ stage' = "failing" /\ stopped' = TRUE /\ awaited' = handling
          /\ UNCHANGED decision
  /\ FailsIf(TRUE)
  /\ UNCHANGED <<run, closed, broken, input, inputRun, handling, waiting, errors, jobVars,
                 ended, threw, first, continuations, runEnd>>

\* The failed run's input handlers finish, and prompt() rejects.
HandlersStopped ==
  /\ stage = "failing"
  /\ awaited \cap handling = {}
  /\ RunOver
  /\ UNCHANGED <<run, stopped, closed, broken, input, inputRun, handling, waiting, errors,
                 job, mode, callRun, startRun, endRun, left, runEnd, failed>>

-----------------------------------------------------------------------------
Operator == Prompt \/ Stop \/ Withdraw \/ \E i \in Inputs, b \in Behavior : Send(i, b)

Turns ==
  \/ ReplyCalls \/ ReplyFails \/ CallsEnd \/ ToolHandlerThrows
  \/ \E how \in {"completed", "incomplete"} : ToolFreeEnd(how)

\* What the loop does of itself once what it awaits is there.
Loop ==
  \/ RequestWritten \/ RequestFails \/ StopTurns \/ JobsStopped \/ HandlersFinished
  \/ Released \/ HandlersStopped
  \/ \E t \in BOOLEAN : InputHandled(t)
  \/ \E c, t \in BOOLEAN : ExtensionsSettled(c, t) \/ VerifierSettled(c, t)
  \/ \E i \in Inputs, t \in BOOLEAN : WaitingHandlerRuns(i, t)

Calls ==
  \/ \E j \in Jobs, m \in JobMode : StartJob(j, m) \/ \E r \in left : LeftCallStartsJob(r, j, m)
  \/ \E r \in left : LeftCallEnds(r)

Next ==
  \/ Operator \/ Turns \/ Loop \/ Calls
  \/ \E i \in Inputs, t \in BOOLEAN : InputHandlerEnds(i, t)
  \/ \E j \in Jobs : JobEnds(j)
  \/ WriteFails \/ RunFails

Spec == Init /\ [][Next]_vars

\* A stop is acted on: the loop takes its steps, a handler returns once its
\* run is stopped, and so does a job whose signal is.  Nothing is assumed of
\* the operator, the provider or a running tool.
StoppedHandlerEnds(i) == stopped /\ \E t \in BOOLEAN : InputHandlerEnds(i, t)
StoppedJobEnds(j) == (stopped \/ stage = "stoppingJobs") /\ JobEnds(j)

Fairness ==
  /\ WF_vars(Loop) /\ WF_vars(broken /\ RunFails)
  /\ \A i \in Inputs : WF_vars(StoppedHandlerEnds(i))
  /\ \A j \in Jobs : WF_vars(StoppedJobEnds(j))

FairSpec == Spec /\ Fairness

-----------------------------------------------------------------------------
(* Properties. *)

\* A run ends completed only when the model was given all of it: every message
\* it accepted was delivered or taken back by the operator, and every job its
\* calls started has its end in this run.  (loop.ts, settle and afterVerifier:
\* the pending input, the jobs and the run's end are read and written in one
\* step, across any order of messages, handlers and job ends.)
CompletedSawEverything ==
  \A r \in Runs : runEnd[r] = "completed" =>
    /\ \A i \in Inputs : inputRun[i] = r => input[i] \in {"delivered", "withdrawn"}
    /\ \A j \in Jobs : callRun[j] = r => job[j] = "told" /\ startRun[j] = r /\ endRun[j] = r

\* While extensions and the verifier look at the run, no input handler is at
\* work in it.  (loop.ts, settle's `await Promise.all(handling)' and amend's
\* `waiting': no verification sees half of a message.)
HandlersQuietDuringVerification ==
  stage \in {"extensions", "verifier"} => handling = {}

\* A run in which a handler threw in whichever stage, or the model's reply
\* failed, or the loop itself did, or which the operator stopped, before its end
\* and before however many continuations, never ends completed.  (extensions.ts
\* errors and takeErrors, loop.ts streamed, step, settled and afterVerifier.)
NoFailureIsLost == \A r \in failed \cap Runs : runEnd[r] # "completed"

\* A message is accepted into a run only while that run is open: after its
\* request is written and before its end is.  (loop.ts amend: `recorded',
\* `closed', and `runs' read after the wait.)
InputJoinsAnOpenRun ==
  [][\A i \in Inputs : inputRun'[i] # inputRun[i] =>
       inputRun'[i] = run' /\ run' > 0 /\ runEnd'[inputRun'[i]] = "none"]_vars

\* While a run settles, what it is settled on does not move: no message and no
\* job end enters the conversation.  (loop.ts: deliver is called by the turns
\* and by stopJobs' caller only, and amend defers.)
ConversationStillDuringSettlement ==
  [][settling =>
       /\ \A i \in Inputs : input'[i] = "delivered" => input[i] = "delivered"
       /\ \A j \in Jobs : job[j] = "finished" => job'[j] = "finished"]_vars

\* No message enters the conversation while an earlier one of its kind, or an
\* earlier steer, still waits: only a steer passes anything, and only follow-ups.
\* (loop.ts deliver, and the turns, handlers and stops that call it at once or not.)
MessagesEnterInOrder ==
  [][\A i, j \in Inputs :
       /\ j < i /\ {i, j} \subseteq Queue /\ input[j] \in {input[i], "steer"}
       /\ input'[i] = "delivered"
       => input'[j] = "delivered"]_vars

\* Input joins only a run whose request is written and whose end is not, enters
\* its conversation in the order it came, steers first, and not while a phase of
\* settlement runs.  (loop.ts amend, settle and deliver.)
InputAndConversationAreOrdered ==
  InputJoinsAnOpenRun /\ MessagesEnterInOrder /\ ConversationStillDuringSettlement

\* The loop implements what a session promises of runs and messages.
\* (loop.ts prompt, amend, deliver, settle: a message reaches the model in the
\* run that recorded it or never.)
Promise == INSTANCE RunPromise WITH
  opened <- run, over <- runEnd, messageRun <- inputRun,
  message <- [i \in Inputs |->
    IF input[i] \in Behavior THEN "accepted"
    ELSE IF input[i] = "delivered" THEN "given"
    ELSE IF input[i] = "dropped" THEN "lost"
    ELSE IF input[i] = "withdrawn" THEN "withdrawn"
    ELSE "unsent"]

KeepsPromise == Promise!Spec

\* The operator's stop ends the run: neither a waiting job, a call that does
\* not return, a continuation nor a failed write keeps it going.  (loop.ts
\* step, stopJobs, settle.)
StopEndsTheRun == (stopped /\ stage # "idle") ~> stage = "idle"

\* The inductive invariant behind the safety properties: which stages have an
\* open run, whose the messages and the jobs are, and which run a call was left
\* in.
Going == Stage \ {"idle", "capturing", "release", "failing"}

OpenRun ==
  /\ \A r \in Runs : r > run => runEnd[r] = "none"
  /\ stage = "capturing" => run < MaxRun /\ ~closed
  /\ stage \in Going => run > 0 /\ ~closed /\ runEnd[run] = "none"
  /\ stage = "release" =>
       /\ run > 0 /\ decision # "none"
       /\ IF decision = "end" THEN closed ELSE ~closed /\ runEnd[run] = "none"
  /\ stage = "failing" => closed \/ broken \/ (run > 0 /\ runEnd[run] = "none")

MessagesHaveTheirRun ==
  /\ \A i \in Inputs : inputRun[i] <= run
  /\ \A i \in Queue : inputRun[i] = run /\ run > 0 /\ stage # "capturing"
  /\ \A i \in Inputs : input[i] \in {"unsent", "asking", "refused"} => inputRun[i] = 0
  /\ \A i \in Inputs : input[i] = "asking" => stage = "capturing"
  /\ \A i \in Inputs : input[i] = "dropped" => inputRun[i] < run \/ stage \in {"idle", "capturing", "failing"}

HandlersAwaited == stage = "handlers" => handling \subseteq awaited

JobsHaveTheirRun ==
  \A j \in Jobs :
    /\ job[j] = "none" => callRun[j] = 0
    /\ job[j] # "none" => 0 < callRun[j] /\ callRun[j] <= startRun[j] /\ startRun[j] <= run
    /\ job[j] # "told" => endRun[j] = 0
    /\ job[j] = "told" =>
         \/ broken /\ endRun[j] = 0
         \/ startRun[j] <= endRun[j] /\ endRun[j] <= run

LeftInAStoppedRun ==
  \A r \in left : /\ r <= run /\ runEnd[r] # "completed"
                  /\ r = run => stopped \/ stage = "capturing"

\* What keeps a failed run from completing: until settlement took it, a failure
\* is among the errors, the run is stopped or its turns ended as an error; then
\* it is the settlement's own, which no continuation follows.
FailuresAreKept ==
  /\ Current \in failed =>
       /\ stage \in {"capturing", "input", "reply", "calling", "awaitJobs"} => errors \/ stopped
       /\ stage \in {"stoppingJobs", "handlers", "extensions"} => errors \/ stopped \/ ended = "error"
       /\ stage = "verifier" => errors \/ threw \/ stopped \/ ended = "error"
       /\ stage = "release" /\ decision \in {"automatic", "input"} => errors \/ stopped
  /\ \A r \in Runs : runEnd[r] = "completed" => r \notin failed
  /\ run > 0 /\ runEnd[run] = "completed" => handling = {}
  /\ stage = "failing" => stopped

ContinuationBudget ==
  /\ continuations <= ContinuationLimit
  /\ decision = "automatic" => continuations < ContinuationLimit

RunInv ==
  /\ ContinuationBudget
  /\ OpenRun /\ MessagesHaveTheirRun /\ HandlersAwaited
  /\ JobsHaveTheirRun /\ LeftInAStoppedRun /\ FailuresAreKept
  /\ HandlersQuietDuringVerification /\ CompletedSawEverything

\* What the loop says of its jobs: "A run's jobs end with it: those still
\* running are stopped, and their ends enter the conversation before it
\* settles."
JobEndsInItsRun ==
  \A j \in Jobs : endRun[j] # 0 /\ runEnd[startRun[j]] # "none" => endRun[j] = startRun[j]

\* What the loop says of `Jobs.start': "Starts a job of the running run"; the
\* run of the call that asked for it.
JobStartsInItsCallsRun == \A j \in Jobs : startRun[j] = callRun[j]

\* What release() says of the handlers it runs after the run's end: "that end
\* did not complete, since their input would have sent the run back."
NoHandlerOutlivesCompletion ==
  stage = "release" /\ decision = "end" /\ runEnd[run] = "completed" => waiting = {}

\* What prompt() says of a failed run: "its input handlers still running are
\* stopped and finish here, as settlement's would."
NoHandlerOutlivesItsRun == stage = "idle" => handling = {}
=============================================================================
