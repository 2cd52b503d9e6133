---------------------------- MODULE RunLoopProofs ----------------------------
(***************************************************************************)
(* Proofs about RunLoop, for every number of runs, messages and jobs and   *)
(* every continuation limit.  RunInv is inductive: each of its parts has a *)
(* lemma with one step per action, and the theorems follow from it.  Then   *)
(* the refinement: the loop implements RunPromise.                         *)
(***************************************************************************)
EXTENDS RunLoop, TLAPS

\* What deliver() leaves has its type.
LEMMA DeliverType ==
  ASSUME TypeOK, NEW due, NEW r \in 0 .. MaxRun, Deliver(due, r)
  PROVE  /\ input' \in [Inputs -> InputStatus]
         /\ job' \in [Jobs -> JobState]
         /\ endRun' \in [Jobs -> 0 .. MaxRun]
BY DEF Deliver, TypeOK, InputStatus, JobState

\* What is not delivered keeps its type.
LEMMA DeliverNothingType ==
  ASSUME TypeOK, DeliverNothing
  PROVE  /\ input' \in [Inputs -> InputStatus]
         /\ job' \in [Jobs -> JobState]
         /\ endRun' \in [Jobs -> 0 .. MaxRun]
BY DEF DeliverNothing, TypeOK

\* The end of the turns leaves their types.
LEMMA EndTurnsType ==
  ASSUME TypeOK, NEW how \in EndOutcome, EndTurns(how)
  PROVE  /\ ended' \in EndOutcome
         /\ stage' \in Stage
         /\ stopping' \in SUBSET Jobs
         /\ awaited' \in SUBSET Inputs
BY DEF EndTurns, TypeOK, RunningJobs, Stage

\* The start of the turns leaves their types, stopped or not.
LEMMA BeginTurnsType ==
  ASSUME TypeOK, NEW due, BeginTurns(due)
  PROVE  /\ ended' \in EndOutcome
         /\ stage' \in Stage
         /\ stopping' \in SUBSET Jobs
         /\ awaited' \in SUBSET Inputs
         /\ input' \in [Inputs -> InputStatus]
         /\ job' \in [Jobs -> JobState]
         /\ endRun' \in [Jobs -> 0 .. MaxRun]
<1>1. CASE stopped
  <2>1. EndTurns("aborted") /\ DeliverNothing
    BY <1>1 DEF BeginTurns
  <2> QED
    BY <2>1, EndTurnsType, DeliverNothingType DEF EndOutcome
<1>2. CASE ~stopped
  BY <1>2, DeliverType DEF BeginTurns, TypeOK, Stage
<1> QED
  BY <1>1, <1>2

\* A failure is the failure of a run there is, or of the one the prompt is for.
LEMMA FailsIfType ==
  ASSUME TypeOK, OpenRun, NEW fails \in BOOLEAN, FailsIf(fails)
  PROVE  failed' \subseteq 0 .. MaxRun
<1>1. Current \in 0 .. MaxRun
  BY RunLoopAssumption DEF Current, TypeOK, OpenRun
<1> QED
  BY <1>1 DEF FailsIf, TypeOK

\* Every step keeps the types of the loop's state (loop.ts, all of the loop's variables).
LEMMA TypeStep ==
  ASSUME TypeOK, OpenRun, Next
  PROVE  TypeOK'
<1> USE RunLoopAssumption DEF TypeOK, OpenRun, Going, Runs, Stage, InputStatus, Behavior, JobState, Decision, EndOutcome
<1>1. CASE Prompt
  BY <1>1 DEF Prompt, Queue, jobVars
<1>2. ASSUME NEW i \in Inputs, NEW b \in Behavior, Send(i, b) PROVE TypeOK'
  <2>1. /\ input' \in [Inputs -> InputStatus]
        /\ inputRun' \in [Inputs -> 0 .. MaxRun]
    BY <1>2 DEF Send, RecordPending
  <2>2. handling' \in SUBSET Inputs /\ waiting' \in SUBSET Inputs
    BY <1>2 DEF Send, RecordPending
  <2> QED
    BY <1>2, <2>1, <2>2 DEF Send, RecordPending, loopVars, jobVars, settleVars
<1>3. CASE Withdraw
  BY <1>3 DEF Withdraw, Queue, loopVars, jobVars, settleVars
<1>4. CASE Stop
  <2>1. FailsIf(~closed) /\ stopped' = TRUE
    BY <1>4 DEF Stop
  <2>2. failed' \subseteq 0 .. MaxRun
    <3>1. CASE closed
      BY <2>1, <3>1 DEF FailsIf
    <3>2. CASE ~closed
      <4>1. FailsIf(TRUE)
        BY <2>1, <3>2 DEF FailsIf
      <4> QED
        BY <4>1, FailsIfType
    <3> QED
      BY <3>1, <3>2
  <2> QED
    BY <1>4, <2>1, <2>2 DEF Stop, inputVars, jobVars
<1>5. ASSUME NEW i \in Inputs, NEW t \in BOOLEAN, InputHandlerEnds(i, t) PROVE TypeOK'
  BY <1>5, FailsIfType DEF InputHandlerEnds, loopVars, jobVars
<1>6. ASSUME NEW j \in Jobs, NEW m \in JobMode, StartJob(j, m) PROVE TypeOK'
  BY <1>6 DEF StartJob, JobStarts, loopVars, inputVars, settleVars
<1>7. ASSUME NEW r \in left, NEW j \in Jobs, NEW m \in JobMode, LeftCallStartsJob(r, j, m) PROVE TypeOK'
  BY <1>7 DEF LeftCallStartsJob, JobStarts, loopVars, inputVars, settleVars
<1>8. ASSUME NEW r \in left, LeftCallEnds(r) PROVE TypeOK'
  BY <1>8 DEF LeftCallEnds, loopVars, inputVars, settleVars
<1>9. ASSUME NEW j \in Jobs, JobEnds(j) PROVE TypeOK'
  <2>1. job' \in [Jobs -> JobState]
    BY <1>9 DEF JobEnds
  <2>2. endRun' \in [Jobs -> 0 .. MaxRun]
    BY <1>9 DEF JobEnds
  <2> QED
    BY <1>9, <2>1, <2>2 DEF JobEnds, loopVars, inputVars, settleVars
<1>10. CASE RequestWritten
  BY <1>10 DEF RequestWritten, jobVars, settleVars
<1>11. CASE RequestFails
  BY <1>11 DEF RequestFails, jobVars, settleVars
<1>12. ASSUME NEW t \in BOOLEAN, InputHandled(t) PROVE TypeOK'
  BY <1>12, BeginTurnsType, FailsIfType DEF InputHandled
<1>13. CASE ReplyCalls
  BY <1>13 DEF ReplyCalls, inputVars, jobVars, settleVars
<1>14. CASE ReplyFails
  BY <1>14, FailsIfType, EndTurnsType, DeliverNothingType DEF ReplyFails, turnsUnchanged
<1>15. ASSUME NEW how \in {"completed", "incomplete"}, ToolFreeEnd(how) PROVE TypeOK'
  <2>1. CASE Due(Queue) /\ Deliver(Queue, run)
    BY <1>15, <2>1, DeliverType DEF ToolFreeEnd, turnsUnchanged
  <2>2. CASE ~Due(Queue) /\ DeliverNothing
    <3>1. CASE EndTurns(how)
      BY <1>15, <2>2, <3>1, DeliverNothingType, EndTurnsType DEF ToolFreeEnd, turnsUnchanged
    <3>2. CASE ~EndTurns(how)
      BY <1>15, <2>2, <3>2, DeliverNothingType DEF ToolFreeEnd, turnsUnchanged
    <3> QED
      BY <3>1, <3>2
  <2> QED
    BY <1>15, <2>1, <2>2 DEF ToolFreeEnd
<1>16. CASE ToolHandlerThrows
  BY <1>16, FailsIfType DEF ToolHandlerThrows, loopVars, jobVars
<1>17. CASE CallsEnd
  BY <1>17, BeginTurnsType, EndTurnsType, DeliverNothingType DEF CallsEnd, turnsUnchanged
<1>18. CASE StopTurns
  <2>1. left' \in SUBSET Runs /\ EndTurns("aborted") /\ DeliverNothing
    BY <1>18 DEF StopTurns
  <2> QED
    BY <1>18, <2>1, EndTurnsType, DeliverNothingType DEF StopTurns, turnsUnchanged
<1>19. CASE JobsStopped
  BY <1>19, DeliverType DEF JobsStopped, turnsUnchanged
<1>20. CASE HandlersFinished
  BY <1>20 DEF HandlersFinished, jobVars, settleVars
<1>21. ASSUME NEW c \in BOOLEAN, NEW t \in BOOLEAN, ExtensionsSettled(c, t) PROVE TypeOK'
  BY <1>21, FailsIfType DEF ExtensionsSettled, AfterExtensions, settleUnchanged, jobVars
<1>22. ASSUME NEW c \in BOOLEAN, NEW t \in BOOLEAN, VerifierSettled(c, t) PROVE TypeOK'
  <2>1. failed' \subseteq 0 .. MaxRun
    BY <1>22, FailsIfType DEF VerifierSettled
  <2> DEFINE next == AfterVerifier(EndedOutcome, first = "verify", stopped, threw \/ errors \/ t,
                                   Registered, c, Due(Queue), RunningJobs # {},
                                   continuations, ContinuationLimit, Finalizing)
  <2>2. next \in {"continue", "completed", "incomplete", "error", "aborted"}
    BY DEF AfterVerifier
  <2>3. runEnd' \in {runEnd, [runEnd EXCEPT ![run] = next]} /\ (next = "continue" => UNCHANGED runEnd)
    BY <1>22 DEF VerifierSettled
  <2> HIDE DEF next
  <2>4. runEnd' \in [Runs -> EndOutcome \cup {"none"}]
    BY <2>2, <2>3
  <2>5. decision' \in Decision /\ closed' \in BOOLEAN
    BY <1>22 DEF VerifierSettled
  <2> QED
    BY <1>22, <2>1, <2>4, <2>5 DEF VerifierSettled, settleUnchanged, jobVars
<1>23. ASSUME NEW i \in Inputs, NEW t \in BOOLEAN, WaitingHandlerRuns(i, t) PROVE TypeOK'
  <2>1. failed' \subseteq 0 .. MaxRun
    BY <1>23, FailsIfType DEF WaitingHandlerRuns
  <2> QED
    BY <1>23, <2>1 DEF WaitingHandlerRuns, loopVars, jobVars
<1>24. CASE Released
  <2>1. CASE decision = "end"
    <3>1. RunOver /\ DeliverNothing /\ UNCHANGED stopped
      BY <1>24, <2>1 DEF Released
    <3> QED
      BY <1>24, <3>1, DeliverNothingType DEF Released, RunOver
  <2>2. CASE decision = "fail"
    BY <1>24, <2>2, DeliverNothingType DEF Released
  <2>3. CASE decision \in {"automatic", "input"}
    <3>1. continuations' \in Nat
      BY <1>24, <2>3 DEF Released
    <3> QED
      BY <1>24, <2>3, <3>1, BeginTurnsType DEF Released
  <2> QED
    BY <1>24, <2>1, <2>2, <2>3 DEF Released
<1>25. CASE WriteFails
  BY <1>25 DEF WriteFails, inputVars, jobVars, settleVars
<1>26. CASE RunFails
  <2>1. failed' \subseteq 0 .. MaxRun
    BY <1>26, FailsIfType DEF RunFails
  <2>2. CASE settling
    BY <1>26, <2>1, <2>2 DEF RunFails, jobVars
  <2>3. CASE ~settling
    BY <1>26, <2>1, <2>3 DEF RunFails, jobVars
  <2> QED
    BY <2>2, <2>3
<1>27. CASE HandlersStopped
  BY <1>27 DEF HandlersStopped, RunOver
<1> QED
  BY <1>1, <1>2, <1>3, <1>4, <1>5, <1>6, <1>7, <1>8, <1>9, <1>10, <1>11, <1>12, <1>13, <1>14,
       <1>15, <1>16, <1>17, <1>18, <1>19, <1>20, <1>21, <1>22, <1>23, <1>24, <1>25, <1>26,
       <1>27 DEF Next, Operator, Turns, Loop, Calls

\* Which stages have an open run.  (A part of RunInv.)
LEMMA OpenRunStep ==
  ASSUME TypeOK, RunInv, Next
  PROVE  OpenRun'
<1> USE RunLoopAssumption DEF RunInv, OpenRun, Going, TypeOK, Stage, Runs, LeftInAStoppedRun
<1>1. CASE Prompt
  BY <1>1 DEF Prompt, Queue, jobVars
<1>2. ASSUME NEW i \in Inputs, NEW b \in Behavior, Send(i, b) PROVE OpenRun'
  BY <1>2 DEF Send, RecordPending, settling, loopVars, jobVars, settleVars
<1>3. CASE Withdraw
  BY <1>3 DEF Withdraw, Queue, loopVars, jobVars, settleVars
<1>4. CASE Stop
  BY <1>4 DEF Stop, inputVars, jobVars, settleVars
<1>5. ASSUME NEW i \in Inputs, NEW t \in BOOLEAN, InputHandlerEnds(i, t) PROVE OpenRun'
  BY <1>5 DEF InputHandlerEnds, loopVars, jobVars
<1>6. ASSUME NEW j \in Jobs, NEW m \in JobMode, StartJob(j, m) PROVE OpenRun'
  BY <1>6 DEF StartJob, JobStarts, loopVars, inputVars, settleVars
<1>7. ASSUME NEW r \in left, NEW j \in Jobs, NEW m \in JobMode, LeftCallStartsJob(r, j, m) PROVE OpenRun'
  BY <1>7 DEF LeftCallStartsJob, JobStarts, loopVars, inputVars, settleVars
<1>8. ASSUME NEW r \in left, LeftCallEnds(r) PROVE OpenRun'
  BY <1>8 DEF LeftCallEnds, loopVars, inputVars, settleVars
<1>9. ASSUME NEW j \in Jobs, JobEnds(j) PROVE OpenRun'
  BY <1>9 DEF JobEnds, loopVars, inputVars, settleVars
<1>10. CASE RequestWritten
  BY <1>10 DEF RequestWritten, jobVars, settleVars
<1>11. CASE RequestFails
  BY <1>11 DEF RequestFails, jobVars, settleVars
<1>12. ASSUME NEW t \in BOOLEAN, InputHandled(t) PROVE OpenRun'
  BY <1>12 DEF InputHandled, BeginTurns, EndTurns, Deliver, DeliverNothing, RunningJobs,
       Steers
<1>13. CASE ReplyCalls
  BY <1>13 DEF ReplyCalls, inputVars, jobVars, settleVars
<1>14. CASE ReplyFails
  BY <1>14 DEF ReplyFails, EndTurns, DeliverNothing, RunningJobs, turnsUnchanged
<1>15. ASSUME NEW how \in {"completed", "incomplete"}, ToolFreeEnd(how) PROVE OpenRun'
  BY <1>15 DEF ToolFreeEnd, EndTurns, DeliverNothing, RunningJobs, Deliver, Queue,
       turnsUnchanged
<1>16. CASE ToolHandlerThrows
  BY <1>16 DEF ToolHandlerThrows, loopVars, jobVars
<1>17. CASE CallsEnd
  BY <1>17 DEF CallsEnd, BeginTurns, EndTurns, Deliver, DeliverNothing, RunningJobs, Steers,
       turnsUnchanged
<1>18. CASE StopTurns
  BY <1>18 DEF StopTurns, EndTurns, DeliverNothing, RunningJobs, turnsUnchanged
<1>19. CASE JobsStopped
  BY <1>19 DEF JobsStopped, Deliver, turnsUnchanged
<1>20. CASE HandlersFinished
  BY <1>20 DEF HandlersFinished, jobVars, settleVars
<1>21. ASSUME NEW c \in BOOLEAN, NEW t \in BOOLEAN, ExtensionsSettled(c, t) PROVE OpenRun'
  BY <1>21 DEF ExtensionsSettled, settleUnchanged, jobVars
<1>22. ASSUME NEW c \in BOOLEAN, NEW t \in BOOLEAN, VerifierSettled(c, t) PROVE OpenRun'
  BY <1>22 DEF VerifierSettled, settleUnchanged, jobVars
<1>23. ASSUME NEW i \in Inputs, NEW t \in BOOLEAN, WaitingHandlerRuns(i, t) PROVE OpenRun'
  BY <1>23 DEF WaitingHandlerRuns, loopVars, jobVars
<1>24. CASE Released
  BY <1>24 DEF Released, RunOver, BeginTurns, EndTurns, Deliver, DeliverNothing, RunningJobs,
       Queue
<1>25. CASE WriteFails
  BY <1>25 DEF WriteFails, inputVars, jobVars, settleVars
<1>26. CASE RunFails
  BY <1>26 DEF RunFails, settling, jobVars
<1>27. CASE HandlersStopped
  BY <1>27 DEF HandlersStopped, RunOver
<1> QED
  BY <1>1, <1>2, <1>3, <1>4, <1>5, <1>6, <1>7, <1>8, <1>9, <1>10, <1>11, <1>12, <1>13, <1>14,
       <1>15, <1>16, <1>17, <1>18, <1>19, <1>20, <1>21, <1>22, <1>23, <1>24, <1>25, <1>26,
       <1>27 DEF Next, Operator, Turns, Loop, Calls

\* Messages belong to the run that recorded them.  (A part of RunInv.)
LEMMA MessagesStep ==
  ASSUME TypeOK, RunInv, Next
  PROVE  MessagesHaveTheirRun'
<1> USE RunLoopAssumption DEF RunInv, OpenRun, Going, MessagesHaveTheirRun, TypeOK, Stage, Queue, Steers, Behavior, InputStatus
<1>1. CASE Prompt
  BY <1>1 DEF Prompt, Queue, jobVars
<1>2. ASSUME NEW i \in Inputs, NEW b \in Behavior, Send(i, b) PROVE MessagesHaveTheirRun'
  BY <1>2 DEF Send, RecordPending, settling, loopVars, jobVars, settleVars
<1>3. CASE Withdraw
  BY <1>3 DEF Withdraw, Queue, loopVars, jobVars, settleVars
<1>4. CASE Stop
  BY <1>4 DEF Stop, inputVars, jobVars, settleVars
<1>5. ASSUME NEW i \in Inputs, NEW t \in BOOLEAN, InputHandlerEnds(i, t) PROVE MessagesHaveTheirRun'
  BY <1>5 DEF InputHandlerEnds, loopVars, jobVars
<1>6. ASSUME NEW j \in Jobs, NEW m \in JobMode, StartJob(j, m) PROVE MessagesHaveTheirRun'
  BY <1>6 DEF StartJob, JobStarts, loopVars, inputVars, settleVars
<1>7. ASSUME NEW r \in left, NEW j \in Jobs, NEW m \in JobMode, LeftCallStartsJob(r, j, m) PROVE MessagesHaveTheirRun'
  BY <1>7 DEF LeftCallStartsJob, JobStarts, loopVars, inputVars, settleVars
<1>8. ASSUME NEW r \in left, LeftCallEnds(r) PROVE MessagesHaveTheirRun'
  BY <1>8 DEF LeftCallEnds, loopVars, inputVars, settleVars
<1>9. ASSUME NEW j \in Jobs, JobEnds(j) PROVE MessagesHaveTheirRun'
  BY <1>9 DEF JobEnds, loopVars, inputVars, settleVars
<1>10. CASE RequestWritten
  BY <1>10 DEF RequestWritten, jobVars, settleVars
<1>11. CASE RequestFails
  BY <1>11 DEF RequestFails, jobVars, settleVars
<1>12. ASSUME NEW t \in BOOLEAN, InputHandled(t) PROVE MessagesHaveTheirRun'
  BY <1>12 DEF InputHandled, BeginTurns, EndTurns, Deliver, DeliverNothing, RunningJobs,
       Steers
<1>13. CASE ReplyCalls
  BY <1>13 DEF ReplyCalls, inputVars, jobVars, settleVars
<1>14. CASE ReplyFails
  BY <1>14 DEF ReplyFails, EndTurns, DeliverNothing, RunningJobs, turnsUnchanged
<1>15. ASSUME NEW how \in {"completed", "incomplete"}, ToolFreeEnd(how) PROVE MessagesHaveTheirRun'
  BY <1>15 DEF ToolFreeEnd, EndTurns, DeliverNothing, RunningJobs, Deliver, Queue,
       turnsUnchanged
<1>16. CASE ToolHandlerThrows
  BY <1>16 DEF ToolHandlerThrows, loopVars, jobVars
<1>17. CASE CallsEnd
  BY <1>17 DEF CallsEnd, BeginTurns, EndTurns, Deliver, DeliverNothing, RunningJobs, Steers,
       turnsUnchanged
<1>18. CASE StopTurns
  BY <1>18 DEF StopTurns, EndTurns, DeliverNothing, RunningJobs, turnsUnchanged
<1>19. CASE JobsStopped
  BY <1>19 DEF JobsStopped, Deliver, turnsUnchanged
<1>20. CASE HandlersFinished
  BY <1>20 DEF HandlersFinished, jobVars, settleVars
<1>21. ASSUME NEW c \in BOOLEAN, NEW t \in BOOLEAN, ExtensionsSettled(c, t) PROVE MessagesHaveTheirRun'
  BY <1>21 DEF ExtensionsSettled, settleUnchanged, jobVars
<1>22. ASSUME NEW c \in BOOLEAN, NEW t \in BOOLEAN, VerifierSettled(c, t) PROVE MessagesHaveTheirRun'
  BY <1>22 DEF VerifierSettled, settleUnchanged, jobVars
<1>23. ASSUME NEW i \in Inputs, NEW t \in BOOLEAN, WaitingHandlerRuns(i, t) PROVE MessagesHaveTheirRun'
  BY <1>23 DEF WaitingHandlerRuns, loopVars, jobVars
<1>24. CASE Released
  BY <1>24 DEF Released, RunOver, BeginTurns, EndTurns, Deliver, DeliverNothing, RunningJobs,
       Queue
<1>25. CASE WriteFails
  BY <1>25 DEF WriteFails, inputVars, jobVars, settleVars
<1>26. CASE RunFails
  BY <1>26 DEF RunFails, settling, jobVars
<1>27. CASE HandlersStopped
  BY <1>27 DEF HandlersStopped, RunOver
<1> QED
  BY <1>1, <1>2, <1>3, <1>4, <1>5, <1>6, <1>7, <1>8, <1>9, <1>10, <1>11, <1>12, <1>13, <1>14,
       <1>15, <1>16, <1>17, <1>18, <1>19, <1>20, <1>21, <1>22, <1>23, <1>24, <1>25, <1>26,
       <1>27 DEF Next, Operator, Turns, Loop, Calls

\* Settlement waits for every handler at work as it begins.  (A part of RunInv.)
LEMMA AwaitedStep ==
  ASSUME TypeOK, RunInv, Next
  PROVE  HandlersAwaited'
<1> USE RunLoopAssumption DEF RunInv, HandlersAwaited
<1>1. CASE Prompt
  BY <1>1 DEF Prompt, Queue, jobVars
<1>2. ASSUME NEW i \in Inputs, NEW b \in Behavior, Send(i, b) PROVE HandlersAwaited'
  BY <1>2 DEF Send, RecordPending, settling, loopVars, jobVars, settleVars
<1>3. CASE Withdraw
  BY <1>3 DEF Withdraw, Queue, loopVars, jobVars, settleVars
<1>4. CASE Stop
  BY <1>4 DEF Stop, inputVars, jobVars, settleVars
<1>5. ASSUME NEW i \in Inputs, NEW t \in BOOLEAN, InputHandlerEnds(i, t) PROVE HandlersAwaited'
  BY <1>5 DEF InputHandlerEnds, loopVars, jobVars
<1>6. ASSUME NEW j \in Jobs, NEW m \in JobMode, StartJob(j, m) PROVE HandlersAwaited'
  BY <1>6 DEF StartJob, JobStarts, loopVars, inputVars, settleVars
<1>7. ASSUME NEW r \in left, NEW j \in Jobs, NEW m \in JobMode, LeftCallStartsJob(r, j, m) PROVE HandlersAwaited'
  BY <1>7 DEF LeftCallStartsJob, JobStarts, loopVars, inputVars, settleVars
<1>8. ASSUME NEW r \in left, LeftCallEnds(r) PROVE HandlersAwaited'
  BY <1>8 DEF LeftCallEnds, loopVars, inputVars, settleVars
<1>9. ASSUME NEW j \in Jobs, JobEnds(j) PROVE HandlersAwaited'
  BY <1>9 DEF JobEnds, loopVars, inputVars, settleVars
<1>10. CASE RequestWritten
  BY <1>10 DEF RequestWritten, jobVars, settleVars
<1>11. CASE RequestFails
  BY <1>11 DEF RequestFails, jobVars, settleVars
<1>12. ASSUME NEW t \in BOOLEAN, InputHandled(t) PROVE HandlersAwaited'
  BY <1>12 DEF InputHandled, BeginTurns, EndTurns, Deliver, DeliverNothing, RunningJobs,
       Steers
<1>13. CASE ReplyCalls
  BY <1>13 DEF ReplyCalls, inputVars, jobVars, settleVars
<1>14. CASE ReplyFails
  BY <1>14 DEF ReplyFails, EndTurns, DeliverNothing, RunningJobs, turnsUnchanged
<1>15. ASSUME NEW how \in {"completed", "incomplete"}, ToolFreeEnd(how) PROVE HandlersAwaited'
  BY <1>15 DEF ToolFreeEnd, EndTurns, DeliverNothing, RunningJobs, Deliver, Queue,
       turnsUnchanged
<1>16. CASE ToolHandlerThrows
  BY <1>16 DEF ToolHandlerThrows, loopVars, jobVars
<1>17. CASE CallsEnd
  BY <1>17 DEF CallsEnd, BeginTurns, EndTurns, Deliver, DeliverNothing, RunningJobs, Steers,
       turnsUnchanged
<1>18. CASE StopTurns
  BY <1>18 DEF StopTurns, EndTurns, DeliverNothing, RunningJobs, turnsUnchanged
<1>19. CASE JobsStopped
  BY <1>19 DEF JobsStopped, Deliver, turnsUnchanged
<1>20. CASE HandlersFinished
  BY <1>20 DEF HandlersFinished, jobVars, settleVars
<1>21. ASSUME NEW c \in BOOLEAN, NEW t \in BOOLEAN, ExtensionsSettled(c, t) PROVE HandlersAwaited'
  BY <1>21 DEF ExtensionsSettled, settleUnchanged, jobVars
<1>22. ASSUME NEW c \in BOOLEAN, NEW t \in BOOLEAN, VerifierSettled(c, t) PROVE HandlersAwaited'
  BY <1>22 DEF VerifierSettled, AfterVerifier, Verified, EndedOutcome, Finalizing, Due,
       RunningJobs, settleUnchanged, jobVars
<1>23. ASSUME NEW i \in Inputs, NEW t \in BOOLEAN, WaitingHandlerRuns(i, t) PROVE HandlersAwaited'
  BY <1>23 DEF WaitingHandlerRuns, loopVars, jobVars
<1>24. CASE Released
  BY <1>24 DEF Released, RunOver, BeginTurns, EndTurns, Deliver, DeliverNothing, RunningJobs,
       Queue
<1>25. CASE WriteFails
  BY <1>25 DEF WriteFails, inputVars, jobVars, settleVars
<1>26. CASE RunFails
  BY <1>26 DEF RunFails, settling, jobVars
<1>27. CASE HandlersStopped
  BY <1>27 DEF HandlersStopped, RunOver
<1> QED
  BY <1>1, <1>2, <1>3, <1>4, <1>5, <1>6, <1>7, <1>8, <1>9, <1>10, <1>11, <1>12, <1>13, <1>14,
       <1>15, <1>16, <1>17, <1>18, <1>19, <1>20, <1>21, <1>22, <1>23, <1>24, <1>25, <1>26,
       <1>27 DEF Next, Operator, Turns, Loop, Calls

\* No handler is at work while the run is verified.  (A part of RunInv.)
LEMMA QuietStep ==
  ASSUME TypeOK, RunInv, Next
  PROVE  HandlersQuietDuringVerification'
<1> USE RunLoopAssumption DEF RunInv, HandlersAwaited, HandlersQuietDuringVerification
<1>1. CASE Prompt
  BY <1>1 DEF Prompt, Queue, jobVars
<1>2. ASSUME NEW i \in Inputs, NEW b \in Behavior, Send(i, b) PROVE HandlersQuietDuringVerification'
  BY <1>2 DEF Send, RecordPending, settling, loopVars, jobVars, settleVars
<1>3. CASE Withdraw
  BY <1>3 DEF Withdraw, Queue, loopVars, jobVars, settleVars
<1>4. CASE Stop
  BY <1>4 DEF Stop, inputVars, jobVars, settleVars
<1>5. ASSUME NEW i \in Inputs, NEW t \in BOOLEAN, InputHandlerEnds(i, t) PROVE HandlersQuietDuringVerification'
  BY <1>5 DEF InputHandlerEnds, loopVars, jobVars
<1>6. ASSUME NEW j \in Jobs, NEW m \in JobMode, StartJob(j, m) PROVE HandlersQuietDuringVerification'
  BY <1>6 DEF StartJob, JobStarts, loopVars, inputVars, settleVars
<1>7. ASSUME NEW r \in left, NEW j \in Jobs, NEW m \in JobMode, LeftCallStartsJob(r, j, m) PROVE HandlersQuietDuringVerification'
  BY <1>7 DEF LeftCallStartsJob, JobStarts, loopVars, inputVars, settleVars
<1>8. ASSUME NEW r \in left, LeftCallEnds(r) PROVE HandlersQuietDuringVerification'
  BY <1>8 DEF LeftCallEnds, loopVars, inputVars, settleVars
<1>9. ASSUME NEW j \in Jobs, JobEnds(j) PROVE HandlersQuietDuringVerification'
  BY <1>9 DEF JobEnds, loopVars, inputVars, settleVars
<1>10. CASE RequestWritten
  BY <1>10 DEF RequestWritten, jobVars, settleVars
<1>11. CASE RequestFails
  BY <1>11 DEF RequestFails, jobVars, settleVars
<1>12. ASSUME NEW t \in BOOLEAN, InputHandled(t) PROVE HandlersQuietDuringVerification'
  BY <1>12 DEF InputHandled, BeginTurns, EndTurns, Deliver, DeliverNothing, RunningJobs,
       Steers
<1>13. CASE ReplyCalls
  BY <1>13 DEF ReplyCalls, inputVars, jobVars, settleVars
<1>14. CASE ReplyFails
  BY <1>14 DEF ReplyFails, EndTurns, DeliverNothing, RunningJobs, turnsUnchanged
<1>15. ASSUME NEW how \in {"completed", "incomplete"}, ToolFreeEnd(how) PROVE HandlersQuietDuringVerification'
  BY <1>15 DEF ToolFreeEnd, EndTurns, DeliverNothing, RunningJobs, Deliver, Queue,
       turnsUnchanged
<1>16. CASE ToolHandlerThrows
  BY <1>16 DEF ToolHandlerThrows, loopVars, jobVars
<1>17. CASE CallsEnd
  BY <1>17 DEF CallsEnd, BeginTurns, EndTurns, Deliver, DeliverNothing, RunningJobs, Steers,
       turnsUnchanged
<1>18. CASE StopTurns
  BY <1>18 DEF StopTurns, EndTurns, DeliverNothing, RunningJobs, turnsUnchanged
<1>19. CASE JobsStopped
  BY <1>19 DEF JobsStopped, Deliver, turnsUnchanged
<1>20. CASE HandlersFinished
  BY <1>20 DEF HandlersFinished, jobVars, settleVars
<1>21. ASSUME NEW c \in BOOLEAN, NEW t \in BOOLEAN, ExtensionsSettled(c, t) PROVE HandlersQuietDuringVerification'
  BY <1>21 DEF ExtensionsSettled, settleUnchanged, jobVars
<1>22. ASSUME NEW c \in BOOLEAN, NEW t \in BOOLEAN, VerifierSettled(c, t) PROVE HandlersQuietDuringVerification'
  BY <1>22 DEF VerifierSettled, AfterVerifier, Verified, EndedOutcome, Finalizing, Due,
       RunningJobs, settleUnchanged, jobVars
<1>23. ASSUME NEW i \in Inputs, NEW t \in BOOLEAN, WaitingHandlerRuns(i, t) PROVE HandlersQuietDuringVerification'
  BY <1>23 DEF WaitingHandlerRuns, loopVars, jobVars
<1>24. CASE Released
  BY <1>24 DEF Released, RunOver, BeginTurns, EndTurns, Deliver, DeliverNothing, RunningJobs,
       Queue
<1>25. CASE WriteFails
  BY <1>25 DEF WriteFails, inputVars, jobVars, settleVars
<1>26. CASE RunFails
  BY <1>26 DEF RunFails, settling, jobVars
<1>27. CASE HandlersStopped
  BY <1>27 DEF HandlersStopped, RunOver
<1> QED
  BY <1>1, <1>2, <1>3, <1>4, <1>5, <1>6, <1>7, <1>8, <1>9, <1>10, <1>11, <1>12, <1>13, <1>14,
       <1>15, <1>16, <1>17, <1>18, <1>19, <1>20, <1>21, <1>22, <1>23, <1>24, <1>25, <1>26,
       <1>27 DEF Next, Operator, Turns, Loop, Calls

\* Automatic continuations stay within the limit.  (A part of RunInv.)
LEMMA BudgetStep ==
  ASSUME TypeOK, RunInv, Next
  PROVE  ContinuationBudget'
<1> USE RunLoopAssumption DEF RunInv, ContinuationBudget, TypeOK
<1>1. CASE Prompt
  BY <1>1 DEF Prompt, Queue, jobVars
<1>2. ASSUME NEW i \in Inputs, NEW b \in Behavior, Send(i, b) PROVE ContinuationBudget'
  BY <1>2 DEF Send, RecordPending, settling, loopVars, jobVars, settleVars
<1>3. CASE Withdraw
  BY <1>3 DEF Withdraw, Queue, loopVars, jobVars, settleVars
<1>4. CASE Stop
  BY <1>4 DEF Stop, inputVars, jobVars, settleVars
<1>5. ASSUME NEW i \in Inputs, NEW t \in BOOLEAN, InputHandlerEnds(i, t) PROVE ContinuationBudget'
  BY <1>5 DEF InputHandlerEnds, loopVars, jobVars
<1>6. ASSUME NEW j \in Jobs, NEW m \in JobMode, StartJob(j, m) PROVE ContinuationBudget'
  BY <1>6 DEF StartJob, JobStarts, loopVars, inputVars, settleVars
<1>7. ASSUME NEW r \in left, NEW j \in Jobs, NEW m \in JobMode, LeftCallStartsJob(r, j, m) PROVE ContinuationBudget'
  BY <1>7 DEF LeftCallStartsJob, JobStarts, loopVars, inputVars, settleVars
<1>8. ASSUME NEW r \in left, LeftCallEnds(r) PROVE ContinuationBudget'
  BY <1>8 DEF LeftCallEnds, loopVars, inputVars, settleVars
<1>9. ASSUME NEW j \in Jobs, JobEnds(j) PROVE ContinuationBudget'
  BY <1>9 DEF JobEnds, loopVars, inputVars, settleVars
<1>10. CASE RequestWritten
  BY <1>10 DEF RequestWritten, jobVars, settleVars
<1>11. CASE RequestFails
  BY <1>11 DEF RequestFails, jobVars, settleVars
<1>12. ASSUME NEW t \in BOOLEAN, InputHandled(t) PROVE ContinuationBudget'
  BY <1>12 DEF InputHandled, BeginTurns, EndTurns, Deliver, DeliverNothing, RunningJobs,
       Steers
<1>13. CASE ReplyCalls
  BY <1>13 DEF ReplyCalls, inputVars, jobVars, settleVars
<1>14. CASE ReplyFails
  BY <1>14 DEF ReplyFails, EndTurns, DeliverNothing, RunningJobs, turnsUnchanged
<1>15. ASSUME NEW how \in {"completed", "incomplete"}, ToolFreeEnd(how) PROVE ContinuationBudget'
  BY <1>15 DEF ToolFreeEnd, EndTurns, DeliverNothing, RunningJobs, Deliver, Queue,
       turnsUnchanged
<1>16. CASE ToolHandlerThrows
  BY <1>16 DEF ToolHandlerThrows, loopVars, jobVars
<1>17. CASE CallsEnd
  BY <1>17 DEF CallsEnd, BeginTurns, EndTurns, Deliver, DeliverNothing, RunningJobs, Steers,
       turnsUnchanged
<1>18. CASE StopTurns
  BY <1>18 DEF StopTurns, EndTurns, DeliverNothing, RunningJobs, turnsUnchanged
<1>19. CASE JobsStopped
  BY <1>19 DEF JobsStopped, Deliver, turnsUnchanged
<1>20. CASE HandlersFinished
  BY <1>20 DEF HandlersFinished, jobVars, settleVars
<1>21. ASSUME NEW c \in BOOLEAN, NEW t \in BOOLEAN, ExtensionsSettled(c, t) PROVE ContinuationBudget'
  BY <1>21 DEF ExtensionsSettled, AfterExtensions, settleUnchanged, jobVars
<1>22. ASSUME NEW c \in BOOLEAN, NEW t \in BOOLEAN, VerifierSettled(c, t) PROVE ContinuationBudget'
  BY <1>22 DEF VerifierSettled, AfterVerifier, Verified, EndedOutcome, Finalizing, Due,
       RunningJobs, settleUnchanged, jobVars
<1>23. ASSUME NEW i \in Inputs, NEW t \in BOOLEAN, WaitingHandlerRuns(i, t) PROVE ContinuationBudget'
  BY <1>23 DEF WaitingHandlerRuns, loopVars, jobVars
<1>24. CASE Released
  BY <1>24 DEF Released, RunOver, BeginTurns, EndTurns, Deliver, DeliverNothing, RunningJobs,
       Queue
<1>25. CASE WriteFails
  BY <1>25 DEF WriteFails, inputVars, jobVars, settleVars
<1>26. CASE RunFails
  BY <1>26 DEF RunFails, settling, jobVars
<1>27. CASE HandlersStopped
  BY <1>27 DEF HandlersStopped, RunOver
<1> QED
  BY <1>1, <1>2, <1>3, <1>4, <1>5, <1>6, <1>7, <1>8, <1>9, <1>10, <1>11, <1>12, <1>13, <1>14,
       <1>15, <1>16, <1>17, <1>18, <1>19, <1>20, <1>21, <1>22, <1>23, <1>24, <1>25, <1>26,
       <1>27 DEF Next, Operator, Turns, Loop, Calls

\* Jobs' starts and ends fall into runs that had begun.  (A part of RunInv.)
LEMMA JobsStep ==
  ASSUME TypeOK, RunInv, Next
  PROVE  JobsHaveTheirRun'
<1> USE RunLoopAssumption DEF RunInv, JobsHaveTheirRun, LeftInAStoppedRun, OpenRun, Going, TypeOK, Stage, Runs
<1>1. CASE Prompt
  BY <1>1 DEF Prompt, Queue, jobVars
<1>2. ASSUME NEW i \in Inputs, NEW b \in Behavior, Send(i, b) PROVE JobsHaveTheirRun'
  BY <1>2 DEF Send, RecordPending, settling, loopVars, jobVars, settleVars
<1>3. CASE Withdraw
  BY <1>3 DEF Withdraw, Queue, loopVars, jobVars, settleVars
<1>4. CASE Stop
  BY <1>4 DEF Stop, inputVars, jobVars, settleVars
<1>5. ASSUME NEW i \in Inputs, NEW t \in BOOLEAN, InputHandlerEnds(i, t) PROVE JobsHaveTheirRun'
  BY <1>5 DEF InputHandlerEnds, loopVars, jobVars
<1>6. ASSUME NEW j \in Jobs, NEW m \in JobMode, StartJob(j, m) PROVE JobsHaveTheirRun'
  BY <1>6 DEF StartJob, JobStarts, loopVars, inputVars, settleVars
<1>7. ASSUME NEW r \in left, NEW j \in Jobs, NEW m \in JobMode, LeftCallStartsJob(r, j, m) PROVE JobsHaveTheirRun'
  BY <1>7 DEF LeftCallStartsJob, JobStarts, loopVars, inputVars, settleVars
<1>8. ASSUME NEW r \in left, LeftCallEnds(r) PROVE JobsHaveTheirRun'
  BY <1>8 DEF LeftCallEnds, loopVars, inputVars, settleVars
<1>9. ASSUME NEW j \in Jobs, JobEnds(j) PROVE JobsHaveTheirRun'
  BY <1>9 DEF JobEnds, loopVars, inputVars, settleVars
<1>10. CASE RequestWritten
  BY <1>10 DEF RequestWritten, jobVars, settleVars
<1>11. CASE RequestFails
  BY <1>11 DEF RequestFails, jobVars, settleVars
<1>12. ASSUME NEW t \in BOOLEAN, InputHandled(t) PROVE JobsHaveTheirRun'
  BY <1>12 DEF InputHandled, BeginTurns, EndTurns, Deliver, DeliverNothing, RunningJobs,
       Steers
<1>13. CASE ReplyCalls
  BY <1>13 DEF ReplyCalls, inputVars, jobVars, settleVars
<1>14. CASE ReplyFails
  BY <1>14 DEF ReplyFails, EndTurns, DeliverNothing, RunningJobs, turnsUnchanged
<1>15. ASSUME NEW how \in {"completed", "incomplete"}, ToolFreeEnd(how) PROVE JobsHaveTheirRun'
  BY <1>15 DEF ToolFreeEnd, EndTurns, DeliverNothing, RunningJobs, Deliver, Queue,
       turnsUnchanged
<1>16. CASE ToolHandlerThrows
  BY <1>16 DEF ToolHandlerThrows, loopVars, jobVars
<1>17. CASE CallsEnd
  BY <1>17 DEF CallsEnd, BeginTurns, EndTurns, Deliver, DeliverNothing, RunningJobs, Steers,
       turnsUnchanged
<1>18. CASE StopTurns
  BY <1>18 DEF StopTurns, EndTurns, DeliverNothing, RunningJobs, turnsUnchanged
<1>19. CASE JobsStopped
  BY <1>19 DEF JobsStopped, Deliver, turnsUnchanged
<1>20. CASE HandlersFinished
  BY <1>20 DEF HandlersFinished, jobVars, settleVars
<1>21. ASSUME NEW c \in BOOLEAN, NEW t \in BOOLEAN, ExtensionsSettled(c, t) PROVE JobsHaveTheirRun'
  BY <1>21 DEF ExtensionsSettled, settleUnchanged, jobVars
<1>22. ASSUME NEW c \in BOOLEAN, NEW t \in BOOLEAN, VerifierSettled(c, t) PROVE JobsHaveTheirRun'
  BY <1>22 DEF VerifierSettled, settleUnchanged, jobVars
<1>23. ASSUME NEW i \in Inputs, NEW t \in BOOLEAN, WaitingHandlerRuns(i, t) PROVE JobsHaveTheirRun'
  BY <1>23 DEF WaitingHandlerRuns, loopVars, jobVars
<1>24. CASE Released
  BY <1>24 DEF Released, RunOver, BeginTurns, EndTurns, Deliver, DeliverNothing, RunningJobs,
       Queue
<1>25. CASE WriteFails
  BY <1>25 DEF WriteFails, inputVars, jobVars, settleVars
<1>26. CASE RunFails
  BY <1>26 DEF RunFails, settling, jobVars
<1>27. CASE HandlersStopped
  BY <1>27 DEF HandlersStopped, RunOver
<1> QED
  BY <1>1, <1>2, <1>3, <1>4, <1>5, <1>6, <1>7, <1>8, <1>9, <1>10, <1>11, <1>12, <1>13, <1>14,
       <1>15, <1>16, <1>17, <1>18, <1>19, <1>20, <1>21, <1>22, <1>23, <1>24, <1>25, <1>26,
       <1>27 DEF Next, Operator, Turns, Loop, Calls

\* A call is left behind only in a run that was stopped.  (A part of RunInv.)
LEMMA LeftStep ==
  ASSUME TypeOK, RunInv, Next
  PROVE  LeftInAStoppedRun'
<1> USE RunLoopAssumption DEF RunInv, LeftInAStoppedRun, OpenRun, Going, TypeOK, Runs
<1>1. CASE Prompt
  BY <1>1 DEF Prompt, Queue, jobVars
<1>2. ASSUME NEW i \in Inputs, NEW b \in Behavior, Send(i, b) PROVE LeftInAStoppedRun'
  BY <1>2 DEF Send, RecordPending, settling, loopVars, jobVars, settleVars
<1>3. CASE Withdraw
  BY <1>3 DEF Withdraw, Queue, loopVars, jobVars, settleVars
<1>4. CASE Stop
  BY <1>4 DEF Stop, inputVars, jobVars, settleVars
<1>5. ASSUME NEW i \in Inputs, NEW t \in BOOLEAN, InputHandlerEnds(i, t) PROVE LeftInAStoppedRun'
  BY <1>5 DEF InputHandlerEnds, loopVars, jobVars
<1>6. ASSUME NEW j \in Jobs, NEW m \in JobMode, StartJob(j, m) PROVE LeftInAStoppedRun'
  BY <1>6 DEF StartJob, JobStarts, loopVars, inputVars, settleVars
<1>7. ASSUME NEW r \in left, NEW j \in Jobs, NEW m \in JobMode, LeftCallStartsJob(r, j, m) PROVE LeftInAStoppedRun'
  BY <1>7 DEF LeftCallStartsJob, JobStarts, loopVars, inputVars, settleVars
<1>8. ASSUME NEW r \in left, LeftCallEnds(r) PROVE LeftInAStoppedRun'
  BY <1>8 DEF LeftCallEnds, loopVars, inputVars, settleVars
<1>9. ASSUME NEW j \in Jobs, JobEnds(j) PROVE LeftInAStoppedRun'
  BY <1>9 DEF JobEnds, loopVars, inputVars, settleVars
<1>10. CASE RequestWritten
  BY <1>10 DEF RequestWritten, jobVars, settleVars
<1>11. CASE RequestFails
  BY <1>11 DEF RequestFails, jobVars, settleVars
<1>12. ASSUME NEW t \in BOOLEAN, InputHandled(t) PROVE LeftInAStoppedRun'
  BY <1>12 DEF InputHandled, BeginTurns, EndTurns, Deliver, DeliverNothing, RunningJobs,
       Steers
<1>13. CASE ReplyCalls
  BY <1>13 DEF ReplyCalls, inputVars, jobVars, settleVars
<1>14. CASE ReplyFails
  BY <1>14 DEF ReplyFails, EndTurns, DeliverNothing, RunningJobs, turnsUnchanged
<1>15. ASSUME NEW how \in {"completed", "incomplete"}, ToolFreeEnd(how) PROVE LeftInAStoppedRun'
  BY <1>15 DEF ToolFreeEnd, EndTurns, DeliverNothing, RunningJobs, Deliver, Queue,
       turnsUnchanged
<1>16. CASE ToolHandlerThrows
  BY <1>16 DEF ToolHandlerThrows, loopVars, jobVars
<1>17. CASE CallsEnd
  BY <1>17 DEF CallsEnd, BeginTurns, EndTurns, Deliver, DeliverNothing, RunningJobs, Steers,
       turnsUnchanged
<1>18. CASE StopTurns
  BY <1>18 DEF StopTurns, EndTurns, DeliverNothing, RunningJobs, turnsUnchanged
<1>19. CASE JobsStopped
  BY <1>19 DEF JobsStopped, Deliver, turnsUnchanged
<1>20. CASE HandlersFinished
  BY <1>20 DEF HandlersFinished, jobVars, settleVars
<1>21. ASSUME NEW c \in BOOLEAN, NEW t \in BOOLEAN, ExtensionsSettled(c, t) PROVE LeftInAStoppedRun'
  BY <1>21 DEF ExtensionsSettled, settleUnchanged, jobVars
<1>22. ASSUME NEW c \in BOOLEAN, NEW t \in BOOLEAN, VerifierSettled(c, t) PROVE LeftInAStoppedRun'
  BY <1>22 DEF VerifierSettled, AfterVerifier, Verified, EndedOutcome, Finalizing, Due,
       RunningJobs, settleUnchanged, jobVars
<1>23. ASSUME NEW i \in Inputs, NEW t \in BOOLEAN, WaitingHandlerRuns(i, t) PROVE LeftInAStoppedRun'
  BY <1>23 DEF WaitingHandlerRuns, loopVars, jobVars
<1>24. CASE Released
  BY <1>24 DEF Released, RunOver, BeginTurns, EndTurns, Deliver, DeliverNothing, RunningJobs,
       Queue
<1>25. CASE WriteFails
  BY <1>25 DEF WriteFails, inputVars, jobVars, settleVars
<1>26. CASE RunFails
  BY <1>26 DEF RunFails, settling, jobVars
<1>27. CASE HandlersStopped
  BY <1>27 DEF HandlersStopped, RunOver
<1> QED
  BY <1>1, <1>2, <1>3, <1>4, <1>5, <1>6, <1>7, <1>8, <1>9, <1>10, <1>11, <1>12, <1>13, <1>14,
       <1>15, <1>16, <1>17, <1>18, <1>19, <1>20, <1>21, <1>22, <1>23, <1>24, <1>25, <1>26,
       <1>27 DEF Next, Operator, Turns, Loop, Calls

\* A failure of a handler is kept until its run has ended without completing.  (A part of RunInv.)
LEMMA FailuresStep ==
  ASSUME TypeOK, RunInv, Next
  PROVE  FailuresAreKept'
<1> USE RunLoopAssumption DEF RunInv, FailuresAreKept, Current, FailsIf, OpenRun, Going, TypeOK, Runs, Stage
<1>1. CASE Prompt
  BY <1>1 DEF Prompt, Queue, jobVars
<1>2. ASSUME NEW i \in Inputs, NEW b \in Behavior, Send(i, b) PROVE FailuresAreKept'
  BY <1>2 DEF Send, RecordPending, settling, loopVars, jobVars, settleVars
<1>3. CASE Withdraw
  BY <1>3 DEF Withdraw, Queue, loopVars, jobVars, settleVars
<1>4. CASE Stop
  <2>1. stage # "failing" /\ stage # "idle" /\ (~closed => runEnd[Current] = "none" \/ Current \notin Runs)
    BY <1>4 DEF Stop
  <2>2. UNCHANGED <<run, stage, runEnd, handling, decision>> /\ stopped' = TRUE /\ FailsIf(~closed)
    BY <1>4 DEF Stop, inputVars
  <2> QED
    BY <2>1, <2>2
<1>5. ASSUME NEW i \in Inputs, NEW t \in BOOLEAN, InputHandlerEnds(i, t) PROVE FailuresAreKept'
  BY <1>5 DEF InputHandlerEnds, loopVars, jobVars
<1>6. ASSUME NEW j \in Jobs, NEW m \in JobMode, StartJob(j, m) PROVE FailuresAreKept'
  BY <1>6 DEF StartJob, JobStarts, loopVars, inputVars, settleVars
<1>7. ASSUME NEW r \in left, NEW j \in Jobs, NEW m \in JobMode, LeftCallStartsJob(r, j, m) PROVE FailuresAreKept'
  BY <1>7 DEF LeftCallStartsJob, JobStarts, loopVars, inputVars, settleVars
<1>8. ASSUME NEW r \in left, LeftCallEnds(r) PROVE FailuresAreKept'
  BY <1>8 DEF LeftCallEnds, loopVars, inputVars, settleVars
<1>9. ASSUME NEW j \in Jobs, JobEnds(j) PROVE FailuresAreKept'
  BY <1>9 DEF JobEnds, loopVars, inputVars, settleVars
<1>10. CASE RequestWritten
  BY <1>10 DEF RequestWritten, jobVars, settleVars
<1>11. CASE RequestFails
  BY <1>11 DEF RequestFails, jobVars, settleVars
<1>12. ASSUME NEW t \in BOOLEAN, InputHandled(t) PROVE FailuresAreKept'
  BY <1>12 DEF InputHandled, BeginTurns, EndTurns, Deliver, DeliverNothing, RunningJobs,
       Steers
<1>13. CASE ReplyCalls
  BY <1>13 DEF ReplyCalls, inputVars, jobVars, settleVars
<1>14. CASE ReplyFails
  BY <1>14 DEF ReplyFails, EndTurns, DeliverNothing, RunningJobs, turnsUnchanged
<1>15. ASSUME NEW how \in {"completed", "incomplete"}, ToolFreeEnd(how) PROVE FailuresAreKept'
  BY <1>15 DEF ToolFreeEnd, EndTurns, DeliverNothing, RunningJobs, Deliver, Queue,
       turnsUnchanged
<1>16. CASE ToolHandlerThrows
  BY <1>16 DEF ToolHandlerThrows, loopVars, jobVars
<1>17. CASE CallsEnd
  BY <1>17 DEF CallsEnd, BeginTurns, EndTurns, Deliver, DeliverNothing, RunningJobs, Steers,
       turnsUnchanged
<1>18. CASE StopTurns
  BY <1>18 DEF StopTurns, EndTurns, DeliverNothing, RunningJobs, turnsUnchanged
<1>19. CASE JobsStopped
  BY <1>19 DEF JobsStopped, Deliver, turnsUnchanged
<1>20. CASE HandlersFinished
  BY <1>20 DEF HandlersFinished, jobVars, settleVars
<1>21. ASSUME NEW c \in BOOLEAN, NEW t \in BOOLEAN, ExtensionsSettled(c, t) PROVE FailuresAreKept'
  BY <1>21 DEF ExtensionsSettled, AfterExtensions, EndedOutcome, Finalizing, settleUnchanged, jobVars
<1>22. ASSUME NEW c \in BOOLEAN, NEW t \in BOOLEAN, VerifierSettled(c, t) PROVE FailuresAreKept'
  <2>1. /\ stage = "verifier" /\ stage' = "release" /\ run > 0 /\ runEnd[run] = "none" /\ handling' = {}
        /\ UNCHANGED <<run, stopped, handling>> /\ Current = run /\ Current' = run
    BY <1>22 DEF VerifierSettled, settleUnchanged, HandlersQuietDuringVerification
  <2>2. failed' = IF t THEN failed \cup {run} ELSE failed
    BY <1>22, <2>1 DEF VerifierSettled
  <2> DEFINE next == AfterVerifier(EndedOutcome, first = "verify", stopped, threw \/ errors \/ t, Registered, c,
                                   Due(Queue), RunningJobs # {}, continuations, ContinuationLimit, Finalizing)
  <2>3. next \in {"continue", "completed"} => run \notin failed'
    <3>1. next \in {"continue", "completed"} => ~stopped /\ ended # "error" /\ ~threw /\ ~errors /\ ~t
      BY DEF AfterVerifier, Verified, EndedOutcome
    <3> QED
      BY <2>1, <2>2, <3>1
  <2>4. \/ next = "continue" /\ UNCHANGED runEnd
        \/ next # "continue" /\ decision' = "end" /\ runEnd' = [runEnd EXCEPT ![run] = next]
    BY <1>22 DEF VerifierSettled
  <2> HIDE DEF next
  <2>5. \A r \in Runs : runEnd'[r] = "completed" => r \notin failed'
    BY <2>1, <2>2, <2>3, <2>4
  <2> QED
    BY <2>1, <2>3, <2>4, <2>5
<1>23. ASSUME NEW i \in Inputs, NEW t \in BOOLEAN, WaitingHandlerRuns(i, t) PROVE FailuresAreKept'
  BY <1>23 DEF WaitingHandlerRuns, loopVars, jobVars
<1>24. CASE Released
  BY <1>24 DEF Released, RunOver, BeginTurns, EndTurns, Deliver, DeliverNothing, RunningJobs,
       Queue
<1>25. CASE WriteFails
  BY <1>25 DEF WriteFails, inputVars, jobVars, settleVars
<1>26. CASE RunFails
  BY <1>26 DEF RunFails, settling, jobVars
<1>27. CASE HandlersStopped
  BY <1>27 DEF HandlersStopped, RunOver
<1> QED
  BY <1>1, <1>2, <1>3, <1>4, <1>5, <1>6, <1>7, <1>8, <1>9, <1>10, <1>11, <1>12, <1>13, <1>14,
       <1>15, <1>16, <1>17, <1>18, <1>19, <1>20, <1>21, <1>22, <1>23, <1>24, <1>25, <1>26,
       <1>27 DEF Next, Operator, Turns, Loop, Calls

\* A completed run was given everything.  (A part of RunInv.)
LEMMA SawStep ==
  ASSUME TypeOK, RunInv, Next
  PROVE  CompletedSawEverything'
<1> USE RunLoopAssumption DEF RunInv, CompletedSawEverything, OpenRun, Going, MessagesHaveTheirRun, JobsHaveTheirRun, LeftInAStoppedRun, TypeOK, Queue, Behavior, Runs
<1>1. CASE Prompt
  BY <1>1 DEF Prompt, Queue, jobVars
<1>2. ASSUME NEW i \in Inputs, NEW b \in Behavior, Send(i, b) PROVE CompletedSawEverything'
  <2>1. runEnd' = runEnd /\ broken' = broken /\ UNCHANGED jobVars
    BY <1>2 DEF Send, RecordPending, loopVars, settleVars
  <2>2. ASSUME NEW r \in Runs, runEnd[r] = "completed", NEW k \in Inputs, inputRun'[k] = r
        PROVE  inputRun[k] = r /\ input'[k] = input[k]
    BY <1>2, <2>2 DEF Send, RecordPending, loopVars
  <2> HIDE DEF OpenRun, MessagesHaveTheirRun, JobsHaveTheirRun, LeftInAStoppedRun
  <2> QED
    BY <2>1, <2>2 DEF jobVars
<1>3. CASE Withdraw
  BY <1>3 DEF Withdraw, Queue, loopVars, jobVars, settleVars
<1>4. CASE Stop
  BY <1>4 DEF Stop, inputVars, jobVars, settleVars
<1>5. ASSUME NEW i \in Inputs, NEW t \in BOOLEAN, InputHandlerEnds(i, t) PROVE CompletedSawEverything'
  BY <1>5 DEF InputHandlerEnds, loopVars, jobVars
<1>6. ASSUME NEW j \in Jobs, NEW m \in JobMode, StartJob(j, m) PROVE CompletedSawEverything'
  BY <1>6 DEF StartJob, JobStarts, loopVars, inputVars, settleVars
<1>7. ASSUME NEW r \in left, NEW j \in Jobs, NEW m \in JobMode, LeftCallStartsJob(r, j, m) PROVE CompletedSawEverything'
  BY <1>7 DEF LeftCallStartsJob, JobStarts, loopVars, inputVars, settleVars
<1>8. ASSUME NEW r \in left, LeftCallEnds(r) PROVE CompletedSawEverything'
  BY <1>8 DEF LeftCallEnds, loopVars, inputVars, settleVars
<1>9. ASSUME NEW j \in Jobs, JobEnds(j) PROVE CompletedSawEverything'
  BY <1>9 DEF JobEnds, loopVars, inputVars, settleVars
<1>10. CASE RequestWritten
  BY <1>10 DEF RequestWritten, jobVars, settleVars
<1>11. CASE RequestFails
  BY <1>11 DEF RequestFails, jobVars, settleVars
<1>12. ASSUME NEW t \in BOOLEAN, InputHandled(t) PROVE CompletedSawEverything'
  BY <1>12 DEF InputHandled, BeginTurns, EndTurns, Deliver, DeliverNothing, RunningJobs,
       Steers
<1>13. CASE ReplyCalls
  BY <1>13 DEF ReplyCalls, inputVars, jobVars, settleVars
<1>14. CASE ReplyFails
  BY <1>14 DEF ReplyFails, EndTurns, DeliverNothing, RunningJobs, turnsUnchanged
<1>15. ASSUME NEW how \in {"completed", "incomplete"}, ToolFreeEnd(how) PROVE CompletedSawEverything'
  BY <1>15 DEF ToolFreeEnd, EndTurns, DeliverNothing, RunningJobs, Deliver, Queue,
       turnsUnchanged
<1>16. CASE ToolHandlerThrows
  BY <1>16 DEF ToolHandlerThrows, loopVars, jobVars
<1>17. CASE CallsEnd
  BY <1>17 DEF CallsEnd, BeginTurns, EndTurns, Deliver, DeliverNothing, RunningJobs, Steers,
       turnsUnchanged
<1>18. CASE StopTurns
  BY <1>18 DEF StopTurns, EndTurns, DeliverNothing, RunningJobs, turnsUnchanged
<1>19. CASE JobsStopped
  BY <1>19 DEF JobsStopped, Deliver, turnsUnchanged
<1>20. CASE HandlersFinished
  BY <1>20 DEF HandlersFinished, jobVars, settleVars
<1>21. ASSUME NEW c \in BOOLEAN, NEW t \in BOOLEAN, ExtensionsSettled(c, t) PROVE CompletedSawEverything'
  BY <1>21 DEF ExtensionsSettled, settleUnchanged, jobVars
<1>22. ASSUME NEW c \in BOOLEAN, NEW t \in BOOLEAN, VerifierSettled(c, t) PROVE CompletedSawEverything'
  <2>1. UNCHANGED <<run, broken, input, inputRun, jobVars>>
    BY <1>22 DEF VerifierSettled, settleUnchanged
  <2>2. CASE runEnd' = runEnd
    BY <2>1, <2>2 DEF jobVars
  <2>3. CASE runEnd' # runEnd
    <3> DEFINE end == runEnd'[run]
    <3>1. run \in Runs /\ ~broken /\ stage = "verifier" /\ runEnd' = [runEnd EXCEPT ![run] = end]
      BY <1>22, <2>3 DEF VerifierSettled
    <3>2. end = "completed" => ~stopped /\ Queue = {} /\ FinishedJobs = {} /\ RunningJobs = {}
      BY <1>22, <2>3 DEF VerifierSettled, AfterVerifier, Verified, Due
    <3>3. ASSUME end = "completed", NEW i \in Inputs, inputRun[i] = run
          PROVE  input[i] \in {"delivered", "withdrawn"}
      <4>1. input[i] \notin Behavior
        BY <3>2, <3>3
      <4>2. input[i] \notin {"unsent", "asking", "refused", "dropped"}
        BY <3>1, <3>3
      <4> QED
        BY <4>1, <4>2 DEF InputStatus
    <3>4. ASSUME end = "completed", NEW j \in Jobs, callRun[j] = run
          PROVE  job[j] = "told" /\ startRun[j] = run /\ endRun[j] = run
      <4>1. job[j] = "told"
        BY <3>1, <3>2, <3>4 DEF FinishedJobs, RunningJobs, JobState
      <4>2. startRun[j] \in 0 .. MaxRun /\ endRun[j] \in 0 .. MaxRun /\ run \in 0 .. MaxRun
        BY DEF TypeOK
      <4>3. run <= startRun[j] /\ startRun[j] <= endRun[j] /\ endRun[j] <= run
        BY <3>1, <3>4, <4>1 DEF JobsHaveTheirRun
      <4> QED
        BY <4>1, <4>2, <4>3
    <3> QED
      BY <2>1, <3>1, <3>3, <3>4 DEF jobVars
  <2> QED
    BY <2>2, <2>3
<1>23. ASSUME NEW i \in Inputs, NEW t \in BOOLEAN, WaitingHandlerRuns(i, t) PROVE CompletedSawEverything'
  BY <1>23 DEF WaitingHandlerRuns, loopVars, jobVars
<1>24. CASE Released
  BY <1>24 DEF Released, RunOver, BeginTurns, EndTurns, Deliver, DeliverNothing, RunningJobs,
       Queue
<1>25. CASE WriteFails
  BY <1>25 DEF WriteFails, inputVars, jobVars, settleVars
<1>26. CASE RunFails
  BY <1>26 DEF RunFails, settling, jobVars
<1>27. CASE HandlersStopped
  BY <1>27 DEF HandlersStopped, RunOver
<1> QED
  BY <1>1, <1>2, <1>3, <1>4, <1>5, <1>6, <1>7, <1>8, <1>9, <1>10, <1>11, <1>12, <1>13, <1>14,
       <1>15, <1>16, <1>17, <1>18, <1>19, <1>20, <1>21, <1>22, <1>23, <1>24, <1>25, <1>26,
       <1>27 DEF Next, Operator, Turns, Loop, Calls

-----------------------------------------------------------------------------
\* The loop as it is created satisfies the invariant.
LEMMA InitInv == Init => TypeOK /\ RunInv
<1> SUFFICES ASSUME Init PROVE TypeOK /\ RunInv
  OBVIOUS
<1>1. TypeOK
  <2>1. 0 \in 0 .. MaxRun
    BY RunLoopAssumption
  <2>2. /\ input \in [Inputs -> InputStatus] /\ inputRun \in [Inputs -> 0 .. MaxRun]
        /\ handling \in SUBSET Inputs /\ waiting \in SUBSET Inputs /\ awaited \in SUBSET Inputs
    BY <2>1 DEF Init, InputStatus
  <2>3. /\ job \in [Jobs -> JobState] /\ mode \in [Jobs -> JobMode]
        /\ callRun \in [Jobs -> 0 .. MaxRun] /\ startRun \in [Jobs -> 0 .. MaxRun]
        /\ endRun \in [Jobs -> 0 .. MaxRun]
        /\ stopping \in SUBSET Jobs /\ left \in SUBSET Runs
    BY <2>1 DEF Init, JobState, JobMode
  <2>4. /\ ended \in EndOutcome /\ first \in {"none", "verify", "finalize"} /\ decision \in Decision
        /\ continuations \in Nat /\ runEnd \in [Runs -> EndOutcome \cup {"none"}]
        /\ run \in 0 .. MaxRun /\ stage \in Stage
    BY <2>1 DEF Init, EndOutcome, Decision, Stage
  <2>5. /\ stopped \in BOOLEAN /\ closed \in BOOLEAN /\ broken \in BOOLEAN
        /\ errors \in BOOLEAN /\ threw \in BOOLEAN /\ failed \subseteq 0 .. MaxRun
    BY DEF Init
  <2> QED
    BY <2>2, <2>3, <2>4, <2>5 DEF TypeOK
<1>2. OpenRun /\ MessagesHaveTheirRun /\ HandlersAwaited
  BY RunLoopAssumption DEF Init, OpenRun, Going, MessagesHaveTheirRun, HandlersAwaited, Queue, Behavior, Stage, Runs
<1>3. JobsHaveTheirRun /\ LeftInAStoppedRun /\ FailuresAreKept /\ ContinuationBudget
  BY RunLoopAssumption DEF Init, JobsHaveTheirRun, LeftInAStoppedRun, FailuresAreKept, Going, ContinuationBudget
<1>4. HandlersQuietDuringVerification /\ CompletedSawEverything
  BY DEF Init, HandlersQuietDuringVerification, CompletedSawEverything, Runs
<1> QED
  BY <1>1, <1>2, <1>3, <1>4 DEF RunInv

\* Every step of the loop, and every stuttering step, keeps the invariant.
LEMMA StepInv == TypeOK /\ RunInv /\ [Next]_vars => TypeOK' /\ RunInv'
<1> SUFFICES ASSUME TypeOK, RunInv, [Next]_vars PROVE TypeOK' /\ RunInv'
  OBVIOUS
<1>1. CASE Next
  <2>1. TypeOK'
    BY <1>1, TypeStep DEF RunInv
  <2>2. OpenRun' /\ MessagesHaveTheirRun' /\ HandlersAwaited' /\ ContinuationBudget'
    BY <1>1, OpenRunStep, MessagesStep, AwaitedStep, BudgetStep
  <2>3. JobsHaveTheirRun' /\ LeftInAStoppedRun' /\ FailuresAreKept' /\ HandlersQuietDuringVerification' /\ CompletedSawEverything'
    BY <1>1, JobsStep, LeftStep, FailuresStep, QuietStep, SawStep
  <2> QED
    BY <2>1, <2>2, <2>3 DEF RunInv
<1>2. CASE UNCHANGED vars
  BY <1>2 DEF vars, loopVars, inputVars, jobVars, settleVars, TypeOK, RunInv, OpenRun, Going,
       MessagesHaveTheirRun, Queue, HandlersAwaited, JobsHaveTheirRun, LeftInAStoppedRun,
       FailuresAreKept, Current, ContinuationBudget, HandlersQuietDuringVerification, CompletedSawEverything
<1> QED
  BY <1>1, <1>2

\* Every state the loop can be in has its type.  (loop.ts, the state of
\* createLoop and the locals of start and settle.)
THEOREM TypeCorrect == Spec => []TypeOK
<1>1. Init => TypeOK /\ RunInv
  BY InitInv
<1>2. TypeOK /\ RunInv /\ [Next]_vars => (TypeOK /\ RunInv)'
  BY StepInv
<1> QED
  BY <1>1, <1>2, PTL DEF Spec

\* The inductive invariant holds in every state.
THEOREM RunInvariant == Spec => [](TypeOK /\ RunInv)
<1>1. Init => TypeOK /\ RunInv
  BY InitInv
<1>2. TypeOK /\ RunInv /\ [Next]_vars => (TypeOK /\ RunInv)'
  BY StepInv
<1> QED
  BY <1>1, <1>2, PTL DEF Spec

\* A run that ended completed was given every message it accepted and every
\* job end its calls caused.  (loop.ts settle, settle-rule.ts afterVerifier.)
THEOREM CompletedRunsSawEverything == Spec => []CompletedSawEverything
<1>1. TypeOK /\ RunInv => CompletedSawEverything
  BY DEF RunInv
<1> QED
  BY <1>1, RunInvariant, PTL

\* No input handler is at work while extensions and the verifier look at the
\* run.  (loop.ts settle and amend.)
THEOREM VerificationIsQuiet == Spec => []HandlersQuietDuringVerification
<1>1. TypeOK /\ RunInv => HandlersQuietDuringVerification
  BY DEF RunInv
<1> QED
  BY <1>1, RunInvariant, PTL

\* Only a message that is accepted changes the run a message belongs to.
LEMMA InputRunChanges ==
  ASSUME Next
  PROVE  UNCHANGED inputRun \/ (\E i \in Inputs, b \in Behavior : Send(i, b)) \/ RequestWritten
<1>1. CASE Operator
  BY <1>1 DEF Operator, Prompt, Stop, Withdraw, inputVars
<1>2. CASE Turns
  BY <1>2 DEF Turns, ReplyCalls, ReplyFails, CallsEnd, ToolHandlerThrows, ToolFreeEnd, turnsUnchanged, inputVars
<1>3. CASE Loop
  BY <1>3 DEF Loop, RequestFails, StopTurns, JobsStopped, HandlersFinished, Released, HandlersStopped,
       InputHandled, ExtensionsSettled, VerifierSettled, WaitingHandlerRuns,
       turnsUnchanged, settleUnchanged, inputVars
<1>4. CASE Calls
  BY <1>4 DEF Calls, StartJob, LeftCallStartsJob, JobStarts, LeftCallEnds, inputVars
<1>5. CASE (\E i \in Inputs, t \in BOOLEAN : InputHandlerEnds(i, t)) \/ (\E j \in Jobs : JobEnds(j)) \/ WriteFails \/ RunFails
  BY <1>5 DEF InputHandlerEnds, JobEnds, WriteFails, RunFails, inputVars
<1> QED
  BY <1>1, <1>2, <1>3, <1>4, <1>5 DEF Next

\* A run in which a handler threw, its model's reply or the loop failed, or which
\* was stopped, whichever came when, never ends completed.  (extensions.ts
\* errors and takeErrors, loop.ts step and settle, settle-rule.ts.)
THEOREM FailedRunsDoNotComplete == Spec => []NoFailureIsLost
<1>1. TypeOK /\ RunInv => NoFailureIsLost
  BY DEF RunInv, FailuresAreKept, NoFailureIsLost
<1> QED
  BY <1>1, RunInvariant, PTL

\* A message joins a run only between its request and its end.  (loop.ts amend
\* and `recorded'.)
THEOREM MessagesJoinAnOpenRun == Spec => InputJoinsAnOpenRun
<1> DEFINE Joins == \A i \in Inputs : inputRun'[i] # inputRun[i] =>
                      inputRun'[i] = run' /\ run' > 0 /\ runEnd'[inputRun'[i]] = "none"
<1>1. ASSUME TypeOK, RunInv, Next PROVE Joins
  <2>1. CASE UNCHANGED inputRun
    BY <2>1
  <2>2. ASSUME NEW i \in Inputs, NEW b \in Behavior, Send(i, b) PROVE Joins
    BY <1>1, <2>2 DEF Send, RecordPending, loopVars, settleVars, TypeOK, RunInv, OpenRun, Going, Stage
  <2>3. CASE RequestWritten
    BY <1>1, <2>3, RunLoopAssumption DEF RequestWritten, settleVars, TypeOK, RunInv, OpenRun, Runs
  <2>4. CASE UNCHANGED inputRun \/ (\E i \in Inputs, b \in Behavior : Send(i, b)) \/ RequestWritten
    BY <2>1, <2>2, <2>3, <2>4
  <2> QED
    BY <1>1, <2>4, InputRunChanges
<1>2. TypeOK /\ RunInv /\ [Next]_vars => [Joins]_vars
  BY <1>1
<1> QED
  BY <1>2, RunInvariant, PTL DEF Spec, InputJoinsAnOpenRun

\* Only deliver() moves what the run is settled on, and no phase of settlement
\* calls it.
LEMMA SettlingMovesNothing ==
  ASSUME TypeOK, settling, Next
  PROVE  /\ \A i \in Inputs : input'[i] = "delivered" => input[i] = "delivered"
         /\ \A j \in Jobs : job[j] = "finished" => job'[j] = "finished"
<1> USE DEF settling
<1>1. CASE Operator
  BY <1>1 DEF Operator, Prompt, Stop, Withdraw, Send, RecordPending, inputVars, jobVars, TypeOK, Behavior
<1>2. CASE Turns
  BY <1>2 DEF Turns, ReplyCalls, ReplyFails, CallsEnd, ToolHandlerThrows, ToolFreeEnd
<1>3. CASE Loop
  BY <1>3 DEF Loop, RequestWritten, RequestFails, StopTurns, JobsStopped, HandlersFinished, Released, HandlersStopped,
       InputHandled, ExtensionsSettled, VerifierSettled, WaitingHandlerRuns, settleUnchanged, jobVars
<1>4. CASE Calls
  BY <1>4 DEF Calls, StartJob, LeftCallStartsJob, JobStarts, LeftCallEnds, inputVars, TypeOK
<1>5. CASE (\E i \in Inputs, t \in BOOLEAN : InputHandlerEnds(i, t)) \/ (\E j \in Jobs : JobEnds(j)) \/ WriteFails \/ RunFails
  BY <1>5 DEF InputHandlerEnds, JobEnds, WriteFails, RunFails, inputVars, jobVars, TypeOK
<1> QED
  BY <1>1, <1>2, <1>3, <1>4, <1>5 DEF Next

\* Whether a step lets no message pass an earlier one of its kind, or a steer.
InOrder ==
  \A i, j \in Inputs :
    /\ j < i /\ {i, j} \subseteq Queue /\ input[j] \in {input[i], "steer"}
    /\ input'[i] = "delivered"
    => input'[j] = "delivered"

\* deliver() takes all of a kind: the steers, or everything.
LEMMA DeliversInOrder ==
  ASSUME TypeOK, NEW due \in {Steers, Queue, {}}, NEW r, Deliver(due, r)
  PROVE  InOrder
BY DEF Deliver, InOrder, Steers, Queue, Behavior, TypeOK

\* A step that delivers nothing passes nothing.
LEMMA OthersInOrder ==
  ASSUME \A i \in Inputs : input'[i] = "delivered" => input[i] = "delivered"
  PROVE  InOrder
BY DEF InOrder, Queue, Behavior

\* A generation of turns delivers in order as it begins.
LEMMA BeginsInOrder ==
  ASSUME TypeOK, NEW due \in {Steers, Queue, {}}, BeginTurns(due)
  PROVE  InOrder
<1>1. CASE stopped
  BY <1>1, OthersInOrder DEF BeginTurns, DeliverNothing
<1>2. CASE ~stopped
  BY <1>2, DeliversInOrder DEF BeginTurns
<1> QED
  BY <1>1, <1>2

\* Whatever step the loop, the operator, a call or a job takes, no message
\* passes an earlier one of its kind or a steer.
LEMMA StepInOrder ==
  ASSUME TypeOK, Next
  PROVE  InOrder
<1>1. CASE Operator
  BY <1>1, OthersInOrder DEF Operator, Prompt, Stop, Withdraw, Send, RecordPending, inputVars, TypeOK, Behavior
<1>2. CASE Turns
  <2>1. CASE ReplyCalls \/ ReplyFails \/ ToolHandlerThrows
    BY <2>1, OthersInOrder DEF ReplyCalls, ReplyFails, ToolHandlerThrows, DeliverNothing, inputVars
  <2>2. CASE CallsEnd
    BY <2>2, BeginsInOrder, OthersInOrder DEF CallsEnd, DeliverNothing
  <2>3. ASSUME NEW how \in {"completed", "incomplete"}, ToolFreeEnd(how) PROVE InOrder
    BY <2>3, DeliversInOrder, OthersInOrder DEF ToolFreeEnd, DeliverNothing
  <2> QED
    BY <1>2, <2>1, <2>2, <2>3 DEF Turns
<1>3. CASE Loop
  <2>1. CASE RequestWritten \/ RequestFails
    BY <2>1, OthersInOrder DEF RequestWritten, RequestFails, Behavior, TypeOK
  <2>2. CASE StopTurns \/ HandlersFinished \/ HandlersStopped
    BY <2>2, OthersInOrder DEF StopTurns, HandlersFinished, HandlersStopped, DeliverNothing
  <2>3. CASE JobsStopped
    BY <2>3, DeliversInOrder DEF JobsStopped
  <2>4. CASE Released
    BY <2>4, BeginsInOrder, OthersInOrder DEF Released, DeliverNothing
  <2>5. ASSUME NEW t \in BOOLEAN, InputHandled(t) PROVE InOrder
    BY <2>5, BeginsInOrder DEF InputHandled
  <2>6. CASE \E c, t \in BOOLEAN : ExtensionsSettled(c, t) \/ VerifierSettled(c, t)
    BY <2>6, OthersInOrder DEF ExtensionsSettled, VerifierSettled, settleUnchanged
  <2>7. CASE \E i \in Inputs, t \in BOOLEAN : WaitingHandlerRuns(i, t)
    BY <2>7, OthersInOrder DEF WaitingHandlerRuns
  <2> QED
    BY <1>3, <2>1, <2>2, <2>3, <2>4, <2>5, <2>6, <2>7 DEF Loop
<1>4. CASE Calls
  BY <1>4, OthersInOrder DEF Calls, StartJob, LeftCallStartsJob, JobStarts, LeftCallEnds, inputVars
<1>5. CASE (\E i \in Inputs, t \in BOOLEAN : InputHandlerEnds(i, t)) \/ (\E j \in Jobs : JobEnds(j)) \/ WriteFails \/ RunFails
  BY <1>5, OthersInOrder DEF InputHandlerEnds, JobEnds, WriteFails, RunFails, inputVars
<1> QED
  BY <1>1, <1>2, <1>3, <1>4, <1>5 DEF Next

\* Messages join open runs only, enter the conversation in the order they came,
\* steers before follow-ups, and the conversation does not move while a phase of
\* settlement looks at it.  (loop.ts amend, settle and deliver.)
THEOREM MessagesAndSettlementAreOrdered == Spec => InputAndConversationAreOrdered
<1>1. TypeOK /\ [Next]_vars =>
        [settling => /\ \A i \in Inputs : input'[i] = "delivered" => input[i] = "delivered"
                     /\ \A j \in Jobs : job[j] = "finished" => job'[j] = "finished"]_vars
  BY SettlingMovesNothing
<1>2. Spec => ConversationStillDuringSettlement
  BY <1>1, TypeCorrect, PTL DEF Spec, ConversationStillDuringSettlement
<1>3. TypeOK /\ [Next]_vars => [InOrder]_vars
  BY StepInOrder
<1>4. Spec => MessagesEnterInOrder
  BY <1>3, TypeCorrect, PTL DEF Spec, MessagesEnterInOrder, InOrder
<1> QED
  BY <1>2, <1>4, MessagesJoinAnOpenRun DEF InputAndConversationAreOrdered

-----------------------------------------------------------------------------
(* The loop implements RunPromise: every step of it is a step of the promise *)
(* or leaves what the promise speaks of unchanged.                           *)

\* A step that leaves runs and messages alone is a stutter of the promise.
LEMMA Quiet ==
  ASSUME UNCHANGED <<run, input, inputRun, runEnd>>
  PROVE  [Promise!Next]_(Promise!promiseVars)
BY DEF Promise!promiseVars, Promise!Next

\* A step that only moves messages between states the promise does not tell
\* apart is a stutter too.
LEMMA QuietMessages ==
  ASSUME UNCHANGED <<run, inputRun, runEnd>>,
         NEW some \in SUBSET Inputs, NEW as \in {"asking", "refused"},
         \A i \in some : input[i] \in {"unsent", "asking"},
         input' = [i \in Inputs |-> IF i \in some THEN as ELSE input[i]]
  PROVE  [Promise!Next]_(Promise!promiseVars)
BY DEF Promise!promiseVars, Behavior

\* deliver() gives messages of the open run.
LEMMA Delivers ==
  ASSUME TypeOK, RunInv, run > 0, runEnd[run] = "none",
         UNCHANGED <<run, inputRun, runEnd>>,
         NEW due \in SUBSET Queue, Deliver(due, run)
  PROVE  [Promise!Next]_(Promise!promiseVars)
<1>1. CASE due = {}
  <2>1. input' = input
    BY <1>1 DEF Deliver, TypeOK
  <2> QED
    BY <2>1, Quiet
<1>2. CASE due # {}
  <2>1. due \in SUBSET Inputs
    BY DEF Queue
  <2>2. \A i \in due : input[i] \in Behavior /\ inputRun[i] = run
    BY DEF Queue, RunInv, MessagesHaveTheirRun
  <2>3. Promise!Mark(due, "given")
    BY <2>1 DEF Promise!Mark, Deliver, Inputs, Promise!Messages, Behavior
  <2>4. Promise!Give(due)
    BY <1>2, <2>1, <2>2, <2>3 DEF Promise!Give, Promise!Open, Promise!Messages, Inputs
  <2> QED
    BY <2>1, <2>4 DEF Promise!Next, Promise!Messages, Inputs
<1> QED
  BY <1>1, <1>2

\* A generation of turns begins by giving what is due, or with nothing.
LEMMA Begins ==
  ASSUME TypeOK, RunInv, run > 0, runEnd[run] = "none",
         UNCHANGED <<run, inputRun, runEnd>>,
         NEW due \in SUBSET Queue, BeginTurns(due)
  PROVE  [Promise!Next]_(Promise!promiseVars)
<1>1. CASE stopped
  BY <1>1, Quiet DEF BeginTurns, DeliverNothing
<1>2. CASE ~stopped
  BY <1>2, Delivers DEF BeginTurns
<1> QED
  BY <1>1, <1>2

\* The operator's steps.
LEMMA OperatorKeeps ==
  ASSUME TypeOK, RunInv, Operator
  PROVE  [Promise!Next]_(Promise!promiseVars)
<1> USE DEF Inputs, Promise!Messages
<1>1. CASE Prompt
  <2>1. CASE Queue = {}
    <3>1. input' = input
      BY <1>1, <2>1 DEF Prompt, TypeOK
    <3> QED
      BY <1>1, <3>1, Quiet DEF Prompt
  <2>2. CASE Queue # {}
    <3>1. Promise!Waiting = Queue
      BY DEF Promise!Waiting, Queue, Behavior
    <3>2. Promise!Mark(Queue, "lost")
      BY <1>1 DEF Prompt, Promise!Mark, Queue, Behavior
    <3>3. Promise!Lose
      BY <1>1, <2>2, <3>1, <3>2 DEF Prompt, Promise!Lose
    <3> QED
      BY <3>3 DEF Promise!Next
  <2> QED
    BY <2>1, <2>2
<1>2. CASE Stop
  BY <1>2, Quiet DEF Stop, inputVars, settleVars
<1>3. CASE Withdraw
  <2>1. Promise!Waiting = Queue
    BY DEF Promise!Waiting, Queue, Behavior
  <2>2. Promise!Mark(Queue, "withdrawn")
    BY <1>3 DEF Withdraw, Promise!Mark, Queue, Behavior
  <2>3. Promise!TakeBack
    BY <1>3, <2>1, <2>2 DEF Withdraw, Promise!TakeBack, loopVars, settleVars
  <2> QED
    BY <2>3 DEF Promise!Next
<1>4. ASSUME NEW i \in Inputs, NEW b \in Behavior, Send(i, b)
      PROVE  [Promise!Next]_(Promise!promiseVars)
  <2>1. CASE input' = [input EXCEPT ![i] = b]
    <3>1. /\ run > 0 /\ runEnd[run] = "none" /\ input[i] = "unsent"
          /\ UNCHANGED <<run, runEnd>> /\ inputRun' = [inputRun EXCEPT ![i] = run]
      <4>1. input'[i] \in Behavior
        BY <2>1 DEF TypeOK
      <4>2. /\ stage # "capturing" /\ ~closed /\ ~broken
            /\ stage # "idle" /\ input[i] = "unsent"
            /\ UNCHANGED <<run, runEnd>> /\ inputRun' = [inputRun EXCEPT ![i] = run]
        BY <1>4, <2>1, <4>1 DEF Send, RecordPending, loopVars, settleVars, TypeOK, Behavior
      <4> QED
        BY <4>2 DEF TypeOK, RunInv, OpenRun, Going, Stage
    <3>2. Promise!Mark({i}, "accepted")
      BY <2>1, <3>1 DEF Promise!Mark, TypeOK, Behavior
    <3>3. Promise!Accept(i)
      BY <3>1, <3>2 DEF Promise!Accept, Promise!Open, Behavior
    <3> QED
      BY <3>3 DEF Promise!Next
  <2>2. CASE \E as \in {"asking", "refused"} : input' = [input EXCEPT ![i] = as] /\ UNCHANGED inputRun
    <3>1. PICK as \in {"asking", "refused"} : input' = [input EXCEPT ![i] = as] /\ UNCHANGED inputRun
      BY <2>2
    <3>2. input' = [k \in Inputs |-> IF k \in {i} THEN as ELSE input[k]]
      BY <3>1 DEF TypeOK
    <3>3. UNCHANGED <<run, inputRun, runEnd>> /\ {i} \in SUBSET Inputs /\ \A k \in {i} : input[k] = "unsent"
      BY <1>4, <3>1 DEF Send, RecordPending, loopVars, settleVars
    <3> QED
      BY <3>1, <3>2, <3>3, QuietMessages
  <2> QED
    BY <1>4, <2>1, <2>2 DEF Send, RecordPending
<1> QED
  BY <1>1, <1>2, <1>3, <1>4 DEF Operator

\* The turns: only deliver() moves messages.
LEMMA TurnsKeep ==
  ASSUME TypeOK, RunInv, Turns
  PROVE  [Promise!Next]_(Promise!promiseVars)
<1>1. CASE ReplyCalls
  BY <1>1, Quiet DEF ReplyCalls, inputVars, settleVars
<1>2. CASE ReplyFails
  BY <1>2, Quiet DEF ReplyFails, DeliverNothing, turnsUnchanged
<1>3. CASE CallsEnd
  <2>1. run > 0 /\ runEnd[run] = "none" /\ Steers \in SUBSET Queue
    BY <1>3 DEF CallsEnd, RunInv, OpenRun, Going, Stage, Steers, Queue, Behavior
  <2>2. CASE BeginTurns(Steers)
    BY <1>3, <2>1, <2>2, Begins DEF CallsEnd, turnsUnchanged
  <2>3. CASE DeliverNothing
    BY <1>3, <2>3, Quiet DEF CallsEnd, DeliverNothing, turnsUnchanged
  <2> QED
    BY <1>3, <2>2, <2>3 DEF CallsEnd
<1>4. CASE ToolHandlerThrows
  BY <1>4, Quiet DEF ToolHandlerThrows, loopVars
<1>5. ASSUME NEW how \in {"completed", "incomplete"}, ToolFreeEnd(how)
      PROVE  [Promise!Next]_(Promise!promiseVars)
  <2>1. run > 0 /\ runEnd[run] = "none"
    BY <1>5 DEF ToolFreeEnd, RunInv, OpenRun, Going, Stage
  <2>2. CASE Deliver(Queue, run)
    BY <1>5, <2>1, <2>2, Delivers DEF ToolFreeEnd, turnsUnchanged
  <2>3. CASE DeliverNothing
    BY <1>5, <2>3, Quiet DEF ToolFreeEnd, DeliverNothing, turnsUnchanged
  <2> QED
    BY <1>5, <2>2, <2>3 DEF ToolFreeEnd
<1> QED
  BY <1>1, <1>2, <1>3, <1>4, <1>5 DEF Turns

\* The loop's own steps: the request opens the run, the verifier's result ends it.
LEMMA LoopKeeps ==
  ASSUME TypeOK, RunInv, Loop
  PROVE  [Promise!Next]_(Promise!promiseVars)
<1> USE DEF Inputs, Promise!Messages
<1>1. CASE RequestWritten
  <2>1. PICK asking \in SUBSET Inputs : asking = {i \in Inputs : input[i] = "asking"}
    OBVIOUS
  <2>2. Promise!Waiting = {}
    BY <1>1 DEF Promise!Waiting, RequestWritten, RunInv, MessagesHaveTheirRun, Queue, Behavior
  <2>3. Promise!Mark(asking, "accepted")
    BY <1>1, <2>1 DEF RequestWritten, Promise!Mark, Behavior
  <2>4. Promise!OpenRun(asking)
    BY <1>1, <2>1, <2>2, <2>3 DEF RequestWritten, Promise!OpenRun, RunInv, OpenRun, Behavior, settleVars
  <2> QED
    BY <2>4 DEF Promise!Next
<1>2. CASE RequestFails
  <2> DEFINE asking == {i \in Inputs : input[i] = "asking"}
  <2>1. input' = [i \in Inputs |-> IF i \in asking THEN "refused" ELSE input[i]]
    BY <1>2 DEF RequestFails
  <2>2. asking \in SUBSET Inputs /\ \A i \in asking : input[i] \in {"unsent", "asking"}
    OBVIOUS
  <2>3. UNCHANGED <<run, inputRun, runEnd>>
    BY <1>2 DEF RequestFails, settleVars
  <2> HIDE DEF asking
  <2> QED
    BY <2>1, <2>2, <2>3, QuietMessages
<1>3. CASE StopTurns
  BY <1>3, Quiet DEF StopTurns, DeliverNothing, turnsUnchanged
<1>4. CASE JobsStopped
  <2>1. run > 0 /\ runEnd[run] = "none"
    BY <1>4 DEF JobsStopped, RunInv, OpenRun, Going, Stage
  <2> QED
    BY <1>4, <2>1, Delivers DEF JobsStopped, turnsUnchanged
<1>5. CASE HandlersFinished
  BY <1>5, Quiet DEF HandlersFinished, settleVars
<1>6. CASE Released
  <2>1. CASE DeliverNothing
    BY <1>6, <2>1, Quiet DEF Released, DeliverNothing
  <2>2. CASE decision \in {"automatic", "input"} /\ BeginTurns(Queue)
    <3>1. run > 0 /\ runEnd[run] = "none"
      BY <1>6, <2>2 DEF Released, RunInv, OpenRun
    <3> QED
      BY <1>6, <2>2, <3>1, Begins DEF Released
  <2> QED
    BY <1>6, <2>1, <2>2 DEF Released
<1>7. CASE HandlersStopped
  BY <1>7, Quiet DEF HandlersStopped
<1>8. ASSUME NEW t \in BOOLEAN, InputHandled(t) PROVE [Promise!Next]_(Promise!promiseVars)
  <2>1. run > 0 /\ runEnd[run] = "none" /\ Steers \in SUBSET Queue
    BY <1>8 DEF InputHandled, RunInv, OpenRun, Going, Stage, Steers, Queue, Behavior
  <2> QED
    BY <1>8, <2>1, Begins DEF InputHandled
<1>9. ASSUME NEW c \in BOOLEAN, NEW t \in BOOLEAN, ExtensionsSettled(c, t)
      PROVE  [Promise!Next]_(Promise!promiseVars)
  BY <1>9, Quiet DEF ExtensionsSettled, settleUnchanged
<1>10. ASSUME NEW c \in BOOLEAN, NEW t \in BOOLEAN, VerifierSettled(c, t)
       PROVE  [Promise!Next]_(Promise!promiseVars)
  <2>1. UNCHANGED <<run, input, inputRun>>
    BY <1>10 DEF VerifierSettled, settleUnchanged
  <2>2. CASE runEnd' = runEnd
    BY <2>1, <2>2, Quiet
  <2>3. CASE runEnd' # runEnd
    <3>1. PICK how \in EndOutcome : /\ runEnd' = [runEnd EXCEPT ![run] = how]
                                    /\ how = "completed" => Queue = {}
      BY <1>10, <2>3 DEF VerifierSettled, AfterVerifier, Verified, Due, EndOutcome
    <3>2. Promise!Waiting = Queue
      BY DEF Promise!Waiting, Queue, Behavior
    <3>3. Promise!Open
      BY <1>10 DEF VerifierSettled, Promise!Open, RunInv, OpenRun, Going, Stage
    <3>4. Promise!End(how)
      BY <2>1, <3>1, <3>2, <3>3 DEF Promise!End
    <3> QED
      BY <3>4 DEF Promise!Next, EndOutcome
  <2> QED
    BY <2>2, <2>3
<1>11. ASSUME NEW i \in Inputs, NEW t \in BOOLEAN, WaitingHandlerRuns(i, t)
       PROVE  [Promise!Next]_(Promise!promiseVars)
  BY <1>11, Quiet DEF WaitingHandlerRuns, loopVars
<1> QED
  BY <1>1, <1>2, <1>3, <1>4, <1>5, <1>6, <1>7, <1>8, <1>9, <1>10, <1>11 DEF Loop

\* Calls, jobs, handlers and failures move no message.
LEMMA OthersKeep ==
  ASSUME \/ Calls \/ WriteFails \/ RunFails
         \/ \E i \in Inputs, t \in BOOLEAN : InputHandlerEnds(i, t)
         \/ \E j \in Jobs : JobEnds(j)
  PROVE  [Promise!Next]_(Promise!promiseVars)
<1>1. UNCHANGED <<run, input, inputRun, runEnd>>
  BY DEF Calls, StartJob, LeftCallStartsJob, JobStarts, LeftCallEnds, WriteFails, RunFails,
       InputHandlerEnds, JobEnds, loopVars, inputVars, settleVars
<1> QED
  BY <1>1, Quiet

\* The loop keeps the promise: a message reaches the model in the run that
\* recorded it or never, and a run completes with none left over.  (loop.ts
\* prompt, amend, deliver, settle, withdrawPendingMessages.)
THEOREM LoopKeepsPromise == Spec => KeepsPromise
<1>1. Init => Promise!Init
  BY DEF Init, Promise!Init, Behavior, Inputs, Runs, Promise!Messages, Promise!Runs
<1>2. TypeOK /\ RunInv /\ [Next]_vars => [Promise!Next]_(Promise!promiseVars)
  <2> SUFFICES ASSUME TypeOK, RunInv, [Next]_vars PROVE [Promise!Next]_(Promise!promiseVars)
    OBVIOUS
  <2>1. CASE Next
    BY <2>1, OperatorKeeps, TurnsKeep, LoopKeeps, OthersKeep DEF Next
  <2>2. CASE UNCHANGED vars
    BY <2>2, Quiet DEF vars, loopVars, inputVars, settleVars
  <2> QED
    BY <2>1, <2>2
<1> QED
  BY <1>1, <1>2, RunInvariant, PTL DEF Spec, KeepsPromise, Promise!Spec
=============================================================================
