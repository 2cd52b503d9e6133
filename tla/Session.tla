------------------------------ MODULE Session -------------------------------
(***************************************************************************)
(* Four components of a session, each over its own variables: how calls    *)
(* are let in, a reply's calls, its questions, and the conversation.       *)
(* `part' says which one a behaviour follows; the others keep their        *)
(* initial state, so that one run takes the sum of their state spaces.     *)
(***************************************************************************)
EXTENDS Naturals, Sequences, FiniteSets

CONSTANTS
  Callers, None,                                                        \* of Admission
  Kinds, Access, Floor, Rule, Slow, Repeat, Modes, Present, Size,       \* of Calls
  Responder, MaxAsks, MaxReplies,                                       \* of Questions
  Referenced, Checked, Keep, MaxRun, MaxReply, MaxAmend, MaxCompaction, MaxCrash  \* of Conversation

\* No call on the session is the absence of one.
ASSUME CallersAssumption == None \notin Callers
\* Every reply makes a call; the id of an earlier call is no kind of a call, and the
\* session starts in the mode that asks.
ASSUME CallsAssumption ==
  /\ Size \in Seq(1 .. 3) /\ Repeat \notin Kinds /\ Floor \subseteq Kinds /\ "ask" \in Modes /\ Present \in BOOLEAN
ASSUME QuestionsAssumption == Responder \in BOOLEAN /\ MaxAsks \in Nat /\ MaxReplies \in Nat
ASSUME ConversationAssumption == MaxRun \in Nat /\ MaxReply \in Nat /\ MaxAmend \in Nat

VARIABLES
  part,
  aOp, aAt, aOn, aTold, aStarted, aRunning, aStage, aStopped, aRuns, aClosed, aCompacting, aCut, aHeld,
  aUnsaved, aBroken, aDisposed, aOver,
  cMode, cRun, cOpen, cNext, cKind, cAt, cGave, cResult, cDecided, cIntent, cStopped, cLeft, cAllowed,
  cRefused, cLate, cSeen,
  qPc, qReplies, qBatch, qCut, qBoundary, qTimes, qRepaired, qRepairing, qUnresolved, qRaised, qInput, qSaved,
  qTold, qForms, qRan, qRepairs, qStopped, qOutcome,
  hHistory, hLedger, hEntries, hOrder, hQueue, hTodo, hAnswered, hSummarized, hOpen, hRuns, hReplies, hAmends,
  hCompactions, hCrashes

A == INSTANCE Admission WITH
  op <- aOp, at <- aAt, on <- aOn, told <- aTold, started <- aStarted, running <- aRunning, stage <- aStage,
  stopped <- aStopped, runs <- aRuns, closed <- aClosed, compacting <- aCompacting, cut <- aCut, held <- aHeld,
  unsaved <- aUnsaved, broken <- aBroken, disposed <- aDisposed, over <- aOver
C == INSTANCE Calls WITH
  mode <- cMode, run <- cRun, open <- cOpen, next <- cNext, kind <- cKind, at <- cAt, gave <- cGave, result <- cResult,
  decided <- cDecided, intent <- cIntent, stopped <- cStopped, left <- cLeft, allowed <- cAllowed, refused <- cRefused,
  late <- cLate, seen <- cSeen
Q == INSTANCE Questions WITH
  pc <- qPc, replies <- qReplies, batch <- qBatch, cut <- qCut, boundary <- qBoundary, times <- qTimes,
  repaired <- qRepaired, repairing <- qRepairing, unresolved <- qUnresolved, raised <- qRaised, input <- qInput,
  saved <- qSaved, told <- qTold, forms <- qForms, ran <- qRan, repairs <- qRepairs, stopped <- qStopped,
  outcome <- qOutcome
H == INSTANCE Conversation WITH
  history <- hHistory, ledger <- hLedger, entries <- hEntries, order <- hOrder, queue <- hQueue,
  todo <- hTodo, answered <- hAnswered, summarized <- hSummarized, open <- hOpen, runs <- hRuns, replies <- hReplies,
  amends <- hAmends, compactions <- hCompactions, crashes <- hCrashes

AVars == <<aOp, aAt, aOn, aTold, aStarted, aRunning, aStage, aStopped, aRuns, aClosed, aCompacting, aCut,
  aHeld, aUnsaved, aBroken, aDisposed, aOver>>
CVars == <<cMode, cRun, cOpen, cNext, cKind, cAt, cGave, cResult, cDecided, cIntent, cStopped, cLeft,
  cAllowed, cRefused, cLate, cSeen>>
QVars == <<qPc, qReplies, qBatch, qCut, qBoundary, qTimes, qRepaired, qRepairing, qUnresolved, qRaised,
  qInput, qSaved, qTold, qForms, qRan, qRepairs, qStopped, qOutcome>>
HVars == <<hHistory, hLedger, hEntries, hOrder, hQueue, hTodo, hAnswered, hSummarized, hOpen, hRuns, hReplies,
  hAmends, hCompactions, hCrashes>>

Init ==
  /\ part \in {"admission", "calls", "questions", "conversation"}
  /\ A!Init /\ C!Init /\ Q!Init /\ H!Init
  /\ (part = "admission" \/ aRuns = 0) /\ (part = "calls" \/ cMode = "ask")
Next ==
  \/ part = "admission" /\ A!Next /\ UNCHANGED <<part, CVars, QVars, HVars>>
  \/ part = "calls" /\ C!Next /\ UNCHANGED <<part, AVars, QVars, HVars>>
  \/ part = "questions" /\ Q!Next /\ UNCHANGED <<part, AVars, CVars, HVars>>
  \/ part = "conversation" /\ H!Next /\ UNCHANGED <<part, AVars, CVars, QVars>>
vars == <<part, AVars, CVars, QVars, HVars>>
Spec == Init /\ [][Next]_vars
Fairness ==
  /\ WF_AVars(part = "admission" /\ A!Settles) /\ WF_CVars(part = "calls" /\ C!Settles)
  /\ WF_QVars(part = "questions" /\ Q!Settles)
FairSpec == Spec /\ Fairness

\* The types of the four parts, with what ties them to their state: a run has
\* its prompt, a compaction its call, a call that ended what it gave.
TypeOK == A!TypeOK /\ C!TypeOK /\ Q!TypeOK /\ H!TypeOK

\* A run and a compaction never change the conversation at once, whatever
\* prompts, compactions and stops cross each other's waits; a disposal closes
\* the file once nothing works on it; a prompt stopped while it waited never
\* reaches a run; and once an answer was lost nothing new begins.
AdmissionIsSafe == A!Safety

\* Every call of a run that ended has its one result however the stop crossed
\* it; a tool runs only on the last word of its permission entries with its
\* intent on disk, after the floor refused never on the mode's or a rule's
\* word alone, and never after a stop, left behind or not.
CallsAreSafe == C!Safety

\* A request shows three forms and asks for one repair at most; a run that
\* completed dropped no question; an answer that was saved is told, though the
\* stop came behind it; nothing else runs while a question is repaired.
QuestionsAreSafe == Q!Safety

\* A session's file gives back the conversation and the ledger as they were,
\* a summary loses none of the operator's words, and every result keeps its
\* place behind its reply.
ConversationIsSafe == H!Safety

\* A stop is obeyed at each level: the calls that wait for one return, a
\* reply's calls end however long their tool takes, an open form is released.
StopsAreObeyed == A!StopsReturn /\ C!StopEndsTheCalls /\ Q!StopsEndTheForm

\* The session's word to the model, and the permissions guide's: after the
\* floor refused a call, the rest of the request asks before every change.
AfterTheFloorEveryChangeIsAsked == C!AfterTheFloorEveryChangeIsAsked
=============================================================================
