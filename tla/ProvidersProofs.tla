--------------------------- MODULE ProvidersProofs ---------------------------
(***************************************************************************)
(* Proofs about what a session asks of others, for any failures, calls,    *)
(* callers, shells and bounds: each part keeps an inductive invariant of   *)
(* its own, whichever part a behaviour follows.                            *)
(***************************************************************************)
EXTENDS Providers, SequenceTheorems, TLAPS

-----------------------------------------------------------------------------
(* A model's reply and its retries.                                        *)

Evidence == [terminal : BOOLEAN, transient : BOOLEAN, status : Nat, wait : Nat]
LEMMA Given == Failures \subseteq Evidence /\ Seconds \subseteq Nat /\ Limit \in Nat /\ Budget \in Nat
BY ReplyAssumption DEF Evidence

\* The types.
PTyped ==
  /\ pPc \in {"calling", "waiting", "returned", "recorded"} /\ pAttempt \in Nat \ {0} /\ pRetries \in Nat /\ pClock \in Nat /\ pDue \in Nat
  /\ pFirst \in Nat \cup {-1} /\ pGiven \in {"none", "reply", "failed", "error", "aborted"} /\ pEvidence \in Evidence
  /\ pEntries \subseteq 1 .. pAttempt /\ pReplied \subseteq 1 .. pAttempt /\ pCounted \subseteq 1 .. pAttempt
  /\ pGave \subseteq 1 .. pAttempt /\ pStopped \in BOOLEAN /\ pLeft \in BOOLEAN /\ pLate \in BOOLEAN

\* An attempt begins with no evidence of its own; every retry is one attempt
\* more, counted before its wait.
AttemptsInv ==
  /\ pPc = "calling" => pAttempt = pRetries + 1 /\ pEvidence = P!NoEvidence
  /\ pPc = "waiting" => pAttempt = pRetries
  /\ pRetries <= Limit

\* An attempt is a diagnostic once it is to be tried again, and the reply
\* once the step recorded what it was given.
RecordsInv ==
  /\ pCounted = pEntries \cup pReplied /\ pEntries \cap pReplied = {}
  /\ pPc # "recorded" => pReplied = {}
  /\ pPc \in {"calling", "waiting"} <=> pGiven = "none"
  /\ pPc = "calling" \/ pGiven \in {"reply", "failed"} => pAttempt \notin pEntries

\* What an attempt gave in time is recorded, or is what the step is about to record.
GaveInv ==
  /\ pCounted \subseteq pGave
  /\ pGave \ pCounted \subseteq (IF pPc = "returned" /\ pGiven \in {"reply", "failed"} THEN {pAttempt} ELSE {})
  /\ pPc = "returned" /\ pGiven \in {"reply", "failed"} /\ ~pLeft => pAttempt \in pGave

\* A reply is left only in a call, and what a left call says is given to no one.
LeftInv == ~pLate /\ (pLeft => pPc \in {"calling", "returned"})

PInv == PTyped /\ AttemptsInv /\ RecordsInv /\ GaveInv /\ LeftInv

\* The wait is at least what the provider asks for, so its end is a time.
LEMMA WaitsAreTimes == ASSUME PTyped, NEW f \in Evidence PROVE P!Delay(f) \in Nat
<1>1. 2 ^ pRetries \in Int
  BY DEF PTyped
<1> QED
  BY <1>1 DEF P!Delay, P!Larger, Evidence

\* What is observed of an attempt that began with none is the failure's own.
LEMMA OwnEvidence ==
  ASSUME NEW f \in Evidence
  PROVE  LET o == P!Observed(P!NoEvidence, f) IN
         o \in Evidence /\ o.terminal = f.terminal /\ o.transient = f.transient /\ o.status = f.status /\ o.wait = f.wait
BY DEF P!Observed, P!NoEvidence, Evidence

LEMMA PInit == P!Init => PInv
<1> SUFFICES ASSUME P!Init PROVE PInv
  OBVIOUS
<1>1. pEvidence \in Evidence
  BY DEF P!Init, P!NoEvidence, Evidence
<1>5. /\ pPc \in {"calling", "waiting", "returned", "recorded"} /\ pAttempt \in Nat \ {0} /\ pRetries \in Nat /\ pClock \in Nat /\ pDue \in Nat
      /\ pFirst \in Nat \cup {-1} /\ pGiven \in {"none", "reply", "failed", "error", "aborted"}
  BY DEF P!Init
<1>6. pEntries \subseteq 1 .. pAttempt /\ pReplied \subseteq 1 .. pAttempt /\ pCounted \subseteq 1 .. pAttempt /\ pGave \subseteq 1 .. pAttempt
  BY DEF P!Init
<1>7. pStopped \in BOOLEAN /\ pLeft \in BOOLEAN /\ pLate \in BOOLEAN
  BY DEF P!Init
<1>2. PTyped
  BY <1>1, <1>5, <1>6, <1>7 DEF PTyped
<1>4. AttemptsInv
  BY Given DEF P!Init, AttemptsInv
<1>3. RecordsInv /\ GaveInv /\ LeftInv
  BY DEF P!Init, RecordsInv, GaveInv, LeftInv
<1> QED
  BY <1>2, <1>3, <1>4 DEF PInv

\* An attempt that fails is retried, within the retries there are, or returned.
LEMMA FailKeeps == ASSUME PInv, NEW f \in Failures, P!Fail(f) PROVE PInv'
<1> DEFINE again == ~pStopped /\ ~pLeft /\ P!RetryProviderCall(pEvidence', pRetries, pClock' - pFirst', P!Delay(pEvidence'))
<1>1. PICK s \in Seconds : pClock' = pClock + s
  BY DEF P!Fail
<1>2. f \in Evidence /\ s \in Nat
  BY Given
<1>3. pEvidence = P!NoEvidence /\ pEvidence' = P!Observed(P!NoEvidence, f) /\ pEvidence' \in Evidence
  BY <1>2, OwnEvidence DEF PInv, AttemptsInv, P!Fail
<1>4. P!Delay(pEvidence') \in Nat
  BY <1>3, WaitsAreTimes DEF PInv
<1>5. pClock' \in Nat /\ pFirst' \in Nat \cup {-1}
  BY <1>1, <1>2 DEF P!Fail, PInv, PTyped
<1>6. CASE again
  <2>1. /\ pPc' = "waiting" /\ pRetries' = pRetries + 1 /\ pDue' = pClock' + P!Delay(pEvidence')
        /\ pEntries' = pEntries \cup {pAttempt} /\ pCounted' = pCounted \cup {pAttempt} /\ P!Records /\ P!Gives /\ UNCHANGED <<pGiven, pAttempt, pReplied, pStopped, pLeft>>
    BY <1>6 DEF P!Fail
  <2>2. pRetries < Limit /\ ~pLeft
    BY <1>6 DEF P!RetryProviderCall
  <2>3. PTyped'
    BY <1>3, <1>4, <1>5, <2>1, <2>2 DEF PInv, PTyped, P!Records, P!Gives
  <2>4. AttemptsInv'
    BY <2>1, <2>2, Given DEF PInv, PTyped, AttemptsInv, P!Fail
  <2>5. RecordsInv'
    BY <2>1 DEF PInv, PTyped, RecordsInv, P!Fail
  <2>6. LeftInv'
    BY <2>1, <2>2 DEF PInv, LeftInv, P!Records
  <2>7. GaveInv'
    BY <2>1, <2>2 DEF PInv, GaveInv, P!Gives, P!Fail
  <2> QED
    BY <2>3, <2>4, <2>5, <2>6, <2>7 DEF PInv
<1>7. CASE ~again
  <2>1. pPc' = "returned" /\ pGiven' = "failed" /\ P!Gives /\ UNCHANGED <<pRetries, pDue, pEntries, pCounted, pLate, pAttempt, pReplied, pStopped, pLeft>>
    BY <1>7 DEF P!Fail
  <2> QED
    BY <2>1, <1>3, <1>5 DEF PInv, PTyped, AttemptsInv, RecordsInv, GaveInv, LeftInv, P!Fail, P!Gives
<1> QED
  BY <1>6, <1>7

\* An attempt that throws after the stop leaves nothing to record.
LEMMA ThrownKeeps == ASSUME PInv, NEW f \in Failures, P!Thrown(f) PROVE PInv'
<1>1. PICK s \in Seconds : pClock' = pClock + s
  BY DEF P!Thrown
<1>2. f \in Evidence /\ s \in Nat
  BY Given
<1>3. pEvidence' \in Evidence
  BY <1>2, OwnEvidence DEF PInv, AttemptsInv, P!Thrown
<1>4. PTyped'
  BY <1>1, <1>2, <1>3 DEF PInv, PTyped, P!Thrown
<1> QED
  BY <1>4 DEF PInv, AttemptsInv, RecordsInv, GaveInv, LeftInv, P!Thrown

\* After the wait the next attempt begins, or the reply ends.
LEMMA WakeKeeps == ASSUME PInv, P!Woken PROVE PInv'
<1>1. CASE pStopped
  BY <1>1 DEF P!Woken, PInv, PTyped, AttemptsInv, RecordsInv, GaveInv, LeftInv
<1>2. CASE ~pStopped
  <2>1. PICK s \in Seconds : pClock' = pDue + s
    BY <1>2 DEF P!Woken
  <2>2. pClock' \in Nat /\ P!NoEvidence \in Evidence
    BY <2>1, Given DEF PInv, PTyped, P!NoEvidence, Evidence
  <2>3. CASE pClock' - pFirst >= Budget
    BY <1>2, <2>2, <2>3 DEF P!Woken, PInv, PTyped, AttemptsInv, RecordsInv, GaveInv, LeftInv
  <2>4. CASE ~(pClock' - pFirst >= Budget)
    BY <1>2, <2>2, <2>4 DEF P!Woken, PInv, PTyped, AttemptsInv, RecordsInv, GaveInv, LeftInv
  <2> QED
    BY <2>3, <2>4
<1> QED
  BY <1>1, <1>2

LEMMA RecordedKeeps == ASSUME PInv, P!Record PROVE PInv'
<1>1. AttemptsInv' /\ LeftInv'
  BY DEF P!Record, P!Records, PInv, PTyped, AttemptsInv, LeftInv
<1>4. pLate' = FALSE /\ ~pLeft
  BY DEF P!Record, P!Records, PInv, PTyped, LeftInv
<1>5. CASE pGiven \in {"reply", "failed"}
  <2>1. /\ pPc' = "recorded" /\ pReplied' = pReplied \cup {pAttempt} /\ pCounted' = pCounted \cup {pAttempt}
        /\ UNCHANGED <<pAttempt, pEvidence, pRetries, pClock, pFirst, pDue, pGiven, pEntries, pGave, pStopped, pLeft>>
    BY <1>5 DEF P!Record
  <2>4. pAttempt \in 1 .. pAttempt
    BY DEF PInv, PTyped
  <2>5. /\ pEntries' \subseteq 1 .. pAttempt' /\ pReplied' \subseteq 1 .. pAttempt'
        /\ pCounted' \subseteq 1 .. pAttempt' /\ pGave' \subseteq 1 .. pAttempt'
    BY <2>1, <2>4 DEF PInv, PTyped
  <2>2. PTyped'
    BY <2>1, <2>5, <1>4 DEF PInv, PTyped
  <2>3. RecordsInv' /\ GaveInv'
    BY <2>1, <1>4, <1>5 DEF PInv, RecordsInv, GaveInv, P!Record
  <2> QED
    BY <2>2, <2>3, <1>1 DEF PInv
<1>6. CASE pGiven \notin {"reply", "failed"}
  <2>1. /\ pPc' = "recorded" /\ UNCHANGED <<pAttempt, pEvidence, pRetries, pClock, pFirst, pDue, pGiven, pEntries, pReplied, pCounted, pGave, pStopped, pLeft, pLate>>
    BY <1>6 DEF P!Record
  <2>2. PTyped'
    BY <2>1 DEF PInv, PTyped
  <2>3. RecordsInv' /\ GaveInv'
    BY <2>1, <1>6 DEF PInv, PTyped, RecordsInv, GaveInv, P!Record
  <2> QED
    BY <2>2, <2>3, <1>1 DEF PInv
<1> QED
  BY <1>5, <1>6

LEMMA PStep == PInv /\ [P!Next]_P!vars => PInv'
<1> SUFFICES ASSUME PInv, [P!Next]_P!vars PROVE PInv'
  OBVIOUS
<1>1. CASE P!Answer
  <2>1. PICK s \in Seconds : pClock' = pClock + s
    BY <1>1 DEF P!Answer
  <2>2. pClock' \in Nat
    BY <2>1, Given DEF PInv, PTyped
  <2> QED
    BY <1>1, <2>2 DEF P!Answer, P!Gives, PInv, PTyped, AttemptsInv, RecordsInv, GaveInv, LeftInv
<1>2. CASE \E f \in Failures : P!Fail(f) \/ P!Thrown(f)
  BY <1>2, FailKeeps, ThrownKeeps
<1>3. CASE P!Overflow
  BY <1>3 DEF P!Overflow, P!Gives, PInv, PTyped, AttemptsInv, RecordsInv, GaveInv, LeftInv
<1>4. CASE P!Woken
  BY <1>4, WakeKeeps
<1>5. CASE P!Record
  BY <1>5, RecordedKeeps
<1>6. CASE P!Stop
  BY <1>6 DEF P!Stop, PInv, PTyped, AttemptsInv, RecordsInv, GaveInv, LeftInv
<1>7. CASE P!Leave
  BY <1>7 DEF P!Leave, PInv, PTyped, AttemptsInv, RecordsInv, GaveInv, LeftInv
<1>8. CASE UNCHANGED P!vars
  BY <1>8 DEF P!vars, PInv, PTyped, AttemptsInv, RecordsInv, GaveInv, LeftInv
<1> QED
  BY <1>1, <1>2, <1>3, <1>4, <1>5, <1>6, <1>7, <1>8 DEF P!Next

LEMMA OwnFailures ==
  ASSUME PInv, NEW f \in Failures, P!Fail(f), pPc' = "waiting"
  PROVE  P!RetryProviderCall(f, pRetries, pClock' - pFirst', P!Delay(f))
<1>1. f \in Evidence /\ pEvidence' = P!Observed(P!NoEvidence, f)
  BY Given DEF PInv, AttemptsInv, P!Fail
<1>2. P!RetryProviderCall(pEvidence', pRetries, pClock' - pFirst', P!Delay(pEvidence'))
  BY DEF P!Fail
<1>3. pEvidence'.terminal = f.terminal /\ pEvidence'.transient = f.transient /\ pEvidence'.status = f.status /\ pEvidence'.wait = f.wait
  BY <1>1, OwnEvidence
<1>4. P!Delay(pEvidence') = P!Delay(f)
  BY <1>3 DEF P!Delay
<1> QED
  BY <1>2, <1>3, <1>4 DEF P!RetryProviderCall

LEMMA AttemptsAreBounded ==
  ASSUME PInv, P!Next, pAttempt' # pAttempt
  PROVE  pRetries <= Limit /\ pAttempt = pRetries /\ pClock' - pFirst < Budget
<1>1. P!Woken /\ ~pStopped /\ ~(pClock' - pFirst >= Budget)
  BY DEF P!Next, P!Answer, P!Fail, P!Thrown, P!Overflow, P!Woken, P!Record, P!Stop, P!Leave
<1>2. PICK s \in Seconds : pClock' = pDue + s
  BY <1>1 DEF P!Woken
<1>3. pClock' - pFirst \in Int
  BY <1>2, Given DEF PInv, PTyped
<1> QED
  BY <1>1, <1>3, Given DEF PInv, PTyped, AttemptsInv, P!Woken

LEMMA PInvIsSafe == PInv => P!TypeOK /\ P!UsageIsCountedOnce /\ P!LeftRepliesAreSilent
BY DEF PInv, PTyped, RecordsInv, GaveInv, LeftInv, P!TypeOK, P!UsageIsCountedOnce, P!LeftRepliesAreSilent

\* A step of the session's providers is the reply's or leaves it alone.
LEMMA RepliesMove == [Next]_vars => [P!Next]_P!vars
BY DEF Next, vars, PVars, P!vars

\* Whatever a model's attempts meet, a failure is retried for its own sake and
\* within the retries and the time there are; every message an attempt gave while
\* the run waited, whole or failed, is in the file once and counted once, and an
\* attempt that throws after the stop gives none; one it left says nothing more.
\* (provider-retry.ts: retryProviderCall, and the step of loop.ts that calls it.)
THEOREM RepliesAreRetriedAndCounted == Spec => RepliesAreSafe
<1>1. Init => PInv
  BY PInit DEF Init
<1>2. PInv /\ [Next]_vars => PInv'
  BY PStep, RepliesMove
<1>3. PInv => P!TypeOK /\ P!UsageIsCountedOnce /\ P!LeftRepliesAreSilent
  BY PInvIsSafe
<1>4. PInv /\ [Next]_vars =>
        [\A f \in Failures : P!Fail(f) /\ pPc' = "waiting" => P!RetryProviderCall(f, pRetries, pClock' - pFirst', P!Delay(f))]_P!vars
  BY OwnFailures, RepliesMove
<1>5. PInv /\ [Next]_vars =>
        [pAttempt' # pAttempt => (pRetries <= Limit /\ pAttempt = pRetries /\ pClock' - pFirst < Budget)]_P!vars
  BY AttemptsAreBounded, RepliesMove
<1> QED
  BY <1>1, <1>2, <1>3, <1>4, <1>5, PTL
     DEF Spec, RepliesAreSafe, P!Safety, P!RetriesAreForTheirOwnFailure, P!RetriesAreBounded

-----------------------------------------------------------------------------
(* Claude Code's queries.                                                  *)

CallIds == 1 .. MaxCall
BlockSet == [id : CallIds, open : BOOLEAN, given : BOOLEAN]
MessageSet == [t : {"user", "reply", "result"}, calls : SUBSET CallIds, of : Nat]
ConvSet ==
  [phase : {"opening", "running", "killed", "ended"}, said : SUBSET CallIds, asked : SUBSET CallIds, answers : [CallIds -> Nat],
   stream : BOOLEAN, ended : {"none", "done", "toolUse", "error", "aborted"}, blocks : SUBSET BlockSet, calls : SUBSET CallIds,
   at : Nat, delivering : SUBSET CallIds, waiting : SUBSET CallIds, early : SUBSET CallIds, closed : BOOLEAN, heard : BOOLEAN,
   transcript : {"none", "written", "removed"}, earlier : BOOLEAN]

\* A conversation's calls are answered or wait, each once, and none waits on a closed one.
Once(c) ==
  /\ \A id \in CallIds : c.answers[id] <= 1
  /\ \A id \in CallIds : id \in c.asked <=> id \in c.waiting \/ c.answers[id] = 1
  /\ \A id \in c.waiting : c.answers[id] = 0
  /\ c.closed => c.waiting = {}

\* A step streams on an open query that waits for nothing the engine will not
\* give it; one that ended on calls waits for those alone.
Streams(c) ==
  /\ c.stream => ~c.closed /\ c.calls = {}
  /\ c.stream => \A id \in c.said : c.answers[id] = 1 \/ id \in c.early \/ id \in c.delivering
  /\ ~c.closed /\ ~c.stream /\ c.calls # {} => \A id \in c.said : c.answers[id] = 1 \/ id \in c.calls

Good(c) == c \in ConvSet /\ Once(c) /\ Streams(c)

\* A call is counted as answered once more.
LEMMA AnswerIs ==
  ASSUME NEW a \in [CallIds -> Nat], NEW ids \in SUBSET CallIds
  PROVE  B!Answer(a, ids) \in [CallIds -> Nat] /\ \A id \in CallIds : B!Answer(a, ids)[id] = IF id \in ids THEN a[id] + 1 ELSE a[id]
BY DEF B!Answer

LEMMA OpeningIsGood == ASSUME NEW e \in BOOLEAN PROVE Good(B!Opening(e)) /\ ~B!Opening(e).closed /\ B!Opening(e).stream
<1>1. B!Opening(e) \in ConvSet
  BY DEF B!Opening, ConvSet, CallIds
<1>2. Once(B!Opening(e)) /\ Streams(B!Opening(e))
  BY DEF Once, Streams, B!Opening, CallIds
<1> QED
  BY <1>1, <1>2 DEF Good, B!Opening

\* Closing answers what waits.
LEMMA CloseIs ==
  ASSUME NEW c \in ConvSet, Once(c)
  PROVE  /\ B!Close(c) \in ConvSet /\ Once(B!Close(c)) /\ B!Close(c).closed
         /\ B!Close(c).stream = c.stream /\ B!Close(c).calls = c.calls /\ B!Close(c).said = c.said /\ B!Close(c).blocks = c.blocks
<1>1. CASE c.closed
  BY <1>1 DEF B!Close
<1>2. CASE ~c.closed
  <2> DEFINE a == B!Answer(c.answers, c.waiting)
             d == [c EXCEPT !.closed = TRUE, !.answers = a, !.waiting = {}, !.heard = FALSE,
                            !.phase = IF c.phase = "running" THEN "killed" ELSE c.phase]
  <2>1. B!Close(c) = d
    BY <1>2 DEF B!Close
  <2>2. a \in [CallIds -> Nat] /\ \A id \in CallIds : a[id] = IF id \in c.waiting THEN c.answers[id] + 1 ELSE c.answers[id]
    BY AnswerIs DEF ConvSet
  <2> HIDE DEF a
  <2>3. d \in ConvSet
    BY <2>2 DEF ConvSet
  <2>4. d.closed = TRUE /\ d.answers = a /\ d.waiting = {} /\ d.stream = c.stream /\ d.calls = c.calls /\ d.said = c.said /\ d.blocks = c.blocks /\ d.asked = c.asked
    BY DEF ConvSet
  <2>5. \A id \in CallIds : c.answers[id] \in Nat
    BY DEF ConvSet
  <2>6. c.waiting \subseteq CallIds
    BY DEF ConvSet
  <2> HIDE DEF d
  <2>7. Once(d)
    BY <2>2, <2>4, <2>5, <2>6 DEF Once
  <2> QED
    BY <2>1, <2>3, <2>4, <2>7
<1> QED
  BY <1>1, <1>2

LEMMA FinishIs ==
  ASSUME NEW c \in ConvSet, Once(c), NEW how \in {"done", "error", "aborted"}
  PROVE  /\ B!Finish(c, how) \in ConvSet /\ Once(B!Finish(c, how)) /\ ~B!Finish(c, how).stream
         /\ B!Finish(c, how).closed = c.closed /\ B!Finish(c, how).calls = c.calls /\ B!Finish(c, how).said = c.said
         /\ B!Finish(c, how).heard = c.heard /\ B!Finish(c, how).answers = c.answers
<1>1. CASE ~c.stream
  BY <1>1 DEF B!Finish
<1>2. CASE c.stream
  <2> DEFINE b == IF how = "done" THEN c.blocks ELSE B!Whole(c.blocks)
             d == [c EXCEPT !.stream = FALSE, !.ended = how, !.blocks = b]
  <2>1. B!Finish(c, how) = d
    BY <1>2 DEF B!Finish
  <2>2. b \in SUBSET BlockSet
    BY DEF B!Whole, ConvSet
  <2> HIDE DEF b
  <2>3. d \in ConvSet
    BY <2>2 DEF ConvSet
  <2>4. /\ d.stream = FALSE /\ d.closed = c.closed /\ d.calls = c.calls /\ d.said = c.said /\ d.heard = c.heard /\ d.answers = c.answers
        /\ d.asked = c.asked /\ d.waiting = c.waiting
    BY DEF ConvSet
  <2> HIDE DEF d
  <2>5. Once(d)
    BY <2>4 DEF Once
  <2> QED
    BY <2>1, <2>3, <2>4, <2>5
<1> QED
  BY <1>1, <1>2

\* A step that ends leaves its conversation as good as it was, closed or not.
LEMMA FinishIsGood ==
  ASSUME NEW c, Good(c), NEW how \in {"done", "error", "aborted"}
  PROVE  Good(B!Finish(c, how)) /\ ~B!Finish(c, how).stream /\ B!Finish(c, how).closed = c.closed
<1>1. c \in ConvSet /\ Once(c)
  BY DEF Good
<1>2. Streams(B!Finish(c, how))
  <2>1. CASE ~c.stream
    BY <2>1 DEF B!Finish, Good
  <2>2. CASE c.stream
    BY <1>1, <2>2, FinishIs DEF Good, Streams
  <2> QED
    BY <2>1, <2>2
<1> QED
  BY <1>1, <1>2, FinishIs DEF Good
LEMMA CloseIsGood == ASSUME NEW c, Good(c), ~c.stream PROVE Good(B!Close(c)) /\ B!Close(c).closed /\ ~B!Close(c).stream
<1>1. c \in ConvSet /\ Once(c)
  BY DEF Good
<1>2. B!Close(c) \in ConvSet /\ Once(B!Close(c)) /\ B!Close(c).closed /\ B!Close(c).stream = c.stream
  BY <1>1, CloseIs
<1> QED
  BY <1>2 DEF Good, Streams
LEMMA CloseAbortedIsGood == ASSUME NEW c, Good(c) PROVE Good(B!CloseAborted(c)) /\ B!CloseAborted(c).closed /\ ~B!CloseAborted(c).stream
<1>1. CASE c.closed
  BY <1>1 DEF B!CloseAborted, Good, Streams
<1>2. CASE ~c.closed
  <2>1. B!Close(c) \in ConvSet /\ Once(B!Close(c)) /\ B!Close(c).closed
    BY CloseIs DEF Good
  <2>2. B!CloseAborted(c) = B!Finish(B!Close(c), "aborted")
    BY <1>2 DEF B!CloseAborted
  <2> DEFINE d == B!Close(c)
  <2> HIDE DEF d
  <2>3. /\ B!Finish(d, "aborted") \in ConvSet /\ Once(B!Finish(d, "aborted")) /\ ~B!Finish(d, "aborted").stream
        /\ B!Finish(d, "aborted").closed = d.closed
    BY <2>1, FinishIs DEF d
  <2>4. Streams(B!Finish(d, "aborted"))
    BY <2>1, <2>3 DEF Streams, d
  <2> QED
    BY <2>1, <2>2, <2>3, <2>4 DEF Good, d
<1> QED
  BY <1>1, <1>2

\* What no property of a conversation speaks of may change.
LEMMA SameIsGood ==
  ASSUME NEW c, Good(c), NEW d \in ConvSet,
         d.asked = c.asked, d.answers = c.answers, d.waiting = c.waiting, d.closed = c.closed, d.stream = c.stream,
         d.said = c.said, d.calls = c.calls, d.delivering = c.delivering, d.early = c.early
  PROVE  Good(d)
BY DEF Good, Once, Streams

\* Results answer the calls that wait, and are kept for those to come.
LEMMA GiveIs ==
  ASSUME NEW c \in ConvSet, Once(c), NEW ids \in SUBSET CallIds
  PROVE  LET d == B!Give(c, ids) IN
         /\ d \in ConvSet /\ Once(d) /\ d.stream = c.stream /\ d.calls = c.calls /\ d.said = c.said /\ d.closed = c.closed
         /\ \A id \in CallIds : c.answers[id] = 1 => d.answers[id] = 1
         /\ \A id \in CallIds : id \in c.early \/ id \in ids => d.answers[id] = 1 \/ id \in d.early
<1> DEFINE a == B!Answer(c.answers, ids \cap c.waiting)
           d == [c EXCEPT !.answers = a, !.waiting = c.waiting \ ids, !.early = c.early \cup (ids \ c.waiting), !.delivering = {}]
<1>1. B!Give(c, ids) = d
  BY DEF B!Give
<1>2. a \in [CallIds -> Nat] /\ \A id \in CallIds : a[id] = IF id \in ids \cap c.waiting THEN c.answers[id] + 1 ELSE c.answers[id]
  <2>1. c.answers \in [CallIds -> Nat] /\ ids \cap c.waiting \in SUBSET CallIds
    BY DEF ConvSet
  <2> QED
    BY <2>1, AnswerIs
<1> HIDE DEF a
<1>3. d \in ConvSet
  BY <1>2 DEF ConvSet
<1>4. /\ d.stream = c.stream /\ d.calls = c.calls /\ d.said = c.said /\ d.closed = c.closed /\ d.asked = c.asked
      /\ d.answers = a /\ d.waiting = c.waiting \ ids /\ d.early = c.early \cup (ids \ c.waiting)
  BY DEF ConvSet
<1>5. c.waiting \subseteq CallIds /\ \A id \in CallIds : c.answers[id] \in Nat
  BY DEF ConvSet
<1> HIDE DEF d
<1>6. Once(d)
  BY <1>2, <1>4, <1>5 DEF Once
<1>7. \A id \in CallIds : c.answers[id] = 1 => d.answers[id] = 1
  BY <1>2, <1>4, <1>5 DEF Once
<1>8. \A id \in CallIds : id \in c.early \/ id \in ids => d.answers[id] = 1 \/ id \in d.early
  BY <1>2, <1>4, <1>5 DEF Once
<1> QED
  BY <1>1, <1>3, <1>4, <1>6, <1>7, <1>8

LEMMA WrittenIsGood ==
  ASSUME NEW c, Good(c)
  PROVE  Good(B!Give(c, c.delivering)) /\ B!Give(c, c.delivering).closed = c.closed /\ B!Give(c, c.delivering).stream = c.stream
<1>1. c \in ConvSet /\ Once(c) /\ c.delivering \in SUBSET CallIds /\ c.said \subseteq CallIds
  BY DEF Good, ConvSet
<1> DEFINE d == B!Give(c, c.delivering)
<1>2. /\ d \in ConvSet /\ Once(d) /\ d.stream = c.stream /\ d.calls = c.calls /\ d.said = c.said /\ d.closed = c.closed
      /\ \A id \in CallIds : c.answers[id] = 1 => d.answers[id] = 1
      /\ \A id \in CallIds : id \in c.early \/ id \in c.delivering => d.answers[id] = 1 \/ id \in d.early
  BY <1>1, GiveIs
<1> HIDE DEF d
<1>3. Streams(d)
  BY <1>1, <1>2 DEF Good, Streams
<1> QED
  BY <1>2, <1>3 DEF Good, d

\* A step that goes on has every result its query waits for.
LEMMA DeliverIsGood ==
  ASSUME NEW c, Good(c), NEW same \in BOOLEAN, B!Answers(c, same), bHistory \in Seq(MessageSet)
  PROVE  Good(B!Deliver(c)) /\ ~B!Deliver(c).closed /\ B!Deliver(c).stream
<1> DEFINE begun == [B!Begin(c) EXCEPT !.calls = {}]
           results == {bHistory[i].of : i \in c.at + 1 .. Len(bHistory)}
           given == c.calls \cap results
           behind == c.at + 1 .. B!TurnStart(bHistory) - 1
<1>1. /\ c \in ConvSet /\ Once(c) /\ c.calls \in SUBSET CallIds /\ c.at \in Nat /\ Len(bHistory) \in Nat
      /\ c.said \subseteq CallIds /\ c.early \subseteq CallIds
  BY LenProperties DEF Good, ConvSet
<1>2. ~c.closed /\ ~c.stream /\ c.calls # {} /\ c.calls \subseteq {bHistory[i].of : i \in behind}
  BY DEF B!Answers, B!GoesOn
<1>3. B!TurnStart(bHistory) \in {Len(bHistory), Len(bHistory) + 1}
  BY DEF B!TurnStart
<1>4. behind \subseteq c.at + 1 .. Len(bHistory)
  BY <1>1, <1>3
<1>5. c.calls \subseteq results /\ given = c.calls
  BY <1>2, <1>4
<1>6. begun = [c EXCEPT !.stream = TRUE, !.ended = "none", !.blocks = {}, !.calls = {}]
  BY <1>1 DEF B!Begin, ConvSet
<1>7. /\ begun \in ConvSet /\ begun.stream = TRUE /\ begun.closed = FALSE /\ begun.calls = {} /\ begun.said = c.said /\ begun.answers = c.answers
      /\ begun.asked = c.asked /\ begun.waiting = c.waiting /\ begun.early = c.early
  BY <1>1, <1>2, <1>6 DEF ConvSet
<1> DEFINE d == IF B!Steered THEN [begun EXCEPT !.delivering = given] ELSE B!Give(begun, given)
<1>8. B!Deliver(c) = d
  BY DEF B!Deliver
<1> HIDE DEF begun, results, given, behind
<1>9. Once(begun)
  BY <1>1, <1>2, <1>7 DEF Once
<1>10. \A id \in c.said : c.answers[id] = 1 \/ id \in given
  BY <1>2, <1>5 DEF Good, Streams
<1>11. CASE B!Steered
  <2> DEFINE e == [begun EXCEPT !.delivering = given]
  <2>1. e \in ConvSet
    BY <1>1, <1>5, <1>7 DEF ConvSet
  <2>2. /\ e.stream = TRUE /\ e.closed = FALSE /\ e.calls = {} /\ e.said = c.said /\ e.answers = c.answers /\ e.asked = begun.asked
        /\ e.waiting = begun.waiting /\ e.delivering = given
    BY <1>7 DEF ConvSet
  <2>3. d = e
    BY <1>11
  <2> HIDE DEF e, d
  <2>4. Once(e)
    BY <1>9, <1>7, <2>2 DEF Once
  <2>5. Streams(e)
    BY <1>10, <2>2 DEF Streams
  <2> QED
    BY <1>8, <2>1, <2>2, <2>3, <2>4, <2>5 DEF Good
<1>12. CASE ~B!Steered
  <2> DEFINE e == B!Give(begun, given)
  <2>1. d = e
    BY <1>12
  <2>2. given \in SUBSET CallIds
    BY <1>1, <1>5
  <2>3. /\ e \in ConvSet /\ Once(e) /\ e.stream = begun.stream /\ e.calls = begun.calls /\ e.said = begun.said /\ e.closed = begun.closed
        /\ \A id \in CallIds : begun.answers[id] = 1 => e.answers[id] = 1
        /\ \A id \in CallIds : id \in begun.early \/ id \in given => e.answers[id] = 1 \/ id \in e.early
    BY <1>7, <1>9, <2>2, GiveIs
  <2> HIDE DEF e, d
  <2>4. Streams(e)
    BY <1>1, <1>7, <1>10, <2>3 DEF Streams
  <2> QED
    BY <1>7, <1>8, <2>1, <2>3, <2>4 DEF Good
<1> QED
  BY <1>11, <1>12

LEMMA ListeningIsGood ==
  ASSUME NEW c, Good(c), bHistory \in Seq(MessageSet)
  PROVE  /\ Good(B!Listening(c))
         /\ bStopped => B!Listening(c).closed /\ ~B!Listening(c).stream
         /\ ~bStopped => B!Listening(c).closed = c.closed /\ B!Listening(c).stream = c.stream
<1> DEFINE d == [c EXCEPT !.at = Len(bHistory) + 1]
<1>1. c \in ConvSet /\ Len(bHistory) \in Nat
  BY LenProperties DEF Good
<1>2. d \in ConvSet
  BY <1>1 DEF ConvSet
<1>3. /\ d.asked = c.asked /\ d.answers = c.answers /\ d.waiting = c.waiting /\ d.closed = c.closed /\ d.stream = c.stream
      /\ d.said = c.said /\ d.calls = c.calls /\ d.delivering = c.delivering /\ d.early = c.early
  BY <1>1 DEF ConvSet
<1>4. B!Listening(c) = IF bStopped THEN B!CloseAborted(d) ELSE [d EXCEPT !.heard = TRUE]
  BY DEF B!Listening
<1> HIDE DEF d
<1>5. Good(d)
  BY <1>2, <1>3, SameIsGood
<1>6. CASE bStopped
  BY <1>4, <1>5, <1>6, CloseAbortedIsGood
<1>7. CASE ~bStopped
  <2> DEFINE e == [d EXCEPT !.heard = TRUE]
  <2>1. e \in ConvSet
    BY <1>2 DEF ConvSet
  <2>2. /\ e.asked = d.asked /\ e.answers = d.answers /\ e.waiting = d.waiting /\ e.closed = d.closed /\ e.stream = d.stream
        /\ e.said = d.said /\ e.calls = d.calls /\ e.delivering = d.delivering /\ e.early = d.early
    BY <1>2 DEF ConvSet
  <2>3. B!Listening(c) = e
    BY <1>4, <1>7
  <2> HIDE DEF e
  <2>4. Good(e)
    BY <1>5, <2>1, <2>2, SameIsGood
  <2> QED
    BY <1>3, <1>7, <2>2, <2>3, <2>4
<1> QED
  BY <1>6, <1>7

\* A whole message ends the step on its calls, which the query then waits for.
LEMMA EndOnCallsIsGood ==
  ASSUME NEW c, Good(c), c.stream, c.said \subseteq B!Answered(c), NEW blocks \in SUBSET BlockSet, blocks # {},
         NEW more \in SUBSET B!Ids(blocks)
  PROVE  LET d == B!EndOnCalls([c EXCEPT !.blocks = blocks, !.said = @ \cup more]) IN Good(d) /\ d.closed = c.closed /\ ~d.stream
<1> DEFINE b == [c EXCEPT !.blocks = blocks, !.said = c.said \cup more]
           d == [b EXCEPT !.calls = B!Ids(blocks), !.stream = FALSE, !.ended = "toolUse"]
<1>1. c \in ConvSet /\ Once(c) /\ ~c.closed /\ c.said \subseteq CallIds
  BY DEF Good, Streams, ConvSet
<1>2. B!Ids(blocks) \subseteq CallIds
  BY DEF B!Ids, BlockSet
<1>3. b \in ConvSet /\ b.blocks = blocks /\ b.stream = c.stream /\ b.said = c.said \cup more
  BY <1>1, <1>2 DEF ConvSet
<1>4. B!EndOnCalls([c EXCEPT !.blocks = blocks, !.said = @ \cup more]) = d
  BY <1>3 DEF B!EndOnCalls
<1>5. d \in ConvSet
  BY <1>1, <1>2 DEF ConvSet
<1>6. /\ d.stream = FALSE /\ d.calls = B!Ids(blocks) /\ d.said = c.said \cup more /\ d.closed = c.closed /\ d.answers = c.answers
      /\ d.asked = c.asked /\ d.waiting = c.waiting
  BY <1>1 DEF ConvSet
<1>7. \A id \in c.said : c.answers[id] = 1
  <2> SUFFICES ASSUME NEW id \in c.said PROVE c.answers[id] = 1
    OBVIOUS
  <2>1. id \in CallIds /\ c.answers[id] \in Nat /\ c.answers[id] <= 1
    BY <1>1 DEF Once, ConvSet
  <2>2. c.answers[id] > 0
    BY DEF B!Answered
  <2> QED
    BY <2>1, <2>2
<1> HIDE DEF b, d
<1>8. Once(d)
  BY <1>1, <1>6 DEF Once
<1>9. Streams(d)
  BY <1>6, <1>7 DEF Streams
<1> QED
  BY <1>4, <1>5, <1>6, <1>8, <1>9 DEF Good

\* A call is answered at once, or waits.
CallOf(c, id) ==
  LET d == [c EXCEPT !.asked = @ \cup {id}] IN
  IF id \in d.early THEN [d EXCEPT !.early = @ \ {id}, !.answers = B!Answer(@, {id})]
  ELSE IF d.closed THEN [d EXCEPT !.answers = B!Answer(@, {id})]
  ELSE [d EXCEPT !.waiting = @ \cup {id}]
LEMMA CallIsGood ==
  ASSUME NEW c, Good(c), NEW id \in CallIds, id \notin c.asked
  PROVE  Good(CallOf(c, id)) /\ CallOf(c, id).closed = c.closed /\ CallOf(c, id).stream = c.stream
<1> DEFINE d == [c EXCEPT !.asked = c.asked \cup {id}]
           a == B!Answer(c.answers, {id})
<1>1. c \in ConvSet /\ Once(c) /\ Streams(c) /\ c.said \subseteq CallIds
  BY DEF Good, ConvSet
<1>2. a \in [CallIds -> Nat] /\ \A i \in CallIds : a[i] = IF i \in {id} THEN c.answers[i] + 1 ELSE c.answers[i]
  <2>1. c.answers \in [CallIds -> Nat] /\ {id} \in SUBSET CallIds
    BY <1>1 DEF ConvSet
  <2> QED
    BY <2>1, AnswerIs
<1>3. id \notin c.waiting /\ c.answers[id] = 0
  <2>1. c.answers[id] \in Nat
    BY <1>1 DEF ConvSet
  <2> QED
    BY <1>1, <2>1 DEF Once
<1>4. /\ d \in ConvSet /\ d.asked = c.asked \cup {id} /\ d.early = c.early /\ d.closed = c.closed /\ d.answers = c.answers /\ d.waiting = c.waiting
      /\ d.stream = c.stream /\ d.said = c.said /\ d.calls = c.calls /\ d.delivering = c.delivering
  BY <1>1 DEF ConvSet
<1> HIDE DEF a
<1>5. (\A i \in CallIds : c.answers[i] \in Nat) /\ c.waiting \subseteq CallIds
  BY <1>1 DEF ConvSet
<1>9. (\A i \in CallIds : a[i] = IF i = id THEN 1 ELSE c.answers[i]) /\ \A i \in c.waiting : a[i] = c.answers[i]
  BY <1>2, <1>3, <1>5
<1>6. CASE id \in c.early
  <2> DEFINE e == [d EXCEPT !.early = d.early \ {id}, !.answers = a]
  <2>1. CallOf(c, id) = e
    BY <1>4, <1>6 DEF CallOf, a
  <2> HIDE DEF d
  <2>2. e \in ConvSet
    BY <1>2, <1>4 DEF ConvSet
  <2>3. /\ e.asked = c.asked \cup {id} /\ e.early = c.early \ {id} /\ e.closed = c.closed /\ e.answers = a /\ e.waiting = c.waiting
        /\ e.stream = c.stream /\ e.said = c.said /\ e.calls = c.calls /\ e.delivering = c.delivering
    BY <1>4 DEF ConvSet
  <2> HIDE DEF e
  <2>4. Once(e)
    BY <1>1, <1>3, <1>5, <1>9, <2>3 DEF Once
  <2>5. Streams(e)
    BY <1>1, <1>2, <1>3, <2>3 DEF Streams
  <2> QED
    BY <2>1, <2>2, <2>3, <2>4, <2>5 DEF Good
<1>7. CASE id \notin c.early /\ c.closed
  <2> DEFINE e == [d EXCEPT !.answers = a]
  <2>1. CallOf(c, id) = e
    BY <1>4, <1>7 DEF CallOf, a
  <2> HIDE DEF d
  <2>2. e \in ConvSet
    BY <1>2, <1>4 DEF ConvSet
  <2>3. /\ e.asked = c.asked \cup {id} /\ e.early = c.early /\ e.closed = c.closed /\ e.answers = a /\ e.waiting = c.waiting
        /\ e.stream = c.stream
    BY <1>4 DEF ConvSet
  <2> HIDE DEF e
  <2>4. Once(e)
    BY <1>1, <1>3, <1>5, <1>9, <2>3 DEF Once
  <2>5. Streams(e)
    BY <1>1, <1>7, <2>3 DEF Streams
  <2> QED
    BY <2>1, <2>2, <2>3, <2>4, <2>5 DEF Good
<1>8. CASE id \notin c.early /\ ~c.closed
  <2> DEFINE e == [d EXCEPT !.waiting = d.waiting \cup {id}]
  <2>1. CallOf(c, id) = e
    BY <1>4, <1>8 DEF CallOf
  <2> HIDE DEF d
  <2>2. e \in ConvSet
    BY <1>2, <1>4 DEF ConvSet
  <2>3. /\ e.asked = c.asked \cup {id} /\ e.early = c.early /\ e.closed = c.closed /\ e.answers = c.answers /\ e.waiting = c.waiting \cup {id}
        /\ e.stream = c.stream /\ e.said = c.said /\ e.calls = c.calls /\ e.delivering = c.delivering
    BY <1>4 DEF ConvSet
  <2> HIDE DEF e
  <2>4. Once(e)
    BY <1>1, <1>3, <1>8, <2>3 DEF Once
  <2>5. Streams(e)
    BY <1>1, <2>3 DEF Streams
  <2> QED
    BY <2>1, <2>2, <2>3, <2>4, <2>5 DEF Good
<1> QED
  BY <1>6, <1>7, <1>8

\* What the program does to a conversation otherwise is its phase, its blocks
\* and its transcript.
LEMMA PhaseIsGood ==
  ASSUME NEW c, Good(c), NEW p \in {"opening", "running", "killed", "ended"}, NEW t \in {"none", "written", "removed"}
  PROVE  LET d == [c EXCEPT !.phase = p, !.transcript = t] IN Good(d) /\ d.closed = c.closed /\ d.stream = c.stream
<1> DEFINE d == [c EXCEPT !.phase = p, !.transcript = t]
<1>1. c \in ConvSet
  BY DEF Good
<1>2. d \in ConvSet
  BY <1>1 DEF ConvSet
<1>3. /\ d.asked = c.asked /\ d.answers = c.answers /\ d.waiting = c.waiting /\ d.closed = c.closed /\ d.stream = c.stream
      /\ d.said = c.said /\ d.calls = c.calls /\ d.delivering = c.delivering /\ d.early = c.early
  BY <1>1 DEF ConvSet
<1> HIDE DEF d
<1>4. Good(d)
  BY <1>2, <1>3, SameIsGood
<1> QED
  BY <1>3, <1>4 DEF d
LEMMA BlocksAreGood ==
  ASSUME NEW c, Good(c), NEW blocks \in SUBSET BlockSet
  PROVE  LET d == [c EXCEPT !.blocks = blocks] IN Good(d) /\ d.closed = c.closed /\ d.stream = c.stream
<1> DEFINE d == [c EXCEPT !.blocks = blocks]
<1>1. c \in ConvSet
  BY DEF Good
<1>2. d \in ConvSet
  BY <1>1 DEF ConvSet
<1>3. /\ d.asked = c.asked /\ d.answers = c.answers /\ d.waiting = c.waiting /\ d.closed = c.closed /\ d.stream = c.stream
      /\ d.said = c.said /\ d.calls = c.calls /\ d.delivering = c.delivering /\ d.early = c.early
  BY <1>1 DEF ConvSet
<1> HIDE DEF d
<1>4. Good(d)
  BY <1>2, <1>3, SameIsGood
<1> QED
  BY <1>3, <1>4 DEF d
LEMMA HeardIsGood ==
  ASSUME NEW c, Good(c), NEW h \in BOOLEAN
  PROVE  LET d == [c EXCEPT !.heard = h] IN Good(d) /\ d.closed = c.closed /\ d.stream = c.stream
<1> DEFINE d == [c EXCEPT !.heard = h]
<1>1. c \in ConvSet
  BY DEF Good
<1>2. d \in ConvSet
  BY <1>1 DEF ConvSet
<1>3. /\ d.asked = c.asked /\ d.answers = c.answers /\ d.waiting = c.waiting /\ d.closed = c.closed /\ d.stream = c.stream
      /\ d.said = c.said /\ d.calls = c.calls /\ d.delivering = c.delivering /\ d.early = c.early
  BY <1>1 DEF ConvSet
<1> HIDE DEF d
<1>4. Good(d)
  BY <1>2, <1>3, SameIsGood
<1> QED
  BY <1>3, <1>4 DEF d

BTyped ==
  /\ bStep \in {"idle", "asked"} /\ bRunning \in BOOLEAN /\ bStopped \in BOOLEAN /\ bNext \in 1 .. MaxCall + 1
  /\ bHistory \in Seq(MessageSet) /\ bConvs \in Seq(ConvSet) /\ bLive \in {0, Len(bConvs)}

\* The last conversation is the one kept, if any is; no other is open, and
\* only the step asked for streams.
ConvsInv ==
  /\ \A k \in DOMAIN bConvs : Good(bConvs[k])
  /\ \A k \in DOMAIN bConvs : ~bConvs[k].closed => k = bLive
  /\ \A k \in DOMAIN bConvs : bConvs[k].stream => bStep = "asked"

BInv == BTyped /\ ConvsInv

\* One conversation changes.
LEMMA OneConversation ==
  ASSUME bConvs \in Seq(ConvSet), NEW k \in DOMAIN bConvs, NEW d \in ConvSet, B!Set(k, d)
  PROVE  /\ bConvs' \in Seq(ConvSet) /\ Len(bConvs') = Len(bConvs) /\ DOMAIN bConvs' = DOMAIN bConvs
         /\ \A j \in DOMAIN bConvs : bConvs'[j] = IF j = k THEN d ELSE bConvs[j]
<1>1. DOMAIN bConvs = 1 .. Len(bConvs)
  BY LenProperties
<1>2. /\ [bConvs EXCEPT ![k] = d] \in Seq(ConvSet) /\ Len([bConvs EXCEPT ![k] = d]) = Len(bConvs)
      /\ \A j \in 1 .. Len(bConvs) : [bConvs EXCEPT ![k] = d][j] = IF j = k THEN d ELSE bConvs[j]
  BY <1>1, ExceptSeq
<1>3. bConvs' = [bConvs EXCEPT ![k] = d]
  BY DEF B!Set
<1>4. DOMAIN bConvs' = 1 .. Len(bConvs')
  BY <1>2, <1>3, LenProperties
<1> QED
  BY <1>1, <1>2, <1>3, <1>4

\* The program's step: its conversation stays good, and stays closed; or it
\* closes and is kept no longer.
Rest == UNCHANGED <<bHistory, bStep, bRunning, bStopped>> /\ bNext' \in 1 .. MaxCall + 1
LEMMA ProgramGoesOn ==
  ASSUME BInv, NEW k \in DOMAIN bConvs, NEW d, Good(d), B!Set(k, d),
         d.stream => bConvs[k].stream, bConvs[k].closed => d.closed, bLive' = bLive, Rest
  PROVE  BInv'
<1> USE DEF BInv, Rest
<1>1. /\ bConvs' \in Seq(ConvSet) /\ Len(bConvs') = Len(bConvs) /\ DOMAIN bConvs' = DOMAIN bConvs
      /\ \A j \in DOMAIN bConvs : bConvs'[j] = IF j = k THEN d ELSE bConvs[j]
  BY OneConversation DEF BTyped, Good
<1>3. BTyped'
  BY <1>1 DEF BTyped
<1>4. \A j \in DOMAIN bConvs' : Good(bConvs'[j])
  BY <1>1 DEF ConvsInv
<1>5. \A j \in DOMAIN bConvs' : ~bConvs'[j].closed => j = bLive'
  BY <1>1 DEF ConvsInv
<1>6. \A j \in DOMAIN bConvs' : bConvs'[j].stream => bStep' = "asked"
  BY <1>1 DEF ConvsInv
<1> QED
  BY <1>3, <1>4, <1>5, <1>6 DEF ConvsInv
LEMMA ProgramCloses ==
  ASSUME BInv, NEW k \in DOMAIN bConvs, NEW d, Good(d), B!Set(k, d), d.closed, ~d.stream, B!Forget(k), Rest
  PROVE  BInv'
<1> USE DEF BInv, Rest
<1>1. /\ bConvs' \in Seq(ConvSet) /\ Len(bConvs') = Len(bConvs) /\ DOMAIN bConvs' = DOMAIN bConvs
      /\ \A j \in DOMAIN bConvs : bConvs'[j] = IF j = k THEN d ELSE bConvs[j]
  BY OneConversation DEF BTyped, Good
<1>2. bLive' \in {0, Len(bConvs)}
  BY DEF BTyped, B!Forget
<1>3. BTyped'
  BY <1>1, <1>2 DEF BTyped
<1>4. \A j \in DOMAIN bConvs' : Good(bConvs'[j])
  BY <1>1 DEF ConvsInv
<1>5. \A j \in DOMAIN bConvs' : ~bConvs'[j].closed => j = bLive'
  BY <1>1 DEF ConvsInv, B!Forget
<1>6. \A j \in DOMAIN bConvs' : bConvs'[j].stream => bStep' = "asked"
  BY <1>1 DEF ConvsInv
<1> QED
  BY <1>3, <1>4, <1>5, <1>6 DEF ConvsInv

LEMMA OpenedKeeps == ASSUME BInv, NEW k \in DOMAIN bConvs, B!Opened(k) \/ B!OpenFails(k) PROVE BInv'
<1>1. Good(bConvs[k])
  BY DEF BInv, ConvsInv
<1>2. CASE B!Opened(k)
  <2> DEFINE d == [bConvs[k] EXCEPT !.phase = "running", !.transcript = "written"]
  <2>1. Good(d) /\ d.closed = bConvs[k].closed /\ d.stream = bConvs[k].stream
    BY <1>1, PhaseIsGood
  <2>2. B!Set(k, d) /\ bLive' = bLive /\ Rest
    BY <1>2 DEF B!Opened, BInv, BTyped, Rest
  <2> HIDE DEF d
  <2> QED
    BY <2>1, <2>2, ProgramGoesOn
<1>3. CASE B!OpenFails(k)
  <2> DEFINE e == B!Close(B!Finish(bConvs[k], "error"))
  <2>1. PICK wrote \in {"none", "written"} : B!Set(k, [e EXCEPT !.phase = "ended", !.transcript = wrote])
    BY <1>3 DEF B!OpenFails
  <2>2. Good(e) /\ e.closed /\ ~e.stream
    BY <1>1, FinishIsGood, CloseIsGood
  <2>3. B!Forget(k) /\ Rest
    BY <1>3 DEF B!OpenFails, BInv, BTyped, Rest
  <2> HIDE DEF e
  <2> DEFINE d == [e EXCEPT !.phase = "ended", !.transcript = wrote]
  <2>6. wrote \in {"none", "written", "removed"} /\ "ended" \in {"opening", "running", "killed", "ended"}
    OBVIOUS
  <2>4. Good(d) /\ d.closed = e.closed /\ d.stream = e.stream
    BY <2>2, <2>6, PhaseIsGood
  <2>5. B!Set(k, d)
    BY <2>1
  <2> HIDE DEF d
  <2> QED
    BY <2>2, <2>3, <2>4, <2>5, ProgramCloses
<1> QED
  BY <1>2, <1>3

LEMMA WrittenKeeps == ASSUME BInv, NEW k \in DOMAIN bConvs, B!Written(k) PROVE BInv'
<1> DEFINE d == B!Give(bConvs[k], bConvs[k].delivering)
<1>1. Good(d) /\ d.closed = bConvs[k].closed /\ d.stream = bConvs[k].stream
  BY WrittenIsGood DEF BInv, ConvsInv
<1>2. B!Set(k, d) /\ bLive' = bLive /\ Rest
  BY DEF B!Written, BInv, BTyped, Rest
<1> HIDE DEF d
<1> QED
  BY <1>1, <1>2, ProgramGoesOn

\* A block begins and ends; a message is given up.
LEMMA BlocksKeep == ASSUME BInv, NEW k \in DOMAIN bConvs, B!BlockStart(k) \/ B!BlockStop(k) \/ B!MessageStart(k) PROVE BInv'
<1>1. Good(bConvs[k]) /\ bConvs[k].blocks \subseteq BlockSet
  BY DEF BInv, ConvsInv, Good, ConvSet
<1>2. \E blocks \in SUBSET BlockSet : B!Set(k, [bConvs[k] EXCEPT !.blocks = blocks])
  <2>1. CASE B!BlockStart(k)
    <3>1. bNext \in CallIds
      BY <2>1, HandBackAssumption DEF B!BlockStart, BInv, BTyped, CallIds
    <3>3. [id |-> bNext, open |-> TRUE, given |-> FALSE] \in BlockSet
      BY <3>1 DEF BlockSet
    <3>2. bConvs[k].blocks \cup {[id |-> bNext, open |-> TRUE, given |-> FALSE]} \in SUBSET BlockSet
      BY <1>1, <3>3
    <3> QED
      BY <2>1, <3>2 DEF B!BlockStart
  <2>2. CASE B!BlockStop(k)
    <3>1. PICK b \in bConvs[k].blocks : B!Set(k, [bConvs[k] EXCEPT !.blocks = (@ \ {b}) \cup {[b EXCEPT !.open = FALSE]}])
      BY <2>2 DEF B!BlockStop
    <3>2. (bConvs[k].blocks \ {b}) \cup {[b EXCEPT !.open = FALSE]} \in SUBSET BlockSet
      BY <1>1 DEF BlockSet
    <3> QED
      BY <3>1, <3>2
  <2>3. CASE B!MessageStart(k)
    <3>1. {[b EXCEPT !.given = TRUE] : b \in B!Whole(bConvs[k].blocks)} \in SUBSET BlockSet
      BY <1>1 DEF BlockSet, B!Whole
    <3> QED
      BY <2>3, <3>1 DEF B!MessageStart
  <2> QED
    BY <2>1, <2>2, <2>3
<1>3. PICK blocks \in SUBSET BlockSet : B!Set(k, [bConvs[k] EXCEPT !.blocks = blocks])
  BY <1>2
<1> DEFINE d == [bConvs[k] EXCEPT !.blocks = blocks]
<1>4. Good(d) /\ d.closed = bConvs[k].closed /\ d.stream = bConvs[k].stream
  BY <1>1, BlocksAreGood
<1>5. bLive' = bLive /\ Rest
  BY HandBackAssumption DEF B!BlockStart, B!BlockStop, B!MessageStart, BInv, BTyped, Rest
<1> HIDE DEF d
<1> QED
  BY <1>3, <1>4, <1>5, ProgramGoesOn DEF d

LEMMA MessageKeeps == ASSUME BInv, NEW k \in DOMAIN bConvs, B!MessageStop(k) \/ B!Message(k) PROVE BInv'
<1>1. Good(bConvs[k]) /\ bConvs[k].blocks \subseteq BlockSet /\ bConvs[k].stream /\ bConvs[k].said \subseteq B!Answered(bConvs[k])
  BY DEF BInv, ConvsInv, Good, ConvSet, B!MessageStop, B!Message, B!Speaks
<1>2. \E blocks \in SUBSET BlockSet, more \in SUBSET CallIds :
        blocks # {} /\ more \subseteq B!Ids(blocks) /\ B!Set(k, B!EndOnCalls([bConvs[k] EXCEPT !.blocks = blocks, !.said = @ \cup more]))
  <2>1. CASE B!MessageStop(k)
    <3> DEFINE blocks == B!Whole(bConvs[k].blocks)
               more == B!Ids(B!Own(B!Whole(bConvs[k].blocks)))
    <3>1. blocks \in SUBSET BlockSet /\ blocks # {} /\ more \subseteq B!Ids(blocks)
      BY <1>1, <2>1 DEF B!MessageStop, B!Whole, B!Own, B!Ids
    <3>2. more \in SUBSET CallIds
      BY <3>1 DEF B!Ids, BlockSet
    <3>3. B!Set(k, B!EndOnCalls([bConvs[k] EXCEPT !.blocks = blocks, !.said = @ \cup more]))
      BY <2>1 DEF B!MessageStop
    <3> QED
      BY <3>1, <3>2, <3>3
  <2>2. CASE B!Message(k)
    <3> DEFINE b == [id |-> bNext, open |-> FALSE, given |-> FALSE]
               blocks == B!Whole(bConvs[k].blocks) \cup {b}
    <3>1. bNext \in CallIds
      BY <2>2, HandBackAssumption DEF B!Message, BInv, BTyped, CallIds
    <3>4. b \in BlockSet /\ b.id = bNext
      BY <3>1 DEF BlockSet
    <3> HIDE DEF b
    <3>2. blocks \in SUBSET BlockSet /\ blocks # {} /\ {bNext} \subseteq B!Ids(blocks)
      BY <1>1, <3>4 DEF B!Whole, B!Ids
    <3>3. B!Set(k, B!EndOnCalls([bConvs[k] EXCEPT !.blocks = blocks, !.said = @ \cup {bNext}]))
      BY <2>2 DEF B!Message, b
    <3> QED
      BY <3>1, <3>2, <3>3
  <2> QED
    BY <2>1, <2>2
<1>3. PICK blocks \in SUBSET BlockSet, more \in SUBSET CallIds :
        blocks # {} /\ more \subseteq B!Ids(blocks) /\ B!Set(k, B!EndOnCalls([bConvs[k] EXCEPT !.blocks = blocks, !.said = @ \cup more]))
  BY <1>2
<1> DEFINE d == B!EndOnCalls([bConvs[k] EXCEPT !.blocks = blocks, !.said = @ \cup more])
<1>4. Good(d) /\ d.closed = bConvs[k].closed /\ ~d.stream
  BY <1>1, <1>3, EndOnCallsIsGood
<1>5. bLive' = bLive /\ Rest
  BY HandBackAssumption DEF B!MessageStop, B!Message, BInv, BTyped, Rest
<1>6. B!Set(k, d)
  BY <1>3
<1> HIDE DEF d
<1> QED
  BY <1>4, <1>5, <1>6, ProgramGoesOn

LEMMA ProgramCallKeeps == ASSUME BInv, NEW k \in DOMAIN bConvs, NEW id \in CallIds, B!Call(k, id) PROVE BInv'
<1> DEFINE d == CallOf(bConvs[k], id)
<1>1. Good(d) /\ d.closed = bConvs[k].closed /\ d.stream = bConvs[k].stream
  BY CallIsGood DEF BInv, ConvsInv, B!Call
<1>2. B!Set(k, d) /\ bLive' = bLive /\ Rest
  BY DEF B!Call, CallOf, BInv, BTyped, Rest
<1> HIDE DEF d
<1> QED
  BY <1>1, <1>2, ProgramGoesOn

\* The turn ends; the program exits.
LEMMA ProgramEndsKeep == ASSUME BInv, NEW k \in DOMAIN bConvs, NEW how \in {"done", "error"}, B!TurnEnds(k, how) \/ B!Consumed(k, how) PROVE BInv'
<1>1. Good(bConvs[k]) /\ bConvs[k] \in ConvSet
  BY DEF BInv, ConvsInv, Good
<1>2. CASE B!TurnEnds(k, how)
  <2> DEFINE e == B!Finish(bConvs[k], how)
             d == [e EXCEPT !.phase = "killed"]
  <2>1. Good(e) /\ ~e.stream /\ e.closed = bConvs[k].closed
    BY <1>1, FinishIsGood
  <2>2. B!Set(k, d) /\ bLive' = bLive /\ Rest
    BY <1>2 DEF B!TurnEnds, BInv, BTyped, Rest
  <2> HIDE DEF e
  <2>3. Good(d) /\ d.closed = e.closed /\ d.stream = e.stream
    <3>1. e \in ConvSet
      BY <2>1 DEF Good
    <3>2. d = [e EXCEPT !.phase = "killed", !.transcript = e.transcript] /\ e.transcript \in {"none", "written", "removed"}
      BY <3>1 DEF ConvSet
    <3>3. "killed" \in {"opening", "running", "killed", "ended"}
      OBVIOUS
    <3>4. LET f == [e EXCEPT !.phase = "killed", !.transcript = e.transcript] IN Good(f) /\ f.closed = e.closed /\ f.stream = e.stream
      BY <2>1, <3>2, <3>3, PhaseIsGood
    <3> QED
      BY <3>2, <3>4
  <2> HIDE DEF d
  <2> QED
    BY <2>1, <2>2, <2>3, ProgramGoesOn
<1>3. CASE B!Consumed(k, how)
  <2> DEFINE c == IF bConvs[k].closed THEN bConvs[k] ELSE B!Finish(bConvs[k], how)
             e == B!Close(c)
             d == [e EXCEPT !.phase = "ended", !.transcript = "removed"]
  <2>1. Good(c) /\ ~c.stream
    BY <1>1, FinishIsGood DEF Good, Streams
  <2>2. B!Set(k, d) /\ B!Forget(k) /\ Rest
    BY <1>3 DEF B!Consumed, BInv, BTyped, Rest
  <2> HIDE DEF c
  <2>3. Good(e) /\ e.closed /\ ~e.stream
    BY <2>1, CloseIsGood
  <2> HIDE DEF e
  <2>4. Good(d) /\ d.closed = e.closed /\ d.stream = e.stream
    BY <2>3, PhaseIsGood
  <2> HIDE DEF d
  <2> QED
    BY <2>2, <2>3, <2>4, ProgramCloses
<1> QED
  BY <1>2, <1>3

(* The engine. *)

LEMMA HistoryKeeps ==
  ASSUME BInv, bHistory' \in Seq(MessageSet), UNCHANGED <<bStep, bRunning, bStopped, bLive, bConvs, bNext>>
  PROVE  BInv'
BY DEF BInv, BTyped, ConvsInv

LEMMA SayKeeps == ASSUME BInv, B!Say PROVE BInv'
<1>1. B!User \in MessageSet
  BY DEF B!User, MessageSet
<1>2. bHistory' \in Seq(MessageSet)
  BY <1>1, AppendProperties DEF B!Say, BInv, BTyped
<1> QED
  BY <1>2, HistoryKeeps DEF B!Say
LEMMA ResultKeeps == ASSUME BInv, NEW id \in CallIds, B!Record(id) PROVE BInv'
<1>1. B!Result(id) \in MessageSet
  BY DEF B!Result, MessageSet, CallIds
<1>2. bHistory' \in Seq(MessageSet)
  BY <1>1, AppendProperties DEF B!Record, BInv, BTyped
<1> QED
  BY <1>2, HistoryKeeps DEF B!Record
LEMMA CompactKeeps == ASSUME BInv, NEW n \in Nat, B!Compact(n) PROVE BInv'
<1>1. <<B!User>> \in Seq(MessageSet)
  BY DEF B!User, MessageSet
<1>2. bHistory \in Seq(MessageSet) /\ n \in 2 .. Len(bHistory)
  BY DEF B!Compact, BInv, BTyped
<1>3. SubSeq(bHistory, n, Len(bHistory)) \in Seq(MessageSet)
  <2>1. \A i \in n .. Len(bHistory) : bHistory[i] \in MessageSet
    BY <1>2, ElementOfSeq
  <2> QED
    BY <1>2, <2>1, SubSeqProperties
<1>4. bHistory' \in Seq(MessageSet)
  BY <1>1, <1>3, ConcatProperties DEF B!Compact
<1> QED
  BY <1>4, HistoryKeeps DEF B!Compact

\* Between two steps of a run nothing streams, and the query kept is the last.
LEMMA OthersAreClosed ==
  ASSUME BInv, NEW k \in DOMAIN bConvs, k # Len(bConvs)
  PROVE  bConvs[k].closed /\ ~bConvs[k].stream
<1>1. DOMAIN bConvs = 1 .. Len(bConvs) /\ k # bLive
  BY LenProperties DEF BInv, BTyped
<1>2. bConvs[k].closed /\ Good(bConvs[k])
  BY <1>1 DEF BInv, ConvsInv
<1> QED
  BY <1>2 DEF Good, Streams

LEMMA ReplyKeeps == ASSUME BInv, NEW k \in DOMAIN bConvs, B!Keep(k) PROVE BInv'
<1>1. bConvs \in Seq(ConvSet) /\ Good(bConvs[k]) /\ bConvs[k] \in ConvSet /\ bConvs[k].heard \in BOOLEAN /\ bConvs[k].blocks \subseteq BlockSet
  BY DEF BInv, BTyped, ConvsInv, Good, ConvSet
<1>2. /\ k = Len(bConvs) /\ ~bConvs[k].stream /\ bStep' = "idle" /\ bHistory' = Append(bHistory, B!Reply(B!Ids(bConvs[k].blocks)))
      /\ bLive' = bLive /\ bNext' = bNext /\ bConvs' = [bConvs EXCEPT ![k].heard = @ /\ bRunning']
  BY DEF B!Keep, B!Awaited
<1>3. bRunning' \in BOOLEAN /\ bStopped' \in BOOLEAN
  BY DEF B!Keep, BInv, BTyped
<1> DEFINE h == bConvs[k].heard /\ bRunning'
           d == [bConvs[k] EXCEPT !.heard = h]
<1>4. B!Set(k, d)
  BY <1>2 DEF B!Set
<1>5. h \in BOOLEAN
  OBVIOUS
<1> HIDE DEF h
<1>6. Good(d) /\ d.closed = bConvs[k].closed /\ d.stream = bConvs[k].stream
  BY <1>1, <1>5, HeardIsGood
<1> HIDE DEF d
<1>7. /\ bConvs' \in Seq(ConvSet) /\ Len(bConvs') = Len(bConvs) /\ DOMAIN bConvs' = DOMAIN bConvs
      /\ \A j \in DOMAIN bConvs : bConvs'[j] = IF j = k THEN d ELSE bConvs[j]
  BY <1>1, <1>4, <1>6, OneConversation DEF Good
<1>8. bHistory' \in Seq(MessageSet)
  <2>1. B!Reply(B!Ids(bConvs[k].blocks)) \in MessageSet
    BY <1>1 DEF B!Reply, B!Ids, MessageSet, BlockSet
  <2> QED
    BY <1>2, <2>1, AppendProperties DEF BInv, BTyped
<1>9. BTyped'
  BY <1>2, <1>3, <1>7, <1>8 DEF BInv, BTyped
<1>10. \A j \in DOMAIN bConvs' : Good(bConvs'[j])
  BY <1>6, <1>7 DEF BInv, ConvsInv
<1>11. \A j \in DOMAIN bConvs' : ~bConvs'[j].closed => j = bLive'
  BY <1>2, <1>6, <1>7 DEF BInv, ConvsInv
<1>12. \A j \in DOMAIN bConvs' : ~bConvs'[j].stream
  BY <1>2, <1>6, <1>7, OthersAreClosed
<1> QED
  BY <1>9, <1>10, <1>11, <1>12 DEF BInv, ConvsInv

\* Every conversation changes.
LEMMA EveryConversation ==
  ASSUME bConvs \in Seq(ConvSet), NEW f, DOMAIN f = DOMAIN bConvs, f = [k \in DOMAIN f |-> f[k]], \A k \in DOMAIN bConvs : Good(f[k])
  PROVE  f \in Seq(ConvSet) /\ Len(f) = Len(bConvs)
<1>1. DOMAIN bConvs = 1 .. Len(bConvs) /\ Len(bConvs) \in Nat
  BY LenProperties
<1>2. \A k \in 1 .. Len(bConvs) : f[k] \in ConvSet
  BY <1>1 DEF Good
<1>3. f \in [1 .. Len(bConvs) -> ConvSet]
  BY <1>1, <1>2
<1> QED
  BY <1>1, <1>3, SeqDef, LenProperties

LEMMA RunEndsKeeps == ASSUME BInv, B!RunEnds PROVE BInv'
<1>1. bConvs \in Seq(ConvSet) /\ bConvs' = [k \in DOMAIN bConvs |-> [bConvs[k] EXCEPT !.heard = FALSE]]
  BY DEF BInv, BTyped, B!RunEnds
<1>2. \A k \in DOMAIN bConvs : Good(bConvs'[k]) /\ bConvs'[k].closed = bConvs[k].closed /\ bConvs'[k].stream = bConvs[k].stream
  <2> SUFFICES ASSUME NEW k \in DOMAIN bConvs
               PROVE  Good(bConvs'[k]) /\ bConvs'[k].closed = bConvs[k].closed /\ bConvs'[k].stream = bConvs[k].stream
    OBVIOUS
  <2>1. bConvs'[k] = [bConvs[k] EXCEPT !.heard = FALSE]
    BY <1>1
  <2>2. Good(bConvs[k]) /\ FALSE \in BOOLEAN
    BY DEF BInv, ConvsInv
  <2>3. LET d == [bConvs[k] EXCEPT !.heard = FALSE] IN Good(d) /\ d.closed = bConvs[k].closed /\ d.stream = bConvs[k].stream
    BY <2>2, HeardIsGood
  <2> QED
    BY <2>1, <2>3
<1>3. DOMAIN bConvs' = DOMAIN bConvs /\ bConvs' = [k \in DOMAIN bConvs' |-> bConvs'[k]]
  BY <1>1
<1>4. bConvs' \in Seq(ConvSet) /\ Len(bConvs') = Len(bConvs)
  BY <1>1, <1>2, <1>3, EveryConversation
<1>5. BTyped'
  BY <1>4 DEF BInv, BTyped, B!RunEnds
<1> QED
  BY <1>2, <1>3, <1>5 DEF BInv, ConvsInv, B!RunEnds

LEMMA RunStopKeeps == ASSUME BInv, B!Stop PROVE BInv'
<1>1. bConvs \in Seq(ConvSet) /\ bConvs' = [k \in DOMAIN bConvs |-> IF bConvs[k].heard THEN B!CloseAborted(bConvs[k]) ELSE bConvs[k]]
  BY DEF BInv, BTyped, B!Stop
<1>2. \A k \in DOMAIN bConvs : /\ Good(bConvs'[k])
                               /\ bConvs[k].heard => bConvs'[k].closed /\ ~bConvs'[k].stream
                               /\ ~bConvs[k].heard => bConvs'[k] = bConvs[k]
  <2> SUFFICES ASSUME NEW k \in DOMAIN bConvs
               PROVE  /\ Good(bConvs'[k])
                      /\ bConvs[k].heard => bConvs'[k].closed /\ ~bConvs'[k].stream
                      /\ ~bConvs[k].heard => bConvs'[k] = bConvs[k]
    OBVIOUS
  <2>1. Good(bConvs[k])
    BY DEF BInv, ConvsInv
  <2>2. CASE bConvs[k].heard
    BY <1>1, <2>1, <2>2, CloseAbortedIsGood
  <2>3. CASE ~bConvs[k].heard
    BY <1>1, <2>1, <2>3
  <2> QED
    BY <2>2, <2>3
<1>3. DOMAIN bConvs' = DOMAIN bConvs /\ bConvs' = [k \in DOMAIN bConvs' |-> bConvs'[k]]
  BY <1>1
<1>4. bConvs' \in Seq(ConvSet) /\ Len(bConvs') = Len(bConvs)
  BY <1>1, <1>2, <1>3, EveryConversation
<1>5. bLive' = (IF bLive # 0 /\ bConvs[bLive].heard THEN 0 ELSE bLive) /\ UNCHANGED <<bHistory, bStep, bRunning, bNext>> /\ bStopped' = TRUE
  BY DEF B!Stop
<1>6. BTyped'
  BY <1>4, <1>5 DEF BInv, BTyped
<1>7. \A k \in DOMAIN bConvs' : ~bConvs'[k].closed => k = bLive'
  BY <1>2, <1>3, <1>5 DEF BInv, ConvsInv
<1>8. \A k \in DOMAIN bConvs' : bConvs'[k].stream => bStep' = "asked"
  BY <1>2, <1>3, <1>5 DEF BInv, ConvsInv
<1> QED
  BY <1>2, <1>3, <1>6, <1>7, <1>8 DEF BInv, ConvsInv

LEMMA LiveIsAConversation == ASSUME BInv PROVE bLive \in 0 .. Len(bConvs) /\ (bLive # 0 => bLive \in DOMAIN bConvs)
<1>1. DOMAIN bConvs = 1 .. Len(bConvs) /\ Len(bConvs) \in Nat
  BY LenProperties DEF BInv, BTyped
<1>2. bLive = 0 \/ bLive = Len(bConvs)
  BY DEF BInv, BTyped
<1> QED
  BY <1>1, <1>2

\* A step asks the query it keeps, or another once that one is closed.
LEMMA StepAskKeeps == ASSUME BInv, NEW same \in BOOLEAN, B!Ask(same) PROVE BInv'
<1>1. /\ bConvs \in Seq(ConvSet) /\ DOMAIN bConvs = 1 .. Len(bConvs) /\ Len(bConvs) \in Nat /\ bHistory \in Seq(MessageSet)
      /\ bLive \in {0, Len(bConvs)} /\ \A k \in DOMAIN bConvs : Good(bConvs[k]) /\ ~bConvs[k].stream
  BY LenProperties DEF BInv, BTyped, ConvsInv, B!Ask
<1>2. bStep' = "asked" /\ bRunning' = TRUE /\ UNCHANGED <<bHistory, bStopped, bNext>>
  BY DEF B!Ask
<1>3. CASE bLive # 0 /\ B!Answers(bConvs[bLive], same)
  <2> DEFINE c == B!Deliver(bConvs[bLive])
             d == B!Listening(c)
  <2>1. bLive \in DOMAIN bConvs
    BY <1>3, LiveIsAConversation
  <2>2. Good(c) /\ ~c.closed /\ c.stream
    BY <1>1, <1>3, <2>1, DeliverIsGood
  <2>3. B!Set(bLive, d) /\ IF bStopped THEN bLive' = 0 ELSE bLive' = bLive
    BY <1>3 DEF B!Ask
  <2> HIDE DEF c
  <2>4. Good(d) /\ (bStopped => d.closed /\ ~d.stream) /\ (~bStopped => ~d.closed)
    BY <1>1, <2>2, ListeningIsGood
  <2> HIDE DEF d
  <2>5. /\ bConvs' \in Seq(ConvSet) /\ Len(bConvs') = Len(bConvs) /\ DOMAIN bConvs' = DOMAIN bConvs
        /\ \A j \in DOMAIN bConvs : bConvs'[j] = IF j = bLive THEN d ELSE bConvs[j]
    BY <1>1, <2>1, <2>3, <2>4, OneConversation DEF Good
  <2>6. BTyped'
    BY <1>2, <2>3, <2>5 DEF BInv, BTyped
  <2>7. \A k \in DOMAIN bConvs' : Good(bConvs'[k]) /\ (~bConvs'[k].closed => k = bLive')
    BY <2>3, <2>4, <2>5 DEF BInv, ConvsInv
  <2> QED
    BY <1>2, <2>6, <2>7 DEF BInv, ConvsInv
<1>4. CASE ~(bLive # 0 /\ B!Answers(bConvs[bLive], same))
  <2> DEFINE old == IF bLive = 0 THEN bConvs ELSE [bConvs EXCEPT ![bLive] = B!Close(bConvs[bLive])]
             earlier == B!TurnStart(bHistory) > 1
             o == B!Opening(earlier)
             d == B!Listening(o)
  <2>1. bConvs' = Append(old, d) /\ bLive' = IF bStopped THEN 0 ELSE Len(bConvs) + 1
    BY <1>4 DEF B!Ask
  <2>2. Good(o) /\ ~o.closed /\ o.stream
    <3>1. earlier \in BOOLEAN
      OBVIOUS
    <3> QED
      BY <3>1, OpeningIsGood
  <2> HIDE DEF o
  <2>3. Good(d) /\ (bStopped => d.closed /\ ~d.stream)
    BY <1>1, <2>2, ListeningIsGood
  <2>4. old \in Seq(ConvSet) /\ Len(old) = Len(bConvs) /\ \A k \in 1 .. Len(bConvs) : Good(old[k]) /\ old[k].closed
    <3>1. CASE bLive = 0
      BY <1>1, <3>1 DEF BInv, ConvsInv
    <3>2. CASE bLive # 0
      <4>1. bLive \in DOMAIN bConvs
        BY <3>2, LiveIsAConversation
      <4>2. Good(B!Close(bConvs[bLive])) /\ B!Close(bConvs[bLive]).closed /\ B!Close(bConvs[bLive]) \in ConvSet
        BY <1>1, <4>1, CloseIsGood DEF Good
      <4> DEFINE e == B!Close(bConvs[bLive])
      <4> HIDE DEF e
      <4>3. /\ [bConvs EXCEPT ![bLive] = e] \in Seq(ConvSet) /\ Len([bConvs EXCEPT ![bLive] = e]) = Len(bConvs)
            /\ \A k \in 1 .. Len(bConvs) : [bConvs EXCEPT ![bLive] = e][k] = IF k = bLive THEN e ELSE bConvs[k]
        BY <1>1, <4>1, <4>2, ExceptSeq DEF e
      <4>4. old = [bConvs EXCEPT ![bLive] = e]
        BY <3>2 DEF e
      <4> HIDE DEF old
      <4> QED
        BY <1>1, <4>2, <4>3, <4>4 DEF BInv, ConvsInv, e
    <3> QED
      BY <3>1, <3>2
  <2> HIDE DEF old, d
  <2>5. /\ bConvs' \in Seq(ConvSet) /\ Len(bConvs') = Len(bConvs) + 1 /\ bConvs'[Len(bConvs) + 1] = d
        /\ \A k \in 1 .. Len(bConvs) : bConvs'[k] = old[k]
    BY <2>1, <2>3, <2>4, AppendProperties DEF Good
  <2>6. DOMAIN bConvs' = 1 .. Len(bConvs) + 1
    BY <2>5, LenProperties
  <2>7. BTyped'
    BY <1>2, <2>1, <2>5 DEF BInv, BTyped
  <2>8. \A k \in DOMAIN bConvs' : Good(bConvs'[k]) /\ (~bConvs'[k].closed => k = bLive')
    <3> SUFFICES ASSUME NEW k \in DOMAIN bConvs' PROVE Good(bConvs'[k]) /\ (~bConvs'[k].closed => k = bLive')
      OBVIOUS
    <3>1. CASE k = Len(bConvs) + 1
      BY <2>1, <2>3, <2>5, <3>1
    <3>2. CASE k \in 1 .. Len(bConvs)
      BY <2>4, <2>5, <3>2
    <3>3. k = Len(bConvs) + 1 \/ k \in 1 .. Len(bConvs)
      <4>1. k \in 1 .. Len(bConvs) + 1 /\ Len(bConvs) \in Nat
        BY <1>1, <2>6
      <4> QED
        BY <4>1
    <3> QED
      BY <3>1, <3>2, <3>3
  <2> QED
    BY <1>2, <2>7, <2>8 DEF BInv, ConvsInv
<1> QED
  BY <1>3, <1>4

LEMMA BInit == ASSUME B!Init PROVE BInv
<1>1. bHistory \in Seq(MessageSet) /\ bConvs \in Seq(ConvSet) /\ Len(bConvs) = 0 /\ DOMAIN bConvs = {}
  BY DEF B!Init
<1>2. 1 \in 1 .. MaxCall + 1
  BY HandBackAssumption
<1> QED
  BY <1>1, <1>2 DEF B!Init, BInv, BTyped, ConvsInv

LEMMA BStep == ASSUME BInv, [B!Next]_B!vars PROVE BInv'
<1>1. CASE UNCHANGED B!vars
  BY <1>1 DEF B!vars, BInv, BTyped, ConvsInv
<1>2. CASE B!Say \/ B!RunEnds \/ B!Stop
  BY <1>2, SayKeeps, RunEndsKeeps, RunStopKeeps
<1>3. ASSUME NEW same \in BOOLEAN, B!Ask(same) PROVE BInv'
  BY <1>3, StepAskKeeps
<1>4. ASSUME NEW id \in 1 .. MaxCall, B!Record(id) PROVE BInv'
  BY <1>4, ResultKeeps DEF CallIds
<1>5. ASSUME NEW n \in 2 .. MaxLength, B!Compact(n) PROVE BInv'
  <2>1. n \in Nat
    BY <1>5 DEF B!Compact
  <2> QED
    BY <1>5, <2>1, CompactKeeps
<1>6. ASSUME NEW k \in DOMAIN bConvs, B!Keep(k) \/ B!Opened(k) \/ B!OpenFails(k) \/ B!Written(k) PROVE BInv'
  BY <1>6, ReplyKeeps, OpenedKeeps, WrittenKeeps
<1>7. ASSUME NEW k \in DOMAIN bConvs, B!BlockStart(k) \/ B!BlockStop(k) \/ B!MessageStart(k) \/ B!MessageStop(k) \/ B!Message(k) PROVE BInv'
  BY <1>7, BlocksKeep, MessageKeeps
<1>8. ASSUME NEW k \in DOMAIN bConvs, NEW id \in 1 .. MaxCall, B!Call(k, id) PROVE BInv'
  BY <1>8, ProgramCallKeeps DEF CallIds
<1>9. ASSUME NEW k \in DOMAIN bConvs, NEW how \in {"done", "error"}, B!TurnEnds(k, how) \/ B!Consumed(k, how) PROVE BInv'
  BY <1>9, ProgramEndsKeep
<1> QED
  BY <1>1, <1>2, <1>3, <1>4, <1>5, <1>6, <1>7, <1>8, <1>9 DEF B!Next

LEMMA BInvIsSafe == ASSUME BInv PROVE B!Safety
<1>1. /\ DOMAIN bConvs = 1 .. Len(bConvs) /\ Len(bConvs) \in Nat
      /\ \A k \in DOMAIN bConvs : Good(bConvs[k]) /\ bConvs[k] \in ConvSet /\ Once(bConvs[k]) /\ Streams(bConvs[k])
  BY LenProperties DEF BInv, BTyped, ConvsInv, Good
<1>2. B!TypeOK
  <2>1. \A k \in DOMAIN bConvs : /\ bConvs[k].phase \in {"opening", "running", "killed", "ended"}
                                 /\ bConvs[k].ended \in {"none", "done", "toolUse", "error", "aborted"}
    BY <1>1 DEF ConvSet
  <2>2. bLive \in 0 .. Len(bConvs)
    BY LiveIsAConversation
  <2> QED
    BY <2>1, <2>2 DEF BInv, BTyped, B!TypeOK
<1>3. \A k \in DOMAIN bConvs : /\ DOMAIN bConvs[k].answers = CallIds /\ bConvs[k].waiting \subseteq CallIds /\ bConvs[k].asked \subseteq CallIds
                               /\ bConvs[k].said \subseteq CallIds
                               /\ \A id \in CallIds : id \in B!Answered(bConvs[k]) <=> bConvs[k].answers[id] = 1
                               /\ B!Answered(bConvs[k]) \subseteq CallIds
  <2> SUFFICES ASSUME NEW k \in DOMAIN bConvs
               PROVE  /\ DOMAIN bConvs[k].answers = CallIds /\ bConvs[k].waiting \subseteq CallIds /\ bConvs[k].asked \subseteq CallIds
                      /\ bConvs[k].said \subseteq CallIds
                      /\ \A id \in CallIds : id \in B!Answered(bConvs[k]) <=> bConvs[k].answers[id] = 1
                      /\ B!Answered(bConvs[k]) \subseteq CallIds
    OBVIOUS
  <2> DEFINE c == bConvs[k]
  <2>1. c \in ConvSet /\ Once(c)
    BY <1>1
  <2> HIDE DEF c
  <2>2. c.answers \in [CallIds -> Nat] /\ c.waiting \subseteq CallIds /\ c.asked \subseteq CallIds /\ c.said \subseteq CallIds
    BY <2>1 DEF ConvSet
  <2>3. \A id \in CallIds : c.answers[id] <= 1 /\ c.answers[id] \in Nat
    BY <2>1, <2>2 DEF Once
  <2> QED
    BY <2>2, <2>3 DEF B!Answered, c
<1>4. B!CallsAreAnsweredOnce
  <2> SUFFICES ASSUME NEW k \in DOMAIN bConvs
               PROVE  LET c == bConvs[k] IN
                      /\ \A id \in DOMAIN c.answers : c.answers[id] <= 1
                      /\ B!Answered(c) \cup c.waiting = c.asked /\ B!Answered(c) \cap c.waiting = {}
                      /\ c.closed => c.waiting = {}
    BY DEF B!CallsAreAnsweredOnce
  <2> DEFINE c == bConvs[k]
  <2>1. /\ DOMAIN c.answers = CallIds /\ c.waiting \subseteq CallIds /\ c.asked \subseteq CallIds
        /\ B!Answered(c) \subseteq CallIds /\ \A id \in CallIds : id \in B!Answered(c) <=> c.answers[id] = 1
    BY <1>3
  <2>2. Once(c)
    BY <1>1
  <2> HIDE DEF c
  <2>3. B!Answered(c) \cup c.waiting = c.asked /\ B!Answered(c) \cap c.waiting = {}
    BY <2>1, <2>2 DEF Once
  <2> QED
    BY <2>1, <2>2, <2>3 DEF Once, c
<1>5. B!OneQueryIsOpen
  BY <1>1 DEF BInv, ConvsInv, Streams, B!OneQueryIsOpen
<1>6. B!StepsAreHeard
  <2> SUFFICES ASSUME NEW k \in DOMAIN bConvs, bConvs[k].stream
               PROVE  bConvs[k].said \subseteq B!Answered(bConvs[k]) \cup bConvs[k].early \cup bConvs[k].delivering
    BY DEF B!StepsAreHeard
  <2>1. \A id \in bConvs[k].said : bConvs[k].answers[id] = 1 \/ id \in bConvs[k].early \/ id \in bConvs[k].delivering
    BY <1>1 DEF Streams
  <2> QED
    BY <1>3, <2>1
<1> QED
  BY <1>2, <1>4, <1>5, <1>6 DEF B!Safety

\* A step of the providers is the queries' or leaves them alone.
LEMMA QueriesMove == [Next]_vars => [B!Next]_B!vars
BY DEF Next, vars, BVars, B!vars

\* Whatever is compacted, said, stopped or crashed while Claude Code runs across a
\* run's steps, each of its calls is answered once, one query is open, which the
\* session keeps, and a step awaits only a query whose calls it has the results
\* of.  (claude-code.ts and handback-rule.ts.)
THEOREM QueriesAreAnswered == Spec => []HandBackIsSafe
<1>1. Init => BInv
  BY BInit DEF Init
<1>2. BInv /\ [Next]_vars => BInv'
  BY BStep, QueriesMove
<1>3. BInv => HandBackIsSafe
  BY BInvIsSafe DEF HandBackIsSafe
<1> QED
  BY <1>1, <1>2, <1>3, PTL DEF Spec

-----------------------------------------------------------------------------
(* A server's connections.                                                 *)

\* The versions of the server's list.
MOffers == 1 .. MaxOffer
Ends == {"open", "closing", "closed"}

MTyped ==
  /\ mState \in {"connecting", "connected", "disconnected", "failed", "needs sign-in"}
  /\ mMaking \in {"none", "closing", "dialing", "listing", "failing"}
  /\ mOp \in {"none", "waits", "reconnect", "connects", "signIn", "signOut", "tokens", "shut", "gone"}
  /\ mConns \in Seq(Ends) /\ mLists \in Seq(Seq(MOffers)) /\ Len(mLists) = Len(mConns)
  /\ mClient \in 0 .. Len(mConns) /\ mOpening \in 0 .. Len(mConns) /\ mKnown \subseteq 1 .. Len(mConns)
  /\ mTools \in MOffers \cup {0} /\ mOffers \in MOffers /\ mClosing \in BOOLEAN

\* One connection is made at a time, the last one, once the one there was is gone.
AttemptInv ==
  /\ mOpening # 0 <=> mMaking \in {"dialing", "listing", "failing"}
  /\ mOpening # 0 => mClient = 0

\* What is not closed belongs to the server or to the attempt.
OpenInv ==
  /\ \A k \in M!Clients : mConns[k] = "open" => k \in {mClient, mOpening}
  /\ \A k \in M!Clients : mConns[k] = "closing" => k = mClient /\ mMaking = "closing"
  /\ mOp \in {"shut", "gone"} => mClosing
  /\ mOp = "gone" => mClient = 0

\* The last list on its way is the server's own; with none on its way the
\* connected client has it.
ListsInv ==
  /\ \A k \in M!Clients : k \in mKnown /\ mConns[k] = "open" /\ mLists[k] # <<>> => mLists[k][Len(mLists[k])] = mOffers
  /\ mOpening # 0 /\ mMaking # "listing" => mLists[mOpening] = <<>> /\ mOpening \notin mKnown
  /\ mMaking = "listing" /\ mConns[mOpening] = "open" => mOpening \in mKnown /\ mLists[mOpening] # <<>>
  /\ mClient # 0 /\ mState = "connected" /\ mConns[mClient] = "open" /\ mClient \in mKnown /\ mLists[mClient] = <<>> => mTools = mOffers

MInv == MTyped /\ AttemptInv /\ OpenInv /\ ListsInv

\* Taking the oldest list of a queue leaves the rest in order.
LEMMA OldestTaken ==
  ASSUME NEW S, NEW s \in Seq(S), s # <<>>
  PROVE  LET t == SubSeq(s, 1, 1 - 1) \o SubSeq(s, 1 + 1, Len(s)) IN
         /\ t \in Seq(S) /\ Len(t) = Len(s) - 1 /\ s[1] \in S
         /\ (t = <<>> => s[1] = s[Len(s)]) /\ (t # <<>> => t[Len(t)] = s[Len(s)])
<1>1. SubSeq(s, 1, 1 - 1) = <<>> /\ SubSeq(s, 1 + 1, Len(s)) = Tail(s)
  BY SubSeqEmpty, TailIsSubSeq
<1>2. Tail(s) \in Seq(S) /\ Len(Tail(s)) = Len(s) - 1 /\ (\A i \in 1 .. Len(Tail(s)) : Tail(s)[i] = s[i + 1])
  BY HeadTailProperties
<1>3. Len(s) \in Nat \ {0} /\ s[1] \in S
  BY EmptySeq, ElementOfSeq
<1>4. <<>> \o Tail(s) = Tail(s)
  BY <1>2, ConcatEmptySeq
<1>5. Tail(s) = <<>> => Len(s) = 1
  BY <1>2, <1>3, EmptySeq
<1>6. Tail(s) # <<>> => Len(Tail(s)) \in Nat \ {0}
  BY <1>2, EmptySeq
<1>7. Tail(s) # <<>> => Tail(s)[Len(Tail(s))] = s[Len(s)]
  BY <1>2, <1>3, <1>6
<1> QED
  BY <1>1, <1>2, <1>3, <1>4, <1>5, <1>7

LEMMA EndsAre == "open" \in Ends /\ "closing" \in Ends /\ "closed" \in Ends
BY DEF Ends

\* The clients are numbered as they were dialed.
LEMMA Numbered == ASSUME MTyped PROVE M!Clients = 1 .. Len(mConns) /\ DOMAIN mLists = M!Clients /\ Len(mConns) \in Nat
BY LenProperties DEF MTyped, M!Clients

LEMMA NoneNumbered == ASSUME MTyped PROVE 0 \notin M!Clients
BY Numbered
LEMMA WithinConns ==
  ASSUME MTyped
  PROVE  /\ mClient \in 0 .. Len(mConns) /\ mOpening \in 0 .. Len(mConns) /\ mKnown \subseteq 1 .. Len(mConns) /\ Len(mConns) \in Nat
         /\ mConns \in Seq(Ends)
BY LenProperties DEF MTyped

\* One of them changes, and no other.
LEMMA OneChanges ==
  ASSUME MTyped, NEW k \in M!Clients, NEW what \in Ends, mConns' = [mConns EXCEPT ![k] = what]
  PROVE  /\ mConns' \in Seq(Ends) /\ Len(mConns') = Len(mConns) /\ M!Clients' = M!Clients
         /\ \A j \in M!Clients : mConns'[j] = IF j = k THEN what ELSE mConns[j]
<1>1. mConns \in Seq(Ends) /\ k \in 1 .. Len(mConns)
  BY Numbered DEF MTyped
<1>2. /\ [mConns EXCEPT ![k] = what] \in Seq(Ends) /\ Len([mConns EXCEPT ![k] = what]) = Len(mConns)
      /\ \A j \in 1 .. Len(mConns) : [mConns EXCEPT ![k] = what][j] = IF j = k THEN what ELSE mConns[j]
  BY <1>1, ExceptSeq
<1>3. M!Clients' = 1 .. Len(mConns')
  BY <1>2, LenProperties DEF M!Clients
<1> QED
  BY <1>2, <1>3, Numbered

\* Closing one, or none.
LEMMA OneCloses ==
  ASSUME MTyped, NEW k \in 0 .. Len(mConns), mConns' = M!Closed(k, mConns)
  PROVE  /\ mConns' \in Seq(Ends) /\ Len(mConns') = Len(mConns) /\ M!Clients' = M!Clients
         /\ \A j \in M!Clients : mConns'[j] = IF j = k THEN "closed" ELSE mConns[j]
<1>1. CASE k = 0
  <2>1. mConns' = mConns /\ k \notin 1 .. Len(mConns)
    BY <1>1 DEF M!Closed
  <2>2. M!Clients' = M!Clients
    BY <2>1 DEF M!Clients
  <2> QED
    BY <2>1, <2>2, Numbered DEF MTyped
<1>2. CASE k # 0
  <2>1. k \in M!Clients /\ "closed" \in Ends /\ mConns' = [mConns EXCEPT ![k] = "closed"]
    BY <1>2, Numbered DEF M!Closed, Ends
  <2> QED
    BY <2>1, OneChanges
<1> QED
  BY <1>1, <1>2

\* The oldest list that is on its way to a client arrives.
LEMMA ListArrives ==
  ASSUME MTyped, NEW k \in M!Clients, mLists[k] # <<>>,
         mLists' = [mLists EXCEPT ![k] = SubSeq(@, 1, 1 - 1) \o SubSeq(@, 1 + 1, Len(@))]
  PROVE  /\ mLists' \in Seq(Seq(MOffers)) /\ Len(mLists') = Len(mLists) /\ mLists[k][1] \in MOffers
         /\ \A j \in M!Clients : j # k => mLists'[j] = mLists[j]
         /\ mLists'[k] = <<>> => mLists[k][1] = mLists[k][Len(mLists[k])]
         /\ mLists'[k] # <<>> => mLists'[k][Len(mLists'[k])] = mLists[k][Len(mLists[k])]
<1> DEFINE t == SubSeq(mLists[k], 1, 1 - 1) \o SubSeq(mLists[k], 1 + 1, Len(mLists[k]))
<1>1. mLists \in Seq(Seq(MOffers)) /\ k \in 1 .. Len(mLists)
  BY Numbered DEF MTyped
<1>2. mLists[k] \in Seq(MOffers)
  BY <1>1, ElementOfSeq
<1>3. t \in Seq(MOffers) /\ mLists[k][1] \in MOffers
  BY <1>2, OldestTaken
<1>4. (t = <<>> => mLists[k][1] = mLists[k][Len(mLists[k])]) /\ (t # <<>> => t[Len(t)] = mLists[k][Len(mLists[k])])
  BY <1>2, OldestTaken
<1>5. mLists' = [mLists EXCEPT ![k] = t]
  OBVIOUS
<1> HIDE DEF t
<1>9. /\ [mLists EXCEPT ![k] = t] \in Seq(Seq(MOffers)) /\ Len([mLists EXCEPT ![k] = t]) = Len(mLists)
      /\ \A j \in 1 .. Len(mLists) : [mLists EXCEPT ![k] = t][j] = IF j = k THEN t ELSE mLists[j]
  BY <1>1, <1>3, ExceptSeq
<1>6. mLists' \in Seq(Seq(MOffers)) /\ Len(mLists') = Len(mLists) /\ \A j \in 1 .. Len(mLists) : mLists'[j] = IF j = k THEN t ELSE mLists[j]
  BY <1>5, <1>9
<1>7. M!Clients = 1 .. Len(mLists)
  BY Numbered DEF MTyped
<1>8. mLists'[k] = t /\ \A j \in M!Clients : j # k => mLists'[j] = mLists[j]
  BY <1>6, <1>7
<1> QED
  BY <1>3, <1>4, <1>6, <1>8

LEMMA MInit == M!Init => MInv
<1> SUFFICES ASSUME M!Init PROVE MInv
  OBVIOUS
<1>1. mConns = <<"open">> /\ mLists = <<<<>>>> /\ Len(mConns) = 1 /\ Len(mLists) = 1 /\ mConns[1] = "open" /\ mLists[1] = <<>>
  BY DEF M!Init
<1>8. <<"open">> \in Seq(Ends) /\ <<>> \in Seq(MOffers)
  BY DEF Ends
<1>9. \A W : \A w \in W : <<w>> \in Seq(W)
  OBVIOUS
<1>10. <<<<>>>> \in Seq(Seq(MOffers))
  BY <1>8, <1>9, Zenon
<1>2. mConns \in Seq(Ends) /\ mLists \in Seq(Seq(MOffers))
  BY <1>1, <1>8, <1>10
<1>6. mOffers \in MOffers /\ mTools \in MOffers \cup {0}
  BY ServerAssumption DEF M!Init, MOffers
<1>7. mClient = 0 /\ mOpening = 1 /\ mMaking = "dialing" /\ mKnown = {} /\ mClosing = FALSE
  BY DEF M!Init
<1>13. Len(mConns) = 1
  BY <1>1
<1>11. mClient \in 0 .. Len(mConns) /\ mOpening \in 0 .. Len(mConns) /\ mKnown \subseteq 1 .. Len(mConns)
  BY <1>7, <1>13
<1>14. mClosing \in BOOLEAN
  BY <1>7
<1>12. mState = "connecting" /\ mMaking = "dialing" /\ mOp = "none"
  BY DEF M!Init
<1>3. MTyped
  BY <1>1, <1>2, <1>6, <1>11, <1>12, <1>14 DEF MTyped
<1>4. AttemptInv /\ OpenInv
  BY <1>1, <1>7 DEF M!Init, AttemptInv, OpenInv, M!Clients
<1>5. ListsInv
  BY <1>1, <1>7 DEF ListsInv, M!Clients
<1> QED
  BY <1>3, <1>4, <1>5 DEF MInv
\* A call, the operator or both wait for a connection, or no longer do.
LEMMA ConnectingKeeps ==
  ASSUME MInv, M!Connects \/ UNCHANGED <<mMaking, mConns>>,
         UNCHANGED <<mState, mClient, mOpening, mKnown, mTools, mLists, mClosing, mOffers>>,
         mOp' \in {"none", "waits", "reconnect", "connects", "signIn", "signOut", "tokens"} \/ mOp' = mOp
  PROVE  MInv'
<1> USE DEF MInv
<1>1. CASE mMaking = "none" /\ M!Connects /\ mClient # 0
  <2>1. mMaking' = "closing" /\ mConns' = [mConns EXCEPT ![mClient] = "closing"] /\ mClient \in M!Clients /\ "closing" \in Ends
    BY <1>1, Numbered, WithinConns, EndsAre DEF M!Connects
  <2>2. /\ mConns' \in Seq(Ends) /\ Len(mConns') = Len(mConns) /\ M!Clients' = M!Clients
        /\ \A j \in M!Clients : mConns'[j] = IF j = mClient THEN "closing" ELSE mConns[j]
    BY <2>1, OneChanges
  <2>3. MTyped'
    BY <2>1, <2>2 DEF MTyped
  <2>4. AttemptInv'
    BY <1>1, <2>1 DEF AttemptInv
  <2>5. OpenInv'
    BY <1>1, <2>1, <2>2 DEF OpenInv
  <2>6. ListsInv'
    BY <1>1, <2>1, <2>2 DEF ListsInv, AttemptInv
  <2> QED
    BY <2>3, <2>4, <2>5, <2>6
<1>2. CASE mMaking = "none" /\ M!Connects /\ mClient = 0
  <2>1. mMaking' = "closing" /\ mConns' = mConns /\ M!Clients' = M!Clients
    BY <1>2 DEF M!Connects, M!Clients
  <2>3. MTyped'
    BY <2>1 DEF MTyped
  <2>4. AttemptInv'
    BY <1>2, <2>1 DEF AttemptInv
  <2>5. OpenInv'
    BY <1>2, <2>1 DEF OpenInv
  <2>6. ListsInv'
    BY <1>2, <2>1 DEF ListsInv, AttemptInv
  <2> QED
    BY <2>3, <2>4, <2>5, <2>6
<1>3. CASE UNCHANGED <<mMaking, mConns>>
  <2>1. M!Clients' = M!Clients
    BY <1>3 DEF M!Clients
  <2>3. MTyped'
    BY <1>3 DEF MTyped
  <2>4. AttemptInv' /\ OpenInv'
    BY <1>3, <2>1 DEF AttemptInv, OpenInv
  <2>6. ListsInv'
    BY <1>3, <2>1 DEF ListsInv
  <2> QED
    BY <2>3, <2>4, <2>6
<1> QED
  BY <1>1, <1>2, <1>3 DEF M!Connects

\* Whoever waited for an attempt goes on; a shell that shuts does not.
LEMMA WakingKeeps ==
  ASSUME MTyped, M!Wake
  PROVE  /\ mOp' \in {"none", "waits", "reconnect", "connects", "signIn", "signOut", "tokens", "shut", "gone"}
         /\ mOp' \in {"shut", "gone"} => mOp' = mOp
BY DEF M!Wake, M!After, MTyped

LEMMA DialKeeps == ASSUME MInv, M!Dial PROVE MInv'
<1> USE DEF MInv
<1>1. /\ mMaking = "closing" /\ mOpening = 0 /\ mClient' = 0 /\ mOpening' = Len(mConns) + 1 /\ mState' = "connecting"
      /\ mMaking' = IF mClosing THEN "failing" ELSE "dialing"
      /\ UNCHANGED <<mKnown, mTools, mOp, mClosing, mOffers>>
  BY DEF M!Dial, AttemptInv, M!others, M!external
<1> DEFINE cs == M!Closed(mClient, mConns)
<1>2. cs \in Seq(Ends) /\ Len(cs) = Len(mConns) /\ \A j \in M!Clients : cs[j] = IF j = mClient THEN "closed" ELSE mConns[j]
  <2>1. CASE mClient = 0
    <3>1. cs = mConns /\ mConns \in Seq(Ends) /\ mClient \notin 1 .. Len(mConns)
      BY <2>1, WithinConns DEF M!Closed
    <3> HIDE DEF cs
    <3> QED
      BY <3>1, Numbered
  <2>2. CASE mClient # 0
    <3>1. mClient \in 1 .. Len(mConns) /\ "closed" \in Ends /\ mConns \in Seq(Ends)
      BY <2>2, EndsAre, WithinConns
    <3>2. cs = [mConns EXCEPT ![mClient] = "closed"]
      BY <2>2 DEF M!Closed
    <3> HIDE DEF cs
    <3>3. /\ [mConns EXCEPT ![mClient] = "closed"] \in Seq(Ends) /\ Len([mConns EXCEPT ![mClient] = "closed"]) = Len(mConns)
          /\ \A j \in 1 .. Len(mConns) : [mConns EXCEPT ![mClient] = "closed"][j] = IF j = mClient THEN "closed" ELSE mConns[j]
      BY <3>1, ExceptSeq
    <3> QED
      BY <3>2, <3>3, Numbered
  <2> QED
    BY <2>1, <2>2
<1>3. /\ mConns' \in Seq(Ends) /\ Len(mConns') = Len(mConns) + 1 /\ mConns'[Len(mConns) + 1] = "open"
      /\ \A j \in M!Clients : mConns'[j] = cs[j]
  <2>1. mConns' = Append(cs, "open") /\ "open" \in Ends
    BY EndsAre DEF M!Dial
  <2> HIDE DEF cs
  <2> QED
    BY <1>2, <2>1, AppendProperties, Numbered
<1> HIDE DEF cs
<1>4. /\ mLists' \in Seq(Seq(MOffers)) /\ Len(mLists') = Len(mLists) + 1 /\ mLists'[Len(mConns) + 1] = <<>>
      /\ \A j \in M!Clients : mLists'[j] = mLists[j]
  <2>1. mLists' = Append(mLists, <<>>) /\ <<>> \in Seq(MOffers) /\ mLists \in Seq(Seq(MOffers)) /\ Len(mLists) = Len(mConns)
    BY EmptySeq DEF M!Dial, MTyped
  <2> QED
    BY <2>1, AppendProperties, Numbered
<1>5. M!Clients' = M!Clients \cup {Len(mConns) + 1} /\ Len(mConns) + 1 \notin M!Clients /\ Len(mConns) \in Nat
  <2>1. M!Clients' = 1 .. Len(mConns) + 1
    BY <1>3, LenProperties DEF M!Clients
  <2> QED
    BY <2>1, Numbered
<1>6. MTyped'
  <2>1. mClient' \in 0 .. Len(mConns') /\ mOpening' \in 0 .. Len(mConns') /\ mKnown' \subseteq 1 .. Len(mConns')
    BY <1>1, <1>3, <1>5, WithinConns
  <2>2. Len(mLists') = Len(mConns')
    BY <1>3, <1>4 DEF MTyped
  <2>3. mOp' = mOp /\ mClosing' = mClosing /\ mTools' = mTools /\ mOffers' = mOffers /\ mState' = "connecting" /\ mMaking' \in {"failing", "dialing"}
    BY <1>1
  <2> QED
    BY <1>3, <1>4, <2>1, <2>2, <2>3 DEF MTyped
<1>7. AttemptInv'
  BY <1>1, <1>5 DEF AttemptInv
<1>8. OpenInv'
  BY <1>1, <1>2, <1>3, <1>5 DEF OpenInv
<1>9. ListsInv'
  <2>1. Len(mConns) + 1 \notin mKnown
    BY <1>5, Numbered DEF MTyped
  <2>2. \A k \in M!Clients : mConns'[k] = "open" => mConns[k] = "open"
    BY <1>2, <1>3
  <2> QED
    BY <1>1, <1>3, <1>4, <1>5, <2>1, <2>2 DEF ListsInv
<1> QED
  BY <1>6, <1>7, <1>8, <1>9

LEMMA ConnectedKeeps == ASSUME MInv, M!Connected PROVE MInv'
<1> USE DEF MInv
<1>1. /\ mMaking = "dialing" /\ mMaking' = "listing" /\ mKnown' = mKnown \cup {mOpening} /\ mOpening # 0 /\ mClient = 0
      /\ mLists' = [mLists EXCEPT ![mOpening] = Append(@, mOffers)] /\ mLists[mOpening] = <<>>
      /\ UNCHANGED <<mState, mClient, mOpening, mConns, mTools, mOp, mClosing, mOffers>>
  BY DEF M!Connected, M!others, M!external, AttemptInv, ListsInv
<1>2. mOpening \in M!Clients /\ M!Clients' = M!Clients /\ mOpening \in 1 .. Len(mLists)
  <2>1. M!Clients' = M!Clients
    BY <1>1 DEF M!Clients
  <2>2. mOpening \in 1 .. Len(mConns)
    BY <1>1, WithinConns
  <2> QED
    BY <2>1, <2>2, Numbered DEF MTyped
<1> DEFINE l == Append(<<>>, mOffers)
<1>3. l \in Seq(MOffers) /\ l # <<>> /\ l[Len(l)] = mOffers
  <2>1. <<>> \in Seq(MOffers) /\ mOffers \in MOffers /\ Len(<<>>) = 0
    BY EmptySeq DEF MTyped
  <2>2. l \in Seq(MOffers) /\ l # <<>> /\ Len(l) = 1 /\ l[1] = mOffers
    BY <2>1, AppendProperties
  <2> QED
    BY <2>2
<1>4. mLists' = [mLists EXCEPT ![mOpening] = l] /\ mLists \in Seq(Seq(MOffers))
  BY <1>1, <1>2, Numbered DEF MTyped
<1> HIDE DEF l
<1>5. /\ mLists' \in Seq(Seq(MOffers)) /\ Len(mLists') = Len(mLists)
      /\ \A j \in 1 .. Len(mLists) : mLists'[j] = IF j = mOpening THEN l ELSE mLists[j]
  <2>1. /\ [mLists EXCEPT ![mOpening] = l] \in Seq(Seq(MOffers)) /\ Len([mLists EXCEPT ![mOpening] = l]) = Len(mLists)
        /\ \A j \in 1 .. Len(mLists) : [mLists EXCEPT ![mOpening] = l][j] = IF j = mOpening THEN l ELSE mLists[j]
    BY <1>2, <1>3, <1>4, ExceptSeq
  <2> QED
    BY <1>4, <2>1
<1>6. \A j \in M!Clients : mLists'[j] = IF j = mOpening THEN l ELSE mLists[j]
  BY <1>5, Numbered DEF MTyped
<1>7. MTyped'
  BY <1>1, <1>2, <1>5, Numbered DEF MTyped
<1>8. AttemptInv' /\ OpenInv'
  BY <1>1, <1>2 DEF AttemptInv, OpenInv
<1>9. ListsInv'
  BY <1>1, <1>2, <1>3, <1>6 DEF ListsInv
<1> QED
  BY <1>7, <1>8, <1>9

\* An attempt that ends without a connection leaves none.
LEMMA FailsKeeps == ASSUME MInv, NEW why \in {"failed", "needs sign-in"}, M!Fails(why) PROVE MInv'
<1> USE DEF MInv
<1>1. /\ mOpening # 0 /\ mClient = 0 /\ mConns' = M!Closed(mOpening, mConns) /\ mState' = why /\ mOpening' = 0 /\ mMaking' = "none" /\ M!Wake
      /\ UNCHANGED <<mClient, mKnown, mLists, mTools, mClosing, mOffers>>
  BY DEF M!Fails, AttemptInv, M!kept, M!external
<1>2. /\ mConns' \in Seq(Ends) /\ Len(mConns') = Len(mConns) /\ M!Clients' = M!Clients
      /\ \A j \in M!Clients : mConns'[j] = IF j = mOpening THEN "closed" ELSE mConns[j]
  BY <1>1, WithinConns, OneCloses
<1>3. MTyped'
  <2>1. mClient' \in 0 .. Len(mConns') /\ mOpening' \in 0 .. Len(mConns') /\ mKnown' \subseteq 1 .. Len(mConns')
    BY <1>1, <1>2, WithinConns
  <2> QED
    BY <1>1, <1>2, <2>1, WakingKeeps DEF MTyped
<1>4. AttemptInv'
  BY <1>1 DEF AttemptInv
<1>5. OpenInv'
  <2>3. 0 \notin M!Clients
    BY NoneNumbered
  <2>1. \A k \in M!Clients : mConns'[k] \notin {"open", "closing"}
    BY <1>1, <1>2, <2>3 DEF OpenInv, M!Fails
  <2>2. mOp' \in {"shut", "gone"} => mClosing'
    BY <1>1, WakingKeeps DEF OpenInv
  <2> QED
    BY <1>1, <1>2, <2>1, <2>2 DEF OpenInv
<1>6. ListsInv'
  BY <1>1, <1>2 DEF ListsInv
<1> QED
  BY <1>3, <1>4, <1>5, <1>6

LEMMA RefusedKeeps == ASSUME MInv, M!Refused PROVE MInv'
<1> USE DEF MInv
<1>1. /\ mMaking = "closing" /\ mOpening = 0 /\ mConns' = M!Closed(mClient, mConns) /\ mClient' = 0 /\ mState' = "failed" /\ mMaking' = "none" /\ M!Wake
      /\ UNCHANGED <<mOpening, mKnown, mLists, mTools, mClosing, mOffers>>
  BY DEF M!Refused, AttemptInv, M!kept, M!external
<1>2. /\ mConns' \in Seq(Ends) /\ Len(mConns') = Len(mConns) /\ M!Clients' = M!Clients
      /\ \A j \in M!Clients : mConns'[j] = IF j = mClient THEN "closed" ELSE mConns[j]
  BY <1>1, WithinConns, OneCloses
<1>3. MTyped'
  <2>1. mClient' \in 0 .. Len(mConns') /\ mOpening' \in 0 .. Len(mConns') /\ mKnown' \subseteq 1 .. Len(mConns')
    BY <1>1, <1>2, WithinConns
  <2> QED
    BY <1>1, <1>2, <2>1, WakingKeeps DEF MTyped
<1>4. AttemptInv'
  BY <1>1 DEF AttemptInv
<1>5. OpenInv'
  <2>3. \A k \in M!Clients : k # 0
    BY Numbered
  <2>1. \A k \in M!Clients : mConns'[k] \notin {"open", "closing"}
    BY <1>1, <1>2, <2>3 DEF OpenInv
  <2>2. mOp' \in {"shut", "gone"} => mClosing'
    BY <1>1, WakingKeeps DEF OpenInv
  <2> QED
    BY <1>1, <1>2, <2>1, <2>2 DEF OpenInv
<1>6. ListsInv'
  BY <1>1, <1>2 DEF ListsInv
<1> QED
  BY <1>3, <1>4, <1>5, <1>6

\* The connection made is the server's with the list it came with, or closed
\* with the shell.
LEMMA ListedKeeps == ASSUME MInv, M!Listed PROVE MInv'
<1> USE DEF MInv
<1>1. /\ mMaking = "listing" /\ mConns[mOpening] = "open" /\ mLists[mOpening] # <<>> /\ mOpening # 0 /\ mClient = 0
      /\ mMaking' = "none" /\ mOpening' = 0 /\ M!Wake /\ UNCHANGED <<mKnown, mClosing, mOffers>> /\ mOpening \in mKnown
  BY DEF M!Listed, M!external, AttemptInv, ListsInv
<1>2. /\ mTools' = mLists[mOpening][1]
      /\ mLists' = [mLists EXCEPT ![mOpening] = SubSeq(@, 1, 1 - 1) \o SubSeq(@, 1 + 1, Len(@))]
  BY ServerAssumption DEF M!Listed
<1>3. mOpening \in M!Clients /\ mOpening \in 1 .. Len(mConns)
  BY <1>1, WithinConns, Numbered
<1>4. /\ mLists' \in Seq(Seq(MOffers)) /\ Len(mLists') = Len(mLists) /\ mTools' \in MOffers
      /\ \A j \in M!Clients : j # mOpening => mLists'[j] = mLists[j]
      /\ mLists'[mOpening] = <<>> => mTools' = mOffers
      /\ mLists'[mOpening] # <<>> => mLists'[mOpening][Len(mLists'[mOpening])] = mOffers
  <2>1. mLists[mOpening][Len(mLists[mOpening])] = mOffers
    BY <1>1, <1>3 DEF ListsInv
  <2> QED
    BY <1>1, <1>2, <1>3, <2>1, ListArrives
<1>5. CASE mClosing
  <2>1. mConns' = M!Closed(mOpening, mConns) /\ UNCHANGED <<mState, mClient>>
    BY <1>1, <1>5 DEF M!Listed, M!Closed
  <2>2. /\ mConns' \in Seq(Ends) /\ Len(mConns') = Len(mConns) /\ M!Clients' = M!Clients
        /\ \A j \in M!Clients : mConns'[j] = IF j = mOpening THEN "closed" ELSE mConns[j]
    BY <2>1, WithinConns, OneCloses
  <2>3. MTyped'
    <3>1. mClient' \in 0 .. Len(mConns') /\ mOpening' \in 0 .. Len(mConns') /\ mKnown' \subseteq 1 .. Len(mConns')
      BY <1>1, <2>1, <2>2, WithinConns
    <3> QED
      BY <1>1, <1>4, <2>1, <2>2, <3>1, WakingKeeps DEF MTyped
  <2>4. AttemptInv'
    BY <1>1 DEF AttemptInv
  <2>5. OpenInv'
    BY <1>1, <2>1, <2>2, WakingKeeps DEF OpenInv
  <2>6. ListsInv'
    BY <1>1, <1>4, <2>1, <2>2 DEF ListsInv
  <2> QED
    BY <2>3, <2>4, <2>5, <2>6
<1>6. CASE ~mClosing
  <2>1. mClient' = mOpening /\ mState' = "connected" /\ UNCHANGED mConns /\ M!Clients' = M!Clients
    BY <1>1, <1>6 DEF M!Listed, M!Clients
  <2>3. MTyped'
    <3>1. mClient' \in 0 .. Len(mConns') /\ mOpening' \in 0 .. Len(mConns') /\ mKnown' \subseteq 1 .. Len(mConns')
      BY <1>1, <2>1, WithinConns
    <3> QED
      BY <1>1, <1>4, <2>1, <3>1, WakingKeeps DEF MTyped
  <2>4. AttemptInv'
    BY <1>1 DEF AttemptInv
  <2>5. OpenInv'
    BY <1>1, <1>6, <2>1, WakingKeeps DEF OpenInv
  <2>6. ListsInv'
    BY <1>1, <1>3, <1>4, <2>1 DEF ListsInv
  <2> QED
    BY <2>3, <2>4, <2>5, <2>6
<1> QED
  BY <1>5, <1>6 DEF MTyped

\* A change is announced to every client there is.
LEMMA ChangesKeeps == ASSUME MInv, M!Changes PROVE MInv'
<1> USE DEF MInv
<1>1. /\ mOffers' = mOffers + 1 /\ UNCHANGED <<mState, mClient, mOpening, mMaking, mConns, mKnown, mTools, mOp, mClosing>>
      /\ mLists' = [k \in DOMAIN mLists |-> IF mConns[k] = "open" /\ k \in mKnown THEN Append(mLists[k], mOffers') ELSE mLists[k]]
      /\ M!Clients' = M!Clients
  BY DEF M!Changes, M!Clients
<1>2. mOffers' \in MOffers
  <2>1. mOffers \in 1 .. MaxOffer /\ MaxOffer \in Nat /\ mOffers < MaxOffer
    BY ServerAssumption DEF M!Changes, MTyped, MOffers
  <2> QED
    BY <1>1, <2>1 DEF MOffers
<1>3. ASSUME NEW k \in M!Clients
      PROVE  /\ mLists'[k] \in Seq(MOffers)
             /\ mLists'[k] = IF mConns[k] = "open" /\ k \in mKnown THEN Append(mLists[k], mOffers') ELSE mLists[k]
             /\ mConns[k] = "open" /\ k \in mKnown => mLists'[k] # <<>> /\ mLists'[k][Len(mLists'[k])] = mOffers'
  <2>1. mLists[k] \in Seq(MOffers)
    BY Numbered, ElementOfSeq DEF MTyped
  <2>2. mLists'[k] = IF mConns[k] = "open" /\ k \in mKnown THEN Append(mLists[k], mOffers') ELSE mLists[k]
    BY <1>1, Numbered
  <2>3. /\ Append(mLists[k], mOffers') \in Seq(MOffers) /\ Append(mLists[k], mOffers') # <<>>
        /\ Append(mLists[k], mOffers')[Len(Append(mLists[k], mOffers'))] = mOffers'
    BY <1>2, <2>1, AppendProperties
  <2> QED
    BY <2>1, <2>2, <2>3
<1>4. mLists' \in Seq(Seq(MOffers)) /\ Len(mLists') = Len(mLists)
  <2>1. DOMAIN mLists = 1 .. Len(mConns) /\ Len(mLists) = Len(mConns) /\ Len(mConns) \in Nat
    BY Numbered DEF MTyped
  <2>2. DOMAIN mLists' = 1 .. Len(mConns) /\ \A k \in 1 .. Len(mConns) : mLists'[k] \in Seq(MOffers)
    BY <1>1, <1>3, <2>1, Numbered
  <2>3. mLists' \in [1 .. Len(mConns) -> Seq(MOffers)]
    BY <1>1, <2>1, <2>2
  <2>4. mLists' \in Seq(Seq(MOffers))
    BY <2>1, <2>3, SeqDef
  <2> QED
    BY <2>1, <2>2, <2>4, LenProperties
<1>5. MTyped'
  <2>1. mClient' \in 0 .. Len(mConns') /\ mOpening' \in 0 .. Len(mConns') /\ mKnown' \subseteq 1 .. Len(mConns')
    BY <1>1, WithinConns
  <2> QED
    BY <1>1, <1>2, <1>4, <2>1 DEF MTyped
<1>6. AttemptInv' /\ OpenInv'
  BY <1>1 DEF AttemptInv, OpenInv
<1>7. ListsInv'
  <2>1. mOpening # 0 => mOpening \in M!Clients
    BY WithinConns, Numbered
  <2>2. mClient # 0 => mClient \in M!Clients
    BY WithinConns, Numbered
  <2> QED
    <3>1. \A k \in M!Clients' : k \in mKnown' /\ mConns'[k] = "open" /\ mLists'[k] # <<>> => mLists'[k][Len(mLists'[k])] = mOffers'
      BY <1>1, <1>3
    <3>2. mOpening' # 0 /\ mMaking' # "listing" => mLists'[mOpening'] = <<>> /\ mOpening' \notin mKnown'
      BY <1>1, <1>3, <2>1 DEF ListsInv
    <3>3. mMaking' = "listing" /\ mConns'[mOpening'] = "open" => mOpening' \in mKnown' /\ mLists'[mOpening'] # <<>>
      <4>1. mMaking = "listing" => mOpening # 0
        BY DEF AttemptInv
      <4> QED
        BY <1>1, <1>3, <2>1, <4>1 DEF ListsInv
    <3>4. mClient' # 0 /\ mConns'[mClient'] = "open" /\ mClient' \in mKnown' => mLists'[mClient'] # <<>>
      BY <1>1, <1>3, <2>2
    <3> QED
      BY <3>1, <3>2, <3>3, <3>4 DEF ListsInv
<1> QED
  BY <1>5, <1>6, <1>7

\* A list asked for again arrives.
LEMMA ListedAgainKeeps == ASSUME MInv, NEW k \in M!Clients, M!ListedAgain(k) PROVE MInv'
<1> USE DEF MInv
<1>1. /\ mLists[k] # <<>> /\ mConns[k] = "open" /\ (mMaking # "listing" \/ k # mOpening)
      /\ mTools' = (IF k \in {mClient, mOpening} THEN mLists[k][1] ELSE mTools)
      /\ mLists' = [mLists EXCEPT ![k] = SubSeq(@, 1, 1 - 1) \o SubSeq(@, 1 + 1, Len(@))]
      /\ UNCHANGED <<mState, mClient, mOpening, mMaking, mConns, mKnown, mOp, mClosing, mOffers>> /\ M!Clients' = M!Clients
  BY ServerAssumption DEF M!ListedAgain, M!external, M!Clients
<1>2. /\ mLists' \in Seq(Seq(MOffers)) /\ Len(mLists') = Len(mLists) /\ mLists[k][1] \in MOffers
      /\ \A j \in M!Clients : j # k => mLists'[j] = mLists[j]
      /\ mLists'[k] = <<>> => mLists[k][1] = mLists[k][Len(mLists[k])]
      /\ mLists'[k] # <<>> => mLists'[k][Len(mLists'[k])] = mLists[k][Len(mLists[k])]
  BY <1>1, ListArrives
<1>3. MTyped'
  <2>1. mClient' \in 0 .. Len(mConns') /\ mOpening' \in 0 .. Len(mConns') /\ mKnown' \subseteq 1 .. Len(mConns')
    BY <1>1, WithinConns
  <2>2. mTools' \in MOffers \cup {0}
    BY <1>1, <1>2 DEF MTyped
  <2> QED
    BY <1>1, <1>2, <2>1, <2>2 DEF MTyped
<1>4. AttemptInv' /\ OpenInv'
  BY <1>1 DEF AttemptInv, OpenInv
<1>5. k = mClient \/ k = mOpening
  BY <1>1 DEF OpenInv
<1>6. ListsInv'
  <2>1. (mOpening # 0 => mOpening \in M!Clients) /\ (mClient # 0 => mClient \in M!Clients) /\ k # 0
    BY WithinConns, Numbered
  <2>2. k = mClient
    <3>1. CASE k = mOpening
      BY <1>1, <2>1, <3>1 DEF ListsInv
    <3> QED
      BY <1>5, <3>1
  <2>3. mOpening = 0 /\ mMaking # "listing"
    BY <2>1, <2>2 DEF AttemptInv
  <2>4. \A j \in M!Clients' : j \in mKnown' /\ mConns'[j] = "open" /\ mLists'[j] # <<>> => mLists'[j][Len(mLists'[j])] = mOffers'
    BY <1>1, <1>2 DEF ListsInv
  <2>5. mClient' \in mKnown' /\ mLists'[mClient'] = <<>> => mTools' = mOffers'
    BY <1>1, <1>2, <2>2 DEF ListsInv
  <2> QED
    BY <1>1, <2>3, <2>4, <2>5 DEF ListsInv
<1> QED
  BY <1>3, <1>4, <1>6

LEMMA DropsKeeps == ASSUME MInv, NEW k \in M!Clients, M!Drops(k) PROVE MInv'
<1> USE DEF MInv
<1>1. /\ k # mOpening /\ mConns' = [mConns EXCEPT ![k] = "closed"] /\ mConns[k] = "open"
      /\ IF k = mClient THEN mClient' = 0 /\ mState' = (IF mState = "connected" THEN "disconnected" ELSE mState) ELSE UNCHANGED <<mClient, mState>>
      /\ UNCHANGED <<mOpening, mMaking, mKnown, mLists, mTools, mOp, mClosing, mOffers>>
  BY DEF M!Drops, M!others, M!external
<1>2. /\ mConns' \in Seq(Ends) /\ Len(mConns') = Len(mConns) /\ M!Clients' = M!Clients
      /\ \A j \in M!Clients : mConns'[j] = IF j = k THEN "closed" ELSE mConns[j]
  BY <1>1, OneChanges, EndsAre
<1>3. k = mClient /\ mClient' = 0 /\ mState' = (IF mState = "connected" THEN "disconnected" ELSE mState)
  BY <1>1 DEF OpenInv
<1>4. MTyped'
  <2>1. mClient' \in 0 .. Len(mConns') /\ mOpening' \in 0 .. Len(mConns') /\ mKnown' \subseteq 1 .. Len(mConns')
    BY <1>1, <1>2, <1>3, WithinConns
  <2>2. mState' \in {"connecting", "connected", "disconnected", "failed", "needs sign-in"}
    BY <1>3 DEF MTyped
  <2> QED
    BY <1>1, <1>2, <2>1, <2>2 DEF MTyped
<1>5. AttemptInv'
  BY <1>1, <1>3 DEF AttemptInv
<1>6. OpenInv'
  BY <1>1, <1>2, <1>3 DEF OpenInv
<1>7. ListsInv'
  <2>1. mOpening # 0 => mOpening \in M!Clients
    BY WithinConns, Numbered
  <2>2. mMaking = "listing" => mOpening # 0
    BY DEF AttemptInv
  <2> QED
    BY <1>1, <1>2, <1>3, <2>1, <2>2 DEF ListsInv
<1> QED
  BY <1>4, <1>5, <1>6, <1>7

LEMMA RestartsKeeps == ASSUME MInv, M!Restarts PROVE MInv'
<1> USE DEF MInv
<1>1. mKnown' = mKnown \ {mClient} /\ UNCHANGED <<mState, mClient, mOpening, mMaking, mConns, mTools, mOffers, mLists, mOp, mClosing>> /\ M!Clients' = M!Clients
  BY DEF M!Restarts, M!Clients
<1>2. MTyped'
  <2>1. mClient' \in 0 .. Len(mConns') /\ mOpening' \in 0 .. Len(mConns') /\ mKnown' \subseteq 1 .. Len(mConns')
    BY <1>1, WithinConns
  <2> QED
    BY <1>1, <2>1 DEF MTyped
<1>3. AttemptInv' /\ OpenInv'
  BY <1>1 DEF AttemptInv, OpenInv
<1>4. ListsInv'
  BY <1>1 DEF ListsInv, AttemptInv
<1> QED
  BY <1>2, <1>3, <1>4

\* Signing out and closing stop the attempt under way.
LEMMA DisconnectsKeeps ==
  ASSUME MInv, M!Disconnects, mOp' \in {"signOut", "shut"}, mClosing' \in BOOLEAN, mOp' = "shut" => mClosing',
         UNCHANGED <<mState, mClient, mOpening, mMaking, mKnown, mTools, mLists, mOffers>>
  PROVE  MInv'
<1> USE DEF MInv
<1>2. /\ mConns' \in Seq(Ends) /\ Len(mConns') = Len(mConns) /\ M!Clients' = M!Clients
      /\ \A j \in M!Clients : mConns'[j] = IF j = mOpening THEN "closed" ELSE mConns[j]
  BY WithinConns, OneCloses DEF M!Disconnects
<1>3. MTyped'
  <2>1. mClient' \in 0 .. Len(mConns') /\ mOpening' \in 0 .. Len(mConns') /\ mKnown' \subseteq 1 .. Len(mConns')
    BY <1>2, WithinConns
  <2> QED
    BY <1>2, <2>1 DEF MTyped
<1>4. AttemptInv' /\ OpenInv'
  BY <1>2 DEF AttemptInv, OpenInv
<1>5. ListsInv'
  BY <1>2, WithinConns, Numbered DEF ListsInv, AttemptInv
<1> QED
  BY <1>3, <1>4, <1>5

LEMMA DisconnectedKeeps == ASSUME MInv, M!Disconnected PROVE MInv'
<1> USE DEF MInv
<1>1. /\ mOp \in {"signOut", "shut"} /\ mMaking = "none" /\ mOpening = 0 /\ mConns' = M!Closed(mClient, mConns) /\ mClient' = 0
      /\ mOp' = (IF mOp = "signOut" THEN "tokens" ELSE "gone")
      /\ UNCHANGED <<mState, mOpening, mMaking, mKnown, mTools, mLists, mClosing, mOffers>>
  BY DEF M!Disconnected, AttemptInv, M!external
<1>2. /\ mConns' \in Seq(Ends) /\ Len(mConns') = Len(mConns) /\ M!Clients' = M!Clients
      /\ \A j \in M!Clients : mConns'[j] = IF j = mClient THEN "closed" ELSE mConns[j]
  BY <1>1, WithinConns, OneCloses
<1>3. MTyped'
  <2>1. mClient' \in 0 .. Len(mConns') /\ mOpening' \in 0 .. Len(mConns') /\ mKnown' \subseteq 1 .. Len(mConns')
    BY <1>1, <1>2, WithinConns
  <2> QED
    BY <1>1, <1>2, <2>1 DEF MTyped
<1>4. AttemptInv'
  BY <1>1 DEF AttemptInv
<1>5. OpenInv'
  <2>1. \A k \in M!Clients : k # 0
    BY Numbered
  <2>2. \A k \in M!Clients : mConns'[k] \notin {"open", "closing"}
    BY <1>1, <1>2, <2>1 DEF OpenInv
  <2> QED
    BY <1>1, <1>2, <2>2 DEF OpenInv
<1>6. ListsInv'
  BY <1>1, <1>2 DEF ListsInv
<1> QED
  BY <1>3, <1>4, <1>5, <1>6

LEMMA SignedOutKeeps == ASSUME MInv, M!SignedOut PROVE MInv'
<1> USE DEF MInv
<1>1. /\ mOp = "tokens" /\ mOp' = "none" /\ mTools' = 0 /\ mState' = "needs sign-in" /\ M!Clients' = M!Clients
      /\ UNCHANGED <<mClient, mOpening, mMaking, mConns, mKnown, mLists, mClosing, mOffers>>
  BY DEF M!SignedOut, M!external, M!Clients
<1>2. MTyped'
  BY <1>1 DEF MTyped
<1>3. AttemptInv' /\ OpenInv'
  BY <1>1 DEF AttemptInv, OpenInv
<1>4. ListsInv'
  BY <1>1 DEF ListsInv
<1> QED
  BY <1>2, <1>3, <1>4

\* A call changes the connection only by asking for another.
LEMMA CallKeeps == ASSUME MInv, NEW c \in Callers, M!Call(c) \/ M!Waited(c) \/ M!Answered(c) \/ M!Expired(c) \/ M!Errs(c) PROVE MInv'
<1>1. M!Connects \/ UNCHANGED <<mMaking, mConns>>
  BY DEF M!Call, M!Waited, M!Answered, M!Expired, M!Errs, M!Send
<1>2. UNCHANGED <<mState, mClient, mOpening, mKnown, mTools, mLists, mOp, mClosing, mOffers>>
  BY DEF M!Call, M!Waited, M!Answered, M!Expired, M!Errs, M!callUnchanged, M!external
<1> QED
  BY <1>1, <1>2, ConnectingKeeps

\* The operator's own steps.
LEMMA AskKeeps == ASSUME MInv, NEW what \in {"reconnect", "signIn"}, M!Ask(what) PROVE MInv'
<1>1. mOp' \in {"waits", "reconnect", "signIn"} /\ UNCHANGED <<mState, mClient, mOpening, mMaking, mConns, mKnown, mTools, mLists, mClosing, mOffers>>
  BY DEF M!Ask, M!external
<1> QED
  BY <1>1, ConnectingKeeps
LEMMA ReconnectKeeps == ASSUME MInv, M!Reconnect \/ M!SignInFails PROVE MInv'
<1>1. (M!Connects \/ UNCHANGED <<mMaking, mConns>>) /\ mOp' \in {"connects", "none"}
  BY DEF M!Reconnect, M!SignInFails
<1>2. UNCHANGED <<mState, mClient, mOpening, mKnown, mTools, mLists, mClosing, mOffers>>
  BY DEF M!Reconnect, M!SignInFails, M!external
<1> QED
  BY <1>1, <1>2, ConnectingKeeps
LEMMA StopKeeps == ASSUME MInv, M!SignOut \/ M!Close PROVE MInv'
<1>1. UNCHANGED <<mState, mClient, mOpening, mMaking, mKnown, mTools, mLists, mOffers>>
  BY DEF M!SignOut, M!Close, M!external
<1>2. CASE M!SignOut
  <2>1. M!Disconnects /\ mOp' \in {"signOut", "shut"} /\ mClosing' \in BOOLEAN /\ (mOp' = "shut" => mClosing')
    BY <1>2 DEF M!SignOut, M!external, MInv, MTyped
  <2> QED
    BY <1>1, <2>1, DisconnectsKeeps
<1>3. CASE M!Close
  <2>1. M!Disconnects /\ mOp' \in {"signOut", "shut"} /\ mClosing' \in BOOLEAN /\ (mOp' = "shut" => mClosing')
    BY <1>3 DEF M!Close
  <2> QED
    BY <1>1, <2>1, DisconnectsKeeps
<1> QED
  BY <1>2, <1>3

LEMMA MStep == MInv /\ [M!Next]_M!vars => MInv'
<1> SUFFICES ASSUME MInv, [M!Next]_M!vars PROVE MInv'
  OBVIOUS
<1>1. CASE M!Dial \/ M!Refused \/ M!Connected \/ M!Listed \/ (\E why \in {"failed", "needs sign-in"} : M!Fails(why))
  BY <1>1, DialKeeps, RefusedKeeps, ConnectedKeeps, ListedKeeps, FailsKeeps
<1>2. CASE M!Changes \/ M!Restarts \/ \E k \in M!Clients : M!ListedAgain(k) \/ M!Drops(k)
  BY <1>2, ChangesKeeps, RestartsKeeps, ListedAgainKeeps, DropsKeeps
<1>3. CASE \E c \in Callers : M!Call(c) \/ M!Waited(c) \/ M!Answered(c) \/ M!Expired(c) \/ M!Errs(c)
  BY <1>3, CallKeeps
<1>4. CASE M!Reconnect \/ M!SignInFails \/ M!SignOut \/ M!Disconnected \/ M!SignedOut \/ M!Close \/ \E what \in {"reconnect", "signIn"} : M!Ask(what)
  BY <1>4, ReconnectKeeps, StopKeeps, DisconnectedKeeps, SignedOutKeeps, AskKeeps
<1>5. CASE UNCHANGED M!vars
  BY <1>5 DEF M!vars, MInv, MTyped, AttemptInv, OpenInv, ListsInv, M!Clients
<1> QED
  BY <1>1, <1>2, <1>3, <1>4, <1>5 DEF M!Next

LEMMA MInvIsSafe == MInv => M!Safety
<1> SUFFICES ASSUME MInv PROVE M!Safety
  OBVIOUS
<1> USE DEF MInv
<1>1. \A k \in M!Clients : mConns[k] \in Ends
  BY Numbered, WithinConns, ElementOfSeq
<1>2. M!TypeOK
  <2>1. mTools \in 0 .. MaxOffer
    <3>1. mTools \in MOffers \cup {0}
      BY DEF MTyped
    <3> QED
      BY <3>1, ServerAssumption DEF MOffers
  <2> QED
    BY <1>1, <2>1, WithinConns DEF M!TypeOK, MTyped, Ends
<1>3. M!NoConnectionIsLeft
  <2>1. \A k \in M!Clients : k # 0
    BY Numbered
  <2> QED
    BY <1>1, <2>1 DEF M!NoConnectionIsLeft, OpenInv, Ends
<1>4. M!ToolsAreCurrent
  BY DEF M!ToolsAreCurrent, ListsInv
<1> QED
  BY <1>2, <1>3, <1>4 DEF M!Safety

\* A step of the providers is the server's or leaves it alone.
LEMMA ConnectionsMove == [Next]_vars => [M!Next]_M!vars
BY DEF Next, vars, MVars, M!vars

\* Whatever its callers, its sessions' ends and the operator do at once, no
\* connection to a server is left open behind the one it has, none at all once
\* the shell closed, and a connected server's tools are those it last announced
\* once that was answered.  (mcp.ts: connect, disconnect, callTool, close.)
THEOREM NoConnectionIsLeftOpen == Spec => []ConnectionsAreSafe
<1>1. Init => MInv
  BY MInit DEF Init
<1>2. MInv /\ [Next]_vars => MInv'
  BY MStep, ConnectionsMove
<1>3. MInv => ConnectionsAreSafe
  BY MInvIsSafe DEF ConnectionsAreSafe
<1> QED
  BY <1>1, <1>2, <1>3, PTL DEF Spec

-----------------------------------------------------------------------------
(* A server's account.                                                     *)

Places == {"none", "waiting", "sent", "answered", "browser", "code"}
AtWork(w) == tAt[w] \in {"sent", "answered", "browser", "code"}

TTyped ==
  /\ tStored \in 0 .. MaxToken /\ tGranted \in 0 .. MaxToken /\ tExpired \subseteq T!Versions /\ tLost \subseteq 0 .. MaxToken
  /\ tAt \in [T!Work -> Places] /\ tStale \in [Shells -> Nat]

\* One at a time works with the tokens: the lock's holder.
OneHolder == \A w \in T!Work : AtWork(w) => tHolder = w

\* The server knows no version it did not give, and the one just given it did
\* not take; a token whose successor is not saved is being replaced, or lost.
Replacing ==
  /\ tTaken \subseteq 1 .. tGranted /\ tStored <= tGranted
  /\ \A w \in T!Work : tAt[w] = "answered" => tGranted \notin tTaken
  /\ tStored \in tTaken \ tLost => \E w \in T!Work : tAt[w] = "answered"

\* A refresh is of a refused token, and is sent only where there is one; a
\* sign-out never waits for the server.
Causes ==
  /\ \A s \in Shells : tStale[s] \in tExpired \cup {0}
  /\ \A s \in Shells : tAt[<<"refresh", s>>] \in {"none", "waiting"} \/ (tAt[<<"refresh", s>>] \in {"sent", "answered"} /\ tStored # 0)
  /\ \A s \in Shells : tAt[<<"signOut", s>>] \in {"none", "waiting"}
  /\ \A w \in T!Work : tAt[w] = "sent" => tStored # 0

TInv == TTyped /\ OneHolder /\ Replacing /\ Causes

\* No work is the free lock.
LEMMA WorkIsNotFree == \A w \in T!Work : w # <<>> /\ w = <<w[1], w[2]>> /\ w[1] \in {"refresh", "signIn", "signOut"} /\ w[2] \in Shells
BY DEF T!Work

\* With the lock free no one works with the tokens.
LEMMA FreeIsIdle == ASSUME OneHolder, tHolder = <<>>, NEW w \in T!Work PROVE ~AtWork(w)
BY WorkIsNotFree DEF OneHolder

\* At first no one does.
LEMMA TInit == T!Init => TInv
<1> SUFFICES ASSUME T!Init PROVE TInv
  OBVIOUS
<1>1. TTyped /\ OneHolder
  BY AccountAssumption DEF T!Init, TTyped, OneHolder, AtWork, Places, T!Versions
<1>2. Replacing
  BY AccountAssumption DEF T!Init, Replacing
<1>3. Causes
  BY DEF T!Init, Causes, T!Work
<1> QED
  BY <1>1, <1>2, <1>3 DEF TInv

\* The server's steps.
LEMMA ServerKeeps ==
  ASSUME TInv, (\E v \in T!Versions : T!Expires(v)) \/ (\E w \in T!Work : T!Grants(w) \/ T!Refuses(w))
  PROVE  TInv'
<1> USE AccountAssumption DEF TInv
<1>1. ASSUME NEW v \in T!Versions, T!Expires(v) PROVE TInv'
  BY <1>1 DEF T!Expires, T!history, TTyped, OneHolder, AtWork, Replacing, Causes, T!Versions
<1>2. ASSUME NEW w \in T!Work, T!Grants(w) PROVE TInv'
  <2>1. /\ AtWork(w) /\ tHolder = w /\ tGranted' = tGranted + 1 /\ tStored' = tStored /\ tExpired' = tExpired
        /\ tHolder' = tHolder /\ tStale' = tStale /\ tLost' = tLost /\ tAt' = [tAt EXCEPT ![w] = "answered"]
        /\ tGranted < MaxToken /\ tAt[w] \in {"sent", "code"}
        /\ tTaken' = tTaken \/ (tStored # 0 /\ tTaken' = tTaken \cup {tStored})
    BY <1>2 DEF T!Grants, T!Go, T!history, AtWork, OneHolder, Causes
  <2>0. tGranted \in 0 .. MaxToken /\ tStored \in 0 .. MaxToken /\ tTaken \subseteq 1 .. tGranted /\ tStored <= tGranted
    BY DEF TTyped, Replacing
  <2>2. TTyped' /\ OneHolder'
    <3>1. tGranted' \in 0 .. MaxToken
      BY <2>0, <2>1
    <3>2. tAt' \in [T!Work -> Places]
      BY <2>1 DEF TTyped, Places
    <3>3. \A v \in T!Work : AtWork(v)' => AtWork(v)
      BY <2>1 DEF TTyped, AtWork
    <3> QED
      BY <2>1, <3>1, <3>2, <3>3 DEF TTyped, OneHolder
  <2>3. Replacing'
    <3>1. tAt'[w] = "answered"
      BY <2>1 DEF TTyped
    <3>2. tTaken' \subseteq 1 .. tGranted /\ tStored' <= tGranted /\ tGranted' = tGranted + 1 /\ tGranted \in Nat
      <4>1. tStored # 0 => tStored \in 1 .. tGranted
        BY <2>0
      <4>2. tTaken' \subseteq 1 .. tGranted
        BY <2>0, <2>1, <4>1
      <4> QED
        BY <2>0, <2>1, <4>2
    <3>3. tTaken' \subseteq 1 .. tGranted' /\ tStored' <= tGranted' /\ tGranted' \notin tTaken'
      <4>1. \A n \in tTaken' : n \in 1 .. tGranted' /\ n # tGranted'
        BY <3>2
      <4>2. tStored' <= tGranted'
        BY <2>0, <2>1
      <4> QED
        BY <4>1, <4>2
    <3> QED
      BY <3>1, <3>3 DEF Replacing
  <2>4. Causes'
    <3>1. \A s \in Shells : w # <<"signOut", s>> /\ (w = <<"refresh", s>> => tStored # 0)
      BY <2>1 DEF Causes
    <3>2. \A v \in T!Work : tAt'[v] = IF v = w THEN "answered" ELSE tAt[v]
      BY <2>1 DEF TTyped
    <3>3. \A s \in Shells : <<"refresh", s>> \in T!Work /\ <<"signOut", s>> \in T!Work
      BY DEF T!Work
    <3> QED
      BY <2>1, <3>1, <3>2, <3>3 DEF Causes
  <2> QED
    BY <2>2, <2>3, <2>4
<1>3. ASSUME NEW w \in T!Work, T!Refuses(w) PROVE TInv'
  <2>1. PICK p \in {"browser", "none"} :
          /\ tAt' = [tAt EXCEPT ![w] = p] /\ (p = "browser" => w[1] = "signIn")
          /\ tHolder' = IF p = "browser" THEN tHolder ELSE IF tHolder = w THEN <<>> ELSE tHolder
    BY <1>3 DEF T!Refuses, T!Go, T!Free
  <2>2. /\ AtWork(w) /\ tHolder = w /\ tAt[w] # "answered"
        /\ tStored' \in {tStored, 0} /\ UNCHANGED <<tGranted, tTaken, tExpired, tStale, tLost>>
    BY <1>3 DEF T!Refuses, AtWork, OneHolder, T!history
  <2>3. \A v \in T!Work : v # w => ~AtWork(v)
    BY <2>2 DEF OneHolder
  <2>4. 0 \notin tTaken
    BY DEF TTyped, Replacing
  <2>5. TTyped' /\ OneHolder'
    BY <2>1, <2>2 DEF TTyped, OneHolder, AtWork, Places
  <2>6. Replacing'
    BY <2>1, <2>2, <2>4 DEF TTyped, Replacing
  <2>7. Causes'
    <3>1. \A s \in Shells : w # <<"signOut", s>> /\ (w = <<"refresh", s>> => p = "none")
      BY <2>1, <2>2 DEF Causes, AtWork
    <3> QED
      BY <2>1, <2>2, <2>3, <3>1 DEF Causes, TTyped, AtWork, T!Work
  <2> QED
    BY <2>5, <2>6, <2>7
<1> QED
  BY <1>1, <1>2, <1>3

\* The steps that only bring work or take it out of the line.
LEMMA WaitingKeeps ==
  ASSUME TInv,
         \/ \E s \in Shells, v \in 0 .. MaxToken : T!Refresh(s, v)
         \/ \E s \in Shells, what \in {"signIn", "signOut"} : T!Begins(what, s)
         \/ \E w \in T!Work : T!GivesUp(w)
  PROVE  TInv'
<1> USE AccountAssumption DEF TInv
<1>1. PICK w \in T!Work, p \in {"none", "waiting"} :
        /\ ~AtWork(w) /\ tAt' = [tAt EXCEPT ![w] = p] /\ UNCHANGED <<tStored, tGranted, tTaken, tExpired, tHolder, tLost>>
        /\ tStale' = tStale \/ \E s \in Shells, v \in tExpired \cup {0} : tStale' = [tStale EXCEPT ![s] = v]
  BY DEF T!Refresh, T!Begins, T!GivesUp, T!Go, AtWork, T!file, T!history, T!Work
<1>2. TTyped' /\ OneHolder'
  BY <1>1 DEF TTyped, OneHolder, AtWork, Places, T!Versions
<1>3. Replacing'
  BY <1>1 DEF TTyped, Replacing, AtWork
<1>4. Causes'
  BY <1>1 DEF TTyped, Causes, AtWork, T!Work, T!Versions
<1> QED
  BY <1>2, <1>3, <1>4

\* The steps that take the lock, or need it free.
LEMMA LockKeeps ==
  ASSUME TInv, NEW s \in Shells,
         T!RefreshLocked(s) \/ T!SignOut(s) \/ T!Answers(s) \/ \E holds, more \in BOOLEAN : T!SignInLocked(s, holds, more)
  PROVE  TInv'
<1> USE AccountAssumption DEF TInv
<1>0. <<"refresh", s>> \in T!Work /\ <<"signIn", s>> \in T!Work /\ <<"signOut", s>> \in T!Work
  BY DEF T!Work
<1>1. CASE T!RefreshLocked(s)
  <2>1. tHolder = <<>> /\ \A w \in T!Work : ~AtWork(w)
    BY <1>1, FreeIsIdle DEF T!RefreshLocked
  <2>2. PICK p \in {"none", "sent"} :
          /\ tAt' = [tAt EXCEPT ![<<"refresh", s>>] = p] /\ UNCHANGED <<tStored, tGranted, tTaken, tExpired, tStale, tLost>>
          /\ p = "sent" => tStored # 0 /\ tHolder' = <<"refresh", s>>
          /\ p = "none" => tHolder' = tHolder
    BY <1>1 DEF T!RefreshLocked, T!Go, T!file, T!history
  <2>3. TTyped' /\ OneHolder'
    BY <1>0, <2>1, <2>2 DEF TTyped, OneHolder, AtWork, Places
  <2>4. Replacing' /\ Causes'
    BY <1>0, <2>1, <2>2 DEF TTyped, Replacing, Causes, AtWork, T!Work
  <2> QED
    BY <2>3, <2>4
<1>2. CASE T!SignOut(s)
  <2>1. \A w \in T!Work : ~AtWork(w)
    BY <1>2, FreeIsIdle DEF T!SignOut
  <2>2. /\ tStored' = 0 /\ tAt' = [tAt EXCEPT ![<<"signOut", s>>] = "none"]
        /\ UNCHANGED <<tGranted, tTaken, tExpired, tHolder, tStale, tLost>>
    BY <1>2 DEF T!SignOut, T!Go, T!history
  <2>3. TTyped' /\ OneHolder'
    BY <1>0, <2>1, <2>2 DEF TTyped, OneHolder, AtWork, Places
  <2>4. 0 \notin tTaken
    BY DEF TTyped, Replacing
  <2>5. Replacing' /\ Causes'
    BY <1>0, <2>1, <2>2, <2>4 DEF TTyped, Replacing, Causes, AtWork, T!Work
  <2> QED
    BY <2>3, <2>5
<1>3. CASE T!Answers(s)
  <2>1. /\ tAt[<<"signIn", s>>] = "browser" /\ tAt' = [tAt EXCEPT ![<<"signIn", s>>] = "code"]
        /\ UNCHANGED <<tStored, tGranted, tTaken, tExpired, tHolder, tStale, tLost>>
    BY <1>3 DEF T!Answers, T!Go, T!file, T!history
  <2>2. TTyped' /\ OneHolder'
    BY <1>0, <2>1 DEF TTyped, OneHolder, AtWork, Places
  <2>3. Replacing' /\ Causes'
    BY <1>0, <2>1 DEF TTyped, Replacing, Causes, T!Work
  <2> QED
    BY <2>2, <2>3
<1>4. ASSUME NEW holds \in BOOLEAN, NEW more \in BOOLEAN, T!SignInLocked(s, holds, more) PROVE TInv'
  <2>1. tHolder = <<>> /\ \A w \in T!Work : ~AtWork(w)
    BY <1>4, FreeIsIdle DEF T!SignInLocked
  <2>2. PICK p \in {"sent", "browser"} :
          /\ tAt' = [tAt EXCEPT ![<<"signIn", s>>] = p] /\ tHolder' = <<"signIn", s>>
          /\ tStored' \in {tStored, 0} /\ (p = "sent" => tStored' # 0)
          /\ UNCHANGED <<tGranted, tTaken, tExpired, tStale, tLost>>
    BY <1>4 DEF T!SignInLocked, T!Go, T!history
  <2>3. TTyped' /\ OneHolder'
    BY <1>0, <2>1, <2>2 DEF TTyped, OneHolder, AtWork, Places
  <2>4. 0 \notin tTaken
    BY DEF TTyped, Replacing
  <2>5. Replacing'
    BY <1>0, <2>1, <2>2, <2>4 DEF TTyped, Replacing, AtWork
  <2>6. Causes'
    BY <1>0, <2>1, <2>2 DEF TTyped, Causes, AtWork, T!Work
  <2> QED
    BY <2>3, <2>5, <2>6
<1> QED
  BY <1>1, <1>2, <1>3, <1>4

\* The ends of work.
LEMMA EndsKeep ==
  ASSUME TInv, (\E w \in T!Work : T!Saves(w) \/ T!Loses(w)) \/ (\E s \in Shells : T!Crash(s))
  PROVE  TInv'
<1> USE AccountAssumption DEF TInv
<1>1. ASSUME NEW w \in T!Work, T!Saves(w) PROVE TInv'
  <2>1. /\ tAt[w] = "answered" /\ tHolder = w /\ tHolder' = <<>> /\ tStored' = tGranted /\ tGranted \notin tTaken
        /\ tAt' = [tAt EXCEPT ![w] = "none"] /\ UNCHANGED <<tGranted, tTaken, tExpired, tStale, tLost>>
    BY <1>1 DEF T!Saves, T!Go, T!Free, T!history, OneHolder, AtWork, Replacing
  <2>2. \A v \in T!Work : v # w => ~AtWork(v)
    BY <2>1 DEF OneHolder
  <2>3. TTyped' /\ OneHolder'
    BY <2>1, <2>2 DEF TTyped, OneHolder, AtWork, Places
  <2>4. Replacing'
    BY <2>1, <2>2 DEF TTyped, Replacing, AtWork
  <2>5. Causes'
    BY <2>1, <2>2 DEF TTyped, Causes, AtWork, T!Work
  <2> QED
    BY <2>3, <2>4, <2>5
<1>2. ASSUME NEW w \in T!Work, T!Loses(w) PROVE TInv'
  <2>1. /\ AtWork(w) /\ tHolder = w /\ tHolder' = <<>> /\ tAt' = [tAt EXCEPT ![w] = "none"]
        /\ UNCHANGED <<tStored, tGranted, tTaken, tExpired, tStale>>
        /\ tLost' = tLost \/ tLost' = tLost \cup {tStored}
        /\ tAt[w] = "answered" => tStored \in tLost'
    BY <1>2 DEF T!Loses, T!Go, T!Free, T!file, AtWork, OneHolder
  <2>2. \A v \in T!Work : v # w => ~AtWork(v)
    BY <2>1 DEF OneHolder
  <2>3. TTyped' /\ OneHolder'
    BY <2>1, <2>2 DEF TTyped, OneHolder, AtWork, Places
  <2>4. Replacing'
    BY <2>1, <2>2 DEF TTyped, Replacing, AtWork
  <2>5. Causes'
    BY <2>1, <2>2 DEF TTyped, Causes, AtWork, T!Work
  <2> QED
    BY <2>3, <2>4, <2>5
<1>3. ASSUME NEW s \in Shells, T!Crash(s) PROVE TInv'
  <2>1. /\ tAt' = [w \in T!Work |-> IF w[2] = s THEN "none" ELSE tAt[w]]
        /\ UNCHANGED <<tStored, tGranted, tTaken, tExpired, tStale>>
        /\ tHolder' = (IF \E w \in T!Work : w[2] = s /\ tHolder = w THEN <<>> ELSE tHolder)
    BY <1>3 DEF T!Crash, T!file
  <2>2. /\ tLost \subseteq tLost' /\ tLost' \subseteq tLost \cup {tStored}
        /\ \A w \in T!Work : w[2] = s /\ tAt[w] = "answered" => tStored \in tLost'
    BY <1>3 DEF T!Crash
  <2>3. TTyped' /\ OneHolder'
    BY <2>1, <2>2, WorkIsNotFree DEF TTyped, OneHolder, AtWork, Places
  <2>4. Replacing'
    BY <2>1, <2>2 DEF TTyped, Replacing
  <2>5. Causes'
    BY <2>1, <2>2 DEF TTyped, Causes, T!Work
  <2> QED
    BY <2>3, <2>4, <2>5
<1> QED
  BY <1>1, <1>2, <1>3

\* Every step keeps the invariant.
LEMMA TStep == TInv /\ [T!Next]_T!vars => TInv'
<1>1. ASSUME TInv, UNCHANGED T!vars PROVE TInv'
  BY <1>1 DEF T!vars, TInv, TTyped, OneHolder, AtWork, Replacing, Causes
<1> QED
  BY <1>1, ServerKeeps, WaitingKeeps, LockKeeps, EndsKeep DEF T!Next

\* A step that sends a refresh token has the lock free before it.
LEMMA SentOnce ==
  ASSUME TInv, [T!Next]_T!vars, NEW w \in T!Work, tAt[w] # "sent", tAt'[w] = "sent"
  PROVE  tStored \notin tTaken \ tLost /\ (w[1] = "refresh" => tStored \in tExpired)
<1> USE DEF TInv
<1>1. \/ \E s \in Shells : T!RefreshLocked(s) /\ w = <<"refresh", s>>
      \/ \E s \in Shells, holds, more \in BOOLEAN : T!SignInLocked(s, holds, more) /\ w = <<"signIn", s>>
  BY DEF T!Next, T!vars, T!Expires, T!Grants, T!Refuses, T!Saves, T!Loses, T!GivesUp, T!RefreshLocked, T!Answers, T!SignOut, T!Crash, T!Refresh,
         T!Begins, T!SignInLocked, T!Go, TTyped, T!Work
<1>2. tHolder = <<>>
  BY <1>1 DEF T!RefreshLocked, T!SignInLocked
<1>3. tStored \notin tTaken \ tLost
  BY <1>2, FreeIsIdle DEF Replacing, AtWork
<1>4. ASSUME NEW s \in Shells, T!RefreshLocked(s), w = <<"refresh", s>> PROVE tStored \in tExpired
  BY <1>4 DEF T!RefreshLocked, T!Go, TTyped, Causes
<1> QED
  BY <1>1, <1>3, <1>4

\* A step that brings tokens back ends a sign-in.
LEMMA BackBySignIn ==
  ASSUME TInv, [T!Next]_T!vars, tStored = 0, tStored' # 0
  PROVE  \E s \in Shells : tAt[<<"signIn", s>>] = "answered" /\ tAt'[<<"signIn", s>>] = "none"
<1> USE DEF TInv
<1>1. PICK w \in T!Work : T!Saves(w)
  BY DEF T!Next, T!vars, T!Expires, T!Grants, T!Refuses, T!Loses, T!GivesUp, T!RefreshLocked, T!Answers, T!SignOut, T!Crash, T!Refresh, T!Begins,
         T!SignInLocked, T!file
<1>2. tAt[w] = "answered" /\ tAt'[w] = "none"
  BY <1>1 DEF T!Saves, T!Go, TTyped
<1>3. w[1] = "signIn" /\ w[2] \in Shells /\ w = <<w[1], w[2]>>
  BY <1>2, WorkIsNotFree DEF Causes
<1> QED
  BY <1>2, <1>3

\* A step of the providers is the account's or leaves it alone.
LEMMA AccountsMove == [Next]_vars => [T!Next]_T!vars
BY DEF Next, vars, TVars, T!vars

\* Whatever shells refresh, sign in, sign out and crash at once, a token is
\* spent once unless its answer was lost, a refresh is of a refused token, and
\* a signed-out account has tokens again by a sign-in only.  (mcp-auth.ts:
\* refresh, signIn, signOut under withLockWhile.)
THEOREM AccountsAreSafe == Spec => AccountIsSafe
<1>1. Init => TInv
  BY TInit DEF Init
<1>2. TInv /\ [Next]_vars => TInv'
  BY TStep, AccountsMove
<1>3. TInv => T!TypeOK /\ T!WorkersHoldTheLock
  BY DEF TInv, TTyped, OneHolder, AtWork, T!TypeOK, T!WorkersHoldTheLock
<1>4. TInv /\ [Next]_vars =>
        [\A w \in T!Work : tAt[w] # "sent" /\ tAt'[w] = "sent" => tStored \notin tTaken \ tLost /\ (w[1] = "refresh" => tStored \in tExpired)]_T!vars
  BY SentOnce, AccountsMove
<1>5. TInv /\ [Next]_vars =>
        [tStored = 0 /\ tStored' # 0 => \E s \in Shells : tAt[<<"signIn", s>>] = "answered" /\ tAt'[<<"signIn", s>>] = "none"]_T!vars
  BY BackBySignIn, AccountsMove
<1> QED
  BY <1>1, <1>2, <1>3, <1>4, <1>5, PTL DEF Spec, AccountIsSafe, T!Safety, T!TokensAreSpentOnce, T!SignedOutStaysOut
=============================================================================
