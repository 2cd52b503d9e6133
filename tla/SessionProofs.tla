---------------------------- MODULE SessionProofs ----------------------------
(***************************************************************************)
(* Proofs about Session: how calls are let in, a reply's calls and its     *)
(* questions, for every value of the constants.                            *)
(***************************************************************************)
EXTENDS Session, TLAPS

-----------------------------------------------------------------------------
(* Admission.                                                              *)

\* The types the steps need beside TypeOK's.
ATyped ==
  /\ aRunning \in Callers \cup {None} /\ aCompacting \in Callers \cup {None}
  /\ aTold \in [Callers -> BOOLEAN]
  /\ aDisposed \in BOOLEAN /\ aUnsaved \in BOOLEAN /\ aOver \in BOOLEAN

\* Only prompts are told of a stop, and only while they wait.
ToldInv == \A c \in Callers : aTold[c] => aOp[c] \in {"prompt", "steer"} /\ aAt[c] \in {"starting", "waiting", "refused"}

\* What a disposal waited for is over by each of its awaits: the run it found,
\* then the compaction.  No other can have begun behind it, since the disposal
\* bars them from its call on.
Working == aStage \in {"capturing", "working"}
DisposalInv ==
  /\ aOver => aDisposed /\ ~Working /\ aCompacting = None
  /\ \A c \in Callers : aOp[c] = "dispose" => aDisposed
  /\ \A c \in Callers : aOp[c] = "dispose" /\ aAt[c] = "first" => aRunning = None \/ aOn[c] = aRunning
  /\ \A c \in Callers : aOp[c] = "dispose" /\ aAt[c] = "second" => ~Working /\ (aCompacting = None \/ aOn[c] = aCompacting)

AInv == A!TypeOK /\ ATyped /\ A!OneAtATime /\ ToldInv /\ DisposalInv

-----------------------------------------------------------------------------
\* The initial state has nothing at work.
LEMMA AdmissionInit == A!Init => AInv
<1> SUFFICES ASSUME A!Init PROVE AInv
  OBVIOUS
<1>1. ATyped /\ aRuns \in Nat
  <2>1. aTold \in [Callers -> BOOLEAN]
    BY DEF A!Init
  <2>2. aDisposed \in BOOLEAN /\ aUnsaved \in BOOLEAN /\ aOver \in BOOLEAN
    BY Zenon DEF A!Init
  <2> QED
    BY <2>1, <2>2 DEF A!Init, ATyped
<1>2. A!TypeOK
  BY <1>1 DEF A!Init, A!TypeOK, A!Ops, A!Ats, A!Stages
<1>3. A!OneAtATime /\ ToldInv /\ DisposalInv
  BY DEF A!Init, A!OneAtATime, ToldInv, DisposalInv, Working
<1> QED
  BY <1>1, <1>2, <1>3 DEF AInv

\* A call only arrives, and may tell others or bar what comes.
LEMMA CallKeeps ==
  ASSUME AInv, NEW c \in Callers, NEW kind \in A!Ops, A!Call(c, kind)
  PROVE  AInv'
<1> USE DEF AInv
<1>1. PICK where \in {"refused", "starting", "first", "returned"} : A!Go(c, where)
  BY DEF A!Call, A!Ops
<1>2. /\ aAt[c] = "idle" /\ aOp' = [aOp EXCEPT ![c] = kind]
      /\ UNCHANGED <<aStarted, aRunning, aStage, aRuns, aClosed, aCompacting, aHeld, aUnsaved, aBroken, aOver>>
      /\ aOn' \in {aOn, [aOn EXCEPT ![c] = aRunning]}
      /\ aDisposed' = (aDisposed \/ kind = "dispose")
      /\ kind = "dispose" => where # "first"
      /\ kind \in {"prompt", "steer"} \/ where # "waiting"
  BY <1>1 DEF A!Call, A!Ops, A!Go, ATyped, A!TypeOK
<1>3. aTold' = aTold \/ A!TellAll
  BY DEF A!Call, A!Ops
<1>4. aTold' \in [Callers -> BOOLEAN] /\ \A d \in Callers : aTold'[d] => aTold[d] \/ d \in A!Admitting
  BY <1>3 DEF A!TellAll, ATyped
<1>5. A!TypeOK' /\ ATyped'
  BY <1>1, <1>2, <1>4, CallersAssumption DEF A!TypeOK, ATyped, A!Go, A!Ops, A!Ats
<1>6. A!OneAtATime'
  BY <1>2 DEF A!OneAtATime
<1>7. ToldInv'
  BY <1>1, <1>2, <1>4 DEF A!TypeOK, ATyped, ToldInv, A!Go, A!Admitting
<1>8. DisposalInv'
  <2>1. /\ aAt'[c] = where /\ aOp'[c] = kind
        /\ \A d \in Callers \ {c} : aAt'[d] = aAt[d] /\ aOp'[d] = aOp[d] /\ aOn'[d] = aOn[d]
    BY <1>1, <1>2 DEF A!TypeOK, ATyped, A!Go
  <2>2. aOver' => aDisposed' /\ ~Working' /\ aCompacting' = None
    BY <1>2 DEF DisposalInv, Working
  <2>3. \A d \in Callers : aOp'[d] = "dispose" => aDisposed'
    BY <1>2, <2>1 DEF DisposalInv
  <2>4. kind # "dispose" \/ where # "first"
    BY <1>2
  <2>5. \A d \in Callers : aOp'[d] = "dispose" /\ aAt'[d] = "first" => aRunning' = None \/ aOn'[d] = aRunning'
    BY <1>2, <2>1, <2>4 DEF DisposalInv
  <2>6. \A d \in Callers : aOp'[d] = "dispose" /\ aAt'[d] = "second" => ~Working' /\ (aCompacting' = None \/ aOn'[d] = aCompacting')
    BY <1>1, <1>2, <2>1 DEF DisposalInv, Working
  <2> QED
    BY <2>2, <2>3, <2>5, <2>6 DEF DisposalInv
<1> QED
  BY <1>5, <1>6, <1>7, <1>8

\* A prompt becomes a run only where nothing runs, compacts or was disposed.
LEMMA AdmitKeeps ==
  ASSUME AInv, NEW c \in Callers, A!Admit(c)
  PROVE  AInv'
<1> USE DEF AInv
<1>1. A!TypeOK' /\ ATyped'
  BY CallersAssumption DEF A!Admit, A!TypeOK, ATyped, A!Go, A!Joined, A!Ready, A!Ats, A!Stages, A!MustWait
<1>2. A!OneAtATime'
  BY DEF A!Admit, A!OneAtATime, A!MustWait
<1>3. ToldInv'
  BY DEF A!Admit, A!TypeOK, ATyped, ToldInv, A!Go, A!Barred, A!Joined
<1>4. DisposalInv'
  BY DEF A!Admit, A!TypeOK, ATyped, DisposalInv, Working, A!Go, A!Barred, A!NeverAgain, A!Joined, A!Ready
<1> QED
  BY <1>1, <1>2, <1>3, <1>4

\* The run's own steps.
LEMMA RunKeeps ==
  ASSUME AInv, A!Startup \/ A!Record \/ A!RunEnds \/ A!RunOver
  PROVE  AInv'
<1> USE DEF AInv
<1>1. CASE A!Startup
  BY <1>1 DEF A!Startup, A!TypeOK, ATyped, A!OneAtATime, ToldInv, DisposalInv, Working
<1>2. CASE A!Record
  <2>1. A!TypeOK' /\ ATyped'
    BY <1>2 DEF A!Record, A!TypeOK, ATyped, A!Resumed, A!Joined, A!Ats, A!Stages
  <2>2. A!OneAtATime' /\ ToldInv' /\ DisposalInv'
    BY <1>2 DEF A!Record, A!TypeOK, ATyped, A!OneAtATime, ToldInv, DisposalInv, Working, A!Resumed, A!Joined
  <2> QED
    BY <2>1, <2>2
<1>3. CASE A!RunEnds
  BY <1>3 DEF A!RunEnds, A!TypeOK, ATyped, A!OneAtATime, ToldInv, DisposalInv, Working, A!Stages
<1>4. CASE A!RunOver
  <2>1. A!TypeOK' /\ ATyped'
    BY <1>4, CallersAssumption DEF A!RunOver, A!TypeOK, ATyped, A!OneAtATime, A!Ats, A!Stages
  <2>2. A!OneAtATime' /\ ToldInv' /\ DisposalInv'
    BY <1>4 DEF A!RunOver, A!TypeOK, ATyped, A!OneAtATime, ToldInv, DisposalInv, Working
  <2> QED
    BY <2>1, <2>2
<1> QED
  BY <1>1, <1>2, <1>3, <1>4

\* A compaction begins only where none does and no run goes.
LEMMA OthersKeep ==
  ASSUME AInv, NEW c \in Callers, A!HandlerEnds(c) \/ A!Compact(c) \/ A!CompactionEnds(c) \/ A!Wait(c)
  PROVE  AInv'
<1> USE DEF AInv
<1>1. CASE A!HandlerEnds(c)
  BY <1>1 DEF A!HandlerEnds, A!session, A!Go, A!TypeOK, ATyped, A!OneAtATime, ToldInv, DisposalInv, Working, A!Ats
<1>2. CASE A!Compact(c)
  <2>1. A!TypeOK' /\ ATyped'
    BY <1>2, CallersAssumption DEF A!Compact, A!TypeOK, ATyped, A!Go, A!Ats
  <2>2. A!OneAtATime' /\ ToldInv' /\ DisposalInv'
    BY <1>2 DEF A!Compact, A!TypeOK, ATyped, A!OneAtATime, ToldInv, DisposalInv, Working, A!Go, A!NeverAgain
  <2> QED
    BY <2>1, <2>2
<1>3. CASE A!CompactionEnds(c)
  BY <1>3, CallersAssumption DEF A!CompactionEnds, A!TypeOK, ATyped, A!OneAtATime, ToldInv, DisposalInv, Working, A!Go, A!Ats
<1>4. CASE A!Wait(c)
  <2>1. A!TypeOK' /\ ATyped'
    BY <1>4 DEF A!Wait, A!TypeOK, ATyped, A!Go, A!Ats
  <2>2. A!OneAtATime' /\ ToldInv'
    BY <1>4 DEF A!Wait, A!TypeOK, ATyped, A!OneAtATime, ToldInv, A!Go
  <2>3. DisposalInv'
    BY <1>4 DEF A!Wait, A!TypeOK, ATyped, DisposalInv, Working, A!Go, A!RunSettled, A!CompactionOver
  <2> QED
    BY <2>1, <2>2, <2>3
<1> QED
  BY <1>1, <1>2, <1>3, <1>4

\* Every step keeps the invariant.
LEMMA AdmissionStep == ASSUME AInv, [A!Next]_A!vars PROVE AInv'
<1>1. CASE UNCHANGED A!vars
  BY <1>1 DEF A!vars, AInv, A!TypeOK, ATyped, A!OneAtATime, ToldInv, DisposalInv, Working
<1>2. CASE A!Next
  BY <1>2, CallKeeps, AdmitKeeps, RunKeeps, OthersKeep DEF A!Next
<1> QED
  BY <1>1, <1>2

\* A step of the session is one of the door's or leaves it alone.
LEMMA AdmissionMoves == [Next]_vars => [A!Next]_A!vars
BY DEF Next, vars, AVars, A!vars

\* The inductive invariant holds always.
LEMMA AdmissionAlways == Spec => []AInv
<1>1. Init => AInv
  BY AdmissionInit DEF Init
<1>2. AInv /\ [Next]_vars => AInv'
  BY AdmissionStep, AdmissionMoves
<1> QED
  BY <1>1, <1>2, PTL DEF Spec

\* Once an answer was lost no run and no compaction begins.
LEMMA StepBegins == ASSUME AInv, [A!Next]_A!vars, aUnsaved PROVE aRunning' \in {aRunning, None} /\ aCompacting' \in {aCompacting, None}
<1>1. CASE UNCHANGED A!vars
  BY <1>1 DEF A!vars
<1>2. ASSUME NEW c \in Callers, A!Admit(c)
      PROVE  aRunning' = aRunning /\ aCompacting' = aCompacting
  BY <1>2 DEF A!Admit, A!Barred, A!NeverAgain
<1>3. ASSUME NEW c \in Callers, A!Compact(c)
      PROVE  aRunning' = aRunning /\ aCompacting' = aCompacting
  BY <1>3 DEF A!Compact, A!NeverAgain
<1>4. ASSUME NEW c \in Callers, NEW kind \in A!Ops, A!Call(c, kind)
      PROVE  aRunning' = aRunning /\ aCompacting' = aCompacting
  BY <1>4 DEF A!Call
<1>5. ASSUME NEW c \in Callers, A!HandlerEnds(c) \/ A!CompactionEnds(c) \/ A!Wait(c)
      PROVE  aRunning' = aRunning /\ aCompacting' \in {aCompacting, None}
  BY <1>5 DEF A!HandlerEnds, A!CompactionEnds, A!Wait, A!session
<1>6. CASE A!Startup \/ A!Record \/ A!RunEnds \/ A!RunOver
  BY <1>6 DEF A!Startup, A!Record, A!RunEnds, A!RunOver
<1> QED
  BY <1>1, <1>2, <1>3, <1>4, <1>5, <1>6 DEF A!Next

\* What a session promises its callers, whatever they do at once: no run beside
\* a compaction, none on a closed file, none for a stopped prompt, and none
\* after an answer was lost.  (loop.ts: prompt, compact, abort, dispose.)
THEOREM CallersAreKeptApart == Spec => AdmissionIsSafe
<1>1. AInv => A!OneAtATime /\ A!NothingWorksOnAClosedFile /\ A!StoppedPromptsStayOut
  BY DEF AInv, ToldInv, DisposalInv, Working, A!NothingWorksOnAClosedFile, A!StoppedPromptsStayOut
<1>2. AInv /\ [Next]_vars => [aUnsaved => aRunning' \in {aRunning, None} /\ aCompacting' \in {aCompacting, None}]_A!vars
  BY AdmissionMoves, StepBegins
<1> QED
  BY <1>1, <1>2, AdmissionAlways, PTL DEF Spec, AdmissionIsSafe, A!Safety, A!NothingBeginsAfterALostAnswer

-----------------------------------------------------------------------------
(* A reply's calls.                                                        *)

\* The types the steps need beside TypeOK's.
Entries ==
  [decision : {"allow", "deny", "ask"}, by : {"floor", "mode", "rule", "after_floor", "session", "operator", "hook"}]
CTyped ==
  /\ cRun \in 0 .. C!LastRun /\ cNext \in Nat \ {0}
  /\ cKind \in [C!Ids -> Kinds \cup {Repeat}]
  /\ cAt \in [C!Ids -> {"none", "parsing", "asking", "before", "opening", "executing", "given"}]
  /\ cGave \in [C!Ids -> {"none", "ran", "refused", "stopped"}]
  /\ cResult \in [C!Ids -> {"none", "ran", "refused", "stopped", "unknown"}]
  /\ cDecided \in [C!Ids -> Seq(Entries)]
  /\ cOpen => cRun > 0

\* A call's turn is over once its run ended or the run went on behind it: then,
\* and only then, it has its result, unless its id was an earlier call's.
Done(id) == id[1] < cRun \/ (id[1] = cRun /\ (~cOpen \/ id[2] < cNext))
ResultsInv ==
  \A id \in C!Ids : IF Done(id) THEN (cResult[id] = "none") = (cKind[id] = Repeat) ELSE cResult[id] = "none"

\* Only a call with an id of its own was begun, and it gave something once it ended.
BegunInv ==
  \A id \in C!Ids :
    /\ cAt[id] # "none" => cKind[id] # Repeat /\ id[1] <= cRun
    /\ cAt[id] = "given" => cGave[id] # "none"

\* A call at work is the one whose turn it is, unless its run was stopped.
TurnInv ==
  \A id \in C!Ids : cAt[id] \notin {"none", "given"} => C!Stopped(id) \/ (cOpen /\ id[1] = cRun /\ id[2] = cNext)

\* What a call on its way to its tool was told: it is allowed, by the operator's
\* word where the floor refused one of its run, and its intent is on disk.
WordInv ==
  \A id \in C!Ids :
    /\ cAt[id] \in {"before", "opening", "executing"} => cDecided[id] # <<>> /\ C!Last(cDecided[id]).decision = "allow"
    /\ cAt[id] \in {"opening", "executing"} => id \in cIntent
    /\ cAt[id] \in {"before", "opening"} /\ id[1] \in cRefused /\ Access[cKind[id]] # "read" =>
         C!Stopped(id) \/ C!Last(cDecided[id]).by \in {"operator", "session"}

CInv == CTyped /\ ResultsInv /\ BegunInv /\ TurnInv /\ WordInv

-----------------------------------------------------------------------------
\* The last entry of a call's is the one just written.
LEMMA LastWritten == ASSUME NEW S, NEW s \in Seq(S), NEW e \in S PROVE Append(s, e) # <<>> /\ C!Last(Append(s, e)) = e
BY DEF C!Last

\* Where the run still has calls, its current one is a call of it.
LEMMA CurrentIsACall ==
  ASSUME CTyped, cOpen, cNext <= Size[cRun]
  PROVE  C!Current \in C!Ids /\ C!Current[1] = cRun /\ C!Current[2] = cNext
<1>1. cRun \in C!Runs
  BY CallsAssumption DEF CTyped, C!Runs, C!LastRun
<1>2. Size[cRun] \in 1 .. 3
  BY <1>1, CallsAssumption DEF C!Runs
<1> QED
  BY <1>1, <1>2 DEF C!Ids, C!Current, CTyped

\* What a call is: its run's and its place there.
LEMMA CallsAre ==
  ASSUME NEW id \in C!Ids
  PROVE  id[1] \in C!Runs /\ id[2] \in 1 .. 3 /\ id[2] <= Size[id[1]] /\ id = <<id[1], id[2]>> /\ id[1] \in Nat \ {0} /\ id[2] \in Nat
<1>1. Len(Size) \in Nat
  BY CallsAssumption
<1> QED
  BY <1>1 DEF C!Ids, C!Runs

-----------------------------------------------------------------------------
LEMMA CallsInit == ASSUME C!Init PROVE CInv
<1>1. CTyped
  <2>1. 0 \in 0 .. C!LastRun
    BY CallsAssumption DEF C!LastRun
  <2>2. <<>> \in Seq(Entries)
    OBVIOUS
  <2>3. /\ cDecided \in [C!Ids -> Seq(Entries)] /\ cKind \in [C!Ids -> Kinds \cup {Repeat}]
        /\ cAt \in [C!Ids -> {"none", "parsing", "asking", "before", "opening", "executing", "given"}]
        /\ cGave \in [C!Ids -> {"none", "ran", "refused", "stopped"}]
        /\ cResult \in [C!Ids -> {"none", "ran", "refused", "stopped", "unknown"}]
    BY <2>2, Zenon DEF C!Init
  <2>4. cRun = 0 /\ cOpen = FALSE /\ cNext = 1
    BY DEF C!Init
  <2> QED
    BY <2>1, <2>3, <2>4 DEF CTyped
<1>2. ResultsInv
  BY CallsAre DEF C!Init, ResultsInv, Done, C!Runs
<1> QED
  BY <1>1, <1>2 DEF C!Init, CInv, BegunInv, TurnInv, WordInv

\* The next run's reply is there: nothing of it was begun or told.
LEMMA RequestKeeps == ASSUME CInv, C!Request PROVE CInv'
<1> USE DEF CInv
<1>1. cRun \in Nat /\ cRun' = cRun + 1 /\ cRun' \in C!Runs /\ Size[cRun'] \in 1 .. 3
  BY CallsAssumption DEF C!Request, CTyped, C!Runs, C!LastRun
<1>2. PICK batch \in [1 .. Size[cRun'] -> Kinds \cup {Repeat}] :
        batch[1] # Repeat /\ cKind' = [id \in C!Ids |-> IF id[1] = cRun' THEN batch[id[2]] ELSE cKind[id]]
  BY DEF C!Request
<1>3. \A id \in C!Ids : (id[1] = cRun' => id[2] \in 1 .. Size[cRun']) /\ (id[1] # cRun' => cKind'[id] = cKind[id])
  BY <1>2, CallsAre
<1>4. cKind' \in [C!Ids -> Kinds \cup {Repeat}]
  BY <1>2, <1>3 DEF CTyped
<1>5. CTyped'
  BY <1>1, <1>4 DEF CTyped, C!Request, C!Runs, C!LastRun
<1>6. ResultsInv'
  BY <1>1, <1>3, CallsAre DEF ResultsInv, Done, C!Request
<1>7. BegunInv'
  BY <1>1, <1>3, CallsAre DEF BegunInv, C!Request, C!Runs
<1>8. TurnInv'
  BY <1>1, CallsAre DEF TurnInv, C!Request, C!Stopped
<1>9. WordInv'
  <2>1. \A id \in C!Ids : cAt[id] # "none" => id[1] # cRun'
    BY <1>1, CallsAre DEF BegunInv
  <2> QED
    BY <2>1, <1>3 DEF WordInv, C!Request, C!Stopped
<1> QED
  BY <1>5, <1>6, <1>7, <1>8, <1>9

\* The turn goes to the next call, with a result for the one whose turn it was.
LEMMA TurnKeeps == ASSUME CInv, C!Take \/ C!Record \/ C!Grace PROVE CInv'
<1> USE DEF CInv
<1>1. cOpen /\ cNext <= Size[cRun] /\ UNCHANGED <<cRun, cOpen, cKind, cGave, cDecided, cIntent, cStopped, cRefused>>
  BY DEF C!Take, C!Record, C!Grace
<1>2. C!Current \in C!Ids /\ C!Current[1] = cRun /\ C!Current[2] = cNext
  BY <1>1, CurrentIsACall
<1>3. \A id \in C!Ids : id # C!Current => id[1] # cRun \/ id[2] # cNext
  BY CallsAre DEF C!Current
<1>4. CASE C!Take
  <2>0. \/ cKind[C!Current] = Repeat /\ cNext' = cNext + 1 /\ cAt' = cAt
        \/ cKind[C!Current] # Repeat /\ cNext' = cNext /\ cAt' = [cAt EXCEPT ![C!Current] = "parsing"]
    BY <1>4 DEF C!Take
  <2>a. UNCHANGED <<cGave, cResult>> /\ cAt[C!Current] = "none"
    BY <1>4 DEF C!Take
  <2>1. CTyped'
    <3>1. cNext' \in Nat \ {0}
      BY <2>0 DEF CTyped
    <3>2. cAt' \in [C!Ids -> {"none", "parsing", "asking", "before", "opening", "executing", "given"}]
      BY <2>0 DEF CTyped
    <3> QED
      BY <1>1, <2>a, <3>1, <3>2 DEF CTyped
  <2>2. ResultsInv'
    <3>0. PICK c \in C!Ids : c = C!Current /\ c[1] = cRun /\ c[2] = cNext
      BY <1>2
    <3>1. ASSUME NEW id \in C!Ids, id # c PROVE Done(id)' <=> Done(id)
      BY <1>1, <1>3, <2>0, <3>0, <3>1, CallsAre DEF CTyped, Done
    <3>2. ~Done(c) /\ (Done(c)' <=> cKind[c] = Repeat)
      BY <1>1, <2>0, <3>0 DEF CTyped, Done
    <3>3. \A id \in C!Ids : cResult'[id] = cResult[id] /\ cKind'[id] = cKind[id]
      BY <1>1, <2>a
    <3> QED
      BY <3>0, <3>1, <3>2, <3>3 DEF ResultsInv
  <2>3. BegunInv'
    BY <1>1, <1>2, <2>0, <2>a DEF CTyped, BegunInv
  <2>4. TurnInv'
    BY <1>1, <1>2, <1>3, <2>0, <2>a DEF CTyped, TurnInv, C!Stopped
  <2>5. WordInv'
    BY <1>1, <1>2, <2>0, <2>a DEF CTyped, WordInv, C!Stopped
  <2> QED
    BY <2>1, <2>2, <2>3, <2>4, <2>5
<1>5. CASE C!Record
  <2>1. CTyped'
    BY <1>1, <1>2, <1>5 DEF C!Record, CTyped
  <2>2. ResultsInv'
    BY <1>1, <1>2, <1>3, <1>5, CallsAre DEF C!Record, CTyped, ResultsInv, Done, BegunInv
  <2>3. BegunInv' /\ WordInv'
    BY <1>1, <1>5 DEF C!Record, BegunInv, WordInv, C!Stopped
  <2>4. TurnInv'
    BY <1>1, <1>2, <1>3, <1>5 DEF C!Record, CTyped, TurnInv, C!Stopped
  <2> QED
    BY <2>1, <2>2, <2>3, <2>4
<1>6. CASE C!Grace
  <2>1. CTyped'
    BY <1>1, <1>2, <1>6 DEF C!Grace, CTyped
  <2>2. ResultsInv'
    BY <1>1, <1>2, <1>3, <1>6, CallsAre DEF C!Grace, CTyped, ResultsInv, Done, BegunInv, C!Dawdles
  <2>3. BegunInv' /\ WordInv'
    BY <1>1, <1>6 DEF C!Grace, BegunInv, WordInv, C!Stopped
  <2>4. TurnInv'
    BY <1>1, <1>2, <1>3, <1>6 DEF C!Grace, CTyped, TurnInv, C!Stopped
  <2> QED
    BY <2>1, <2>2, <2>3, <2>4
<1> QED
  BY <1>4, <1>5, <1>6

\* The run's end, its stop, and the switch of the mode.
LEMMA RunEndKeeps == ASSUME CInv, C!Rest \/ C!End \/ C!Stop \/ C!Switch PROVE CInv'
<1> USE DEF CInv
<1>1. CASE C!Rest
  <2>1. C!Current \in C!Ids /\ C!Current[1] = cRun /\ C!Current[2] = cNext /\ cRun \in C!Runs /\ Size[cRun] \in 1 .. 3
    BY <1>1, CurrentIsACall, CallsAre, CallsAssumption DEF C!Rest, C!Runs
  <2>2. CTyped'
    BY <1>1, <2>1 DEF C!Rest, CTyped
  <2>3. ResultsInv'
    BY <1>1, <2>1, CallsAre DEF C!Rest, CTyped, ResultsInv, Done, C!Unbegun
  <2>4. BegunInv' /\ WordInv' /\ TurnInv'
    BY <1>1 DEF C!Rest, BegunInv, WordInv, TurnInv, C!Stopped
  <2> QED
    BY <2>2, <2>3, <2>4
<1>2. CASE C!End
  <2>1. CTyped' /\ BegunInv' /\ WordInv'
    BY <1>2 DEF C!End, CTyped, BegunInv, WordInv, C!Stopped
  <2>2. \A id \in C!Ids : id[1] = cRun => id[2] < cNext
    <3>1. SUFFICES ASSUME NEW id \in C!Ids, id[1] = cRun PROVE id[2] < cNext
      OBVIOUS
    <3>2. Size[cRun] \in 1 .. 3
      BY <3>1, CallsAre, CallsAssumption DEF C!Runs
    <3> QED
      BY <1>2, <3>1, <3>2, CallsAre DEF C!End, CTyped
  <2>3. ResultsInv' /\ TurnInv'
    BY <1>2, <2>2, CallsAre DEF C!End, CTyped, ResultsInv, Done, TurnInv, C!Stopped
  <2> QED
    BY <2>1, <2>3
<1>3. CASE C!Stop
  BY <1>3 DEF C!Stop, CTyped, ResultsInv, Done, BegunInv, TurnInv, WordInv, C!Stopped
<1>4. CASE C!Switch
  BY <1>4 DEF C!Switch, CTyped, ResultsInv, Done, BegunInv, TurnInv, WordInv, C!Stopped
<1> QED
  BY <1>1, <1>2, <1>3, <1>4

-----------------------------------------------------------------------------
(* A call's own steps.                                                      *)

\* Where a call goes on and nothing else moves, it is enough to look at it.
LEMMA CallMoves ==
  ASSUME CInv, NEW id \in C!Ids, cAt[id] \notin {"none", "given"},
         UNCHANGED <<cRun, cOpen, cNext, cKind, cResult, cStopped>>,
         NEW where \in {"asking", "before", "opening", "executing", "given"}, cAt' = [cAt EXCEPT ![id] = where],
         cGave' \in [C!Ids -> {"none", "ran", "refused", "stopped"}],
         where = "given" => cGave'[id] # "none", \A d \in C!Ids : d # id => cGave'[d] = cGave[d],
         cDecided' \in [C!Ids -> Seq(Entries)]
  PROVE  CTyped' /\ ResultsInv' /\ BegunInv' /\ TurnInv'
<1> USE DEF CInv
<1>1. CTyped'
  BY DEF CTyped
<1>2. ResultsInv'
  BY DEF ResultsInv, Done
<1>3. BegunInv'
  BY DEF BegunInv, CTyped
<1>4. TurnInv'
  BY DEF TurnInv, CTyped, C!Stopped
<1> QED
  BY <1>1, <1>2, <1>3, <1>4

\* The verdict on a call: the floor only refuses, and after it did, in its run,
\* nothing but a read is allowed by a rule or the mode.
LEMMA Verdicts ==
  ASSUME NEW k \in Kinds, NEW r, NEW in
  PROVE  /\ C!Heightened(C!Judge(k, in), k, r) \in Entries
         /\ C!Heightened(C!Judge(k, in), k, r).by = "floor" => C!Heightened(C!Judge(k, in), k, r).decision = "deny"
         /\ r \in cRefused /\ Access[k] # "read" => C!Heightened(C!Judge(k, in), k, r).decision # "allow"
<1>1. C!Judge(k, in) \in Entries
  BY DEF C!Judge, C!Decide, C!Strongest, C!Ask, Entries
<1>2. C!Judge(k, in).by = "floor" => C!Judge(k, in).decision = "deny"
  BY DEF C!Judge, C!Decide, C!Strongest, C!Ask
<1> DEFINE v == C!Judge(k, in)
<1>3. v \in Entries /\ (v.by = "floor" => v.decision = "deny")
  BY <1>1, <1>2
<1> HIDE DEF v
<1>4. /\ C!Heightened(v, k, r) \in Entries
      /\ C!Heightened(v, k, r).by = "floor" => C!Heightened(v, k, r).decision = "deny"
      /\ r \in cRefused /\ Access[k] # "read" => C!Heightened(v, k, r).decision # "allow"
  BY <1>3 DEF C!Heightened, C!AfterRefusal, C!Ask, Entries
<1> QED
  BY <1>4 DEF v

\* Judged: the verdict is written, or the operator is asked first.
LEMMA JudgedKeeps == ASSUME CInv, NEW id \in C!Ids, C!Judged(id) PROVE CInv'
<1> USE DEF CInv
<1> DEFINE k == cKind[id]
           v == C!Heightened(C!Judge(k, cSeen[id]), k, id[1])
           e == IF C!SessionAllows(v, k) THEN [decision |-> "allow", by |-> "session"] ELSE v
<1>1. cAt[id] = "parsing" /\ UNCHANGED <<cRun, cOpen, cNext, cKind, cResult, cIntent, cStopped>>
  BY DEF C!Judged
<1>2. k \in Kinds /\ cAt[id] \notin {"none", "given"}
  BY <1>1 DEF BegunInv, CTyped
<1>3. /\ v \in Entries
      /\ v.by = "floor" => v.decision = "deny"
      /\ id[1] \in cRefused /\ Access[k] # "read" => v.decision # "allow"
  BY <1>2, Verdicts
<1>4. \/ C!GoesOn(id, "asking") /\ UNCHANGED <<cDecided, cRefused>>
      \/ /\ C!Write(id, e)
         /\ cRefused' = IF e.by = "floor" THEN cRefused \cup {id[1]} ELSE cRefused
         /\ IF e.decision = "allow" THEN C!GoesOn(id, "before")
            ELSE \E what \in {"stopped", "refused"} : C!Gives(id, what)
  BY DEF C!Judged
<1>5. /\ e \in Entries
      /\ e.by = "floor" => e.decision # "allow"
      /\ id[1] \in cRefused /\ Access[k] # "read" /\ e.decision = "allow" => e.by = "session"
  BY <1>3 DEF Entries
<1> HIDE DEF v, e
<1>6. CASE C!GoesOn(id, "asking") /\ UNCHANGED <<cDecided, cRefused>>
  <2>1. CTyped' /\ ResultsInv' /\ BegunInv' /\ TurnInv'
    BY <1>1, <1>2, <1>6, CallMoves DEF C!GoesOn, CTyped
  <2>2. WordInv'
    BY <1>1, <1>6 DEF C!GoesOn, WordInv, CTyped, C!Stopped
  <2> QED
    BY <2>1, <2>2
<1>7. ASSUME C!Write(id, e), cRefused' = IF e.by = "floor" THEN cRefused \cup {id[1]} ELSE cRefused,
             IF e.decision = "allow" THEN C!GoesOn(id, "before") ELSE \E what \in {"stopped", "refused"} : C!Gives(id, what)
      PROVE  CInv'
  <2>1. cDecided' = [cDecided EXCEPT ![id] = Append(@, e)] /\ cDecided' \in [C!Ids -> Seq(Entries)]
    BY <1>5, <1>7 DEF C!Write, CTyped
  <2>2. cDecided'[id] # <<>> /\ C!Last(cDecided'[id]) = e /\ \A d \in C!Ids : d # id => cDecided'[d] = cDecided[d]
    BY <1>5, <2>1, LastWritten DEF CTyped
  <2>3. PICK where \in {"before", "given"} :
           /\ cAt' = [cAt EXCEPT ![id] = where]
           /\ where = "before" <=> e.decision = "allow"
           /\ cGave' \in [C!Ids -> {"none", "ran", "refused", "stopped"}]
           /\ where = "given" => cGave'[id] # "none"
           /\ \A d \in C!Ids : d # id => cGave'[d] = cGave[d]
    BY <1>7 DEF C!GoesOn, C!Gives, CTyped
  <2>4. CTyped' /\ ResultsInv' /\ BegunInv' /\ TurnInv'
    BY <1>1, <1>2, <2>1, <2>3, CallMoves
  <2>5. ASSUME NEW d \in C!Ids, d # id, cAt[d] \in {"before", "opening"}, d[1] = id[1]
        PROVE  C!Stopped(d)
    BY <1>1, <2>5, CallsAre DEF TurnInv, C!Stopped
  <2>6. WordInv'
    <3>1. ASSUME NEW d \in C!Ids, d # id
          PROVE  /\ cAt'[d] \in {"before", "opening", "executing"} => cDecided'[d] # <<>> /\ C!Last(cDecided'[d]).decision = "allow"
                 /\ cAt'[d] \in {"opening", "executing"} => d \in cIntent'
                 /\ cAt'[d] \in {"before", "opening"} /\ d[1] \in cRefused' /\ Access[cKind'[d]] # "read" =>
                      C!Stopped(d)' \/ C!Last(cDecided'[d]).by \in {"operator", "session"}
      <4>1. cAt'[d] = cAt[d] /\ cDecided'[d] = cDecided[d] /\ (d[1] \in cRefused' => d[1] \in cRefused \/ d[1] = id[1])
        BY <3>1, <1>7, <2>2, <2>3 DEF CTyped
      <4> QED
        BY <1>1, <3>1, <4>1, <2>5 DEF WordInv, C!Stopped
    <3>2. /\ cAt'[id] \in {"before", "given"} /\ (cAt'[id] = "before" => e.decision = "allow")
          /\ cAt'[id] = "before" /\ id[1] \in cRefused' => id[1] \in cRefused
      BY <1>5, <1>7, <2>3 DEF CTyped
    <3>3. /\ cAt'[id] \in {"before", "opening", "executing"} => cDecided'[id] # <<>> /\ C!Last(cDecided'[id]).decision = "allow"
          /\ cAt'[id] \notin {"opening", "executing"}
          /\ cAt'[id] \in {"before", "opening"} /\ id[1] \in cRefused' /\ Access[cKind'[id]] # "read" =>
               C!Last(cDecided'[id]).by \in {"operator", "session"}
      BY <1>1, <1>5, <2>2, <3>2
    <3> QED
      BY <3>1, <3>3 DEF WordInv
  <2> QED
    BY <2>4, <2>6
<1> QED
  BY <1>4, <1>6, <1>7

\* Answered: the operator's word is the call's last.
LEMMA AnsweredKeeps == ASSUME CInv, NEW id \in C!Ids, C!Answered(id) PROVE CInv'
<1> USE DEF CInv
<1>1. cAt[id] = "asking" /\ UNCHANGED <<cRun, cOpen, cNext, cKind, cResult, cIntent, cStopped, cRefused>>
  BY DEF C!Answered
<1>2. PICK e \in Entries, where \in {"before", "given"} :
         /\ C!Write(id, e) /\ e.by = "operator" /\ (where = "before" => e.decision = "allow")
         /\ cAt' = [cAt EXCEPT ![id] = where]
         /\ cGave' \in [C!Ids -> {"none", "ran", "refused", "stopped"}]
         /\ where = "given" => cGave'[id] # "none"
         /\ \A d \in C!Ids : d # id => cGave'[d] = cGave[d]
  <2>1. PICK answer \in {"none", "once", "session", "deny"} :
          /\ C!Write(id, [decision |-> IF answer \in {"once", "session"} THEN "allow" ELSE "deny", by |-> "operator"])
          /\ IF answer \in {"once", "session"} THEN C!GoesOn(id, "before") ELSE \E what \in {"stopped", "refused"} : C!Gives(id, what)
    BY DEF C!Answered
  <2>2. CASE answer \in {"once", "session"}
    BY <2>1, <2>2 DEF C!GoesOn, CTyped, Entries
  <2>3. CASE answer \notin {"once", "session"}
    <3>1. PICK what \in {"stopped", "refused"} : C!Gives(id, what)
      BY <2>1, <2>3
    <3>2. [decision |-> "deny", by |-> "operator"] \in Entries /\ C!Write(id, [decision |-> "deny", by |-> "operator"])
      BY <2>1, <2>3 DEF Entries
    <3> QED
      BY <3>1, <3>2 DEF C!Gives, CTyped
  <2> QED
    BY <2>2, <2>3
<1>3. cDecided' = [cDecided EXCEPT ![id] = Append(@, e)] /\ cDecided' \in [C!Ids -> Seq(Entries)]
  BY <1>2 DEF C!Write, CTyped
<1>4. cDecided'[id] # <<>> /\ C!Last(cDecided'[id]) = e /\ \A d \in C!Ids : d # id => cDecided'[d] = cDecided[d]
  BY <1>3, LastWritten DEF CTyped
<1>5. CTyped' /\ ResultsInv' /\ BegunInv' /\ TurnInv'
  BY <1>1, <1>2, <1>3, CallMoves
<1>6. WordInv'
  BY <1>1, <1>2, <1>4 DEF WordInv, CTyped, C!Stopped
<1> QED
  BY <1>5, <1>6

\* Hooked, opened, reported: the intent is on disk before the handlers hear of
\* the call, and a stopped call goes no further.
LEMMA HookedKeeps == ASSUME CInv, NEW id \in C!Ids, C!Hooked(id) PROVE CInv'
<1> USE DEF CInv
<1>1. cAt[id] = "before" /\ UNCHANGED <<cRun, cOpen, cNext, cKind, cResult, cStopped, cRefused>>
  BY DEF C!Hooked
<1>2. CASE C!Stopped(id) /\ C!Gives(id, "stopped") /\ UNCHANGED <<cDecided, cLate, cIntent>>
  <2>1. CTyped' /\ ResultsInv' /\ BegunInv' /\ TurnInv'
    BY <1>1, <1>2, CallMoves DEF C!Gives, CTyped
  <2>2. WordInv'
    BY <1>1, <1>2 DEF C!Gives, WordInv, CTyped, C!Stopped
  <2> QED
    BY <2>1, <2>2
<1>3. CASE C!Gives(id, "refused") /\ C!Write(id, [decision |-> "deny", by |-> "hook"]) /\ UNCHANGED cIntent
  <2>1. cDecided' \in [C!Ids -> Seq(Entries)] /\ \A d \in C!Ids : d # id => cDecided'[d] = cDecided[d]
    <3>1. [decision |-> "deny", by |-> "hook"] \in Entries
      BY DEF Entries
    <3> QED
      BY <1>3, <3>1 DEF C!Write, CTyped
  <2>2. CTyped' /\ ResultsInv' /\ BegunInv' /\ TurnInv'
    BY <1>1, <1>3, <2>1, CallMoves DEF C!Gives, CTyped
  <2>3. WordInv'
    BY <1>1, <1>3, <2>1 DEF C!Gives, WordInv, CTyped, C!Stopped
  <2> QED
    BY <2>2, <2>3
<1>4. CASE C!GoesOn(id, "opening") /\ C!Intend(id) /\ UNCHANGED <<cDecided, cLate>>
  <2>1. CTyped' /\ ResultsInv' /\ BegunInv' /\ TurnInv'
    BY <1>1, <1>4, CallMoves DEF C!GoesOn, CTyped
  <2>2. WordInv'
    BY <1>1, <1>4 DEF C!GoesOn, C!Intend, WordInv, CTyped, C!Stopped
  <2> QED
    BY <2>1, <2>2
<1> QED
  BY <1>2, <1>3, <1>4 DEF C!Hooked

LEMMA OpenedKeeps == ASSUME CInv, NEW id \in C!Ids, C!Opened(id) \/ C!Reported(id) PROVE CInv'
<1> USE DEF CInv
<1>1. /\ cAt[id] \in {"opening", "executing"}
      /\ UNCHANGED <<cRun, cOpen, cNext, cKind, cResult, cDecided, cIntent, cStopped, cRefused>>
  BY DEF C!Opened, C!Reported
<1>2. PICK where \in {"executing", "given"} :
         /\ cAt' = [cAt EXCEPT ![id] = where]
         /\ cGave' \in [C!Ids -> {"none", "ran", "refused", "stopped"}]
         /\ where = "given" => cGave'[id] # "none"
         /\ \A d \in C!Ids : d # id => cGave'[d] = cGave[d]
  <2>1. CASE C!Opened(id)
    BY <2>1 DEF C!Opened, C!GoesOn, C!Gives, CTyped
  <2>2. CASE C!Reported(id)
    BY <2>2 DEF C!Reported, C!Gives, CTyped
  <2> QED
    BY <2>1, <2>2
<1>3. CTyped' /\ ResultsInv' /\ BegunInv' /\ TurnInv'
  BY <1>1, <1>2, CallMoves DEF CTyped
<1>4. WordInv'
  BY <1>1, <1>2 DEF WordInv, CTyped, C!Stopped
<1> QED
  BY <1>3, <1>4

\* Every step keeps the invariant.
LEMMA CallsStep == ASSUME CInv, [C!Next]_C!vars PROVE CInv'
<1>1. CASE UNCHANGED C!vars
  BY <1>1 DEF C!vars, CInv, CTyped, ResultsInv, Done, BegunInv, TurnInv, WordInv, C!Stopped
<1>2. CASE C!Next
  BY <1>2, RequestKeeps, TurnKeeps, RunEndKeeps, JudgedKeeps, AnsweredKeeps, HookedKeeps, OpenedKeeps DEF C!Next, C!Advance
<1> QED
  BY <1>1, <1>2

\* A tool starts only from the handlers of its call's start.
LEMMA ToolStarts ==
  ASSUME CInv, [C!Next]_C!vars, NEW id \in C!Ids, cAt'[id] = "executing", cAt[id] # "executing"
  PROVE  C!Opened(id)
<1> USE DEF CInv
<1>1. CASE UNCHANGED <<cAt>>
  BY <1>1
<1>2. CASE C!Take
  BY <1>2 DEF C!Take, CTyped, C!Current
<1>3. ASSUME NEW d \in C!Ids, C!Judged(d) \/ C!Answered(d) \/ C!Hooked(d) \/ C!Reported(d)
      PROVE  cAt'[id] # "executing" \/ cAt[id] = "executing"
  BY <1>3 DEF C!Judged, C!Answered, C!Hooked, C!Reported, C!GoesOn, C!Gives, CTyped
<1>4. ASSUME NEW d \in C!Ids, C!Opened(d), d # id
      PROVE  cAt'[id] = cAt[id]
  BY <1>4 DEF C!Opened, C!GoesOn, C!Gives, CTyped
<1>5. CASE C!Request \/ C!Record \/ C!Stop \/ C!Grace \/ C!Rest \/ C!End \/ C!Switch
  BY <1>1, <1>5 DEF C!Request, C!Record, C!Stop, C!Grace, C!Rest, C!End, C!Switch
<1> QED
  BY <1>1, <1>2, <1>3, <1>4, <1>5 DEF C!Next, C!Advance, C!vars

\* It starts on the last word on its call, and never after a stop.
LEMMA CallsStarts ==
  ASSUME CInv, [C!Next]_C!vars, NEW id \in C!Ids, cAt'[id] = "executing", cAt[id] # "executing"
  PROVE  ~C!Stopped(id) /\ (id[1] \in cRefused /\ Access[cKind[id]] # "read" => C!Last(cDecided[id]).by \in {"operator", "session"})
<1>1. C!Opened(id)
  BY ToolStarts
<1>2. cAt[id] = "opening" /\ ~C!Stopped(id)
  BY <1>1 DEF C!Opened, C!Cancelled, C!Gives, CInv, CTyped
<1> QED
  BY <1>2 DEF CInv, WordInv

\* A step of the session is one of its calls' or leaves them alone.
LEMMA CallsMove == [Next]_vars => [C!Next]_C!vars
BY DEF Next, vars, CVars, C!vars

\* Whatever the stops, the answers and the tools that do not return, each call of
\* a run that ended has its one result, a tool runs only on the last word of its
\* call's permission entries with its intent on disk, never on the mode's or a
\* rule's word after the floor refused, and never after its run's stop.  (loop.ts:
\* runCalls, permitted, hooked, runCall and step.)
THEOREM CallsAreAnsweredAndAllowed == Spec => CallsAreSafe
<1>1. Init => CInv
  BY CallsInit DEF Init
<1>2. CInv /\ [Next]_vars => CInv'
  BY CallsStep, CallsMove
<1>3. CInv => C!OneResultEach /\ C!OnlyAllowedCallsRun
  BY DEF CInv, ResultsInv, Done, C!OneResultEach, WordInv, C!OnlyAllowedCallsRun
<1>4. CInv /\ [Next]_vars =>
        [\A id \in C!Ids : cAt'[id] = "executing" /\ cAt[id] # "executing" /\ id[1] \in cRefused
           /\ Access[cKind[id]] # "read" => C!Last(cDecided[id]).by \in {"operator", "session"}]_C!vars
  BY CallsStarts, CallsMove
<1>5. CInv /\ [Next]_vars =>
        [\A id \in C!Ids : cAt'[id] = "executing" /\ cAt[id] # "executing" => ~C!Stopped(id)]_C!vars
  BY CallsStarts, CallsMove
<1> QED
  BY <1>1, <1>2, <1>3, <1>4, <1>5, PTL
     DEF Spec, CallsAreSafe, C!Safety, C!AfterTheFloorNoModeAllows, C!StoppedRunsStartNothing

-----------------------------------------------------------------------------
(* A request's questions.                                                  *)

\* The counts: an attempt is counted before its form is shown, and a repair is
\* asked for with the request's one flag.
CountsInv ==
  /\ qTimes \in 0 .. MaxAsks /\ qForms \in 0 .. qTimes
  /\ qRepairs = IF qRepaired THEN 1 ELSE 0

\* At the model no question is unresolved, and only words that ask nothing end
\* a run as completed.
ResolvedInv ==
  /\ qPc = "model" => ~qUnresolved
  /\ qOutcome = "completed" => qPc = "ended" /\ ~qRaised /\ ~qUnresolved

\* A saved answer waits for its telling only behind its form.
AnswersInv == IF qPc = "behind" THEN qSaved = qTold \cup {qForms} ELSE qSaved = qTold

QInv == CountsInv /\ ResolvedInv /\ AnswersInv

LEMMA QuestionsInit == ASSUME Q!Init PROVE QInv
BY QuestionsAssumption DEF Q!Init, QInv, CountsInv, ResolvedInv, AnswersInv

LEMMA ModelKeeps ==
  ASSUME QInv, (\E b \in BOOLEAN : Q!Prose(b)) \/ (\E calls \in Q!Replies, short \in BOOLEAN : Q!Reply(calls, short))
  PROVE  QInv'
<1> USE DEF QInv, CountsInv, ResolvedInv, AnswersInv
<1>1. ASSUME NEW b \in BOOLEAN, Q!Prose(b) PROVE QInv'
  <2>1. CASE qInput
    BY <1>1, <2>1 DEF Q!Prose
  <2>2. CASE ~qInput /\ Q!Repair(b) = "proceed"
    BY <1>1, <2>2 DEF Q!Prose, Q!Repair, Q!Ends
  <2>3. CASE ~qInput /\ Q!Repair(b) = "repair"
    BY <1>1, <2>3 DEF Q!Prose, Q!Repair, Q!Ends
  <2>4. CASE ~qInput /\ Q!Repair(b) \notin {"proceed", "repair"}
    BY <1>1, <2>4 DEF Q!Prose, Q!Ends
  <2> QED
    BY <2>1, <2>2, <2>3, <2>4
<1>2. ASSUME NEW calls \in Q!Replies, NEW short \in BOOLEAN, Q!Reply(calls, short) PROVE QInv'
  BY <1>2 DEF Q!Reply
<1> QED
  BY <1>1, <1>2

LEMMA BatchKeeps == ASSUME QInv, Q!Skip \/ Q!Truncated \/ Q!Call PROVE QInv'
<1> USE DEF QInv, CountsInv, ResolvedInv, AnswersInv
<1>1. CASE Q!Skip
  BY <1>1 DEF Q!Skip, Q!Resulted, Q!counters
<1>2. CASE Q!Truncated
  <2>1. qPc' = "calls" /\ qPc = "calls" /\ UNCHANGED <<qSaved, qTold, qForms, qOutcome>>
    BY <1>2 DEF Q!Truncated, Q!Resulted
  <2>2. qTimes' \in {qTimes, qTimes + 1} /\ qTimes' <= MaxAsks
    <3>1. qTimes' = IF Q!Refuses THEN qTimes ELSE Q!Counted
      BY <1>2 DEF Q!Truncated
    <3> QED
      BY <3>1, QuestionsAssumption DEF Q!Refuses, Q!Counted
  <2>3. (qRepairs = IF qRepaired THEN 1 ELSE 0)'
    BY <1>2 DEF Q!Truncated, Q!Returned
  <2> QED
    BY <2>1, <2>2, <2>3, QuestionsAssumption
<1>3. CASE Q!Call
  <2>1. qPc' \in {"calls", "form"} /\ qPc = "calls" /\ UNCHANGED <<qSaved, qTold, qOutcome>>
    BY <1>3 DEF Q!Call, Q!Resulted
  <2>2. /\ qTimes' \in {qTimes, qTimes + 1} /\ qTimes' <= MaxAsks
        /\ qForms' = qForms \/ (qForms' = qForms + 1 /\ qTimes' = qTimes + 1)
    <3>1. \/ UNCHANGED <<qTimes, qForms>>
          \/ /\ ~Q!Refuses /\ Head(qBatch) # "work" /\ qTimes' = Q!Counted
             /\ qForms' \in {qForms, qForms + 1}
      BY <1>3 DEF Q!Call, Q!counters
    <3> QED
      BY <3>1, QuestionsAssumption DEF Q!Refuses, Q!Counted
  <2>3. (qRepairs = IF qRepaired THEN 1 ELSE 0)'
    <3>1. UNCHANGED <<qRepaired, qRepairs>> \/ Q!Returned(TRUE, qTimes', FALSE)
      BY <1>3 DEF Q!Call, Q!counters
    <3> QED
      BY <3>1 DEF Q!Returned
  <2> QED
    BY <2>1, <2>2, <2>3, QuestionsAssumption
<1> QED
  BY <1>1, <1>2, <1>3

LEMMA FormKeeps == ASSUME QInv, Q!Submit \/ Q!Cancel \/ Q!Behind PROVE QInv'
<1> USE DEF QInv, CountsInv, ResolvedInv, AnswersInv
<1>1. CASE Q!Submit
  BY <1>1 DEF Q!Submit, Q!Ends, Q!counters
<1>2. CASE Q!Cancel
  BY <1>2 DEF Q!Cancel, Q!Resulted, Q!Returned
<1>3. CASE Q!Behind
  <2>1. /\ qPc = "behind" /\ qPc' = "calls" /\ qTold' = qTold \cup {qForms} /\ UNCHANGED <<qTimes, qSaved, qForms, qOutcome>>
        /\ Q!Returned(FALSE, qTimes, FALSE) \/ UNCHANGED <<qRepaired, qRepairs>>
    BY <1>3 DEF Q!Behind, Q!Resulted, Q!Kept, Q!counters
  <2>2. (qRepairs = IF qRepaired THEN 1 ELSE 0)'
    BY <2>1 DEF Q!Returned
  <2> QED
    BY <2>1, <2>2
<1> QED
  BY <1>1, <1>2, <1>3

LEMMA TurnEndKeeps == ASSUME QInv, Q!AfterCalls \/ Q!Input \/ Q!Stop \/ Q!Interrupted PROVE QInv'
<1> USE DEF QInv, CountsInv, ResolvedInv, AnswersInv, Q!counters
<1>1. CASE Q!AfterCalls
  <2>1. /\ UNCHANGED <<Q!counters, qSaved, qTold, qForms>> /\ qPc = "calls"
        /\ \/ Q!Ends("aborted") \/ Q!Ends("incomplete")
           \/ ~qUnresolved /\ qPc' = "model" /\ UNCHANGED qOutcome
    BY <1>1 DEF Q!AfterCalls
  <2> QED
    BY <2>1 DEF Q!Ends
<1>2. CASE Q!Input
  BY <1>2 DEF Q!Input
<1>3. CASE Q!Stop
  BY <1>3 DEF Q!Stop
<1>4. CASE Q!Interrupted
  BY <1>4 DEF Q!Interrupted, Q!Ends
<1> QED
  BY <1>1, <1>2, <1>3, <1>4

LEMMA QuestionsStep == ASSUME QInv, [Q!Next]_Q!vars PROVE QInv'
<1>1. CASE UNCHANGED Q!vars
  BY <1>1 DEF Q!vars, QInv, CountsInv, ResolvedInv, AnswersInv
<1>2. CASE Q!Next
  BY <1>2, ModelKeeps, BatchKeeps, FormKeeps, TurnEndKeeps DEF Q!Next
<1> QED
  BY <1>1, <1>2

\* Only a call runs a tool.
LEMMA OnlyCallsRun == ASSUME Q!Next, qRan' PROVE ~qRepairing /\ ~qBoundary
<1>1. CASE Q!Call
  BY <1>1 DEF Q!Call, Q!Refuses, Q!Skips
<1>2. CASE ~Q!Call
  BY <1>2 DEF Q!Next, Q!Prose, Q!Reply, Q!Skip, Q!Truncated, Q!Submit, Q!Cancel, Q!Behind, Q!AfterCalls, Q!Input, Q!Stop, Q!Interrupted
<1> QED
  BY <1>1, <1>2

\* A step of the session is one of its questions' or leaves them alone.
LEMMA QuestionsMove == [Next]_vars => [Q!Next]_Q!vars
BY DEF Next, vars, QVars, Q!vars

\* Whatever the model sends and the operator does, forms and repairs are bounded,
\* a completed run dropped no question, a saved answer is told by the run's end,
\* and no tool runs while a question is repaired or after one in its reply.
\* (loop.ts: questionHost, questionAttempt, questionReturned, repairQuestion.)
THEOREM QuestionsAreSettled == Spec => QuestionsAreSafe
<1>1. Init => QInv
  BY QuestionsInit DEF Init
<1>2. QInv /\ [Next]_vars => QInv'
  BY QuestionsStep, QuestionsMove
<1>3. QInv => Q!QuestionsAreBounded /\ Q!NoQuestionIsDropped /\ Q!SavedAnswersAreTold
  BY QuestionsAssumption DEF QInv, CountsInv, ResolvedInv, AnswersInv, Q!QuestionsAreBounded,
     Q!NoQuestionIsDropped, Q!SavedAnswersAreTold
<1>4. [Next]_vars => [qRan' => ~qRepairing /\ ~qBoundary]_Q!vars
  BY OnlyCallsRun, QuestionsMove
<1> QED
  BY <1>1, <1>2, <1>3, <1>4, PTL DEF Spec, QuestionsAreSafe, Q!Safety, Q!QuestionsGoFirst
-----------------------------------------------------------------------------
(* The types of Calls and Questions, which their safety did not need.       *)

\* A call that ended gave something, no other did; what the operator stopped
\* and the floor refused in are runs that began.
CTypes ==
  /\ cMode \in Modes /\ cNext <= 4 /\ \A id \in C!Ids : (cAt[id] = "given") = (cGave[id] # "none")
  /\ cStopped \subseteq 1 .. cRun /\ cLeft \subseteq C!Ids /\ cAllowed \subseteq Kinds /\ cRefused \subseteq 1 .. cRun
  /\ cSeen \in [C!Ids -> Modes \cup {"none"}]

LEMMA CallTypesInit == ASSUME C!Init PROVE CTypes
BY DEF C!Init, CTypes

\* The session's own steps.
LEMMA RunTypesKeep ==
  ASSUME CInv, CTypes, C!Request \/ C!Take \/ C!Record \/ C!Stop \/ C!Grace \/ C!Rest \/ C!End \/ C!Switch
  PROVE  CTypes'
<1>1. CASE C!Request
  BY <1>1 DEF C!Request, CInv, CTyped, CTypes
<1>2. CASE C!Take \/ C!Record \/ C!Grace
  <2>1. C!Current \in C!Ids /\ C!Current[1] = cRun /\ C!Current[2] = cNext
    BY <1>2, CurrentIsACall DEF C!Take, C!Record, C!Grace, CInv
  <2>2. cNext <= 3 /\ cNext \in Nat
    <3>1. PICK c \in C!Ids : c[2] = cNext
      BY <2>1
    <3> QED
      BY <3>1, CallsAre
  <2>3. cNext' <= 4 /\ UNCHANGED <<cMode, cRun, cGave, cStopped, cAllowed, cRefused>>
    BY <1>2, <2>2 DEF C!Take, C!Record, C!Grace
  <2>4. cLeft' \subseteq C!Ids
    BY <1>2, <2>1 DEF C!Take, C!Record, C!Grace, CTypes
  <2>5. \A id \in C!Ids : (cAt'[id] = "given") = (cAt[id] = "given")
    BY <1>2, <2>1 DEF C!Take, C!Record, C!Grace, CInv, CTyped
  <2>6. cSeen' \in [C!Ids -> Modes \cup {"none"}]
    BY <1>2, <2>1 DEF C!Take, C!Record, C!Grace, CTypes
  <2> QED
    BY <2>3, <2>4, <2>5, <2>6 DEF CTypes
<1>3. CASE C!Rest
  <2>1. C!Current \in C!Ids /\ C!Current[1] = cRun
    BY <1>3, CurrentIsACall DEF C!Rest, CInv
  <2>2. Size[cRun] \in 1 .. 3
    BY <2>1, CallsAre, CallsAssumption DEF C!Runs
  <2> QED
    BY <1>3, <2>2 DEF C!Rest, CTypes
<1>4. CASE C!Stop
  BY <1>4 DEF C!Stop, CInv, CTyped, CTypes
<1>5. CASE C!End \/ C!Switch
  BY <1>5 DEF C!End, C!Switch, CTypes
<1> QED
  BY <1>1, <1>2, <1>3, <1>4, <1>5

\* A call's own steps: it gives something as it ends, and only then.
LEMMA CallTypesKeep ==
  ASSUME CInv, CTypes, NEW id \in C!Ids, C!Judged(id) \/ C!Answered(id) \/ C!Hooked(id) \/ C!Opened(id) \/ C!Reported(id)
  PROVE  CTypes'
<1>1. /\ UNCHANGED <<cMode, cRun, cNext, cStopped, cLeft>> /\ cAt[id] \notin {"none", "given"}
      /\ \/ \E where \in {"asking", "before", "opening", "executing"} : C!GoesOn(id, where)
         \/ \E what \in {"ran", "refused", "stopped"} : C!Gives(id, what)
  <2>1. CASE C!Judged(id)
    BY <2>1 DEF C!Judged
  <2>2. CASE C!Answered(id)
    BY <2>2 DEF C!Answered
  <2>3. CASE C!Hooked(id)
    BY <2>3 DEF C!Hooked
  <2>4. CASE C!Opened(id) \/ C!Reported(id)
    BY <2>4 DEF C!Opened, C!Reported
  <2> QED
    BY <2>1, <2>2, <2>3, <2>4
<1>2. \A d \in C!Ids : (cAt'[d] = "given") = (cGave'[d] # "none")
  <2>1. \A d \in C!Ids : (cAt[d] = "given") = (cGave[d] # "none")
    BY DEF CTypes
  <2>2. ASSUME NEW where \in {"asking", "before", "opening", "executing"}, C!GoesOn(id, where)
        PROVE  \A d \in C!Ids : (cAt'[d] = "given") = (cGave'[d] # "none")
    BY <1>1, <2>1, <2>2 DEF C!GoesOn, CInv, CTyped
  <2>3. ASSUME NEW what \in {"ran", "refused", "stopped"}, C!Gives(id, what)
        PROVE  \A d \in C!Ids : (cAt'[d] = "given") = (cGave'[d] # "none")
    BY <1>1, <2>1, <2>3 DEF C!Gives, CInv, CTyped
  <2> QED
    BY <1>1, <2>2, <2>3
<1>3. id[1] \in 1 .. cRun /\ cKind[id] \in Kinds
  BY <1>1, CallsAre DEF CInv, CTyped, BegunInv
<1>4. cAllowed' \in {cAllowed, cAllowed \cup {cKind[id]}} /\ cRefused' \in {cRefused, cRefused \cup {id[1]}}
  <2>1. CASE C!Judged(id)
    BY <2>1 DEF C!Judged
  <2>2. CASE C!Answered(id)
    BY <2>2 DEF C!Answered
  <2>3. CASE C!Hooked(id) \/ C!Opened(id) \/ C!Reported(id)
    BY <2>3 DEF C!Hooked, C!Opened, C!Reported
  <2> QED
    BY <2>1, <2>2, <2>3
<1>5. cSeen' \in [C!Ids -> Modes \cup {"none"}]
  BY DEF C!Judged, C!Answered, C!Hooked, C!Opened, C!Reported, CTypes
<1> QED
  BY <1>1, <1>2, <1>3, <1>4, <1>5 DEF CTypes

LEMMA CallTypes == ASSUME CInv, CTypes PROVE C!TypeOK
BY DEF CInv, CTyped, CTypes, C!TypeOK

LEMMA CallTypesStep == ASSUME CInv, CTypes, [Next]_vars PROVE CTypes'
<1>1. CASE UNCHANGED C!vars
  BY <1>1 DEF C!vars, CTypes
<1>2. CASE C!Next
  BY <1>2, RunTypesKeep, CallTypesKeep DEF C!Next, C!Advance
<1> QED
  BY <1>1, <1>2, CallsMove

-----------------------------------------------------------------------------
\* What the engine notes of a request.
QFlags ==
  /\ qCut \in BOOLEAN /\ qBoundary \in BOOLEAN /\ qRepaired \in BOOLEAN /\ qRepairing \in BOOLEAN
  /\ qUnresolved \in BOOLEAN /\ qRaised \in BOOLEAN /\ qInput \in BOOLEAN /\ qRan \in BOOLEAN /\ qStopped \in BOOLEAN

\* A saved answer is one of a form that was shown, and at a form or behind one
\* there was one, of a call in hand; a request has its outcome once it ended.
QTypes ==
  /\ qPc \in {"model", "calls", "form", "behind", "ended"} /\ qReplies \in 0 .. MaxReplies /\ qBatch \in Seq(Q!Calls)
  /\ qSaved \subseteq 1 .. qForms /\ qTold \subseteq qSaved
  /\ qOutcome \in {"none", "completed", "incomplete", "error", "aborted"} /\ (qOutcome # "none") = (qPc = "ended")
  /\ qPc \in {"form", "behind"} => qForms >= 1 /\ qBatch # <<>>

LEMMA QuestionTypesInit == ASSUME Q!Init PROVE QTypes /\ QFlags
<1>1. QTypes
  BY QuestionsAssumption DEF Q!Init, QTypes
<1>2. QFlags
  BY Zenon DEF Q!Init, QFlags
<1> QED
  BY <1>1, <1>2

LEMMA RestOfBatch == ASSUME qBatch \in Seq(Q!Calls), qBatch # <<>> PROVE Tail(qBatch) \in Seq(Q!Calls)
OBVIOUS

LEMMA QuestionTypesStep == ASSUME QInv, QTypes, [Q!Next]_Q!vars PROVE QTypes'
<1> USE DEF QTypes
<1>0. qForms \in Nat /\ qForms' \in {qForms, qForms + 1}
  <2>1. qForms \in Nat
    BY QuestionsAssumption DEF QInv, CountsInv
  <2>2. qForms' \in {qForms, qForms + 1}
    BY DEF Q!Next, Q!Prose, Q!Reply, Q!Skip, Q!Truncated, Q!Call, Q!Submit, Q!Cancel, Q!Behind, Q!AfterCalls, Q!Input, Q!Stop, Q!Interrupted, Q!vars
  <2> QED
    BY <2>1, <2>2
<1>1. CASE UNCHANGED Q!vars
  BY <1>1 DEF Q!vars
<1>2. ASSUME NEW b \in BOOLEAN, Q!Prose(b) PROVE QTypes'
  BY <1>2, QuestionsAssumption DEF Q!Prose, Q!Ends
<1>3. ASSUME NEW calls \in Q!Replies, NEW short \in BOOLEAN, Q!Reply(calls, short) PROVE QTypes'
  <2>1. PICK n \in 1 .. 2 : calls \in [1 .. n -> Q!Calls]
    BY DEF Q!Replies
  <2>2. calls \in Seq(Q!Calls)
    BY <2>1
  <2> QED
    BY <1>3, <2>2, QuestionsAssumption DEF Q!Reply
<1>4. CASE Q!Skip
  BY <1>4, RestOfBatch DEF Q!Skip, Q!Resulted, Q!counters
<1>5. CASE Q!Truncated
  BY <1>5, RestOfBatch DEF Q!Truncated, Q!Resulted, Q!Returned
<1>6. CASE Q!Call
  BY <1>0, <1>6, RestOfBatch DEF Q!Call, Q!Resulted, Q!Returned, Q!counters
<1>7. CASE Q!Submit
  <2>1. UNCHANGED <<qReplies, qBatch, qTold, qForms>> /\ qPc = "form"
    BY <1>7 DEF Q!Submit
  <2>2. \/ qPc' = "behind" /\ qSaved' = qSaved \cup {qForms} /\ UNCHANGED qOutcome
        \/ qPc' = "ended" /\ qOutcome' = "error" /\ UNCHANGED qSaved
    BY <1>7 DEF Q!Submit, Q!Ends
  <2>3. qSaved' \subseteq 1 .. qForms /\ qTold \subseteq qSaved'
    <3>1. qForms \in 1 .. qForms /\ qSaved \subseteq 1 .. qForms /\ qTold \subseteq qSaved
      BY <1>0, <2>1
    <3>2. qSaved' = qSaved \/ qSaved' = qSaved \cup {qForms}
      BY <2>2
    <3> QED
      BY <3>1, <3>2, Zenon
  <2> QED
    BY <2>1, <2>2, <2>3
<1>8. CASE Q!Cancel
  BY <1>8, RestOfBatch DEF Q!Cancel, Q!Resulted, Q!Returned
<1>9. CASE Q!Behind
  BY <1>0, <1>9, RestOfBatch DEF Q!Behind, Q!Resulted, Q!Returned, Q!counters, Q!Kept, QInv, AnswersInv
<1>10. CASE Q!AfterCalls
  BY <1>10 DEF Q!AfterCalls, Q!Ends, Q!counters
<1>11. CASE Q!Input \/ Q!Stop \/ Q!Interrupted
  <2>1. CASE Q!Input \/ Q!Stop
    BY <2>1 DEF Q!Input, Q!Stop
  <2>2. CASE Q!Interrupted
    BY <2>2 DEF Q!Interrupted, Q!Ends, Q!counters
  <2> QED
    BY <1>11, <2>1, <2>2
<1> QED
  BY <1>1, <1>2, <1>3, <1>4, <1>5, <1>6, <1>7, <1>8, <1>9, <1>10, <1>11 DEF Q!Next

LEMMA QuestionFlagsStep == ASSUME QFlags, [Q!Next]_Q!vars PROVE QFlags'
<1> USE DEF QFlags
<1>1. CASE UNCHANGED Q!vars
  BY <1>1, Zenon DEF Q!vars
<1>2. ASSUME NEW b \in BOOLEAN, Q!Prose(b) PROVE QFlags'
  BY <1>2 DEF Q!Prose
<1>3. ASSUME NEW calls \in Q!Replies, NEW short \in BOOLEAN, Q!Reply(calls, short) PROVE QFlags'
  BY <1>3 DEF Q!Reply
<1>4. ASSUME Q!Resulted PROVE qBoundary' \in BOOLEAN
  BY <1>4, Zenon DEF Q!Resulted
<1>5. ASSUME NEW e \in BOOLEAN, NEW n, NEW was \in BOOLEAN, Q!Returned(e, n, was)
      PROVE  qRepaired' \in BOOLEAN /\ qRepairing' \in BOOLEAN /\ qUnresolved' \in BOOLEAN /\ qRaised' \in BOOLEAN
  BY <1>5 DEF Q!Returned
<1>6. Q!Refuses \in BOOLEAN
  BY Zenon DEF Q!Refuses
<1>7. CASE Q!Skip
  BY <1>4, <1>7, Zenon DEF Q!Skip, Q!counters
<1>8. CASE Q!Truncated
  BY <1>4, <1>5, <1>6, <1>8, Zenon DEF Q!Truncated
<1>9. CASE Q!Call
  BY <1>4, <1>5, <1>9, Zenon DEF Q!Call, Q!counters
<1>10. CASE Q!Submit
  BY <1>10, Zenon DEF Q!Submit, Q!counters
<1>11. CASE Q!Cancel
  BY <1>4, <1>5, <1>11, Zenon DEF Q!Cancel
<1>12. CASE Q!Behind
  BY <1>4, <1>5, <1>12, Zenon DEF Q!Behind, Q!counters
<1>13. CASE Q!AfterCalls
  BY <1>13, Zenon DEF Q!AfterCalls, Q!counters
<1>14. CASE Q!Input \/ Q!Stop \/ Q!Interrupted
  BY <1>14, Zenon DEF Q!Input, Q!Stop, Q!Interrupted, Q!counters
<1> QED
  BY <1>1, <1>2, <1>3, <1>7, <1>8, <1>9, <1>10, <1>11, <1>12, <1>13, <1>14 DEF Q!Next

LEMMA QuestionTypes == ASSUME QInv, QTypes, QFlags PROVE Q!TypeOK
<1>1. qTimes \in Nat /\ qForms \in Nat /\ qRepairs \in Nat
  BY QuestionsAssumption DEF QInv, CountsInv
<1>2. {qCut, qBoundary, qRepaired, qRepairing, qUnresolved, qRaised, qInput, qRan, qStopped} \subseteq BOOLEAN
  BY Zenon DEF QFlags
<1> QED
  BY <1>1, <1>2 DEF QTypes, Q!TypeOK
=============================================================================
