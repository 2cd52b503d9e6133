----------------------------- MODULE MCEvidence -----------------------------
(***************************************************************************)
(* What the gate's evidence rests on and what keeps the work and accounts  *)
(* it is for, each over its own variables.  `part' says which one a        *)
(* behaviour follows; the variables of the others stay 0, so that one run  *)
(* takes the sum of their spaces.                                          *)
(***************************************************************************)
EXTENDS Integers, Sequences, FiniteSets

VARIABLES
  part,
  rFolders, rPlain, rRequired, rItems, rWhole,
  qTree, qCommits, qSeen, qPc, qCommit, qStale, qAfter, qMoved, qStated,
  mLang, mVersion, mDeclares, mTruth, mRequest, mStopped, mPc, mCheck, mChecked, mPassed, mKept,
  tWorld, tTree, tPc, tHash, tWork, tCand, tFound, tStopped, tExpired,
  oAll, oAttempts, oRequest, oPc, oStep, oAt, oLive, oLeft, oAborted, oTold, oMet, oWaste,
  aCommits, aRefs, aOn, aAt, aTree, aClock, aEdits, aPc, aAdmitted, aExisted, aStart, aEnd, aFound,
  wKind, wBase, wNow, wGenerated, wEdits, wPc, wDiff, wListed,
  eKind, eBase, eNow, eEdits, ePc, eDiff, eFlagged, eNamed,
  pFile, pAxiom, pMerged, pPc, pStopped, pSource, pRegen, pChecked, pInfo, pUnread, pOutcome, pEvidence,
  pResult, pMoved, pEdits,
  iCache, iAsked, iConfigs, iFiles, iProof, iKnown, iLeft, iFound, iUnsure, iAsks,
  sFn, sScope, sBaseRead, sItems, sAt, sTried, sPending, sDone, sStopped,
  gAsked, gItems, gPc, gRestated, gCompared, gStatus, gReason, gOpen, gRecords, gSent, gStopped,
  kPc, kOf, kWriter, kRecord, kCheckout, kLease, kTree, kBranch, kTold, kLate, kRaced, kLost, kRemoved, kWork,
  kCrashes, kOpens,
  nAccounts, nModel, nFolders, nSignedIn, nCreds, nValid, nLock, nProc, nHeld, nOps, nHands, nCrashes,
  nSlipped, nOverlapped, nSpoiled,
  uWhose, uNow, uTicks, uMoves, uCrossed, uFile, uBy, uPhase, uAborted, uRows, uBase, uWaiting, uFresh,
  uMerged, uScreen,
  xWhere, xLimited, xPc, xAborted, xProc, xHolds, xCode, xSeen, xPrinted, xSize, xFile, xSaved, xFailed,
  xOutcome, xWaits, xExpired, xRun, xTold,
  hJournal, hSynced, hLive, hRuns, hReply, hAnswered, hSaving, hHeard, hRepeated,
  bDay, bEdits, bCrashes, bFile, bLarge, bStore, bCommits, bLock, bPc, bStopped, bTakes, bUnit, bNamed, bFound,
  bSince, bHad

\* The items a receipt's folders may record: one repository's all, and two with fewer.
Proof(o, s, l, p) == [is |-> "proof", path |-> p, outcome |-> o, stale |-> FALSE, sent |-> s, limits |-> l]
Command(o, s, g) == [is |-> "command", outcome |-> o, stale |-> FALSE, sent |-> s, origin |-> g]
Model(r, f, s, w, d) ==
  [is |-> "model", path |-> "m", run |-> r, faults |-> f, stale |-> FALSE, sent |-> s, written |-> w, drift |-> d]
Stale(i) == [i EXCEPT !.stale = TRUE]
Exercise(s, ps, c) == [is |-> "exercise", sensitivity |-> s, sources |-> ps, current |-> c]
On(what, p) == [is |-> what, path |-> p]
ProofItems ==
  {Proof("passed", FALSE, FALSE, "a"), Proof("passed", FALSE, TRUE, "a"), Proof("failed", FALSE, FALSE, "a"),
   Proof("failed", TRUE, FALSE, "a"), Proof("vacuous", TRUE, FALSE, "a"), Proof("timed_out", FALSE, FALSE, "a"),
   Stale(Proof("not_started", FALSE, FALSE, "a")), Proof("passed", FALSE, FALSE, "b")}
CommandItems ==
  {Command("passed", FALSE, "none"), Command("failed", TRUE, "change"), Command("failed", FALSE, "unknown"),
   Command("failed", FALSE, "preexisting"), Command("timed_out", FALSE, "none"), Stale(Command("not_started", FALSE, "none"))}
ModelItems ==
  {Model("passed", {"caught"}, FALSE, FALSE, FALSE), Model("passed", {"caught", "unrun"}, FALSE, FALSE, FALSE),
   Model("passed", {"caught"}, FALSE, TRUE, FALSE), Model("passed", {"caught"}, FALSE, FALSE, TRUE),
   Model("passed", {"passes"}, TRUE, FALSE, FALSE), Model("passed", {"broken"}, TRUE, FALSE, FALSE),
   Model("passed", {}, TRUE, FALSE, FALSE), Model("violated", {}, TRUE, FALSE, FALSE), Model("malformed", {}, TRUE, FALSE, FALSE),
   Model("timed_out", {}, FALSE, FALSE, FALSE), Stale(Model("passed", {"caught"}, FALSE, FALSE, FALSE))}
ExerciseItems ==
  {Exercise("fails_then_passes", {"a"}, TRUE), Exercise("fails_then_passes", {"b"}, TRUE),
   Exercise("fails_then_passes", {"a"}, FALSE), Exercise("fails_then_passes", {}, TRUE),
   Exercise("passes_on_base", {}, FALSE), Exercise("unknown", {}, FALSE), On("changed", "a")}
OtherItems ==
  {[is |-> "contract", path |-> "a", rejected |-> n, survived |-> k] : n \in 0..1, k \in 0..1}
    \cup {[is |-> "weakening", path |-> "a", added |-> b] : b \in BOOLEAN}
    \cup {On("changed", "a"), On("changed", "b"), On("changed", "t"), On("unmeasured", "a"), On("uncovered", "a"),
          On("unheaded", "m")}
    \cup {[is |-> w] : w \in {"unknown", "unread", "unreadable", "comments"}}
Few == {Proof("passed", FALSE, FALSE, "b"), Proof("failed", TRUE, FALSE, "b"), Command("passed", FALSE, "none"),
        On("changed", "b"), On("changed", "t"), [is |-> "unread"], [is |-> "unreadable"], [is |-> "comments"]}
More == {Command("failed", FALSE, "preexisting"), Model("violated", {}, TRUE, FALSE, FALSE), [is |-> "unresolved"], On("tooLarge", "b")}
Offer(i, p, r) == [items |-> i, plain |-> p, required |-> r]
GivenOffers ==
  {Offer([f \in {"p"} |-> ProofItems \cup OtherItems], {}, "none"),
   Offer([f \in {"c"} |-> CommandItems \cup ExerciseItems \cup Few], {}, "none"),
   Offer([f \in {"m"} |-> ModelItems \cup Few], {}, "none")}
    \cup {Offer([f \in {"r"} |-> ModelItems], {}, r) : r \in {"checked", "unchecked", "changed"}}
    \cup {Offer([f \in {"x", "y"} |-> IF f = "x" THEN Few \cup More ELSE Few], {}, "none"),
          Offer([f \in {"x", "y"} |-> IF f = "x" THEN Few ELSE {}], {"y"}, "none")}
GivenWidths ==
  {[width |-> w, full |-> f, short |-> s, glyphs |-> 2, context |-> 2, place |-> p, model |-> 2, status |-> t] :
     w \in 0..26, f \in {4, 6}, s \in {2, 4}, p \in {1, 3}, t \in {0, 3}}

\* The operations of a pass: two threads that measure contracts, then a model and its faults.
Work(n, planned, parent, opinion, anyway) ==
  [name |-> n, planned |-> planned, parent |-> parent, opinion |-> opinion, anyway |-> anyway]
GivenSteps ==
  <<<<<<Work("mutation1", FALSE, "none", TRUE, FALSE), Work("mutation2", FALSE, "none", TRUE, TRUE)>>,
      <<Work("claimcheck", FALSE, "none", TRUE, FALSE)>>>>,
    <<<<Work("kept", FALSE, "none", FALSE, FALSE), Work("main", TRUE, "none", FALSE, FALSE), Work("fault", TRUE, "main", FALSE, FALSE)>>>>>>

\* The contents of a file that is proved, the functions whose contracts are measured, the chains
\* of requests judged, an operator's own folder, and shares left at and beside every edge.
Specified(t, o, a) == [text |-> t, owner |-> o, attached |-> a]
Good == [lines |-> <<Specified("r", "f", TRUE), Specified("e", "g", TRUE)>>, skip |-> {}, verify |-> {}, abstract |-> {},
         assume |-> FALSE, holds |-> TRUE]
GivenVersions ==
  {Good, [Good EXCEPT !.lines = <<Specified("r", "f", TRUE), Specified("r", "f", FALSE)>>],
   [Good EXCEPT !.lines = <<Specified("r", "f", TRUE), Specified("e", "none", FALSE)>>],
   [Good EXCEPT !.lines = <<Specified("r", "f", FALSE)>>], [Good EXCEPT !.skip = {"g"}], [Good EXCEPT !.verify = {"f"}],
   [Good EXCEPT !.abstract = {"g"}], [Good EXCEPT !.assume = TRUE], [Good EXCEPT !.holds = FALSE], [Good EXCEPT !.lines = <<>>]}
Measured(b, n, p, r, s) == [base |-> b, now |-> n, plain |-> p, recursive |-> r, sites |-> s]
GivenKinds ==
  {Measured("none", "a", TRUE, FALSE, <<2, 1, 0>>), Measured("a", "b", TRUE, TRUE, <<1, 0, 2>>),
   Measured("a", "a", TRUE, FALSE, <<1, 1, 0>>), Measured("a", "none", TRUE, FALSE, <<1, 0, 0>>),
   Measured("b", "a", FALSE, FALSE, <<3, 0, 0>>), Measured("a", "b", TRUE, FALSE, <<0, 0, 0>>)}
GivenNames == <<"f", "g">>
GivenOperators == <<"result", "comparison", "logical">>
Asked(size, refs) == [size |-> size, refs |-> refs]
GivenRequests ==
  {<<>>, <<Asked(2, <<1>>), Asked(1, <<2, 2, 1>>)>>,
   <<Asked(1, <<>>), Asked(2, <<1, 1, 1, 1>>), Asked(1, <<0>>)>>, <<Asked(1, <<3, 1>>), Asked(9, <<>>)>>}
GivenFolders == {<<"by", "hand">>}
GivenLefts ==
  {-1, 0, 1, 4, 5, 9, 10, 500, 1000, 25000, 49999, 50000, 74999, 75000, 75001, 99000, 99989, 99994, 99995, 99999, 100000, 100001}
Asserted(subject, not, matcher, args) == [subject |-> subject, not |-> not, check |-> [matcher |-> matcher, args |-> args]]
GivenItems ==
  {Asserted("s", FALSE, "toBe", <<"1">>), Asserted("s", TRUE, "toBe", <<"1">>), Asserted("s", FALSE, "toBeTruthy", <<>>),
   Asserted("t", FALSE, "toBe", <<"1">>)}

\* Task lists: within the bounds at each of them, empty, and with two in progress; a file of
\* a session with a link that names no earlier run, and a result whose call it does not hold.
ListOf(inProgress, blank, longest, bytes) == [inProgress |-> inProgress, blank |-> blank, longest |-> longest, bytes |-> bytes]
Filled == ListOf(1, 0, 1024, 16384)
NoTasks == ListOf(0, 0, 0, 12)
Twofold == ListOf(2, 0, 10, 100)
GivenLists == {Filled, NoTasks, Twofold}
Call(id, list) == [id |-> id, list |-> list]
GivenReplies ==
  {<<Call("c", Filled)>>, <<Call("c", NoTasks)>>, <<Call("c", Twofold), Call("d", Filled)>>,
   <<Call("c", Filled), Call("d", NoTasks)>>, <<Call("c", Twofold), Call("c", Filled)>>}
Misled == <<[type |-> "request", run |-> 1], [type |-> "continues", run |-> 1, parent |-> 1]>>
GivenJournals == {<<>>, Append(Misled, [type |-> "result", run |-> 1, id |-> "c", error |-> FALSE])}

\* The units of two sessions' folders: one they share beside a repository, and one of each.
SharedUnits == [t \in {"s", "t"} |-> IF t = "s" THEN <<"a", "r">> ELSE <<"a">>]
OtherUnits == [t \in {"s", "t"} |-> IF t = "s" THEN <<"a">> ELSE <<"b">>]

F == INSTANCE Receipt WITH
  Offers <- GivenOffers, MaxItems <- 3, Widths <- GivenWidths, folders <- rFolders, plain <- rPlain,
  required <- rRequired, items <- rItems, whole <- rWhole
Q == INSTANCE PullRequest WITH
  Contents <- {0, 1}, MaxCommit <- 1, tree <- qTree, commits <- qCommits, seen <- qSeen, pc <- qPc, commit <- qCommit,
  stale <- qStale, after <- qAfter, moved <- qMoved, stated <- qStated
M == INSTANCE ModelCheck WITH
  Truths <- {"holds", "violates", "deadlocks", "unreadable"}, MaxVersion <- 1, MaxRequest <- 2, lang <- mLang,
  version <- mVersion, declares <- mDeclares, truth <- mTruth, request <- mRequest, stopped <- mStopped, pc <- mPc,
  check <- mCheck, checked <- mChecked, passed <- mPassed, kept <- mKept
T == INSTANCE TestRung WITH
  Elsewhere <- {"never", "always", "needs_s1"}, Behaviors <- {"never", "needs_s1", "loads_s1", "breaks", "skips"},
  Uncovered <- FALSE, world <- tWorld, tree <- tTree, pc <- tPc, hash <- tHash, work <- tWork, cand <- tCand,
  found <- tFound, stopped <- tStopped, expired <- tExpired
O == INSTANCE Operations WITH
  Steps <- GivenSteps, MaxPass <- 2, MaxRun <- 2, all <- oAll, attempts <- oAttempts, request <- oRequest, pc <- oPc,
  step <- oStep, at <- oAt, live <- oLive, left <- oLeft, aborted <- oAborted, told <- oTold, met <- oMet,
  waste <- oWaste
A == INSTANCE Attribution WITH
  Paths <- {"p", "q"}, Contents <- {0, 1, 2, 9}, Big <- {9}, MaxCommit <- 3, MaxEdit <- 2, MaxTime <- 1,
  commits <- aCommits, refs <- aRefs, on <- aOn, at <- aAt, tree <- aTree, clock <- aClock, edits <- aEdits, pc <- aPc,
  admitted <- aAdmitted, existed <- aExisted, start <- aStart, end <- aEnd, found <- aFound
W == INSTANCE Weakening WITH
  Units <- {"f", "g"}, MaxBase <- 3, MaxLines <- 3, MaxEdit <- 2, kind <- wKind, base <- wBase, now <- wNow,
  generated <- wGenerated, edits <- wEdits, pc <- wPc, diff <- wDiff, listed <- wListed
E == INSTANCE TestEdits WITH
  Tests <- {"A", "B"}, Items <- GivenItems, Words <- {"f", "expect"}, MaxLines <- 3, MaxTokens <- 3, MaxEdit <- 2,
  kind <- eKind, base <- eBase, now <- eNow, edits <- eEdits, pc <- ePc, diff <- eDiff, flagged <- eFlagged,
  named <- eNamed
P == INSTANCE Proofs WITH
  Functions <- {"f", "g"}, Nobody <- "none", Versions <- GivenVersions, MaxEdit <- 2, file <- pFile, axiom <- pAxiom,
  merged <- pMerged, pc <- pPc, stopped <- pStopped, source <- pSource, regen <- pRegen, checked <- pChecked,
  info <- pInfo, unread <- pUnread, outcome <- pOutcome, evidence <- pEvidence, result <- pResult, moved <- pMoved,
  edits <- pEdits
I == INSTANCE Inspections WITH
  Sources <- {"x", "y"}, Askers <- {"a1", "a2"}, CacheLimit <- 1, MaxAsk <- 0, Dirs <- {"a", "p"}, Hidden <- {"p"},
  MaxDepth <- 2, MaxFiles <- 2, cache <- iCache, asked <- iAsked, configs <- iConfigs, files <- iFiles,
  proof <- iProof, known <- iKnown, left <- iLeft, found <- iFound, unsure <- iUnsure, asks <- iAsks
C == INSTANCE Inspections WITH
  Sources <- {"x", "y", "z"}, Askers <- {"a1", "a2", "a3"}, CacheLimit <- 2, MaxAsk <- 5, Dirs <- {}, Hidden <- {},
  MaxDepth <- 0, MaxFiles <- 2, cache <- iCache, asked <- iAsked, configs <- iConfigs, files <- iFiles,
  proof <- iProof, known <- iKnown, left <- iLeft, found <- iFound, unsure <- iUnsure, asks <- iAsks
S == INSTANCE Strength WITH
  Names <- GivenNames, Operators <- GivenOperators, Kinds <- GivenKinds, Limit <- 2, fn <- sFn, scope <- sScope,
  baseRead <- sBaseRead, items <- sItems, at <- sAt, tried <- sTried, pending <- sPending, done <- sDone,
  stopped <- sStopped
G == INSTANCE Judgments WITH
  Requests <- GivenRequests, Capacity <- 7, Allowance <- 1, MaxItems <- 1, MaxRefs <- 2, MaxBytes <- 3,
  Units <- {"u", "w"}, asked <- gAsked, items <- gItems, pc <- gPc, restated <- gRestated, compared <- gCompared,
  status <- gStatus, reason <- gReason, open <- gOpen, records <- gRecords, sent <- gSent, stopped <- gStopped
K == INSTANCE Workspace WITH
  Processes <- {"p1", "p2"}, Sessions <- {"s", "t"}, Nobody <- "nobody", InGit <- TRUE, MaxWork <- 1, MaxCrash <- 1,
  MaxOpen <- 3, pc <- kPc, of <- kOf, writer <- kWriter, record <- kRecord, checkout <- kCheckout, lease <- kLease,
  tree <- kTree, branch <- kBranch, told <- kTold, late <- kLate, raced <- kRaced, lost <- kLost, removed <- kRemoved,
  work <- kWork, crashes <- kCrashes, opens <- kOpens
N == INSTANCE Accounts WITH
  Processes <- {"p1", "p2"}, Claude <- {"x", "y"}, Chatgpt <- {"g"}, Theirs <- GivenFolders, MaxOp <- 3, MaxHand <- 1,
  MaxCrash <- 1, MaxToken <- 2, accounts <- nAccounts, model <- nModel, folders <- nFolders, signedIn <- nSignedIn,
  creds <- nCreds, valid <- nValid, lock <- nLock, proc <- nProc, held <- nHeld, ops <- nOps, hands <- nHands,
  crashes <- nCrashes, slipped <- nSlipped, overlapped <- nOverlapped, spoiled <- nSpoiled
U == INSTANCE Usage WITH
  Processes <- {"p1"}, Accounts <- {1, 2}, People <- {"i", "j"}, Limitless <- {"j"}, Hour <- 1, MaxTime <- 1,
  MaxTick <- 0, MaxMove <- 1, MaxRound <- 2, Lefts <- GivenLefts, whose <- uWhose, now <- uNow, ticks <- uTicks,
  moves <- uMoves, crossed <- uCrossed, file <- uFile, by <- uBy, phase <- uPhase, aborted <- uAborted, rows <- uRows,
  base <- uBase, waiting <- uWaiting, fresh <- uFresh, merged <- uMerged, screen <- uScreen
V == INSTANCE Usage WITH
  Processes <- {"p1", "p2"}, Accounts <- {1, 2}, People <- {"i"}, Limitless <- {}, Hour <- 1, MaxTime <- 1,
  MaxTick <- 1, MaxMove <- 0, MaxRound <- 2, Lefts <- GivenLefts, whose <- uWhose, now <- uNow, ticks <- uTicks,
  moves <- uMoves, crossed <- uCrossed, file <- uFile, by <- uBy, phase <- uPhase, aborted <- uAborted, rows <- uRows,
  base <- uBase, waiting <- uWaiting, fresh <- uFresh, merged <- uMerged, screen <- uScreen
X == INSTANCE Processes WITH
  Kids <- {"k"}, Platforms <- {"posix", "job", "taskkill"}, MaxPrint <- 3, KeepChunks <- 1, SpoolAfter <- 2,
  where <- xWhere, limited <- xLimited, pc <- xPc, aborted <- xAborted, proc <- xProc, holds <- xHolds, code <- xCode,
  seen <- xSeen, printed <- xPrinted, size <- xSize, file <- xFile, saved <- xSaved, failed <- xFailed,
  outcome <- xOutcome, waits <- xWaits, expired <- xExpired, run <- xRun, told <- xTold
H == INSTANCE Tasks WITH
  Ids <- {"c", "d"}, Lists <- GivenLists, Empty <- NoTasks, Given <- GivenReplies, Journals <- GivenJournals,
  MaxRun <- 3, MaxTurn <- 2, journal <- hJournal, synced <- hSynced, live <- hLive, runs <- hRuns, reply <- hReply,
  answered <- hAnswered, saving <- hSaving, heard <- hHeard, repeated <- hRepeated
B == INSTANCE Snapshots WITH
  Takers <- {"s", "t"}, Folders <- {"a"}, Repositories <- {"r"}, Large <- {"a"}, Units <- SharedUnits, Kept <- 1,
  MaxDay <- 1, MaxEdit <- 1, MaxTake <- 3, MaxCrash <- 1, day <- bDay, edits <- bEdits, crashes <- bCrashes,
  file <- bFile, large <- bLarge, store <- bStore, commits <- bCommits, lock <- bLock, pc <- bPc, stopped <- bStopped,
  takes <- bTakes, unit <- bUnit, named <- bNamed, found <- bFound, since <- bSince, had <- bHad
D == INSTANCE Snapshots WITH
  Takers <- {"s", "t"}, Folders <- {"a", "b"}, Repositories <- {}, Large <- {}, Units <- OtherUnits, Kept <- 1,
  MaxDay <- 3, MaxEdit <- 0, MaxTake <- 3, MaxCrash <- 1, day <- bDay, edits <- bEdits, crashes <- bCrashes,
  file <- bFile, large <- bLarge, store <- bStore, commits <- bCommits, lock <- bLock, pc <- bPc, stopped <- bStopped,
  takes <- bTakes, unit <- bUnit, named <- bNamed, found <- bFound, since <- bSince, had <- bHad

RVars == <<
  rFolders, rPlain, rRequired, rItems, rWhole>>
QVars == <<
  qTree, qCommits, qSeen, qPc, qCommit, qStale, qAfter, qMoved, qStated>>
MVars == <<
  mLang, mVersion, mDeclares, mTruth, mRequest, mStopped, mPc, mCheck, mChecked, mPassed, mKept>>
TVars == <<
  tWorld, tTree, tPc, tHash, tWork, tCand, tFound, tStopped, tExpired>>
OVars == <<
  oAll, oAttempts, oRequest, oPc, oStep, oAt, oLive, oLeft, oAborted, oTold, oMet, oWaste>>
AVars == <<
  aCommits, aRefs, aOn, aAt, aTree, aClock, aEdits, aPc, aAdmitted, aExisted, aStart, aEnd, aFound>>
WVars == <<
  wKind, wBase, wNow, wGenerated, wEdits, wPc, wDiff, wListed>>
EVars == <<
  eKind, eBase, eNow, eEdits, ePc, eDiff, eFlagged, eNamed>>
PVars == <<
  pFile, pAxiom, pMerged, pPc, pStopped, pSource, pRegen, pChecked, pInfo, pUnread, pOutcome, pEvidence,
  pResult, pMoved, pEdits>>
IVars == <<
  iCache, iAsked, iConfigs, iFiles, iProof, iKnown, iLeft, iFound, iUnsure, iAsks>>
SVars == <<
  sFn, sScope, sBaseRead, sItems, sAt, sTried, sPending, sDone, sStopped>>
GVars == <<
  gAsked, gItems, gPc, gRestated, gCompared, gStatus, gReason, gOpen, gRecords, gSent, gStopped>>
KVars == <<
  kPc, kOf, kWriter, kRecord, kCheckout, kLease, kTree, kBranch, kTold, kLate, kRaced, kLost, kRemoved, kWork,
  kCrashes, kOpens>>
NVars == <<
  nAccounts, nModel, nFolders, nSignedIn, nCreds, nValid, nLock, nProc, nHeld, nOps, nHands, nCrashes,
  nSlipped, nOverlapped, nSpoiled>>
UVars == <<
  uWhose, uNow, uTicks, uMoves, uCrossed, uFile, uBy, uPhase, uAborted, uRows, uBase, uWaiting, uFresh,
  uMerged, uScreen>>
XVars == <<
  xWhere, xLimited, xPc, xAborted, xProc, xHolds, xCode, xSeen, xPrinted, xSize, xFile, xSaved, xFailed,
  xOutcome, xWaits, xExpired, xRun, xTold>>
HVars == <<
  hJournal, hSynced, hLive, hRuns, hReply, hAnswered, hSaving, hHeard, hRepeated>>
BVars == <<
  bDay, bEdits, bCrashes, bFile, bLarge, bStore, bCommits, bLock, bPc, bStopped, bTakes, bUnit, bNamed, bFound,
  bSince, bHad>>

Init ==
  /\ part \in {"receipt", "pull request", "model", "tests", "operations", "attribution", "weakening", "test edits", "proof", "search", "cache", "strength", "judgments", "workspace", "accounts", "usage", "shared usage", "processes", "tasks", "snapshots", "pruning"}
  /\ IF part = "receipt" THEN F!Init ELSE 
    /\ rFolders = 0 /\ rPlain = 0 /\ rRequired = 0 /\ rItems = 0 /\ rWhole = 0
  /\ IF part = "pull request" THEN Q!Init ELSE 
    /\ qTree = 0 /\ qCommits = 0 /\ qSeen = 0 /\ qPc = 0 /\ qCommit = 0 /\ qStale = 0 /\ qAfter = 0 /\ qMoved = 0
    /\ qStated = 0
  /\ IF part = "model" THEN M!Init ELSE 
    /\ mLang = 0 /\ mVersion = 0 /\ mDeclares = 0 /\ mTruth = 0 /\ mRequest = 0 /\ mStopped = 0 /\ mPc = 0
    /\ mCheck = 0 /\ mChecked = 0 /\ mPassed = 0 /\ mKept = 0
  /\ IF part = "tests" THEN T!Init ELSE 
    /\ tWorld = 0 /\ tTree = 0 /\ tPc = 0 /\ tHash = 0 /\ tWork = 0 /\ tCand = 0 /\ tFound = 0 /\ tStopped = 0
    /\ tExpired = 0
  /\ IF part = "operations" THEN O!Init ELSE 
    /\ oAll = 0 /\ oAttempts = 0 /\ oRequest = 0 /\ oPc = 0 /\ oStep = 0 /\ oAt = 0 /\ oLive = 0 /\ oLeft = 0
    /\ oAborted = 0 /\ oTold = 0 /\ oMet = 0 /\ oWaste = 0
  /\ IF part = "attribution" THEN A!Init ELSE 
    /\ aCommits = 0 /\ aRefs = 0 /\ aOn = 0 /\ aAt = 0 /\ aTree = 0 /\ aClock = 0 /\ aEdits = 0 /\ aPc = 0
    /\ aAdmitted = 0 /\ aExisted = 0 /\ aStart = 0 /\ aEnd = 0 /\ aFound = 0
  /\ IF part = "weakening" THEN W!Init ELSE 
    /\ wKind = 0 /\ wBase = 0 /\ wNow = 0 /\ wGenerated = 0 /\ wEdits = 0 /\ wPc = 0 /\ wDiff = 0 /\ wListed = 0
  /\ IF part = "test edits" THEN E!Init ELSE 
    /\ eKind = 0 /\ eBase = 0 /\ eNow = 0 /\ eEdits = 0 /\ ePc = 0 /\ eDiff = 0 /\ eFlagged = 0 /\ eNamed = 0
  /\ IF part = "proof" THEN P!Init ELSE 
    /\ pFile = 0 /\ pAxiom = 0 /\ pMerged = 0 /\ pPc = 0 /\ pStopped = 0 /\ pSource = 0 /\ pRegen = 0 /\ pChecked = 0
    /\ pInfo = 0 /\ pUnread = 0 /\ pOutcome = 0 /\ pEvidence = 0 /\ pResult = 0 /\ pMoved = 0 /\ pEdits = 0
  /\ IF part = "search" THEN I!Init ELSE IF part = "cache" THEN C!Init ELSE 
    /\ iCache = 0 /\ iAsked = 0 /\ iConfigs = 0 /\ iFiles = 0 /\ iProof = 0 /\ iKnown = 0 /\ iLeft = 0 /\ iFound = 0
    /\ iUnsure = 0 /\ iAsks = 0
  /\ IF part = "strength" THEN S!Init ELSE 
    /\ sFn = 0 /\ sScope = 0 /\ sBaseRead = 0 /\ sItems = 0 /\ sAt = 0 /\ sTried = 0 /\ sPending = 0 /\ sDone = 0
    /\ sStopped = 0
  /\ IF part = "judgments" THEN G!Init ELSE 
    /\ gAsked = 0 /\ gItems = 0 /\ gPc = 0 /\ gRestated = 0 /\ gCompared = 0 /\ gStatus = 0 /\ gReason = 0
    /\ gOpen = 0 /\ gRecords = 0 /\ gSent = 0 /\ gStopped = 0
  /\ IF part = "workspace" THEN K!Init ELSE 
    /\ kPc = 0 /\ kOf = 0 /\ kWriter = 0 /\ kRecord = 0 /\ kCheckout = 0 /\ kLease = 0 /\ kTree = 0 /\ kBranch = 0
    /\ kTold = 0 /\ kLate = 0 /\ kRaced = 0 /\ kLost = 0 /\ kRemoved = 0 /\ kWork = 0 /\ kCrashes = 0 /\ kOpens = 0
  /\ IF part = "accounts" THEN N!Init ELSE 
    /\ nAccounts = 0 /\ nModel = 0 /\ nFolders = 0 /\ nSignedIn = 0 /\ nCreds = 0 /\ nValid = 0 /\ nLock = 0
    /\ nProc = 0 /\ nHeld = 0 /\ nOps = 0 /\ nHands = 0 /\ nCrashes = 0 /\ nSlipped = 0 /\ nOverlapped = 0
    /\ nSpoiled = 0
  /\ IF part = "usage" THEN U!Init ELSE IF part = "shared usage" THEN V!Init ELSE 
    /\ uWhose = 0 /\ uNow = 0 /\ uTicks = 0 /\ uMoves = 0 /\ uCrossed = 0 /\ uFile = 0 /\ uBy = 0 /\ uPhase = 0
    /\ uAborted = 0 /\ uRows = 0 /\ uBase = 0 /\ uWaiting = 0 /\ uFresh = 0 /\ uMerged = 0 /\ uScreen = 0
  /\ IF part = "processes" THEN X!Init ELSE 
    /\ xWhere = 0 /\ xLimited = 0 /\ xPc = 0 /\ xAborted = 0 /\ xProc = 0 /\ xHolds = 0 /\ xCode = 0 /\ xSeen = 0
    /\ xPrinted = 0 /\ xSize = 0 /\ xFile = 0 /\ xSaved = 0 /\ xFailed = 0 /\ xOutcome = 0 /\ xWaits = 0
    /\ xExpired = 0 /\ xRun = 0 /\ xTold = 0
  /\ IF part = "tasks" THEN H!Init ELSE 
    /\ hJournal = 0 /\ hSynced = 0 /\ hLive = 0 /\ hRuns = 0 /\ hReply = 0 /\ hAnswered = 0 /\ hSaving = 0
    /\ hHeard = 0 /\ hRepeated = 0
  /\ IF part = "snapshots" THEN B!Init ELSE IF part = "pruning" THEN D!Init ELSE 
    /\ bDay = 0 /\ bEdits = 0 /\ bCrashes = 0 /\ bFile = 0 /\ bLarge = 0 /\ bStore = 0 /\ bCommits = 0 /\ bLock = 0
    /\ bPc = 0 /\ bStopped = 0 /\ bTakes = 0 /\ bUnit = 0 /\ bNamed = 0 /\ bFound = 0 /\ bSince = 0 /\ bHad = 0

Next ==
  \/ part = "receipt" /\ F!Next /\ UNCHANGED <<part, QVars, MVars, TVars, OVars, AVars, WVars, EVars, PVars, IVars, SVars, GVars, KVars, NVars, UVars, XVars, HVars, BVars>>
  \/ part = "pull request" /\ Q!Next /\ UNCHANGED <<part, RVars, MVars, TVars, OVars, AVars, WVars, EVars, PVars, IVars, SVars, GVars, KVars, NVars, UVars, XVars, HVars, BVars>>
  \/ part = "model" /\ M!Next /\ UNCHANGED <<part, RVars, QVars, TVars, OVars, AVars, WVars, EVars, PVars, IVars, SVars, GVars, KVars, NVars, UVars, XVars, HVars, BVars>>
  \/ part = "tests" /\ T!Next /\ UNCHANGED <<part, RVars, QVars, MVars, OVars, AVars, WVars, EVars, PVars, IVars, SVars, GVars, KVars, NVars, UVars, XVars, HVars, BVars>>
  \/ part = "operations" /\ O!Next /\ UNCHANGED <<part, RVars, QVars, MVars, TVars, AVars, WVars, EVars, PVars, IVars, SVars, GVars, KVars, NVars, UVars, XVars, HVars, BVars>>
  \/ part = "attribution" /\ A!Next /\ UNCHANGED <<part, RVars, QVars, MVars, TVars, OVars, WVars, EVars, PVars, IVars, SVars, GVars, KVars, NVars, UVars, XVars, HVars, BVars>>
  \/ part = "weakening" /\ W!Next /\ UNCHANGED <<part, RVars, QVars, MVars, TVars, OVars, AVars, EVars, PVars, IVars, SVars, GVars, KVars, NVars, UVars, XVars, HVars, BVars>>
  \/ part = "test edits" /\ E!Next /\ UNCHANGED <<part, RVars, QVars, MVars, TVars, OVars, AVars, WVars, PVars, IVars, SVars, GVars, KVars, NVars, UVars, XVars, HVars, BVars>>
  \/ part = "proof" /\ P!Next /\ UNCHANGED <<part, RVars, QVars, MVars, TVars, OVars, AVars, WVars, EVars, IVars, SVars, GVars, KVars, NVars, UVars, XVars, HVars, BVars>>
  \/ part = "search" /\ I!Next /\ UNCHANGED <<part, RVars, QVars, MVars, TVars, OVars, AVars, WVars, EVars, PVars, SVars, GVars, KVars, NVars, UVars, XVars, HVars, BVars>>
  \/ part = "cache" /\ C!Next /\ UNCHANGED <<part, RVars, QVars, MVars, TVars, OVars, AVars, WVars, EVars, PVars, SVars, GVars, KVars, NVars, UVars, XVars, HVars, BVars>>
  \/ part = "strength" /\ S!Next /\ UNCHANGED <<part, RVars, QVars, MVars, TVars, OVars, AVars, WVars, EVars, PVars, IVars, GVars, KVars, NVars, UVars, XVars, HVars, BVars>>
  \/ part = "judgments" /\ G!Next /\ UNCHANGED <<part, RVars, QVars, MVars, TVars, OVars, AVars, WVars, EVars, PVars, IVars, SVars, KVars, NVars, UVars, XVars, HVars, BVars>>
  \/ part = "workspace" /\ K!Next /\ UNCHANGED <<part, RVars, QVars, MVars, TVars, OVars, AVars, WVars, EVars, PVars, IVars, SVars, GVars, NVars, UVars, XVars, HVars, BVars>>
  \/ part = "accounts" /\ N!Next /\ UNCHANGED <<part, RVars, QVars, MVars, TVars, OVars, AVars, WVars, EVars, PVars, IVars, SVars, GVars, KVars, UVars, XVars, HVars, BVars>>
  \/ part = "usage" /\ U!Next /\ UNCHANGED <<part, RVars, QVars, MVars, TVars, OVars, AVars, WVars, EVars, PVars, IVars, SVars, GVars, KVars, NVars, XVars, HVars, BVars>>
  \/ part = "shared usage" /\ V!Next /\ UNCHANGED <<part, RVars, QVars, MVars, TVars, OVars, AVars, WVars, EVars, PVars, IVars, SVars, GVars, KVars, NVars, XVars, HVars, BVars>>
  \/ part = "processes" /\ X!Next /\ UNCHANGED <<part, RVars, QVars, MVars, TVars, OVars, AVars, WVars, EVars, PVars, IVars, SVars, GVars, KVars, NVars, UVars, HVars, BVars>>
  \/ part = "tasks" /\ H!Next /\ UNCHANGED <<part, RVars, QVars, MVars, TVars, OVars, AVars, WVars, EVars, PVars, IVars, SVars, GVars, KVars, NVars, UVars, XVars, BVars>>
  \/ part = "snapshots" /\ B!Next /\ UNCHANGED <<part, RVars, QVars, MVars, TVars, OVars, AVars, WVars, EVars, PVars, IVars, SVars, GVars, KVars, NVars, UVars, XVars, HVars>>
  \/ part = "pruning" /\ D!Next /\ UNCHANGED <<part, RVars, QVars, MVars, TVars, OVars, AVars, WVars, EVars, PVars, IVars, SVars, GVars, KVars, NVars, UVars, XVars, HVars>>
vars == <<part, RVars, QVars, MVars, TVars, OVars, AVars, WVars, EVars, PVars, IVars, SVars, GVars, KVars, NVars, UVars, XVars, HVars, BVars>>
Spec == Init /\ [][Next]_vars

\* A receipt reads as verified only with evidence for every changed source; its word, color, rows,
\* lines, parts, footer and pull request's statement agree; amber always says why.
ReceiptsAreTrue ==
  /\ [](part = "receipt" => F!Inv /\ F!FooterInv) /\ [][part = "receipt" => F!OnlyEvidenceCounts]_RVars
  /\ [](part = "pull request" => Q!Inv) /\ (part = "receipt" => F!StatusesAlwaysFit)

\* A pass, a failure, its origin and a test's sensitivity are of the content that stands, whatever
\* was edited, stopped or reused on the way, and what ran is told as it ran: by the process it was,
\* which a stop or a limit ends whole, and on the snapshot its request was admitted with.
ChecksShowWhatTheyRan ==
  /\ [](part = "model" => M!Inv) /\ [](part = "tests" => T!Inv)
  /\ [](part = "operations" => O!Inv) /\ [][part = "operations" => O!EndsAreFinal]_OVars
  /\ [](part = "processes" => X!Inv) /\ [](part = "snapshots" => B!Inv) /\ [](part = "pruning" => D!Inv)

\* A request is credited with what changed in it and misses nothing; what its change takes from
\* contracts, proofs, commands or tests is listed.
ChangesAreTold ==
  /\ [](part = "attribution" => A!Inv) /\ [](part = "weakening" => W!Inv) /\ [](part = "test edits" => E!Inv)

\* A proof, a contract's strength and a judgment claim no more than was checked of all there was.
ProofsClaimNoMore ==
  /\ [](part = "proof" => P!Inv) /\ [][part = "proof" => P!StopsEndIt]_PVars
  /\ [](part = "search" => I!Inv) /\ [](part = "cache" => C!Inv)
  /\ [](part = "strength" => S!Inv) /\ [](part = "judgments" => G!Inv)
  /\ (part = "judgments" => G!ReferencesStayBounded)

\* No session's work, no list of its tasks, no account, sign-in or folder is lost to another
\* session, process or crash, and usage shown for an account is its own.
WorkAndAccountsAreKept ==
  /\ [](part = "workspace" => K!Inv)
  /\ [](part = "accounts" => N!Inv) /\ [][part = "accounts" => N!LeaveByRemoval /\ N!FoldersStay]_NVars
  /\ [](part = "usage" => U!Inv) /\ (part = "usage" => U!LevelsAgree) /\ [][part = "usage" => U!StoppedSavesNothing]_UVars
  /\ [](part = "tasks" => H!Inv)
  /\ [](part = "shared usage" => V!Inv) /\ [][part = "shared usage" => V!StoppedSavesNothing]_UVars
=============================================================================
