----------------------------- MODULE Providers ------------------------------
(***************************************************************************)
(* What a session asks of others, each over its own variables: a model's   *)
(* reply and its retries, Claude Code's queries, an MCP server and its     *)
(* account.  `part' says which one a behaviour follows; the others keep    *)
(* their initial state, so that one run takes the sum of their spaces.     *)
(***************************************************************************)
EXTENDS Integers, Sequences, FiniteSets

CONSTANTS
  Failures, Seconds, Limit, Budget,          \* of ProviderRetry
  MaxQuery, MaxCall, MaxLength,              \* of HandBack
  Callers, MaxClient, MaxOffer, MaxRestart,  \* of Mcp
  Shells, MaxToken, MaxCrash                 \* of McpAuth

\* What is read of a failure, how long an attempt takes, and what bounds the retries.
ASSUME ReplyAssumption ==
  /\ Failures \subseteq [terminal : BOOLEAN, transient : BOOLEAN, status : Nat, wait : Nat]
  /\ Seconds \subseteq Nat /\ Limit \in Nat /\ Budget \in Nat
ASSUME HandBackAssumption == MaxCall \in Nat
\* A server has a list of tools, and may have given an account its first tokens.
ASSUME ServerAssumption == MaxOffer \in Nat \ {0}
ASSUME AccountAssumption == MaxToken \in Nat \ {0}

VARIABLES
  part,
  pPc, pAttempt, pEvidence, pRetries, pClock, pFirst, pDue, pGiven, pEntries, pReplied, pCounted, pGave, pStopped,
  pLeft, pLate,
  bHistory, bStep, bRunning, bStopped, bLive, bConvs, bNext,
  mState, mClient, mOpening, mMaking, mConns, mKnown, mTools, mOffers, mLists, mCaller, mOp, mClosing,
  mRestarts,
  tStored, tGranted, tTaken, tExpired, tHolder, tAt, tStale, tLost, tCrashes

P == INSTANCE ProviderRetry WITH
  pc <- pPc, attempt <- pAttempt,
  evidence <- pEvidence, retries <- pRetries, clock <- pClock, first <- pFirst, due <- pDue, given <- pGiven,
  entries <- pEntries, replied <- pReplied, counted <- pCounted, gave <- pGave, stopped <- pStopped, left <- pLeft, late <- pLate
B == INSTANCE HandBack WITH
  history <- bHistory, step <- bStep, running <- bRunning,
  stopped <- bStopped, live <- bLive, convs <- bConvs, next <- bNext
M == INSTANCE Mcp WITH
  Reordered <- FALSE, state <- mState, client <- mClient, opening <- mOpening, making <- mMaking, conns <- mConns, known <- mKnown, tools <- mTools,
  offers <- mOffers, lists <- mLists, caller <- mCaller, op <- mOp, closing <- mClosing, restarts <- mRestarts
T == INSTANCE McpAuth WITH
  stored <- tStored, granted <- tGranted, taken <- tTaken,
  expired <- tExpired, holder <- tHolder, at <- tAt, stale <- tStale, lost <- tLost, crashes <- tCrashes

PVars == <<
  pPc, pAttempt, pEvidence, pRetries, pClock, pFirst, pDue, pGiven, pEntries, pReplied, pCounted, pGave, pStopped,
  pLeft, pLate>>
BVars == <<
  bHistory, bStep, bRunning, bStopped, bLive, bConvs, bNext>>
MVars == <<
  mState, mClient, mOpening, mMaking, mConns, mKnown, mTools, mOffers, mLists, mCaller, mOp, mClosing,
  mRestarts>>
TVars == <<
  tStored, tGranted, tTaken, tExpired, tHolder, tAt, tStale, tLost, tCrashes>>

Init ==
  /\ part \in {"reply", "handback", "server", "account"}
  /\ P!Init /\ B!Init /\ M!Init /\ T!Init
  /\ (part = "account" \/ tStored = 0)
Next ==
  \/ part = "reply" /\ P!Next /\ UNCHANGED <<part, BVars, MVars, TVars>>
  \/ part = "handback" /\ B!Next /\ UNCHANGED <<part, PVars, MVars, TVars>>
  \/ part = "server" /\ M!Next /\ UNCHANGED <<part, PVars, BVars, TVars>>
  \/ part = "account" /\ T!Next /\ UNCHANGED <<part, PVars, BVars, MVars>>
vars == <<part, PVars, BVars, MVars, TVars>>
Spec == Init /\ [][Next]_vars
Fairness ==
  /\ WF_PVars(part = "reply" /\ P!Settles) /\ WF_MVars(part = "server" /\ M!Attempt)
  /\ \A c \in Callers : WF_MVars(part = "server" /\ M!CallSettles(c))
FairSpec == Spec /\ Fairness

\* A reply is tried again only for its own failure, in the retries and the time
\* there are; every message an attempt gave while the run waited is in the file
\* and counted once; and nothing is recorded of one it left.
RepliesAreSafe == P!Safety

\* Every call Claude Code makes is answered once, whatever was compacted, said,
\* stopped or crashed; one query is open, which still listens; and a step goes
\* on in it only where every call of its last reply has a result.
HandBackIsSafe == B!Safety

\* No connection to a server is left open behind the one it has, whatever its
\* callers, its sessions' ends and the operator do at once, and none when the
\* shell closed; its tools are those it last announced.
ConnectionsAreSafe == M!Safety

\* No shell spends a refresh token the server took already unless its answer was
\* lost, refreshes one that was not refused, or brings back a signed-out account.
AccountIsSafe == T!Safety

\* A stop ends a reply, in a call or a wait; a call of an MCP tool ends, with its
\* result or an error.
WaitsEnd == P!StopsEndTheReply /\ M!CallsEnd
=============================================================================
