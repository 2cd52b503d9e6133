-------------------------------- MODULE Gate --------------------------------
(***************************************************************************)
(* The verification gate (src/gate.ts, verification/gate-rule.ts): what it *)
(* does each time a run settles with one request's changes in one          *)
(* repository.  It proves the changed code, runs the project's command,    *)
(* measures the contract that proved and checks the model; a rung that     *)
(* fails goes back to the agent once per failure, and when nothing goes    *)
(* back the evidence is reconciled with the files and a receipt settles.   *)
(* The operator, who may edit the files at any time, and the checks, which *)
(* read them while they run, are actors beside the agent.                  *)
(*                                                                         *)
(* Abstracted: the project has one file of code with a contract, one       *)
(* command and one model, whose versions are the content of the folder;    *)
(* what fails on a version is a constant.  The opinions in a receipt and   *)
(* what it says of exercise and coverage are left out.                     *)
(***************************************************************************)
EXTENDS Naturals, Sequences, SequencesExt

CONSTANTS
  Codes, Models,  \* versions of the code and of the model
  Failing,        \* what fails of each check on each content; "none" when it passes
  OnBase,         \* failures of the command the base already had
  Pinned,         \* the model version --require-model pins, or "none"
  MaxRequest,     \* bound: the operator's requests
  MaxEdit         \* bound: edits of the operator's own

Contents == [code : Codes, model : Models]
Checks == {"proof", "command", "contract", "model"}
Failures == {Failing[k][c] : k \in Checks, c \in Contents} \ {"none"}

ASSUME GateAssumption ==
  /\ Failing \in [Checks -> [Contents -> STRING]]
  /\ OnBase \subseteq Failures
  /\ Pinned \in Models \cup {"none"} /\ "none" \notin Models
  /\ MaxRequest \in Nat /\ MaxEdit \in Nat

VARIABLES
  content,   \* the folder now
  request,   \* the requests so far
  step,      \* where the gate is: "idle", "working", a check's rung, or "receipt"
  start,     \* current.fingerprints: the content when the request's first tool started
  base,      \* the content when the request was admitted
  saved,     \* the start a request that ended on its question keeps
  tools,     \* current.mayHaveChanged
  question,  \* the run ends on an unresolved question, so nothing goes back
  changed,   \* unit.changed, read once as the run settles
  seen,      \* the contents there were since the running check began; {} when none runs
  begun,     \* the content as it began
  evidence,  \* what each check of this pass found
  sent,      \* current.sentBack and the like: the failures each check sent back
  cached,    \* current.modelsChecked and modelsPassed
  required,  \* current.requiredModel's state
  asked,     \* current.selectionSentBack
  receipt,   \* the receipt the operator sees (progress.status), until the next request
  untouched, \* history: the content before the first tool of the request, and of those it continues
  told,      \* history: how often each failure went to the agent in the request, 2 for more
  edits

vars == <<content, request, step, start, base, saved, tools, question, changed, seen, begun, evidence, sent,
          cached, required, asked, receipt, untouched, told, edits>>

pass == <<question, changed, seen, begun, evidence>>
files == <<content, edits>>
admitted == <<untouched, request, start, base, saved, tools>>

-----------------------------------------------------------------------------
(* The rules. *)

Steps == {"idle", "working", "receipt"} \cup Checks
After == [proof |-> "command", command |-> "contract", contract |-> "model", model |-> "receipt"]

\* The content of the files a check's evidence names: a command's are those the
\* request changed, whatever it reads.
View(k, c) ==
  [p \in (CASE k \in {"proof", "contract"} -> {"code"} [] k = "command" -> changed [] k = "model" -> {"code", "model"}) |-> c[p]]

\* currentContent(): the folder still has what the evidence names.
Holds(e, c) == \A p \in DOMAIN e.of : e.of[p] = c[p]

None == [outcome |-> "none"]
NoEvidence == [k \in Checks |-> None]

\* gateVerdict() and commandVerdict().
VerdictOfTheLast(k, outcome, failure, before) ==  \* mutant: forgets all but the last failure
  IF outcome = "passed" THEN "proved"
  ELSE IF outcome # "failed" \/ (k = "command" /\ failure \in OnBase) THEN "operator"
  ELSE IF before # << >> /\ failure = Last(before) THEN "no_progress" ELSE "send_back"
Verdict(k, outcome, failure, before) ==
  IF outcome = "passed" THEN "proved"
  ELSE IF outcome # "failed" \/ (k = "command" /\ failure \in OnBase) THEN "operator"
  ELSE IF failure \in Range(before) THEN "no_progress" ELSE "send_back"

\* modelSelectionState(): the pinned model is fulfilled by its own content and a
\* check of the content there is.
Selection(found) ==
  IF Pinned = "none" THEN "none"
  ELSE IF content.model # Pinned THEN "changed"
  ELSE IF found.outcome = "passed" /\ Holds(found, content) THEN "checked" ELSE "unchecked"

\* verificationRequired().
Required(mayHaveChanged) == mayHaveChanged \/ Pinned # "none"

\* compareFingerprints(): the parts that differ from the request's start, or
\* from its admission when no tool started.
ChangedParts ==
  LET from == IF start = None THEN base ELSE start IN
  {p \in {"code", "model"} : content[p] # from[p]}

\* changedUnit(): what changed is verified.  A folder found as the first tool
\* found it is not, whether or not a model is pinned.
Verifiable == ChangedParts # {} \/ (Pinned # "none" /\ start = None)

\* The checks there are for what changed: a contract's strength is measured once
\* its proof proved, and a pinned model is not checked while it is replaced.
Planned(k) ==
  CASE k = "proof"    -> "code" \in changed
    [] k = "command"  -> changed # {}
    [] k = "contract" -> evidence["proof"].outcome = "passed"
    [] k = "model"    -> (changed # {} \/ Pinned # "none") /\ required # "changed"

-----------------------------------------------------------------------------
Init ==
  /\ content \in Contents
  /\ base = content /\ untouched = None /\ start = None /\ saved = None /\ begun = None
  /\ request = 0 /\ step = "idle" /\ tools = FALSE /\ question = FALSE
  /\ changed = {} /\ seen = {} /\ evidence = NoEvidence
  /\ sent = [k \in Checks |-> << >>] /\ cached = [request |-> None, session |-> None]
  /\ required = "none" /\ asked = FALSE
  /\ receipt = [kind |-> "none"]
  /\ told = [k \in Checks |-> [f \in Failures |-> 0]]
  /\ edits = 0

\* The operator's input: nothing of the earlier request is kept, except the start
\* of one it continues.  The first request pins the model as it is then.
InputKeepsSent(continues) ==  \* mutant: what went back is remembered across requests
  /\ step = "idle" /\ request < MaxRequest
  /\ continues => saved # None
  /\ request = 0 => Pinned \in {"none", content.model}
  /\ request' = request + 1 /\ step' = "working"
  /\ base' = content
  /\ start' = (IF continues THEN saved ELSE None) /\ tools' = continues
  /\ saved' = None /\ untouched' = (IF continues THEN untouched ELSE None)
  /\ cached' = [cached EXCEPT !.request = None]
  /\ asked' = FALSE /\ required' = "none"
  /\ told' = [k \in Checks |-> [f \in Failures |-> 0]]
  /\ receipt' = [kind |-> "none"]
  /\ UNCHANGED <<files, pass, sent>>
Input(continues) ==
  /\ step = "idle" /\ request < MaxRequest
  /\ continues => saved # None
  /\ request = 0 => Pinned \in {"none", content.model}
  /\ request' = request + 1 /\ step' = "working"
  /\ base' = content
  /\ start' = (IF continues THEN saved ELSE None) /\ tools' = continues
  /\ saved' = None /\ untouched' = (IF continues THEN untouched ELSE None)
  /\ sent' = [k \in Checks |-> << >>] /\ cached' = [cached EXCEPT !.request = None]
  /\ asked' = FALSE /\ required' = "none"
  /\ told' = [k \in Checks |-> [f \in Failures |-> 0]]
  /\ receipt' = [kind |-> "none"]
  /\ UNCHANGED <<files, pass>>

\* tool_execution_start: the folder is fingerprinted before the first tool that
\* may change files, which then changes them.
ToolFirst ==  \* mutant: fingerprinted once the tool ran
  /\ step = "working"
  /\ \E c \in Contents : content' = c /\ start' = IF start = None THEN c ELSE start
  /\ untouched' = IF untouched = None THEN content ELSE untouched
  /\ tools' = TRUE
  /\ UNCHANGED <<edits, request, base, saved, step, pass, sent, cached, required, asked, receipt, told>>
Tool ==
  /\ step = "working"
  /\ start' = IF start = None THEN content ELSE start
  /\ untouched' = IF untouched = None THEN content ELSE untouched
  /\ tools' = TRUE
  /\ \E c \in Contents : content' = c
  /\ UNCHANGED <<edits, request, base, saved, step, pass, sent, cached, required, asked, receipt, told>>

\* The operator edits the files, whatever the gate does.
Edit ==
  /\ edits < MaxEdit
  /\ \E c \in Contents \ {content} :
       /\ content' = c
       /\ seen' = IF seen = {} THEN {} ELSE seen \cup {c}
  /\ edits' = edits + 1
  /\ UNCHANGED <<admitted, step, question, changed, begun, evidence, sent, cached, required, asked, receipt, told>>

-----------------------------------------------------------------------------
(* agent_before_settle. *)

\* What a pass found ends with it.
PassEnds == question' = FALSE /\ changed' = {} /\ seen' = {} /\ begun' = None /\ evidence' = NoEvidence

\* Input the gate did not see may take the run on once it settled.
Settled(goesOn) == step' = IF goesOn THEN "working" ELSE "idle"

\* A completed run changed nothing there is to verify, or no tool could have.
\* Ending on its question, it keeps its start.
Unchanged(ends, goesOn) ==
  /\ step = "working"
  /\ \/ ~Required(tools)
     \/ /\ ends # "stopped" /\ ~Verifiable
        /\ Selection(None) = "changed" => asked \/ ends = "question"
  /\ ends = "stopped" => ~goesOn
  /\ Settled(goesOn)
  /\ saved' = IF ends = "question" /\ Required(tools) /\ ~goesOn THEN start ELSE None
  /\ required' = Selection(None)
  /\ UNCHANGED <<files, untouched, request, start, base, tools, pass, sent, cached, asked, receipt, told>>

\* stopped(): the run was stopped or failed; its receipt verifies nothing.
StoppedReceipt(state) ==
  receipt' = [kind |-> "stopped", evidence |-> NoEvidence, at |-> content, question |-> FALSE, required |-> state]

RunStopped ==
  /\ step = "working" /\ Required(tools)
  /\ step' = "idle"
  /\ required' = Selection(None)
  /\ StoppedReceipt(Selection(None))
  /\ UNCHANGED <<files, admitted, pass, sent, cached, asked, told>>

\* Its pinned model was replaced: the agent is asked once to restore it.
SelectionBack ==
  /\ step = "working" /\ Required(tools)
  /\ Selection(None) = "changed" /\ ~asked
  /\ asked' = TRUE /\ required' = "changed"
  /\ receipt' = [kind |-> "none"]
  /\ UNCHANGED <<files, admitted, step, pass, sent, cached, told>>

\* The run completed, with an unresolved question or none: the first rung.
Settle(unresolved) ==
  /\ step = "working" /\ Required(tools)
  /\ Selection(None) = "changed" => asked \/ unresolved
  /\ Verifiable
  /\ step' = "proof"
  /\ question' = unresolved
  /\ changed' = ChangedParts
  /\ evidence' = NoEvidence
  /\ required' = Selection(None)
  /\ receipt' = [kind |-> "none"]
  /\ UNCHANGED <<files, admitted, seen, begun, sent, cached, asked, told>>

\* A rung with nothing to check.
Skip(k) ==
  /\ step = k /\ ~Planned(k) /\ seen = {}
  /\ step' = After[k]
  /\ required' = IF k = "model" THEN Selection(None) ELSE required
  /\ UNCHANGED <<files, admitted, pass, sent, cached, asked, receipt, told>>

\* The check whose last result read exactly this content.
Earlier(k) ==
  {e \in {cached.request, cached.session} : e # None /\ k = "model" /\ Holds(e, content)}

Begin(k) ==
  /\ step = k /\ Planned(k) /\ seen = {}
  /\ k = "model" => Earlier(k) = {}
  /\ begun' = content /\ seen' = {content}
  /\ UNCHANGED <<files, admitted, step, question, changed, evidence, sent, cached, required, asked, receipt, told>>

\* What a rung found goes back to the agent, or the next rung follows.
JudgedForgotten(k, e) ==  \* mutant: what went back is not remembered
  LET back == ~question /\ Verdict(k, e.outcome, e.failure, sent[k]) = "send_back" IN
  /\ required' = IF k = "model" THEN Selection(e) ELSE required
  /\ \/ /\ back
        /\ step' = "working"
        /\ UNCHANGED sent
        /\ told' = [told EXCEPT ![k][e.failure] = IF @ = 2 THEN 2 ELSE @ + 1]
        /\ PassEnds
     \/ /\ ~back
        /\ step' = After[k]
        /\ evidence' = [evidence EXCEPT ![k] = e]
        /\ seen' = {} /\ begun' = None
        /\ UNCHANGED <<sent, told, question, changed>>

Judged(k, e) ==
  LET back == ~question /\ Verdict(k, e.outcome, e.failure, sent[k]) = "send_back" IN
  /\ required' = IF k = "model" THEN Selection(e) ELSE required
  /\ \/ /\ back
        /\ step' = "working"
        /\ sent' = [sent EXCEPT ![k] = Append(@, e.failure)]
        /\ told' = [told EXCEPT ![k][e.failure] = IF @ = 2 THEN 2 ELSE @ + 1]
        /\ PassEnds
     \/ /\ ~back
        /\ step' = After[k]
        /\ evidence' = [evidence EXCEPT ![k] = e]
        /\ seen' = {} /\ begun' = None
        /\ UNCHANGED <<sent, told, question, changed>>

\* A check ends, with what it read at some time since it began (a contract is
\* measured on a copy read as it begins): it passed or failed, or says nothing,
\* past its limit or unable to run.  A proof's evidence
\* names the content as it ended, since proving rewrites its files; a command's
\* and a model's as it began; a contract's stands with its proof.
Names(k) == CASE k = "proof" -> View(k, content)
              [] k = "contract" -> evidence["proof"].of
              [] OTHER -> View(k, begun)
Found(k, outcome, read) ==
  [outcome |-> outcome, failure |-> IF outcome = "failed" THEN Failing[k][read] ELSE "none",
   of |-> Names(k), read |-> View(k, read), undisturbed |-> seen = {begun}]
End(k) ==
  /\ step = k /\ seen # {}
  /\ \E read \in IF k = "contract" THEN {begun} ELSE seen : \E outcome \in {IF Failing[k][read] = "none" THEN "passed" ELSE "failed", "operator"} :
       LET e == Found(k, outcome, read) IN
       /\ Judged(k, e)
       /\ cached' = IF k # "model" THEN cached
                    ELSE [request |-> e, session |-> IF outcome = "passed" THEN e ELSE cached.session]
  /\ UNCHANGED <<files, admitted, asked, receipt>>

\* A model whose content was checked before keeps that check, judged again.
Reuse ==
  /\ step = "model" /\ Planned("model") /\ seen = {}
  /\ Earlier("model") # {}
  /\ Judged("model", IF cached.request \in Earlier("model") THEN cached.request ELSE cached.session)
  /\ UNCHANGED <<files, admitted, cached, asked, receipt>>

\* settledCheck(): evidence of another content than the folder's is stale, and a
\* contract stands while its proof does.
ReconciledNever(e) == e  \* mutant: evidence settles as it was found
Reconciled(e) == IF e = None \/ Holds(e, content) THEN e ELSE [e EXCEPT !.outcome = "stale"]

\* The receipt, with the state of the pinned model as it is published.
Publish(goesOn) ==
  /\ step = "receipt"
  /\ LET found == [k \in Checks |-> Reconciled(evidence[k])] IN
     receipt' = [kind |-> "verified", evidence |-> found, at |-> content, question |-> question,
                 required |-> Selection(found["model"])]
  /\ required' = receipt'.required
  /\ Settled(goesOn) /\ PassEnds
  /\ saved' = IF question /\ ~goesOn THEN start ELSE None
  /\ UNCHANGED <<files, untouched, request, start, base, tools, sent, cached, asked, told>>

\* The operator stops the run while the gate verifies: what runs is stopped, and
\* the receipt has the state of the pinned model as it was last read.
StopKeepsEvidence ==  \* mutant: what was found so far is kept as it was
  /\ step \in Checks \cup {"receipt"}
  /\ step' = "idle" /\ PassEnds
  /\ receipt' = [kind |-> "verified", evidence |-> evidence, at |-> content, question |-> FALSE, required |-> required]
  /\ UNCHANGED <<files, admitted, sent, cached, required, asked, told>>
StopLeavesTheCheck ==  \* mutant: what runs goes on running
  /\ step \in Checks \cup {"receipt"}
  /\ step' = "idle"
  /\ StoppedReceipt(required)
  /\ UNCHANGED <<files, admitted, pass, sent, cached, required, asked, told>>
Stop ==
  /\ step \in Checks \cup {"receipt"}
  /\ step' = "idle" /\ PassEnds
  /\ StoppedReceipt(required)
  /\ UNCHANGED <<files, admitted, sent, cached, required, asked, told>>

-----------------------------------------------------------------------------
TurnEnds ==
  \/ \E ends \in {"completed", "question", "stopped"}, goesOn \in BOOLEAN : Unchanged(ends, goesOn)
  \/ SelectionBack
  \/ \E unresolved \in BOOLEAN : Settle(unresolved)
Verify ==
  \/ \E k \in Checks : Skip(k) \/ Begin(k) \/ End(k)
  \/ Reuse
  \/ \E goesOn \in BOOLEAN : Publish(goesOn)

Next ==
  \/ \E continues \in BOOLEAN : Input(continues)
  \/ Tool \/ Edit \/ RunStopped \/ Stop
  \/ TurnEnds \/ Verify

Spec == Init /\ [][Next]_vars

\* Each check has a time limit.  The agent ends its turns some time, and the
\* operator's input during a run does not come forever: neither is the gate's.
FairSpec ==
  /\ Spec /\ WF_vars(Verify) /\ WF_vars(TurnEnds)
  /\ SF_vars(\E ends \in {"completed", "question", "stopped"} : Unchanged(ends, FALSE))
  /\ SF_vars(Publish(FALSE))

-----------------------------------------------------------------------------
(* Properties. *)

TypeOK ==
  /\ content \in Contents /\ base \in Contents
  /\ {untouched, start, saved, begun} \subseteq Contents \cup {None}
  /\ request \in 0 .. MaxRequest /\ edits \in 0 .. MaxEdit
  /\ step \in Steps /\ tools \in BOOLEAN /\ question \in BOOLEAN /\ asked \in BOOLEAN
  /\ changed \subseteq {"code", "model"} /\ seen \subseteq Contents
  /\ seen # {} => step \in Checks
  /\ DOMAIN evidence = Checks
  /\ sent \in [Checks -> Seq(Failures)]
  /\ required \in {"none", "changed", "unchecked", "checked"}
  /\ receipt.kind \in {"none", "verified", "stopped"}
  /\ told \in [Checks -> [Failures -> 0 .. 2]]

\* A receipt's pass is of the content the receipt is of, and of what its check
\* read, unless the files were edited while that check ran.  (gate.ts
\* settledCheck, checkModels.)
PassesAreOfTheReceiptsContent ==
  receipt.kind = "verified" => \A k \in Checks \ {"contract"} :
    LET e == receipt.evidence[k] IN
    e.outcome = "passed" => Holds(e, receipt.at) /\ (e.undisturbed => e.of = e.read)

\* No failure goes back to the agent twice in a request, in whatever order it
\* alternates with others.  (gate-rule.ts: "a correction that made no progress,
\* even one that alternates between failures".)
NoFailureGoesBackTwice == \A k \in Checks, f \in Failures : told[k][f] <= 1

\* A failure a receipt settles with went to the agent in its request, unless the
\* base already had it or the run ended on its question.  (gate-rule.ts: "a run
\* settles only when no file has a failure the agent has not yet answered".)
FailuresWereTold ==
  [][receipt.kind = "none" /\ receipt'.kind = "verified" /\ ~question => \A k \in Checks :
       LET e == receipt'.evidence[k] IN
       e.outcome = "failed" => told[k][e.failure] = 1 \/ (k = "command" /\ e.failure \in OnBase)]_vars

\* A verified receipt has the pinned model checked only on its own content, by a
\* passing check of the content the receipt is of.  (model-rule.ts: "A selected
\* check is fulfilled only by unchanged inputs and a complete current check.")
PinnedModelIsFulfilled ==
  receipt.kind = "verified" /\ receipt.required = "checked" =>
    /\ receipt.at.model = Pinned
    /\ receipt.evidence["model"].outcome = "passed" /\ Holds(receipt.evidence["model"], receipt.at)

\* What receipt-v3.md says of a stopped run's receipt: the state of its pinned
\* model is "unchecked" while the check remains incomplete, "including a stopped
\* run".
StoppedReceiptsAreUnchecked == receipt.kind = "stopped" => receipt.required # "checked"

\* A run whose tools left the folder other than they found it never settles
\* without a receipt of what it left.  (gate.ts agent_before_settle.)
ChangesAreReceipted ==
  [][step # "idle" /\ step' = "idle" /\ untouched # None /\ content # untouched => receipt'.kind # "none" /\ receipt'.at = content]_vars

\* Every request settles: what goes back runs out, since each failure goes back
\* once and a pinned model is asked for once.
RequestsSettle == step # "idle" ~> step = "idle"

\* What gate-rule.ts says of a pinned model: it "requires verification even when
\* no tool may have changed files".  A request in its session settles with a
\* receipt.
PinnedRequestsAreReceipted == [][Pinned # "none" /\ step # "idle" /\ step' = "idle" => receipt'.kind # "none"]_vars

\* What docs/concepts/verification.md says the gate does before it publishes:
\* "confirm the evidence still matches the files".  Of a measured contract.
ContractsAreOfTheReceiptsContent ==
  receipt.kind = "verified" /\ receipt.evidence["contract"].outcome = "passed"
    => receipt.evidence["contract"].read.code = receipt.at.code

\* What evidence.ts says of a check's evidence: it is "bound to the content it
\* checked".  Of a proof, as a receipt has it.
ProofsAreOfWhatTheyRead ==
  receipt.kind = "verified" /\ receipt.evidence["proof"].outcome = "passed"
    => receipt.evidence["proof"].read = receipt.evidence["proof"].of
=============================================================================
