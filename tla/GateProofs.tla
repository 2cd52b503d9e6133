----------------------------- MODULE GateProofs ------------------------------
(***************************************************************************)
(* Proofs about Gate, for any versions of code and models, any failures of *)
(* them and any number of requests and edits: what a receipt vouches for,  *)
(* that each failure goes back once, and that no change goes unreceipted.  *)
(***************************************************************************)
EXTENDS Gate, TLAPS

\* A failure of a check is one of those there are.
Sound(e) == e.outcome = "failed" => e.failure \in Failures
\* A check nobody disturbed found what its evidence names.
Faithful(e) == e.undisturbed => e.of = e.read
Kept == {e \in {cached.request, cached.session} : e # None}

\* While a check runs, the content of now and that of its start are among those
\* there were.
CheckInv == /\ seen # {} => content \in seen /\ begun \in seen
            /\ step \in {"idle", "working"} => evidence = NoEvidence

\* What a check found, in this pass or kept from another, is one of the failures
\* there are and names what it read, where nobody disturbed it.
EvidenceInv ==
  /\ \A e \in Kept : Sound(e) /\ Faithful(e)
  /\ \A k \in Checks : evidence[k] # None => Sound(evidence[k]) /\ (k # "contract" => Faithful(evidence[k]))

\* Told is what was sent back, and so is a failure that did not go back in a
\* pass that may send.
ToldInv ==
  /\ \A k \in Checks, f \in Failures : told[k][f] = IF f \in Range(sent[k]) THEN 1 ELSE 0
  /\ ~question => \A k \in Checks :
       evidence[k].outcome = "failed" =>
         evidence[k].failure \in Range(sent[k]) \/ (k = "command" /\ evidence[k].failure \in OnBase)

\* The start a request keeps is the content no tool of it had touched.
StartInv ==
  /\ step # "idle" => start = untouched /\ saved = None
  /\ untouched # None => tools
  /\ saved # None => saved = untouched

Inv == TypeOK /\ CheckInv /\ EvidenceInv /\ ToldInv /\ StartInv /\ PinnedModelIsFulfilled /\ PassesAreOfTheReceiptsContent

-----------------------------------------------------------------------------
(* The rules. *)

\* What was sent back is what was, and the last of it.
LEMMA SentBack ==
  ASSUME NEW s \in Seq(Failures), NEW f \in Failures
  PROVE  Append(s, f) \in Seq(Failures) /\ Range(Append(s, f)) = Range(s) \cup {f}
<1>1. Append(s, f) \in Seq(Failures)
  OBVIOUS
<1>2. Range(Append(s, f)) = Range(s) \cup {f}
  <2>1. DOMAIN Append(s, f) = 1 .. Len(s) + 1 /\ DOMAIN s = 1 .. Len(s) /\ Len(s) \in Nat
    OBVIOUS
  <2>2. \A i \in 1 .. Len(s) : Append(s, f)[i] = s[i]
    OBVIOUS
  <2>3. Append(s, f)[Len(s) + 1] = f
    OBVIOUS
  <2>4. Range(Append(s, f)) \subseteq Range(s) \cup {f}
    BY <2>1, <2>2, <2>3 DEF Range
  <2>5. Range(s) \cup {f} \subseteq Range(Append(s, f))
    <3>1. ASSUME NEW i \in 1 .. Len(s) PROVE s[i] \in Range(Append(s, f))
      BY <2>1, <2>2 DEF Range
    <3>2. f \in Range(Append(s, f))
      BY <2>1, <2>3 DEF Range
    <3> QED
      BY <2>1, <3>1, <3>2 DEF Range
  <2> QED
    BY <2>4, <2>5
<1> QED
  BY <1>1, <1>2

\* Nothing was sent back at first.
LEMMA NothingSent == << >> \in Seq(Failures) /\ Range(<< >>) = {}
BY DEF Range

\* Evidence is not none where its outcome is.
LEMMA NoneIsNone == None.outcome = "none" /\ \A k \in Checks : NoEvidence[k] = None
BY DEF None, NoEvidence

\* What a pinned model's state may be.
LEMMA Selections == \A e : Selection(e) \in {"none", "changed", "unchecked", "checked"}
BY DEF Selection

-----------------------------------------------------------------------------
(* The steps. *)

\* What there is before the first request is as it should be.
LEMMA InitInv == Init => Inv
<1> SUFFICES ASSUME Init PROVE Inv
  OBVIOUS
<1>1. TypeOK
  <2>1. told \in [Checks -> [Failures -> 0 .. 2]] /\ sent \in [Checks -> Seq(Failures)]
    BY NothingSent DEF Init
  <2>2. DOMAIN evidence = Checks /\ receipt.kind = "none"
    BY DEF Init, NoEvidence
  <2>3. request \in 0 .. MaxRequest /\ edits \in 0 .. MaxEdit
    BY GateAssumption DEF Init
  <2>4. tools \in BOOLEAN /\ question \in BOOLEAN /\ asked \in BOOLEAN
    BY Zenon DEF Init
  <2> QED
    BY <2>1, <2>2, <2>3, <2>4 DEF Init, TypeOK, Steps
<1>2. CheckInv /\ StartInv /\ PinnedModelIsFulfilled /\ PassesAreOfTheReceiptsContent
  BY DEF Init, CheckInv, StartInv, PinnedModelIsFulfilled, PassesAreOfTheReceiptsContent
<1>3. EvidenceInv
  BY NoneIsNone DEF Init, EvidenceInv, Kept
<1>4. ToldInv
  BY NothingSent, NoneIsNone DEF Init, ToldInv
<1> QED
  BY <1>1, <1>2, <1>3, <1>4 DEF Inv

\* The operator's input starts a request afresh.
LEMMA InputKeeps == ASSUME Inv, NEW continues \in BOOLEAN, Input(continues) PROVE Inv'
<1> USE DEF Inv
<1>1. TypeOK'
  <2>1. told' \in [Checks -> [Failures -> 0 .. 2]] /\ sent' \in [Checks -> Seq(Failures)]
    BY NothingSent DEF Input
  <2>2. request' \in 0 .. MaxRequest /\ receipt'.kind = "none" /\ step' = "working" /\ seen = {}
    BY GateAssumption DEF Input, TypeOK, Checks
  <2>3. start' \in Contents \cup {None} /\ untouched' \in Contents \cup {None} /\ saved' = None
    BY DEF Input, TypeOK
  <2> QED
    BY <2>1, <2>2, <2>3 DEF Input, TypeOK, files, pass, Steps
<1>2. CheckInv' /\ StartInv'
  BY DEF Input, files, pass, CheckInv, StartInv, TypeOK
<1>3. EvidenceInv'
  BY DEF Input, pass, EvidenceInv, Kept
<1>4. ToldInv'
  BY NothingSent, NoneIsNone DEF Input, pass, ToldInv, CheckInv, NoEvidence
<1>5. (PinnedModelIsFulfilled /\ PassesAreOfTheReceiptsContent)'
  BY DEF Input, PinnedModelIsFulfilled, PassesAreOfTheReceiptsContent
<1> QED
  BY <1>1, <1>2, <1>3, <1>4, <1>5

\* Files change before a tool's first run is fingerprinted, or under a check.
LEMMA FilesKeep == ASSUME Inv, Tool \/ Edit PROVE Inv'
<1> USE DEF Inv
<1>1. CASE Tool
  <2>1. TypeOK' /\ CheckInv' /\ StartInv'
    <3>1. step = "working" /\ seen = {}
      BY <1>1 DEF Tool, TypeOK, Checks
    <3> QED
      BY <1>1, <3>1 DEF Tool, pass, TypeOK, CheckInv, StartInv
  <2>2. (EvidenceInv /\ ToldInv /\ PinnedModelIsFulfilled /\ PassesAreOfTheReceiptsContent)'
    BY <1>1 DEF Tool, pass, EvidenceInv, Kept, ToldInv, PinnedModelIsFulfilled, PassesAreOfTheReceiptsContent
  <2> QED
    BY <2>1, <2>2
<1>2. CASE Edit
  <2>1. TypeOK'
    BY <1>2, GateAssumption DEF Edit, admitted, TypeOK
  <2>2. CheckInv' /\ StartInv'
    BY <1>2 DEF Edit, admitted, CheckInv, StartInv
  <2>3. (EvidenceInv /\ ToldInv /\ PinnedModelIsFulfilled /\ PassesAreOfTheReceiptsContent)'
    BY <1>2 DEF Edit, EvidenceInv, Kept, ToldInv, PinnedModelIsFulfilled, PassesAreOfTheReceiptsContent
  <2> QED
    BY <2>1, <2>2, <2>3
<1> QED
  BY <1>1, <1>2

\* The ends of the agent's turns and of the run: no check runs, and none is
\* judged.
LEMMA TurnsKeep == ASSUME Inv, TurnEnds \/ RunStopped PROVE Inv'
<1> USE DEF Inv
<1>1. ASSUME NEW ends \in {"completed", "question", "stopped"}, NEW goesOn \in BOOLEAN, Unchanged(ends, goesOn) PROVE Inv'
  <2>1. step = "working" /\ step' \in {"working", "idle"} /\ (saved' = None \/ (step' = "idle" /\ saved' = start)) /\ required' = Selection(None)
    BY <1>1 DEF Unchanged, Settled
  <2>2. TypeOK'
    BY <1>1, <2>1, Selections DEF Unchanged, files, pass, TypeOK, Steps, Checks
  <2>3. CheckInv' /\ StartInv'
    BY <1>1, <2>1 DEF Unchanged, files, pass, CheckInv, StartInv
  <2>4. (EvidenceInv /\ ToldInv /\ PinnedModelIsFulfilled /\ PassesAreOfTheReceiptsContent)'
    BY <1>1 DEF Unchanged, files, pass, EvidenceInv, Kept, ToldInv, PinnedModelIsFulfilled, PassesAreOfTheReceiptsContent
  <2> QED
    BY <2>2, <2>3, <2>4
<1>2. CASE SelectionBack
  <2>1. TypeOK'
    BY <1>2 DEF SelectionBack, files, admitted, pass, TypeOK
  <2>2. (CheckInv /\ StartInv /\ EvidenceInv /\ ToldInv)'
    BY <1>2 DEF SelectionBack, files, admitted, pass, CheckInv, StartInv, EvidenceInv, Kept, ToldInv
  <2>3. (PinnedModelIsFulfilled /\ PassesAreOfTheReceiptsContent)'
    BY <1>2 DEF SelectionBack, PinnedModelIsFulfilled, PassesAreOfTheReceiptsContent
  <2> QED
    BY <2>1, <2>2, <2>3
<1>3. ASSUME NEW unresolved \in BOOLEAN, Settle(unresolved) PROVE Inv'
  <2>1. step = "working" /\ step' = "proof" /\ seen = {} /\ evidence' = NoEvidence
    BY <1>3 DEF Settle, TypeOK, Checks
  <2>2. changed' \subseteq {"code", "model"} /\ required' \in {"none", "changed", "unchecked", "checked"} /\ receipt'.kind = "none"
    BY <1>3, Selections DEF Settle, ChangedParts
  <2>3. TypeOK'
    BY <1>3, <2>1, <2>2 DEF Settle, files, admitted, TypeOK, Steps, Checks, NoEvidence
  <2>4. CheckInv' /\ StartInv'
    BY <1>3, <2>1 DEF Settle, files, admitted, CheckInv, StartInv
  <2>5. EvidenceInv' /\ ToldInv'
    BY <1>3, <2>1, NoneIsNone DEF Settle, EvidenceInv, Kept, ToldInv
  <2>6. (PinnedModelIsFulfilled /\ PassesAreOfTheReceiptsContent)'
    BY <2>2 DEF PinnedModelIsFulfilled, PassesAreOfTheReceiptsContent
  <2> QED
    BY <2>3, <2>4, <2>5, <2>6
<1>4. CASE RunStopped
  <2>1. step' = "idle" /\ receipt'.kind = "stopped" /\ required' = Selection(None)
    BY <1>4 DEF RunStopped, StoppedReceipt
  <2>2. TypeOK'
    BY <1>4, <2>1, Selections DEF RunStopped, files, admitted, pass, TypeOK, Steps, Checks
  <2>3. (CheckInv /\ StartInv /\ EvidenceInv /\ ToldInv)'
    BY <1>4 DEF RunStopped, files, admitted, pass, CheckInv, StartInv, EvidenceInv, Kept, ToldInv
  <2>4. (PinnedModelIsFulfilled /\ PassesAreOfTheReceiptsContent)'
    BY <2>1 DEF PinnedModelIsFulfilled, PassesAreOfTheReceiptsContent
  <2> QED
    BY <2>2, <2>3, <2>4
<1> QED
  BY <1>1, <1>2, <1>3, <1>4 DEF TurnEnds

\* The operator's stop drops what the pass found.
LEMMA StopKeeps == ASSUME Inv, Stop PROVE Inv'
<1> USE DEF Inv
<1>1. step' = "idle" /\ receipt'.kind = "stopped" /\ evidence' = NoEvidence /\ seen' = {} /\ question' = FALSE /\ begun' = None /\ changed' = {}
  BY DEF Stop, StoppedReceipt, PassEnds
<1>2. TypeOK'
  BY <1>1 DEF Stop, files, admitted, TypeOK, Steps, NoEvidence
<1>3. (CheckInv /\ StartInv /\ EvidenceInv /\ ToldInv)'
  BY <1>1, NoneIsNone DEF Stop, files, admitted, CheckInv, StartInv, EvidenceInv, Kept, ToldInv
<1>4. (PinnedModelIsFulfilled /\ PassesAreOfTheReceiptsContent)'
  BY <1>1 DEF PinnedModelIsFulfilled, PassesAreOfTheReceiptsContent
<1> QED
  BY <1>2, <1>3, <1>4

\* A rung that has nothing to check, or begins.
LEMMA RungsKeep == ASSUME Inv, NEW k \in Checks, Skip(k) \/ Begin(k) PROVE Inv'
<1> USE DEF Inv
<1>1. CASE Skip(k)
  <2>1. step' \in {"command", "contract", "model", "receipt"} /\ seen = {} /\ required' \in {"none", "changed", "unchecked", "checked"}
    BY <1>1, Selections DEF Skip, After, Checks, TypeOK
  <2>2. TypeOK'
    BY <1>1, <2>1 DEF Skip, files, admitted, pass, TypeOK, Steps, Checks
  <2>3. (CheckInv /\ StartInv /\ EvidenceInv /\ ToldInv)'
    BY <1>1, <2>1 DEF Skip, files, admitted, pass, CheckInv, StartInv, EvidenceInv, Kept, ToldInv, Checks
  <2>4. (PinnedModelIsFulfilled /\ PassesAreOfTheReceiptsContent)'
    BY <1>1 DEF Skip, PinnedModelIsFulfilled, PassesAreOfTheReceiptsContent
  <2> QED
    BY <2>2, <2>3, <2>4
<1>2. CASE Begin(k)
  <2>1. TypeOK'
    BY <1>2 DEF Begin, files, admitted, TypeOK
  <2>2. (CheckInv /\ StartInv /\ EvidenceInv /\ ToldInv)'
    BY <1>2 DEF Begin, files, admitted, CheckInv, StartInv, EvidenceInv, Kept, ToldInv, Checks
  <2>3. (PinnedModelIsFulfilled /\ PassesAreOfTheReceiptsContent)'
    BY <1>2 DEF Begin, PinnedModelIsFulfilled, PassesAreOfTheReceiptsContent
  <2> QED
    BY <2>1, <2>2, <2>3
<1> QED
  BY <1>1, <1>2

\* What a rung found goes back once, or stays with the pass.
LEMMA JudgedKeeps ==
  ASSUME Inv, NEW k \in Checks, NEW e, Judged(k, e), step = k, e # None, Sound(e), k # "contract" => Faithful(e),
         UNCHANGED <<files, admitted, asked, receipt>>, cached'.request \in Kept \cup {None, e}, cached'.session \in Kept \cup {None, e},
         k = "model" \/ cached' = cached
  PROVE  Inv'
<1> USE DEF Inv
<1>1. PinnedModelIsFulfilled' /\ PassesAreOfTheReceiptsContent'
  BY DEF PinnedModelIsFulfilled, PassesAreOfTheReceiptsContent
<1>2. required' \in {"none", "changed", "unchecked", "checked"}
  BY Selections DEF Judged, TypeOK
<1>3. \A x \in Kept' : Sound(x) /\ Faithful(x)
  BY DEF EvidenceInv, Kept
<1>9. /\ content' \in Contents /\ base' \in Contents /\ {untouched', start', saved'} \subseteq Contents \cup {None}
      /\ request' \in 0 .. MaxRequest /\ edits' \in 0 .. MaxEdit /\ receipt'.kind \in {"none", "verified", "stopped"}
  BY DEF TypeOK, files, admitted
<1>10. tools' \in BOOLEAN /\ asked' \in BOOLEAN
  BY Zenon DEF TypeOK, admitted
<1>4. CASE ~question /\ Verdict(k, e.outcome, e.failure, sent[k]) = "send_back"
  <2>1. /\ step' = "working" /\ sent' = [sent EXCEPT ![k] = Append(@, e.failure)]
        /\ told' = [told EXCEPT ![k][e.failure] = IF @ = 2 THEN 2 ELSE @ + 1] /\ PassEnds
    BY <1>4 DEF Judged
  <2>2. e.failure \in Failures /\ e.failure \notin Range(sent[k]) /\ sent[k] \in Seq(Failures)
    BY <1>4 DEF Verdict, Sound, TypeOK
  <2>3. sent' \in [Checks -> Seq(Failures)] /\ Range(sent'[k]) = Range(sent[k]) \cup {e.failure}
        /\ \A j \in Checks : j # k => sent'[j] = sent[j]
    BY <2>1, <2>2, SentBack DEF TypeOK
  <2>4. told[k][e.failure] = 0
    BY <2>2 DEF ToldInv
  <2>5. told' \in [Checks -> [Failures -> 0 .. 2]]
        /\ \A j \in Checks, f \in Failures : told'[j][f] = IF j = k /\ f = e.failure THEN 1 ELSE told[j][f]
    BY <2>1, <2>2, <2>4 DEF TypeOK
  <2>6. TypeOK'
    <3>1. DOMAIN evidence' = Checks /\ step' \in Steps /\ changed' \subseteq {"code", "model"} /\ seen' = {} /\ begun' = None
      BY <2>1 DEF PassEnds, NoEvidence, Steps
    <3>2. question' \in BOOLEAN
      BY <2>1, Zenon DEF PassEnds
    <3> QED
      BY <1>9, <1>10, <1>2, <2>3, <2>5, <3>1, <3>2 DEF TypeOK
  <2>7. CheckInv' /\ StartInv'
    BY <2>1 DEF CheckInv, StartInv, PassEnds, files, admitted, Checks
  <2>8. EvidenceInv'
    BY <1>3, <2>1, NoneIsNone DEF EvidenceInv, PassEnds
  <2>9. ToldInv'
    BY <2>1, <2>3, <2>5, NoneIsNone DEF ToldInv, PassEnds
  <2> QED
    BY <1>1, <2>6, <2>7, <2>8, <2>9
<1>5. CASE ~(~question /\ Verdict(k, e.outcome, e.failure, sent[k]) = "send_back")
  <2>1. /\ step' = After[k] /\ evidence' = [evidence EXCEPT ![k] = e] /\ seen' = {} /\ begun' = None
        /\ UNCHANGED <<sent, told, question, changed>>
    BY <1>5 DEF Judged
  <2>2. step' \in {"command", "contract", "model", "receipt"}
    BY <2>1 DEF After, Checks
  <2>3. TypeOK'
    <3>1. DOMAIN evidence' = Checks /\ step' \in Steps /\ changed' \subseteq {"code", "model"} /\ seen' = {} /\ begun' = None
      BY <2>1, <2>2 DEF TypeOK, Steps, Checks
    <3>2. question' \in BOOLEAN
      BY <2>1, Zenon DEF TypeOK
    <3>3. sent' \in [Checks -> Seq(Failures)] /\ told' \in [Checks -> [Failures -> 0 .. 2]]
      BY <2>1 DEF TypeOK
    <3> QED
      BY <1>9, <1>10, <1>2, <3>1, <3>2, <3>3 DEF TypeOK
  <2>4. CheckInv' /\ StartInv'
    BY <2>1, <2>2 DEF CheckInv, StartInv, files, admitted, Checks
  <2>5. \A j \in Checks : evidence'[j] = IF j = k THEN e ELSE evidence[j]
    BY <2>1 DEF TypeOK
  <2>6. EvidenceInv'
    BY <1>3, <2>5 DEF EvidenceInv
  <2>7. ~question /\ e.outcome = "failed" => e.failure \in Range(sent[k]) \/ (k = "command" /\ e.failure \in OnBase)
    BY <1>5 DEF Verdict
  <2>8. ToldInv'
    BY <2>1, <2>5, <2>7 DEF ToldInv
  <2> QED
    BY <1>1, <2>3, <2>4, <2>6, <2>8
<1> QED
  BY <1>4, <1>5

\* A check ends with what it found of a content it read.
LEMMA EndKeeps == ASSUME Inv, NEW k \in Checks, End(k) PROVE Inv'
<1> USE DEF Inv
<1>0. PICK read \in IF k = "contract" THEN {begun} ELSE seen :
        \E outcome \in {IF Failing[k][read] = "none" THEN "passed" ELSE "failed", "operator"} :
          /\ Judged(k, Found(k, outcome, read))
          /\ cached' = IF k # "model" THEN cached
                       ELSE [request |-> Found(k, outcome, read), session |-> IF outcome = "passed" THEN Found(k, outcome, read) ELSE cached.session]
  BY DEF End
<1>1. PICK outcome \in {IF Failing[k][read] = "none" THEN "passed" ELSE "failed", "operator"} :
        /\ Judged(k, Found(k, outcome, read))
        /\ cached' = IF k # "model" THEN cached
                     ELSE [request |-> Found(k, outcome, read), session |-> IF outcome = "passed" THEN Found(k, outcome, read) ELSE cached.session]
  BY <1>0
<1> DEFINE e == Found(k, outcome, read)
<1>2. step = k /\ seen # {} /\ UNCHANGED <<files, admitted, asked, receipt>>
  BY DEF End
<1>3. read \in seen /\ read \in Contents
  BY <1>2 DEF CheckInv, TypeOK
<1>4. Sound(e)
  <2>1. ASSUME outcome = "failed" PROVE Failing[k][read] \in Failures
    <3>1. Failing[k][read] # "none"
      BY <1>1, <2>1
    <3> QED
      BY <1>3, <3>1 DEF Failures
  <2> QED
    BY <2>1 DEF Sound, Found
<1>5. k # "contract" => Faithful(e)
  <2> SUFFICES ASSUME k # "contract", seen = {begun} PROVE Names(k) = View(k, read)
    BY DEF Faithful, Found
  <2>1. read = begun /\ content = begun
    BY <1>3, <1>2 DEF CheckInv
  <2> QED
    BY <2>1 DEF Names
<1>6. e # None
  <2>1. "of" \in DOMAIN e /\ "of" \notin DOMAIN None
    BY DEF Found, None
  <2> QED
    BY <2>1
<1>7. cached'.request \in Kept \cup {None, e} /\ cached'.session \in Kept \cup {None, e}
  BY <1>1 DEF Kept
<1>8. k = "model" \/ cached' = cached
  BY <1>1
<1> HIDE DEF e
<1> QED
  BY <1>1, <1>2, <1>4, <1>5, <1>6, <1>7, <1>8, JudgedKeeps DEF e

\* A check of this content that was kept is judged again.
LEMMA ReuseKeeps == ASSUME Inv, Reuse PROVE Inv'
<1> USE DEF Inv
<1> DEFINE e == IF cached.request \in Earlier("model") THEN cached.request ELSE cached.session
<1>1. e \in Kept
  BY DEF Reuse, Earlier, Kept
<1>2. Sound(e) /\ Faithful(e) /\ e # None
  BY <1>1 DEF EvidenceInv, Kept
<1>3. Judged("model", e) /\ step = "model" /\ UNCHANGED <<files, admitted, cached, asked, receipt>>
  BY DEF Reuse
<1>4. cached'.request \in Kept \cup {None, e} /\ cached'.session \in Kept \cup {None, e}
  BY <1>3 DEF Kept
<1> HIDE DEF e
<1>5. "model" \in Checks
  BY DEF Checks
<1> QED
  BY <1>2, <1>3, <1>4, <1>5, JudgedKeeps

\* What is reconciled passed of the content there is.
LEMMA ReconciledHolds ==
  ASSUME NEW e, e = None \/ e # None
  PROVE  /\ Reconciled(e).outcome = "passed" => Reconciled(e) = e /\ Holds(e, content)
         /\ Reconciled(e).outcome = "failed" => Reconciled(e) = e
<1>1. CASE e = None \/ Holds(e, content)
  BY <1>1 DEF Reconciled, None
<1>2. CASE ~(e = None \/ Holds(e, content))
  <2>1. Reconciled(e) = [e EXCEPT !.outcome = "stale"]
    BY <1>2 DEF Reconciled
  <2> QED
    BY <2>1
<1> QED
  BY <1>1, <1>2

\* The receipt is published with what was found of the content there is.
LEMMA PublishKeeps == ASSUME Inv, NEW goesOn \in BOOLEAN, Publish(goesOn) PROVE Inv'
<1> USE DEF Inv
<1> DEFINE found == [k \in Checks |-> Reconciled(evidence[k])]
<1>1. /\ step = "receipt" /\ step' \in {"working", "idle"} /\ PassEnds
      /\ receipt' = [kind |-> "verified", evidence |-> found, at |-> content, question |-> question, required |-> Selection(found["model"])]
      /\ required' = Selection(found["model"])
      /\ saved' = IF question /\ ~goesOn THEN start ELSE None
      /\ UNCHANGED <<files, untouched, request, start, base, tools, sent, cached, asked, told>>
      /\ (saved' # None => step' = "idle")
  BY DEF Publish, Settled
<1>2. TypeOK'
  BY <1>1, Selections DEF PassEnds, files, TypeOK, Steps, NoEvidence
<1>3. (CheckInv /\ StartInv)'
  BY <1>1 DEF PassEnds, files, CheckInv, StartInv
<1>4. (EvidenceInv /\ ToldInv)'
  BY <1>1, NoneIsNone DEF PassEnds, EvidenceInv, Kept, ToldInv
<1>5. PassesAreOfTheReceiptsContent'
  <2> SUFFICES ASSUME NEW k \in Checks \ {"contract"}, receipt'.evidence[k].outcome = "passed"
               PROVE  Holds(receipt'.evidence[k], receipt'.at) /\ (receipt'.evidence[k].undisturbed => receipt'.evidence[k].of = receipt'.evidence[k].read)
    BY DEF PassesAreOfTheReceiptsContent
  <2>1. receipt'.evidence[k] = Reconciled(evidence[k]) /\ receipt'.at = content
    BY <1>1
  <2>2. receipt'.evidence[k] = evidence[k] /\ Holds(evidence[k], content)
    BY <2>1, ReconciledHolds
  <2>3. evidence[k] # None
    BY <2>2 DEF None
  <2>4. Faithful(evidence[k])
    BY <2>3 DEF EvidenceInv
  <2> QED
    BY <2>1, <2>2, <2>4 DEF Faithful
<1>6. PinnedModelIsFulfilled'
  <2> SUFFICES ASSUME receipt'.required = "checked"
               PROVE  /\ receipt'.at.model = Pinned /\ receipt'.evidence["model"].outcome = "passed"
                      /\ Holds(receipt'.evidence["model"], receipt'.at)
    BY DEF PinnedModelIsFulfilled
  <2>1. receipt'.at = content /\ receipt'.evidence["model"] = found["model"] /\ receipt'.required = Selection(found["model"])
    BY <1>1 DEF Checks
  <2> QED
    BY <2>1 DEF Selection
<1> QED
  BY <1>2, <1>3, <1>4, <1>5, <1>6

\* Every step keeps it.
LEMMA StepInv == Inv /\ [Next]_vars => Inv'
<1> SUFFICES ASSUME Inv, [Next]_vars PROVE Inv'
  OBVIOUS
<1>1. CASE UNCHANGED vars
  BY <1>1 DEF vars, Inv, TypeOK, CheckInv, EvidenceInv, Kept, ToldInv, StartInv, PinnedModelIsFulfilled, PassesAreOfTheReceiptsContent
<1>2. CASE Next
  <2>1. CASE \E continues \in BOOLEAN : Input(continues)
    BY <2>1, InputKeeps
  <2>2. CASE Tool \/ Edit
    BY <2>2, FilesKeep
  <2>3. CASE TurnEnds \/ RunStopped
    BY <2>3, TurnsKeep
  <2>4. CASE Stop
    BY <2>4, StopKeeps
  <2>5. CASE Verify
    BY <2>5, RungsKeep, EndKeeps, ReuseKeeps, PublishKeeps DEF Verify
  <2> QED
    BY <1>2, <2>1, <2>2, <2>3, <2>4, <2>5 DEF Next
<1> QED
  BY <1>1, <1>2

-----------------------------------------------------------------------------
(* What the gate keeps. *)

\* The invariant of the gate, whatever fails and whoever edits.
LEMMA AlwaysInv == Spec => []Inv
BY InitInv, StepInv, PTL DEF Spec

\* The state stays of its types.
THEOREM GateTypeCorrect == Spec => []TypeOK
<1>1. Inv => TypeOK
  BY DEF Inv
<1> QED
  BY <1>1, AlwaysInv, PTL

\* A receipt's pass is of its own content and of what its check read.  (gate.ts
\* settledCheck.)
THEOREM PassesStayOfTheirContent == Spec => []PassesAreOfTheReceiptsContent
<1>1. Inv => PassesAreOfTheReceiptsContent
  BY DEF Inv
<1> QED
  BY <1>1, AlwaysInv, PTL

\* A pinned model is checked by a pass of the receipt's own content.
\* (model-rule.ts modelSelectionState.)
THEOREM PinnedModelsAreFulfilled == Spec => []PinnedModelIsFulfilled
<1>1. Inv => PinnedModelIsFulfilled
  BY DEF Inv
<1> QED
  BY <1>1, AlwaysInv, PTL

\* No failure goes back to the agent twice in a request.  (gate-rule.ts
\* gateVerdict.)
THEOREM FailuresGoBackOnce == Spec => []NoFailureGoesBackTwice
<1>1. Inv => NoFailureGoesBackTwice
  BY DEF Inv, ToldInv, NoFailureGoesBackTwice
<1> QED
  BY <1>1, AlwaysInv, PTL

\* Only a published receipt is a verified one.
LEMMA OnlyPublished ==
  ASSUME Inv, Next, receipt.kind = "none", receipt'.kind = "verified"
  PROVE  \E goesOn \in BOOLEAN : Publish(goesOn)
<1>1. ~(\E continues \in BOOLEAN : Input(continues)) /\ ~(Tool \/ Edit) /\ ~RunStopped /\ ~Stop
  BY DEF Input, Tool, Edit, RunStopped, Stop, StoppedReceipt
<1>2. ~TurnEnds
  BY DEF TurnEnds, Unchanged, SelectionBack, Settle
<1>3. ~(\E k \in Checks : Skip(k) \/ Begin(k) \/ End(k)) /\ ~Reuse
  BY DEF Skip, Begin, End, Reuse
<1> QED
  BY <1>1, <1>2, <1>3 DEF Next, Verify

\* A failure a receipt settles with went to the agent, unless the base had it or
\* the run ended on its question.  (gate-rule.ts gateVerdict, commandVerdict.)
THEOREM SettledFailuresWereTold == Spec => FailuresWereTold
<1> DEFINE Told == receipt.kind = "none" /\ receipt'.kind = "verified" /\ ~question => \A k \in Checks :
                      LET e == receipt'.evidence[k] IN
                      e.outcome = "failed" => told[k][e.failure] = 1 \/ (k = "command" /\ e.failure \in OnBase)
<1>1. ASSUME Inv, [Next]_vars PROVE [Told]_vars
  <2> SUFFICES ASSUME Next, receipt.kind = "none", receipt'.kind = "verified", ~question,
                      NEW k \in Checks, receipt'.evidence[k].outcome = "failed"
               PROVE  told[k][receipt'.evidence[k].failure] = 1 \/ (k = "command" /\ receipt'.evidence[k].failure \in OnBase)
    BY <1>1
  <2>1. PICK goesOn \in BOOLEAN : Publish(goesOn)
    BY <1>1, OnlyPublished
  <2>2. receipt'.evidence[k] = Reconciled(evidence[k])
    BY <2>1 DEF Publish
  <2>3. receipt'.evidence[k] = evidence[k]
    BY <2>2, ReconciledHolds
  <2>4. evidence[k] # None /\ evidence[k].outcome = "failed"
    BY <2>3 DEF None
  <2>5. evidence[k].failure \in Failures
    BY <1>1, <2>4 DEF Inv, EvidenceInv, Sound
  <2> QED
    BY <1>1, <2>3, <2>4, <2>5 DEF Inv, ToldInv
<1> QED
  BY <1>1, AlwaysInv, PTL DEF Spec, FailuresWereTold

\* What differs nowhere is the same.
LEMMA SameParts ==
  ASSUME NEW a \in Contents, NEW b \in Contents, \A p \in {"code", "model"} : a[p] = b[p]
  PROVE  a = b
BY DEF Contents

\* A run whose tools left the folder other than they found it settles with a
\* receipt of what it left.  (gate.ts agent_before_settle.)
THEOREM ChangesStayReceipted == Spec => ChangesAreReceipted
<1> DEFINE Receipted == step # "idle" /\ step' = "idle" /\ untouched # None /\ content # untouched => receipt'.kind # "none" /\ receipt'.at = content
<1>1. ASSUME Inv, [Next]_vars PROVE [Receipted]_vars
  <2> SUFFICES ASSUME Next, step # "idle", step' = "idle", untouched # None, content # untouched
               PROVE  receipt'.kind # "none" /\ receipt'.at = content
    BY <1>1
  <2>1. start = untouched /\ tools
    BY <1>1 DEF Inv, StartInv
  <2>2. ChangedParts # {}
    <3>1. content \in Contents /\ start \in Contents
      BY <1>1, <2>1 DEF Inv, TypeOK
    <3>2. \E p \in {"code", "model"} : content[p] # start[p]
      BY <2>1, <3>1, SameParts
    <3> QED
      BY <2>1, <3>2 DEF ChangedParts
  <2>3. ~(\E continues \in BOOLEAN : Input(continues)) /\ ~(Tool \/ Edit)
    BY DEF Input, Tool, Edit, admitted
  <2>4. ASSUME NEW ends \in {"completed", "question", "stopped"}, NEW goesOn \in BOOLEAN PROVE ~Unchanged(ends, goesOn)
    BY <2>1, <2>2 DEF Unchanged, Required, Verifiable
  <2>5. ~SelectionBack /\ ~(\E unresolved \in BOOLEAN : Settle(unresolved))
    BY DEF SelectionBack, Settle
  <2>6. ASSUME NEW k \in Checks, NEW e, Judged(k, e) PROVE FALSE
    BY <2>6 DEF Judged, After, Checks
  <2>7. ~(\E k \in Checks : Skip(k) \/ Begin(k)) /\ ~Reuse
    BY <2>6 DEF Skip, Begin, Reuse, After, Checks
  <2>8. ~(\E k \in Checks : End(k))
    BY <2>6 DEF End
  <2>9. CASE RunStopped \/ Stop
    BY <2>9 DEF RunStopped, Stop, StoppedReceipt
  <2>10. CASE \E goesOn \in BOOLEAN : Publish(goesOn)
    BY <2>10 DEF Publish
  <2> QED
    BY <2>3, <2>4, <2>5, <2>7, <2>8, <2>9, <2>10 DEF Next, TurnEnds, Verify
<1> QED
  BY <1>1, AlwaysInv, PTL DEF Spec, ChangesAreReceipted
=============================================================================
