------------------------------ MODULE Receipt ------------------------------
(***************************************************************************)
(* What a settled run tells its operator.  A receipt gains its evidence    *)
(* item by item; its findings, its standing, its color, its method rows,   *)
(* its detail lines and a repository's part of it are each computed from   *)
(* the items, and must say the same thing.  So must the footer's evidence  *)
(* row, a receipt in a few counted words, whose layout keeps the           *)
(* permission mode in sight.                                               *)
(***************************************************************************)
EXTENDS Integers, FiniteSets

CONSTANTS
  Offers,    \* the folders of a receipt, each with the items it may record
  MaxItems,  \* bounds the items of one receipt
  Widths     \* of the footer: the widths of the parts, the spaces and the whole row

VARIABLES
  folders,   \* the receipt's units; {""} when it is one repository's
  plain,     \* the folders in no repository and with no snapshot: nothing verifies them
  required,  \* the operator's required model: "none", "checked", "unchecked" or "changed"
  items,     \* what each unit records
  whole      \* the facts that belong to no unit
vars == <<folders, plain, required, items, whole>>

Sources == {"a", "b"}    \* implementation files; "t" is a test, "m" a model of its own
Facts == {"stopped", "question", "effect", "opinion", "child", "refusal", "clarification"}

Of(f, what) == {i \in items[f] : i.is = what}
Has(f, what) == Of(f, what) # {}
Verified == folders \ plain

----------------------------------------------------------------------------
(* How a check ended.                                                       *)

\* A model's outcome follows from its run and its planted faults.
Outcome(i) ==
  CASE i.stale -> "not_started"
    [] i.is # "model" -> i.outcome
    [] i.run # "passed" -> (IF i.run \in {"violated", "malformed"} THEN "failed" ELSE i.run)
    [] i.faults = {} -> "vacuous"
    [] OTHER -> IF i.faults \cap {"passes", "broken"} # {} THEN "failed" ELSE "passed"
Preexisting(i) == i.is = "command" /\ i.origin = "preexisting"
Verdict(i) ==
  CASE Outcome(i) = "passed" -> "proved"
    [] Outcome(i) \notin {"failed", "vacuous"} \/ Preexisting(i) -> "operator"
    [] OTHER -> IF i.sent THEN "no_progress" ELSE "send_back"
CheckEnd(i) ==
  CASE i.stale -> "gap"
    [] i.is = "model" ->
         (IF i.run = "violated" \/ (i.run = "passed" /\ "passes" \in i.faults) THEN "failed"
          ELSE IF Outcome(i) = "passed" THEN "passed" ELSE "gap")
    [] OTHER -> IF Outcome(i) = "failed" THEN "failed" ELSE IF Outcome(i) = "passed" THEN "passed" ELSE "gap"
Checks(f) == Of(f, "proof") \cup Of(f, "command") \cup Of(f, "model")
Assumed(f, p) == ~Has(f, "unread") /\ \E i \in Of(f, "weakening") : i.added /\ i.path = p

----------------------------------------------------------------------------
(* The paths a request changed, and which of them something covers.         *)

Inventory(f) == IF Has(f, "unreadable") THEN {} ELSE {i.path : i \in Of(f, "changed")}
Proved(f) == {i.path : i \in {j \in Of(f, "proof") : Verdict(j) = "proved"}}
Unproved(f) == IF Has(f, "comments") THEN {} ELSE (Inventory(f) \cap Sources) \ Proved(f)
Tested(f) == Has(f, "command") /\ \A i \in Of(f, "command") : Verdict(i) = "proved"
SourceCreditStale(i, p) == p \in i.sources
SourceCredit(i, p) == p \in i.sources /\ i.current
\* The paths the standing weighs, each proved, or tested and exercised, or not.
ChangedPaths(f) ==
  Inventory(f) \cup Unproved(f) \cup {i.path : i \in Of(f, "proof") \cup Of(f, "model") \cup Of(f, "uncovered")}
IsProved(f, p) ==
  /\ p \notin Unproved(f)
  /\ ~\E i \in Of(f, "model") : i.path = p /\ (Verdict(i) # "proved" \/ i.stale)
PathCovered(f, p) == IsProved(f, p) \/ (Tested(f) /\ \E i \in Of(f, "exercise") : SourceCredit(i, p))
CoveredPaths(f) == {p \in ChangedPaths(f) : ~IsProved(f, p) /\ PathCovered(f, p)}

----------------------------------------------------------------------------
(* The findings: each thing recorded, and what it asks of the operator.     *)

Finding(f, st, ch, lb, i) == [folder |-> f, standing |-> st, check |-> ch, label |-> lb, of |-> i]
CheckOf == [proof |-> "proof", command |-> "tests", model |-> "model"]
CheckFinding(f, i) ==
  LET standing ==
        CASE Verdict(i) = "proved" /\ CheckEnd(i) = "passed" -> "holds"
          [] Preexisting(i) \/ CheckEnd(i) # "failed" -> "gap"
          [] OTHER -> "decide"
  IN  Finding(f, standing, CheckOf[i.is], IF standing = "decide" THEN "fails" ELSE "ended", i)
\* What a check that holds leaves open: an abstraction, a fault that did not run, a confirmation that is old.
LimitFindings(f, i) ==
  {Finding(f, "gap", CheckOf[i.is], "limit", i) : x \in {y \in {i} : i.is = "proof" /\ i.limits}} \cup
  {Finding(f, "gap", CheckOf[i.is], "unrun", i) : x \in {y \in {i} : i.is = "model" /\ Verdict(i) = "proved" /\ "unrun" \in i.faults}} \cup
  {Finding(f, "gap", CheckOf[i.is], "drift", i) : x \in {y \in {i} : i.is = "model" /\ i.drift}}
ContractFinding(f, i) ==
  Finding(f, IF i.survived > 0 THEN "decide" ELSE IF i.rejected = 0 THEN "gap" ELSE "holds", "contract", "", i)
ExerciseFinding(f, i) ==
  Finding(f, CASE i.sensitivity = "fails_then_passes" -> "holds" [] i.sensitivity = "passes_on_base" -> "decide" [] OTHER -> "gap",
          "exercise", "", i)
PathFindings(f) ==
  {Finding(f, IF p \in CoveredPaths(f) THEN "holds" ELSE "gap", "coverage", "unproved", [is |-> "path", path |-> p]) : p \in Unproved(f)}
Limits == {"unresolved", "unknown", "unmeasured", "uncovered", "tooLarge", "unheaded"}
UnitFindings(f) ==
  LET found ==
        UNION {{CheckFinding(f, i)} \cup LimitFindings(f, i) : i \in Checks(f)}
          \cup {Finding(f, "decide", "weakening", "", i) :
                  i \in IF Has(f, "unread") THEN Of(f, "unread") ELSE Of(f, "weakening")}
          \cup {ContractFinding(f, i) : i \in Of(f, "contract")} \cup {ExerciseFinding(f, i) : i \in Of(f, "exercise")}
          \cup {Finding(f, "gap", "coverage", "unchecked", i) : i \in IF Has(f, "proof") THEN Of(f, "unread") ELSE {}}
          \cup {Finding(f, "gap", IF i.is = "unheaded" THEN "model" ELSE "coverage", "", i) : i \in {j \in items[f] : j.is \in Limits}}
          \cup PathFindings(f)
  IN  IF found = {} /\ Has(f, "comments")
      THEN {Finding(f, "holds", "coverage", "nothing", [is |-> "comments"])} ELSE found
Said(st, ch, what) == Finding("", st, ch, what, [is |-> what])
RequiredFinding == {Said(IF required = "checked" THEN "holds" ELSE "gap", "model", "required") : x \in {required} \ {"none"}}
External == {Said("gap", "coverage", "effect") : x \in whole \cap {"effect"}}
Findings ==
  IF "stopped" \in whole THEN {Said("decide", "coverage", "stopped")} \cup RequiredFinding \cup External
  ELSE {Said("decide", "request", "question") : x \in whole \cap {"question"}}
         \cup UNION {UnitFindings(f) : f \in Verified}
         \cup {Finding(f, "decide", "coverage", "plain", [is |-> "plain"]) : f \in plain}
         \cup External \cup {Said("opinion", "request", "opinion") : x \in whole \cap {"opinion"}} \cup RequiredFinding

----------------------------------------------------------------------------
(* The receipt in one word and in one color.                                *)

Count(found, st) == Cardinality({n \in found : n.standing = st})
Decisions == Count(Findings, "decide")
Failed == \E f \in Verified : \E i \in Checks(f) : CheckEnd(i) = "failed"
Passed == Cardinality(UNION {{<<f, i>> : i \in {j \in Checks(f) : Verdict(j) = "proved" /\ ~j.stale}} : f \in Verified})
Unreadable == \E f \in Verified : Has(f, "unreadable")
CommentsOnly == Verified # {} /\ \A f \in Verified : Has(f, "comments")
Gaps == Count({n \in Findings : n.label # "unproved"}, "gap") + (IF Unreadable THEN 1 ELSE 0)
RunStanding ==
  LET changed == Unreadable \/ CommentsOnly \/ required # "none" \/ \E f \in Verified : ChangedPaths(f) # {}
  IN  CASE "stopped" \in whole \/ Decisions > 0 -> IF Failed THEN "failed" ELSE "incomplete"
        [] ~changed -> "unchanged"
        [] Passed = 0 -> "unverified"
        [] Gaps > 0 \/ \E f \in Verified : \E p \in ChangedPaths(f) : ~PathCovered(f, p) -> "incomplete"
        [] OTHER -> "verified"
Standing == IF "effect" \in whole /\ RunStanding # "failed" THEN "incomplete" ELSE RunStanding
ReceiptTone ==
  CASE Decisions > 0 -> IF \E n \in Findings : n.standing = "decide" /\ n.label = "fails" THEN "error" ELSE "warning"
    [] OTHER -> IF Count(Findings, "gap") > 0 THEN "warning" ELSE "success"
SummaryTone == IF ReceiptTone = "success" /\ Standing # "verified" THEN "warning" ELSE ReceiptTone
StatementResult ==
  CASE "stopped" \in whole -> "CANCELLED" [] Standing \in {"verified", "unchanged"} -> "COMPLETED"
    [] Standing = "failed" -> "FAILED" [] OTHER -> "none"

(* A method's row is a tick only when every run of it held outright. *)
Ran(f, i) ==
  CASE Verdict(i) = "proved" ->
         (IF (i.is = "proof" /\ Assumed(f, i.path)) \/ (i.is = "model" /\ (i.written \/ i.drift \/ "unrun" \in i.faults))
          THEN "partly" ELSE "holds")
    [] CheckEnd(i) = "failed" -> "failed"
    [] OTHER -> "none"
Runs(what) == UNION {{<<f, i, Ran(f, i)>> : i \in Of(f, what)} : f \in Verified}
MethodStanding(what) ==
  LET runs == Runs(what)
      some(how) == \E r \in runs : r[3] \in how
  IN  CASE runs # {} /\ ~some({"partly", "failed", "none"}) -> "holds"
        [] some({"holds", "partly"}) -> "partly"
        [] OTHER -> IF some({"failed"}) THEN "fails" ELSE "none"

(* What a check's detail line says of it: it holds, it repeats a failure that went back, or it stays open. *)
Again(i) == IF CheckEnd(i) = "failed" THEN "repeats" ELSE "open"
Line(i) ==
  CASE i.stale -> "open"
    [] Verdict(i) = "proved" -> "holds"
    [] Verdict(i) = "no_progress" /\ ~(i.is = "proof" /\ Outcome(i) = "vacuous") -> Again(i)
    [] OTHER -> "open"

----------------------------------------------------------------------------
(* A repository's part of the receipt of a folder of repositories, as a     *)
(* pull request of it states it: its own findings and those of the request. *)

UnitFailed(f) == \E i \in Checks(f) : CheckEnd(i) = "failed"
UnitDecides(f) == Count(UnitFindings(f), "decide") > 0 \/ "question" \in whole
UnitStanding(f) ==
  LET passed == \E i \in Checks(f) : Verdict(i) = "proved" /\ ~i.stale
      gaps == Has(f, "unreadable") \/ \E n \in UnitFindings(f) : n.standing = "gap" /\ n.label # "unproved"
      run == CASE "stopped" \in whole \/ UnitDecides(f) -> IF UnitFailed(f) THEN "failed" ELSE "incomplete"
               [] ~(Has(f, "unreadable") \/ Has(f, "comments") \/ ChangedPaths(f) # {}) -> "unchanged"
               [] ~passed -> "unverified"
               [] gaps \/ \E p \in ChangedPaths(f) : ~PathCovered(f, p) -> "incomplete"
               [] OTHER -> "verified"
  IN  IF "effect" \in whole /\ run # "failed" THEN "incomplete" ELSE run

----------------------------------------------------------------------------
Init ==
  /\ \E o \in Offers :
       /\ folders = DOMAIN o.items /\ plain = o.plain /\ required = o.required
       /\ items = [f \in folders |-> {}]
  /\ whole = {}
Size == Cardinality(whole) + Cardinality(UNION {{<<f, i>> : i \in items[f]} : f \in folders})
\* Verification records one more thing of a repository.
Record(f) ==
  /\ Size < MaxItems /\ f \notin plain /\ "stopped" \notin whole
  /\ \E o \in Offers :
       /\ folders = DOMAIN o.items
       /\ \E i \in o.items[f] \ items[f] : items' = [items EXCEPT ![f] = @ \cup {i}]
  /\ UNCHANGED <<folders, plain, required, whole>>
\* The run leaves something that is no unit's: an external call, an unresolved
\* question, or what is context only.
Note ==
  /\ Size < MaxItems
  /\ \E n \in Facts \ (whole \cup {"stopped"}) : whole' = whole \cup {n}
  /\ UNCHANGED <<folders, plain, required, items>>
\* A run that stopped records what it left and no evidence.
Stopped ==
  /\ Size < MaxItems /\ "stopped" \notin whole /\ \A f \in folders : items[f] = {}
  /\ whole' = whole \cup {"stopped"}
  /\ UNCHANGED <<folders, plain, required, items>>
Next == (\E f \in folders : Record(f)) \/ Note \/ Stopped
Spec == Init /\ [][Next]_vars

----------------------------------------------------------------------------
TypeOK ==
  /\ plain \subseteq folders /\ required \in {"none", "checked", "unchecked", "changed"}
  /\ whole \subseteq Facts /\ Size <= MaxItems

\* A receipt reads as verified only when every changed source file was proved as
\* it is, or its tests passed and one was seen to notice it; nothing failed, nothing
\* is open, and no external write is left unverified (verdict-rule.ts).
VerifiedIsEarned ==
  Standing = "verified" =>
    /\ whole \cap {"stopped", "question", "effect"} = {} /\ plain = {}
    /\ required \in {"none", "checked"}
    /\ \A f \in folders :
         /\ ~Has(f, "unread") /\ ~Has(f, "unreadable")
         /\ \A i \in Checks(f) : ~i.stale /\ Outcome(i) = "passed"
         /\ \A p \in IF Has(f, "comments") THEN {} ELSE Inventory(f) \cap Sources :
              \/ \E i \in Of(f, "proof") : i.path = p /\ Outcome(i) = "passed"
              \/ Tested(f) /\ \E i \in Of(f, "exercise") : p \in i.sources /\ i.current

\* The word, the color and an exported result never contradict each other: green is
\* verified and verified is green, red is failed, and no result claims a completion
\* that something contradicts (receipt.ts, receiptTone, summaryTone, statementResult).
SurfacesAgree ==
  /\ Standing = "verified" <=> SummaryTone = "success"
  /\ SummaryTone = "error" => Standing = "failed"
  /\ StatementResult = "COMPLETED" => Decisions = 0 /\ whole \cap {"stopped", "question", "effect"} = {}

\* A tick on a method's row, and a line that says a check holds, stand for findings
\* that hold; a line that says a failure repeats stands for one that needs the operator.
RowsNeverOverstate ==
  /\ \A f \in Verified : \A i \in Checks(f) :
       /\ Line(i) = "holds" <=> CheckFinding(f, i).standing = "holds"
       /\ Line(i) = "repeats" => CheckFinding(f, i).standing = "decide"
  /\ \A what \in {"command", "model"} :
       MethodStanding(what) = "holds" =>
         \A n \in UNION {UnitFindings(f) : f \in Verified} : n.of.is = what => n.standing = "holds"
  /\ MethodStanding("proof") = "holds" => \A f \in Verified : \A i \in Of(f, "proof") : ~Assumed(f, i.path) /\ ~i.stale

\* A repository's part never reads better than the whole nor fails apart from it.
PartsAgree ==
  \A f \in Verified :
    /\ UnitStanding(f) = "failed" => Standing = "failed"
    /\ Standing = "verified" => UnitStanding(f) \in {"verified", "unverified", "unchanged"}

\* Only evidence makes a receipt verified: a check that passed, a test seen to notice
\* the change, or the reading that the change is comments only.  What is context or opinion changes neither its standing nor its color.
OnlyEvidenceCounts ==
  /\ Standing \notin {"verified", "unchanged"} /\ Standing' = "verified" =>
       \E f \in folders : \E i \in items'[f] \ items[f] :
         \/ i.is \in {"proof", "command", "model"} /\ Outcome(i) = "passed"
         \/ i.is = "exercise" /\ i.sensitivity = "fails_then_passes"
         \/ i.is = "comments"
  /\ items' = items /\ whole' \ whole \subseteq {"opinion", "child", "refusal", "clarification"} =>
       Standing' = Standing /\ SummaryTone' = SummaryTone /\ Decisions' = Decisions
Inv == TypeOK /\ VerifiedIsEarned /\ SurfacesAgree /\ RowsNeverOverstate /\ PartsAgree

----------------------------------------------------------------------------
(* The footer's row (footer.ts).                                            *)

(* allEvidence: the units together; a weakening that could not be read in one  *)
(* marks the whole.                                                            *)
All(what) == UNION {{<<f, i>> : i \in Of(f, what)} : f \in Verified}
Unread == All("unread") # {}
AllAssumed(r) == ~Unread /\ Assumed(r[1], r[2].path)

Part(what, n, color) == IF n > 0 THEN {[what |-> what, n |-> n, color |-> color]} ELSE {}
CountOf(s) == Cardinality(s)

(* tallyParts: of the proofs that passed, those that rest on what the change   *)
(* assumed are told apart.                                                     *)
ProvedRuns == {r \in All("proof") : Verdict(r[2]) = "proved"}
TallyParts ==
  LET assumed == {r \in ProvedRuns : AllAssumed(r)}
      passed == All("command") # {} /\ \A r \in All("command") : Verdict(r[2]) = "proved"
      failed == \E r \in All("command") : CheckEnd(r[2]) = "failed"
  IN  Part("proved", CountOf(ProvedRuns \ assumed), "success") \cup Part("on trust", CountOf(assumed), "warning")
        \cup Part("not proved", CountOf({r \in All("proof") : CheckEnd(r[2]) = "failed"}), "error")
        \cup Part("tests fail", IF failed THEN 1 ELSE 0, "error")
        \cup Part("tests pass", IF passed /\ ~failed THEN 1 ELSE 0, "success")
        \cup Part("weak", CountOf({r \in All("contract") : r[2].survived > 0}), "warning")

StrongParts == Part("strong", IF All("contract") # {} /\ \A r \in All("contract") : r[2].survived = 0 /\ r[2].rejected > 0
                              THEN 1 ELSE 0, "success")

(* modelParts *)
ModelParts ==
  Part("modeled", CountOf({r \in All("model") : Verdict(r[2]) = "proved"}), "success")
    \cup Part("model fails", CountOf({r \in All("model") : CheckEnd(r[2]) = "failed"}), "error")
    \cup Part("stale", CountOf({r \in All("model") : r[2].drift}), "warning")

(* uncheckedGaps: the gaps no other part names. *)
AllUnproved == UNION {{<<f, p>> : p \in Unproved(f)} : f \in Verified}
AllCovered == UNION {{<<f, p>> : p \in CoveredPaths(f)} : f \in Verified}
GapCount == Count(Findings, "gap")
UncheckedGapsOfAny == GapCount - CountOf(All("uncovered")) - CountOf(AllUnproved) - CountOf({r \in All("model") : r[2].drift})
                        - (IF Unread /\ All("proof") # {} THEN 1 ELSE 0)
UncheckedGaps ==
  GapCount - CountOf(All("uncovered")) - (CountOf(AllUnproved) - CountOf(AllCovered))
    - CountOf({r \in All("model") : r[2].drift}) - (IF Unread /\ All("proof") # {} THEN 1 ELSE 0)

Listed ==
  TallyParts \cup StrongParts \cup ModelParts
    \cup Part("lines", CountOf(All("uncovered")), "warning") \cup Part("files", CountOf(AllUnproved), "warning")
    \cup Part("not checked", UncheckedGaps, "warning")
    \cup Part("passes on base", CountOf({r \in All("exercise") : r[2].sensitivity = "passes_on_base"}), "warning")
    \cup (IF Unread THEN Part("weakening not checked", 1, "warning") ELSE Part("may weaken", CountOf(All("weakening")), "warning"))
    \cup Part("no Git", CountOf(plain), "warning")

(* nothingListed *)
NothingListed ==
  IF CommentsOnly THEN Part("comments only", 1, "muted")
  ELSE Part(Standing, IF Standing \in {"unverified", "unchanged"} THEN 1 ELSE 0, IF Standing = "unverified" THEN "warning" ELSE "muted")

(* receiptHead *)
ReceiptHead ==
  IF Decisions > 0 THEN [mark |-> "!", color |-> ReceiptTone]
  ELSE IF Standing = "verified" THEN [mark |-> "ok", color |-> "success"]
  ELSE [mark |-> "o", color |-> IF Standing = "unchanged" THEN "muted" ELSE "warning"]

(* receiptParts: a run that stopped, or one that verified nothing, says that.  *)
ReceiptParts ==
  CASE "stopped" \in whole -> Part("not verified, run ended", 1, "warning")
    [] Verified = {} -> Part("not verified, no Git", 1, "warning")
    [] OTHER -> IF Listed = {} THEN NothingListed ELSE Listed
RowHead == IF "stopped" \in whole \/ Verified = {} THEN [mark |-> "!", color |-> "warning"] ELSE ReceiptHead

-----------------------------------------------------------------------------
(* footerLayout (footer-rule.ts): the first that fits of everything, no folder,*)
(* no model, shorter evidence, glyphs, no context; the statuses always show.   *)
Sides == [place : BOOLEAN, model : BOOLEAN, context : BOOLEAN]
RightWidth(w, s) ==
  LET shown == (IF s.place THEN 1 ELSE 0) + (IF s.model THEN 1 ELSE 0) + (IF s.context THEN 1 ELSE 0) + (IF w.status > 0 THEN 1 ELSE 0)
      wide == (IF s.place THEN w.place ELSE 0) + (IF s.model THEN w.model ELSE 0) + (IF s.context THEN w.context ELSE 0) + w.status
  IN  IF shown = 0 THEN 0 ELSE wide + 3 * (shown - 1)
Fits(width, left, right) == IF right = 0 THEN left <= width ELSE left + 2 + right <= width
Side(place, model, context) == [place |-> place, model |-> model, context |-> context]
Everything == Side(TRUE, TRUE, TRUE)
NoFolder == Side(FALSE, TRUE, TRUE)
ContextOnly == Side(FALSE, FALSE, TRUE)
FooterLayout(w) ==
  LET fit(level, s) == Fits(w.width, w[level], RightWidth(w, s))
      as(level, s) == [level |-> level, side |-> s]
  IN  IF fit("full", Everything) THEN as("full", Everything)
      ELSE IF fit("full", NoFolder) THEN as("full", NoFolder)
      ELSE IF fit("full", ContextOnly) THEN as("full", ContextOnly)
      ELSE IF fit("short", ContextOnly) THEN as("short", ContextOnly)
      ELSE as("glyphs", [ContextOnly EXCEPT !.context = fit("glyphs", ContextOnly)])

-----------------------------------------------------------------------------
(* The row's first word never contradicts its color or the receipt: a tick is  *)
(* a verified receipt, and red or amber there asks for what the receipt asks.  *)
HeadAgrees ==
  /\ RowHead.mark = "ok" <=> Standing = "verified"
  /\ RowHead.color = "success" <=> SummaryTone = "success"
  /\ RowHead.color = "error" => Standing = "failed"

(* Amber says why: a row whose head is not green or muted lists something that *)
(* is not a pass, unless all the receipt asks is the answer to a question.     *)
AmberSaysWhy ==
  RowHead.color \in {"warning", "error"} =>
    \/ \E x \in ReceiptParts : x.color # "success"
    \/ \A n \in Findings : n.standing \in {"decide", "gap"} => n.check = "request"

(* What the row counts as not checked is what no other part of it names.       *)
Named(n) == n.label \in {"unproved", "drift", "unchecked"} \/ n.of.is = "uncovered"
GapsAreCountedOnce ==
  "stopped" \notin whole /\ Cardinality(folders) = 1 =>
    UncheckedGaps = Cardinality({n \in Findings : n.standing = "gap" /\ ~Named(n)})

(* Of one repository, a proof the row counts as proved holds outright.         *)
ProvedIsOutright ==
  Cardinality(folders) = 1 =>
    \A x \in ReceiptParts : x.what = "proved" =>
      x.n = Cardinality({r \in ProvedRuns : ~Assumed(r[1], r[2].path)})

(* A row that is wide enough for its glyphs beside the statuses never cuts the *)
(* statuses off, and a narrower row shows no more than a wider one.            *)
Shows(w) == LET l == FooterLayout(w) IN {k \in {"place", "model", "context"} : l.side[k]} \cup
              (IF l.level = "full" THEN {"full", "short"} ELSE IF l.level = "short" THEN {"short"} ELSE {})
StatusesAlwaysFit ==
  \A w \in Widths :
    LET l == FooterLayout(w)
    IN  /\ Fits(w.width, w.glyphs, RightWidth(w, Side(FALSE, FALSE, FALSE))) =>
             Fits(w.width, w[l.level], RightWidth(w, l.side))
        /\ Shows(w) \subseteq Shows([w EXCEPT !.width = @ + 1])

FooterInv == HeadAgrees /\ AmberSaysWhy /\ GapsAreCountedOnce /\ ProvedIsOutright
=============================================================================
