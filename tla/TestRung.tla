------------------------------ MODULE TestRung ------------------------------
(***************************************************************************)
(* The test rung: a project's command runs on the change and, when it      *)
(* ended, on the base; a changed test runs over the base; and each changed *)
(* source is put back on its own to see whether that test notices.  What   *)
(* a run shows is what the tests do on the content it happened to read.    *)
(***************************************************************************)
EXTENDS Naturals

CONSTANTS
  Elsewhere,   \* how the project's other tests may behave
  Behaviors,   \* how the changed test may behave
  Uncovered    \* whether a report may leave out a failure of the run

Sources == {"s1", "s2"}
VARIABLES
  world,      \* how the tests behave, whether the base holds the test file, whether it runs alone
  tree,       \* the checkout's files: "none", "old", "new" or "later"
  pc,
  hash,       \* the content the command's evidence, then the source evidence, names
  work,       \* the worktree of a source exercise
  cand,       \* the run the next one is compared with
  found,      \* the result so far
  stopped, expired
vars == <<world, tree, pc, hash, work, cand, found, stopped, expired>>

Base == [s1 |-> "old", s2 |-> "old", t |-> IF world.added THEN "none" ELSE "old"]
Changed == [s1 |-> "new", s2 |-> "new", t |-> "new"]

----------------------------------------------------------------------------
(* What running the tests on a content shows.                               *)

\* A test fails always, never, where a source is as it was (it needs the change), where
\* one is changed (the change broke it), or cannot even be loaded without the change.
Fails(how, c) ==
  CASE how = "always" -> TRUE
    [] how \in {"needs_s1", "loads_s1"} -> c.s1 = "old"
    [] how = "needs_s2" -> c.s2 = "old"
    [] how = "breaks" -> c.s1 # "old"
    [] OTHER -> FALSE
Present(c) == c.t \in {"new", "later"}
Unloaded(c) == Present(c) /\ world.test = "loads_s1" /\ Fails("loads_s1", c)
\* The named tests a run of the whole command, or of the test file alone, meets.
Tests(c, alone) ==
  (IF alone THEN {} ELSE {"a"}) \cup (IF Present(c) /\ ~Unloaded(c) THEN {"t"} ELSE {}) \cup (IF c.t = "old" THEN {"t0"} ELSE {})
Status(n, c) ==
  LET how == IF n = "a" THEN world.other ELSE IF n = "t" THEN world.test ELSE "never"
  IN  IF how = "skips" THEN "skipped" ELSE IF Fails(how, c) THEN "failed" ELSE "passed"
FailsIn(c, alone) == Unloaded(c) \/ \E n \in Tests(c, alone) : Status(n, c) = "failed"

NoResults == [read |-> FALSE, tests |-> <<>>]
Ran(outcome, results) == [outcome |-> outcome, results |-> results]
Nothing == Ran("none", NoResults)
\* A run ends by itself, with a report of its tests or without; or it is stopped, runs
\* past its limit or does not start.
Ends(c, alone) ==
  IF stopped \/ expired THEN {Ran("cancelled", NoResults)} ELSE
  LET outcome == IF FailsIn(c, alone) THEN "failed" ELSE "passed"
      report == [read |-> TRUE, tests |-> [n \in Tests(c, alone) |-> Status(n, c)]]
  IN  {Ran("timed_out", NoResults), Ran("not_started", NoResults), Ran(outcome, NoResults)} \cup
      (IF Unloaded(c) /\ ~Uncovered THEN {} ELSE {Ran(outcome, report)})

Reported(r, n) == IF n \in DOMAIN r.tests THEN r.tests[n] ELSE "none"
Failing(r) == {n \in DOMAIN r.tests : r.tests[n] = "failed"}
\* A test has no result on the base only when the base's run wrote a report.
IntroducedTests(c, b) == {n \in Failing(c) : Reported(b, n) = "passed" \/ (Reported(b, n) = "none" /\ b.read)}
FailuresSeenOnBase(c, b) == c.read /\ b.read /\ Failing(c) # {} /\ \A n \in Failing(c) : Reported(b, n) = "failed"
CheckOrigin(c, b) ==
  CASE c.outcome \notin {"failed", "timed_out"} -> "unknown"
    [] b.outcome = "passed" -> "introduced"
    [] IntroducedTests(c.results, b.results) # {} /\ b.outcome \in {"failed", "timed_out"} -> "introduced"
    [] b.outcome = c.outcome /\ FailuresSeenOnBase(c.results, b.results) -> "preexisting"
    [] OTHER -> "unknown"
CommandOrigin(c, b) ==
  CASE c.outcome # "passed" -> CheckOrigin(c, b)
    [] OTHER -> IF b.outcome = "failed" THEN "fixed" ELSE "none"

----------------------------------------------------------------------------
(* The rung.                                                                *)

NoFinding == [outcome |-> "none", origin |-> "none", hash |-> Changed, sensitivity |-> "none", sources |-> {}, noticed |-> {}, cut |-> FALSE,
              evidence |-> FALSE, sourceHash |-> Changed]
Init ==
  /\ world \in [other : Elsewhere, test : Behaviors, added : BOOLEAN, alone : BOOLEAN, unfaithful : BOOLEAN]
  /\ tree = Changed /\ pc = "idle" /\ hash = Changed /\ work = Changed /\ cand = Nothing /\ found = NoFinding
  /\ stopped = FALSE /\ expired = FALSE

Goes(next, r, f) == pc' = next /\ cand' = r /\ found' = f
Keeps == UNCHANGED <<world, tree, hash, work, stopped, expired>>
Hashes ==
  /\ pc = "idle" /\ hash' = tree /\ Goes("command", Nothing, [NoFinding EXCEPT !.hash = tree])
  /\ UNCHANGED <<world, tree, work, stopped, expired>>
\* A command that neither passed nor failed is not compared, and its cause stays unknown.
RunsCommand ==
  /\ pc = "command"
  /\ \E r \in Ends(tree, FALSE) :
       LET f == [found EXCEPT !.outcome = r.outcome, !.origin = IF r.outcome \in {"timed_out", "failed"} THEN "unknown" ELSE "none"]
       IN  IF r.outcome \in {"passed", "failed"} /\ ~world.unfaithful THEN Goes("base", r, f)
           ELSE Goes(IF r.outcome = "passed" THEN "exercise" ELSE "settle", Nothing, f)
  /\ Keeps
RunsBase ==
  /\ pc = "base"
  /\ \E b \in Ends(Base, FALSE) :
       Goes(IF cand.outcome = "passed" THEN "exercise" ELSE "settle", Nothing, [found EXCEPT !.origin = CommandOrigin(cand, b)])
  /\ Keeps

\* A pass of a file alone shows nothing unless its report names a test of it that passed.
Observed(r) == r.results.read /\ \E n \in {"t", "t0"} : Reported(r.results, n) = "passed"
Judged(how) == [found EXCEPT !.sensitivity = how]
\* The test as the change leaves it, over the base.
Exercises ==
  /\ pc = "exercise"
  /\ IF world.unfaithful THEN Goes("settle", Nothing, Judged("unknown"))
     ELSE \E r \in Ends([Base EXCEPT !.t = tree.t], world.alone) :
            IF r.outcome # "passed" THEN Goes("control", r, [found EXCEPT !.cut = r.outcome = "timed_out"])
            ELSE Goes("source", Nothing, Judged(IF world.alone /\ ~Observed(r) THEN "unknown" ELSE "passes_on_base"))
  /\ Keeps
Controls ==
  /\ pc = "control"
  /\ \E b \in Ends(Base, world.alone) :
       IF CheckOrigin(cand, b) = "introduced" THEN Goes("credit", Nothing, found) ELSE Goes("source", Nothing, Judged("unknown"))
  /\ Keeps
\* It is credited only when it passes with the whole change in the same worktree.
Credits ==
  /\ pc = "credit"
  /\ \E r \in Ends(tree, world.alone) :
       Goes("source", Nothing,
            Judged(IF r.outcome = "passed" /\ (~world.alone \/ Observed(r)) THEN "fails_then_passes" ELSE "unknown"))
  /\ Keeps

\* Each source is put back on its own in a copy of the candidate; all of it counts only
\* when the candidate passes before and after and is still what it was.
BeginsSources ==
  /\ pc = "source"
  /\ IF world.alone /\ ~stopped /\ ~expired
     THEN hash' = tree /\ pc' = "copy" /\ UNCHANGED <<cand, found>>
     ELSE pc' = "settle" /\ UNCHANGED <<hash, cand, found>>
  /\ UNCHANGED <<world, tree, work, stopped, expired>>
GivesUp == pc' = "settle" /\ cand' = Nothing /\ found' = [found EXCEPT !.noticed = {}] /\ UNCHANGED work
Copies(at, next, reverted) ==
  /\ pc = at
  /\ IF stopped \/ expired THEN GivesUp
     ELSE /\ work' = [f \in DOMAIN tree |-> IF f = reverted THEN Base[f] ELSE tree[f]]
          /\ pc' = next /\ UNCHANGED <<cand, found>>
  /\ UNCHANGED <<world, tree, hash, stopped, expired>>
SourceControlHeld(r) == r.outcome = "passed" /\ work = hash /\ tree = hash
RunsControl ==
  /\ pc = "copied"
  /\ \E r \in Ends(work, TRUE) : IF SourceControlHeld(r) THEN Goes("revert_s1", r, found) /\ UNCHANGED work ELSE GivesUp
  /\ UNCHANGED <<world, tree, hash, stopped, expired>>
SourceNoticedAnyhow(control, r) == control.outcome = "passed" /\ r.outcome = "failed"
\* Newly failing assertions of the named file, never an import's or an unreported failure.
SourceNoticed(control, r) ==
  control.outcome = "passed" /\ r.outcome = "failed" /\ "t" \in Failing(r.results) /\ Reported(control.results, "t") = "passed"
RunsReverted(s, at, next) ==
  /\ pc = at
  /\ \E r \in Ends(work, TRUE) :
       Goes(next, cand, IF SourceNoticed(cand, r) THEN [found EXCEPT !.noticed = @ \cup {s}] ELSE found)
  /\ Keeps
Confirms ==
  /\ pc = "confirmed"
  /\ \E r \in Ends(work, TRUE) :
       IF SourceControlHeld(r)
       THEN Goes("settle", Nothing, [found EXCEPT !.sources = found.noticed, !.noticed = {}, !.evidence = TRUE, !.sourceHash = hash]) /\ UNCHANGED work
       ELSE GivesUp
  /\ UNCHANGED <<world, tree, hash, stopped, expired>>
\* The receipt keeps each run only as of the content there is; a stop leaves none.
Settles ==
  /\ pc = "settle" /\ pc' = "kept"
  /\ found' = IF stopped THEN NoFinding
              ELSE LET f == IF found.hash = tree THEN found ELSE [found EXCEPT !.outcome = "not_started", !.origin = "none"]
                   IN  IF found.sourceHash = tree THEN f ELSE [f EXCEPT !.sources = {}, !.evidence = FALSE]
  /\ UNCHANGED <<world, tree, hash, work, cand, stopped, expired>>

Edit(f) ==
  /\ tree[f] = "new" /\ pc # "kept" /\ tree' = [tree EXCEPT ![f] = "later"]
  /\ UNCHANGED <<world, pc, hash, work, cand, found, stopped, expired>>
Stop == ~stopped /\ pc \notin {"idle", "kept"} /\ stopped' = TRUE /\ UNCHANGED <<world, tree, pc, hash, work, cand, found, expired>>
\* The budget that all source exercises share.
Expires ==
  /\ ~expired /\ pc \in {"source", "copy", "copied", "revert_s1", "reverted_s1", "revert_s2", "reverted_s2", "confirm", "confirmed"}
  /\ expired' = TRUE
  /\ UNCHANGED <<world, tree, pc, hash, work, cand, found, stopped>>
Next ==
  \/ Hashes \/ RunsCommand \/ RunsBase \/ Exercises \/ Controls \/ Credits \/ BeginsSources
  \/ Copies("copy", "copied", "none") \/ RunsControl
  \/ Copies("revert_s1", "reverted_s1", "s1") \/ RunsReverted("s1", "reverted_s1", "revert_s2")
  \/ Copies("revert_s2", "reverted_s2", "s2") \/ RunsReverted("s2", "reverted_s2", "confirm")
  \/ Copies("confirm", "confirmed", "none") \/ Confirms
  \/ Settles \/ (\E f \in {"s1", "t"} : Edit(f)) \/ Stop \/ Expires
Spec == Init /\ [][Next]_vars

----------------------------------------------------------------------------
TypeOK ==
  /\ \A f \in Sources : tree[f] \in {"new", "later"} /\ work[f] \in {"old", "new", "later"}
  /\ found.sources \cup found.noticed \subseteq Sources
  /\ found.sensitivity \in {"none", "passes_on_base", "fails_then_passes", "unknown"}

FailingOn(c) == {n \in Tests(c, FALSE) : Status(n, c) = "failed"} \cup (IF Unloaded(c) THEN {"t"} ELSE {})
\* A failure kept from the agent as the base's own fails there test by test; one blamed on
\* the change fails only with it, or the base passes; and a check the change fixed failed before
\* it.  So it is whatever was edited, reported or cut short on the way (checkOrigin).
OriginsAreTrue ==
  pc = "kept" =>
    /\ found.origin = "preexisting" => FailingOn(tree) # {} /\ FailingOn(tree) \subseteq FailingOn(Base)
    /\ found.origin = "introduced" => FailingOn(tree) \ FailingOn(Base) # {}
    /\ found.origin = "fixed" => FailingOn(Base) # {} /\ FailingOn(tree) = {}

WithTest == [Base EXCEPT !.t = tree.t]
TestFails(c) == "t" \in FailingOn(c)
\* A test that is said to notice the change fails over the base and passes with the change, but
\* where its run there reached its limit, which counts as failing; one said not to passes over
\* the base too, and was not just left out (exercise, credited).
SensitivityIsTrue ==
  pc = "kept" /\ found.outcome = "passed" =>
    /\ found.sensitivity = "fails_then_passes" /\ ~found.cut => TestFails(WithTest) /\ ~TestFails(tree)
    /\ found.sensitivity = "passes_on_base" => ~TestFails(WithTest) /\ (world.alone => world.test # "skips")

\* A source is credited only where the test passes on the candidate as it stands and an
\* assertion of it fails with that source alone put back, in an exercise that ran to its end.
SourceCreditsAreTrue ==
  pc = "kept" =>
    \A s \in found.sources :
      LET reverted == [tree EXCEPT ![s] = Base[s]]
      IN  found.evidence /\ ~expired /\ Status("t", tree) = "passed" /\ ~Unloaded(reverted) /\ Status("t", reverted) = "failed"
Inv == TypeOK /\ OriginsAreTrue /\ SensitivityIsTrue /\ SourceCreditsAreTrue
=============================================================================
