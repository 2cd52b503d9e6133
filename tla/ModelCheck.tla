----------------------------- MODULE ModelCheck -----------------------------
(***************************************************************************)
(* The gate's check of one design model: its header, the checker on the    *)
(* model and then on each planted fault, the replay of its traces, and     *)
(* what the receipt keeps of it; while files may change and the operator   *)
(* may stop it.                                                            *)
(***************************************************************************)
EXTENDS Naturals, Sequences

CONSTANTS
  Truths,       \* what exhaustive checking of a specification may show; one that can deadlock
                \* may hold or break a property once deadlocks are left unchecked
  MaxVersion,   \* bounds the edits of the model, its faults and the code it covers
  MaxRequest    \* bounds the requests of the session

Model == "model"
Headers == {<<>>, <<"f1">>, <<"f1", "f2">>}   \* the faults a complete header declares
Incomplete == <<"incomplete">>
Unread == <<"unread">>

VARIABLES
  lang,       \* "tla" or "quint"
  version,    \* the model's files and the files it covers, as they are now
  declares,   \* what the model's header declares as it is now, once read
  truth,      \* what checking each file as it is now shows, once checked
  request, stopped,
  pc,         \* where the gate is with the model
  check,      \* the check at hand
  checked,    \* the request's last check
  passed,     \* the session's last passing check
  kept        \* what the receipt keeps: the check as it settled
vars == <<lang, version, declares, truth, request, stopped, pc, check, checked, passed, kept>>

Blank == [header |-> Unread, declared |-> 0, hash |-> 0, main |-> "none", faults |-> <<>>, deadlocked |-> FALSE, link |-> "no_replay"]
None == [Blank EXCEPT !.main = "unchecked"]
Failures == {"violated", "deadlocked", "assumption_failed", "malformed"}
Unknown == [f \in {Model, "f1", "f2"} |-> "unknown"]
Init ==
  /\ lang \in {"tla", "quint"} /\ version = 0 /\ declares = Unread
  /\ truth = Unknown
  /\ request = 1 /\ stopped = FALSE /\ pc = "idle"
  /\ check = None /\ checked = None /\ passed = None /\ kept = None

----------------------------------------------------------------------------
(* One run of the checker, from how its process ended.                      *)

Exit(ended, code, states) == [ended |-> ended, code |-> code, states |-> states]
\* What a process may end with: TLC's exit status, or Quint's, which reports no deadlock.
Ends(t, deadlocks) ==
  IF stopped THEN {Exit("cancelled", 0, 0)} ELSE
  {Exit("timed_out", 0, 0), Exit("not_started", 0, 0), Exit("exited", 1, 0)} \cup
  {CASE t = "violates" -> Exit("exited", 12, 1)
     [] t = "deadlocksThenViolates" -> Exit("exited", IF deadlocks /\ lang = "tla" THEN 11 ELSE 12, 1)
     [] t = "deadlocks" -> Exit("exited", IF deadlocks /\ lang = "tla" THEN 11 ELSE 0, 1)
     [] t = "assumes" -> Exit("exited", 10, 0)
     [] t = "unreadable" -> Exit("exited", 150, 0)
     [] OTHER -> Exit("exited", 0, IF t = "empty" THEN 0 ELSE 1)}
TlcRun(e) ==
  CASE e.ended # "exited" -> e.ended
    [] e.code = 0 -> IF e.states > 0 THEN "passed" ELSE "vacuous"
    [] e.code = 11 -> "deadlocked"
    [] e.code \in 12..14 -> "violated"
    [] e.code = 10 -> "assumption_failed"
    [] e.code \in {75, 150, 151} -> "malformed"
    [] OTHER -> "not_started"
\* Quint types a model first; then whatever is neither a violation nor a pass did not run.
QuintRun(e) == IF e.ended = "exited" /\ e.code \in {10, 11} THEN "not_started" ELSE TlcRun(e)
RunOf(e) == IF lang = "quint" THEN QuintRun(e) ELSE TlcRun(e)

\* The file is what it is when the checker reads it.
Runs(f, deadlocks, Then(_)) ==
  \E t \in IF truth[f] = "unknown" THEN Truths ELSE {truth[f]} :
    /\ truth' = [truth EXCEPT ![f] = t]
    /\ \E e \in Ends(t, deadlocks) : Then(RunOf(e))

FaultVerdict(run, retried) ==
  CASE run = "violated" -> "caught"
    [] run = "passed" -> "passes"
    [] OTHER -> IF ~retried /\ run \in {"assumption_failed", "malformed", "vacuous"} THEN "broken" ELSE "unrun"
Outcome(c) ==
  CASE c.main # "passed" -> IF c.main \in Failures THEN "failed" ELSE c.main
    [] c.faults = <<>> -> "vacuous"
    [] OTHER -> IF \E k \in DOMAIN c.faults : c.faults[k] \in {"passes", "broken"} THEN "failed" ELSE "passed"


\* As if the receipt kept a check whatever became of the content.
CurrentAny(c) == TRUE

----------------------------------------------------------------------------
(* The check.                                                               *)

\* The gate reads the content as it plans, and reuses a check that read exactly that.
Plans ==
  /\ pc = "idle" /\ ~stopped
  /\ IF \E c \in {checked, passed} : c # None /\ c.hash = version
     THEN /\ check' = IF checked # None /\ checked.hash = version THEN checked ELSE passed
          /\ pc' = "settle"
     ELSE check' = Blank /\ pc' = "header"
  /\ UNCHANGED <<lang, version, declares, truth, request, stopped, checked, passed, kept>>
ReadsHeader ==
  /\ pc = "header" /\ pc' = "content"
  /\ \E h \in Headers \cup {Incomplete} : declares \in {Unread, h} /\ declares' = h /\ check' = [check EXCEPT !.header = h, !.declared = version]
  /\ UNCHANGED <<lang, version, truth, request, stopped, checked, passed, kept>>
\* The content the evidence names is read after the header it came with.
ReadsContent ==
  /\ pc = "content"
  /\ check' = [check EXCEPT !.hash = version, !.main = IF check.header = Incomplete THEN "malformed" ELSE "none"]
  /\ pc' = IF check.header = Incomplete THEN "ends" ELSE "main"
  /\ UNCHANGED <<lang, version, declares, truth, request, stopped, checked, passed, kept>>
AfterMain(run) ==
  /\ check' = [check EXCEPT !.main = run]
  /\ pc' = IF run = "passed" /\ check.header # <<>> THEN "fault" ELSE "ends"
RunsMain ==
  /\ pc = "main" /\ Runs(Model, TRUE, AfterMain)
  /\ UNCHANGED <<lang, version, declares, request, stopped, checked, passed, kept>>

Fault == check.header[Len(check.faults) + 1]
Judged(c, run) == [c EXCEPT !.faults = Append(@, FaultVerdict(run, c.deadlocked)), !.deadlocked = FALSE]
AfterFault(run) ==
  LET next == Judged(check, run)
  IN  IF run = "deadlocked" /\ ~check.deadlocked
      THEN check' = [check EXCEPT !.deadlocked = TRUE] /\ pc' = "fault"
      ELSE /\ check' = next
           /\ pc' = IF Len(next.faults) < Len(next.header) THEN "fault" ELSE IF Outcome(next) = "passed" THEN "replay" ELSE "ends"
\* A fault that only deadlocked runs once more without the deadlock check.
RunsFault ==
  /\ pc = "fault" /\ Runs(Fault, ~check.deadlocked, AfterFault)
  /\ UNCHANGED <<lang, version, declares, request, stopped, checked, passed, kept>>
Replays ==
  /\ pc = "replay" /\ pc' = "ends"
  /\ \E l \in {"no_replay", "replay_failed"} \cup (IF stopped THEN {} ELSE {"linked"}) : check' = [check EXCEPT !.link = l]
  /\ UNCHANGED <<lang, version, declares, truth, request, stopped, checked, passed, kept>>
\* A stop ends the step the gate waits in; otherwise the request and the session keep the check.
Ended ==
  /\ pc = "ends"
  /\ IF stopped THEN pc' = "idle" /\ check' = None /\ UNCHANGED <<checked, passed>>
     ELSE pc' = "settle" /\ check' = check /\ checked' = check /\ passed' = IF Outcome(check) = "passed" THEN check ELSE passed
  /\ UNCHANGED <<lang, version, declares, truth, request, stopped, kept>>
\* The receipt keeps a check only as of the content there is (settledCheck).
Current(c) == c.hash = version
Settles ==
  /\ pc = "settle" /\ pc' = "idle"
  /\ kept' = (IF ~Current(check) \/ stopped THEN None ELSE check) /\ check' = None
  /\ UNCHANGED <<lang, version, declares, truth, request, stopped, checked, passed>>

Change ==
  /\ version < MaxVersion /\ version' = version + 1 /\ kept' = None /\ declares' = Unread /\ truth' = Unknown
  /\ UNCHANGED <<lang, request, stopped, pc, check, checked, passed>>
Stop == ~stopped /\ pc # "idle" /\ stopped' = TRUE /\ UNCHANGED <<lang, version, declares, truth, request, pc, check, checked, passed, kept>>
NextRequest ==
  /\ pc = "idle" /\ request < MaxRequest /\ request' = request + 1
  /\ stopped' = FALSE /\ checked' = None /\ check' = None /\ kept' = None
  /\ UNCHANGED <<lang, version, declares, truth, pc, passed>>
Next ==
  \/ Plans \/ ReadsHeader \/ ReadsContent \/ RunsMain \/ RunsFault \/ Replays \/ Ended \/ Settles
  \/ Change \/ Stop \/ NextRequest
Spec == Init /\ [][Next]_vars

----------------------------------------------------------------------------
TypeOK ==
  /\ version \in 0..MaxVersion /\ request \in 1..MaxRequest
  /\ pc \in {"idle", "header", "content", "main", "fault", "replay", "ends", "settle"}
  /\ \A c \in {check, checked, passed, kept} :
       Len(c.faults) <= 2 /\ c.link \in {"no_replay", "linked", "replay_failed"} /\ c.hash \in 0..MaxVersion

Raced(c) == c.declared # c.hash
\* A model the receipt keeps as passed holds as it stands now, whatever was edited, stopped or
\* reused on the way, and the faults it declares were each judged: one is caught only where
\* it breaks a property, and none that passes is left in a pass (checkModel, settledCheck).
PassesAreOfWhatStands ==
  kept # None /\ Outcome(kept) = "passed" =>
    /\ truth[Model] = "holds" \/ (lang = "quint" /\ truth[Model] = "deadlocks")
    /\ kept.faults # <<>> /\ Len(kept.faults) = Len(kept.header)
    /\ \A k \in DOMAIN kept.faults :
         kept.faults[k] = "caught" => truth[kept.header[k]] \in {"violates", "deadlocksThenViolates"}
    /\ Raced(kept) \/ kept.header = declares

\* What goes back to the agent was found by a run that ended by itself: a model that fails or a
\* fault that shows nothing, never a limit, a stop or a checker that did not start.
Faulty(t) == t \in {"violates", "deadlocks", "deadlocksThenViolates", "assumes", "unreadable"}
FailuresWereFound ==
  kept # None /\ Outcome(kept) = "failed" =>
    \/ kept.header = Incomplete \/ Faulty(truth[Model])
    \/ \E k \in DOMAIN kept.faults : truth[kept.header[k]] \notin {"violates", "deadlocksThenViolates", "unknown"}

\* A replay links only a model that passed; a fault runs only after the model did.
LinksArePasses ==
  \A c \in {check, checked, passed} :
    (c.link = "linked" => Outcome(c) = "passed") /\ (c.faults # <<>> => c.main = "passed")

Inv == TypeOK /\ PassesAreOfWhatStands /\ FailuresWereFound /\ LinksArePasses
=============================================================================
