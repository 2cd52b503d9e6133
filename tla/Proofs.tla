------------------------------- MODULE Proofs -------------------------------
(* One run of `prove`: the tool's guards, the source read before anything    *)
(* runs, Dafny asked for, `lsc regen` and `lsc check`, the two inspections of *)
(* what LemmaScript attached, the specification lines it left unread, the     *)
(* evidence read from the files as the run left them, and what the agent and  *)
(* the operator are told.  The agent's own edits and the operator's stop come *)
(* between any two of these.  Beside it, the bounded cache of inspections.    *)
EXTENDS Naturals, Sequences, FiniteSets, SequencesExt

CONSTANTS Functions,  \* the functions of the file
          Nobody,     \* the owner of a line outside every function
          Versions,   \* the contents the file may have, see IsVersion
          MaxEdit     \* bound on the runs and edits

(* A content: its specification lines in order, each with its text, the      *)
(* function it stands in and whether LemmaScript attaches it there; the       *)
(* functions it skips, the ones `//@ verify` selects and the ones whose       *)
(* translation abstracts the body; whether it assumes; whether it proves.     *)
IsVersion(v) ==
  /\ \A l \in Range(v.lines) : l.owner \in Functions \cup {Nobody} /\ l.attached \in BOOLEAN
  /\ {v.skip, v.verify, v.abstract} \subseteq SUBSET Functions
  /\ {v.assume, v.holds} \subseteq BOOLEAN

VARIABLES file,    \* the source on disk
          axiom,   \* whether the .dfy holds a proof addition taken on trust
          merged,  \* the source the .dfy was last regenerated from
          pc,      \* what the run does next
          stopped, \* whether its signal is aborted
          source,  \* the source it read first
          regen,   \* how `lsc regen` ended
          checked, \* how `lsc check` ended, and of what
          info,    \* proofInfo
          unread,  \* unreadSpecifications, as positions in source
          outcome, \* proofOutcome
          evidence, \* the content its evidence names
          result,  \* what it tells
          moved,   \* whether a file changed while it worked
          edits

run == <<pc, stopped, source, regen, checked, info, unread, outcome, evidence, result, moved>>
vars == <<file, axiom, merged, run, edits>>

Nothing == [v |-> "nothing"]
Extracted(v) == IF v.verify = {} THEN Functions \ v.skip ELSE v.verify \ v.skip
Clauses(v, f) ==
  LET own == SelectSeq(v.lines, LAMBDA l : l.owner = f /\ l.attached)
  IN  [i \in DOMAIN own |-> own[i].text]
Attached(v) == [f \in Extracted(v) |-> Clauses(v, f)]
Unavailable == [status |-> "unavailable", of |-> [f \in {} |-> <<>>], trusted |-> {}, gap |-> TRUE]
Read(v) == [status |-> "read", of |-> Attached(v), trusted |-> Extracted(v) \cap v.abstract, gap |-> FALSE]
NoInfo == [Unavailable EXCEPT !.status = "none", !.gap = FALSE]
NotRun == [ended |-> "none", exit |-> 1, verified |-> 0, of |-> Nothing, axiom |-> FALSE]

Init ==
  /\ file \in Versions /\ merged = file
  /\ axiom \in BOOLEAN
  /\ pc = "idle" /\ stopped = FALSE /\ moved = FALSE /\ edits = 0
  /\ source = Nothing /\ regen = NotRun /\ checked = NotRun
  /\ info = NoInfo /\ unread = {} /\ outcome = "none"
  /\ evidence = Nothing /\ result = Nothing

-----------------------------------------------------------------------------
(* The tool starts: with no annotation in the file there is nothing to prove. *)
Starts ==
  /\ pc = "idle" /\ edits < MaxEdit
  /\ IF file.lines = <<>>
     THEN /\ result' = [words |-> "nothing_to_prove", error |-> FALSE, heading |-> "none", summary |-> "none"]
          /\ pc' = "idle"
     ELSE /\ result' = Nothing
          /\ pc' = "source"
  /\ stopped' = FALSE /\ moved' = FALSE /\ edits' = edits + 1
  /\ source' = Nothing /\ regen' = NotRun /\ checked' = NotRun
  /\ info' = NoInfo /\ unread' = {} /\ outcome' = "none" /\ evidence' = Nothing
  /\ UNCHANGED <<file, axiom, merged>>

ProofOutcome(cancelled, timedOut, started, regenerated, exit, verified) ==
  CASE cancelled -> "cancelled"
    [] ~cancelled /\ timedOut -> "timed_out"
    [] ~cancelled /\ ~timedOut /\ ~started -> "not_started"
    [] ~cancelled /\ ~timedOut /\ started /\ (~regenerated \/ exit # 0) -> "failed"
    [] OTHER -> IF verified > 0 THEN "passed" ELSE "vacuous"

OutcomeOf(r, c) ==
  ProofOutcome(stopped, r.ended = "timed_out" \/ c.ended = "timed_out",
               r.ended # "not_started" /\ c.ended # "not_started", r.exit = 0, c.exit, c.verified)

ReadsSource ==
  /\ pc = "source"
  /\ source' = file
  /\ pc' = "dafny"
  /\ UNCHANGED <<file, axiom, merged, stopped, regen, checked, info, unread, outcome, evidence, result, moved, edits>>

(* dafnyInstalled: without it the evidence says nothing was proved.          *)
AsksForDafny ==
  /\ pc = "dafny"
  /\ \/ /\ ~stopped
        /\ pc' = "regen" /\ UNCHANGED outcome
     \/ /\ outcome' = ProofOutcome(stopped, FALSE, FALSE, FALSE, 1, 0)
        /\ pc' = "evidence"
  /\ UNCHANGED <<file, axiom, merged, stopped, source, regen, checked, info, unread, evidence, result, moved, edits>>

(* A stop ends the process that runs; otherwise it exits, times out or does  *)
(* not start at all.                                                          *)
Endings == {"exited", "cancelled", "timed_out", "not_started"}
CanEnd(end) == (end = "cancelled") => stopped

(* `lsc regen` merges the source as it is into the .dfy, keeping what the    *)
(* proof added there; `lsc check` follows only a clean one nothing stopped.   *)
Regen ==
  /\ pc = "regen"
  /\ \E end \in Endings, exit \in {0, 1} :
       /\ CanEnd(end) /\ (end # "exited" => exit = 1)
       /\ regen' = [NotRun EXCEPT !.ended = end, !.exit = exit]
       /\ merged' = IF exit = 0 THEN file ELSE merged
       /\ IF end = "exited" /\ exit = 0 /\ ~stopped
          THEN pc' = "check" /\ UNCHANGED outcome
          ELSE pc' = "evidence" /\ outcome' = OutcomeOf(regen', checked)
  /\ UNCHANGED <<file, axiom, stopped, source, checked, info, unread, evidence, result, moved, edits>>

(* What `lsc check` proves: the .dfy, which it rejects when the source has   *)
(* moved on from it; Dafny verifies nothing where no clause is attached.      *)
Obligations(v) == Cardinality({f \in Extracted(v) : Clauses(v, f) # <<>>})
Check ==
  /\ pc = "check"
  /\ \E end \in Endings :
       /\ CanEnd(end)
       /\ checked' = IF end = "exited" /\ merged = file /\ file.holds
                     THEN [ended |-> end, exit |-> 0, verified |-> Obligations(file), of |-> file, axiom |-> axiom]
                     ELSE [NotRun EXCEPT !.ended = end]
       /\ outcome' = OutcomeOf(regen, checked')
       /\ pc' = IF outcome' \in {"passed", "vacuous"} THEN "extract" ELSE "evidence"
  /\ UNCHANGED <<file, axiom, merged, stopped, source, regen, info, unread, evidence, result, moved, edits>>

-----------------------------------------------------------------------------
(* fileInfo: `lsc extract`, then `lsc info --typed`, each of the file as it  *)
(* is then.  Without the first there is no scope; without the second what     *)
(* the proof abstracts is unknown.                                            *)
Extracts ==
  /\ pc = "extract"
  /\ \/ /\ ~stopped
        /\ info' = [Read(file) EXCEPT !.trusted = {}, !.gap = TRUE] /\ pc' = "typed"
     \/ info' = Unavailable /\ pc' = "unread"
  /\ UNCHANGED <<file, axiom, merged, stopped, source, regen, checked, unread, outcome, evidence, result, moved, edits>>

Types ==
  /\ pc = "typed"
  /\ \/ /\ ~stopped
        /\ info' = [info EXCEPT !.trusted = DOMAIN info.of \cap file.abstract, !.gap = FALSE]
     \/ UNCHANGED info
  /\ pc' = "unread"
  /\ UNCHANGED <<file, axiom, merged, stopped, source, regen, checked, unread, outcome, evidence, result, moved, edits>>

(* unreadSpecifications: each line takes one clause of its owner with its    *)
(* text, and a line that finds none left is unread.  A skipped function, or   *)
(* one LemmaScript does not report, is passed over: its own limit says so.    *)
ClausesOf(i, owner) == IF owner \in DOMAIN i.of THEN Range([k \in DOMAIN i.of[owner] |-> <<k, i.of[owner][k]>>]) ELSE {}
PassedOver(v, i, l) ==
  \/ l.owner \in v.skip
  \/ l.owner # Nobody /\ i.status = "read" /\ l.owner \notin DOMAIN i.of
UnreadLinesUncounted(v, i) ==
  {n \in DOMAIN v.lines : LET l == v.lines[n] IN
     ~PassedOver(v, i, l) /\ ~\E c \in ClausesOf(i, l.owner) : c[2] = l.text}
UnreadLines(v, i) ==
  {n \in DOMAIN v.lines : LET l == v.lines[n] IN
     /\ ~PassedOver(v, i, l)
     /\ Cardinality({k \in 1..n : v.lines[k].owner = l.owner /\ v.lines[k].text = l.text})
          > Cardinality({c \in ClausesOf(i, l.owner) : c[2] = l.text})}

ReadsUnread ==
  /\ pc = "unread"
  /\ unread' = IF outcome = "passed" THEN UnreadLines(source, info) ELSE {}
  /\ pc' = "evidence"
  /\ UNCHANGED <<file, axiom, merged, stopped, source, regen, checked, info, outcome, evidence, result, moved, edits>>

(* The evidence names the source and its .dfy as they are after the run.     *)
ReadsEvidence ==
  /\ pc = "evidence"
  /\ evidence' = [v |-> file, axiom |-> axiom]
  /\ pc' = "tell"
  /\ UNCHANGED <<file, axiom, merged, stopped, source, regen, checked, info, unread, outcome, result, moved, edits>>

-----------------------------------------------------------------------------
(* provedOnTrust: what files hold on trust or leave out.  trustedIn: what they *)
(* do as they are now, and what the proof abstracted.                          *)
OnTrust(v) ==
  {<<"skip", f>> : f \in v.skip}
  \cup {<<"unselected", f>> : f \in {g \in Functions \ (Extracted(v) \cup v.skip) :
                                       \E l \in Range(v.lines) : l.owner = g}}
  \cup {<<"assume", f>> : f \in {g \in Functions : v.assume}}
  \cup {<<"axiom", f>> : f \in {g \in Functions : axiom}}
TrustedIn == OnTrust(file) \cup {<<"abstract", f>> : f \in info.trusted}

(* A pass, in words that claim no more than the proof.                       *)
Gap == info.status = "unavailable" \/ info.gap
Words(trusted) ==
  CASE outcome = "passed" /\ Gap -> "scope_unread"
    [] outcome = "passed" /\ ~Gap /\ unread # {} -> "in_part"
    [] outcome = "passed" /\ ~Gap /\ unread = {} -> IF trusted = {} THEN "outright" ELSE "on_trust"
    [] OTHER -> outcome

(* proofHeading and the passedWords of its summary: what the operator sees.  *)
Heading(trusted) ==
  CASE outcome # "passed" -> "not_proved"
    [] outcome = "passed" /\ (unread # {} \/ Gap) -> "in_part"
    [] OTHER -> IF trusted = {} THEN "proved" ELSE "not_outright"
PassedWords ==
  CASE Gap -> "scope_unread"
    [] ~Gap /\ unread # {} -> "not_attached"
    [] OTHER -> IF info.trusted # {} THEN "within_limits" ELSE "every_contract_holds"
Summary(trusted) == IF outcome = "passed" THEN IF trusted = {} THEN PassedWords ELSE "if_trust_is_right" ELSE outcome

Tells ==
  /\ pc = "tell"
  /\ LET trusted == IF outcome = "passed" THEN TrustedIn ELSE {}
     IN  result' = [words |-> Words(trusted), heading |-> Heading(trusted), summary |-> Summary(trusted),
                    error |-> ~(outcome = "passed" /\ unread = {} /\ ~Gap)]
  /\ pc' = "idle"
  /\ UNCHANGED <<file, axiom, merged, stopped, source, regen, checked, info, unread, outcome, evidence, moved, edits>>

-----------------------------------------------------------------------------
(* The agent's or the operator's edits, and the operator's stop.             *)
Edit ==
  /\ edits < MaxEdit
  /\ \/ /\ \E v \in Versions \ {file} : file' = v
        /\ UNCHANGED axiom
     \/ axiom' = ~axiom /\ UNCHANGED file
  /\ edits' = edits + 1
  /\ moved' = (moved \/ pc # "idle")
  /\ result' = IF pc = "idle" THEN Nothing ELSE result
  /\ UNCHANGED <<merged, pc, stopped, source, regen, checked, info, unread, outcome, evidence>>

Stop ==
  /\ pc # "idle" /\ ~stopped
  /\ stopped' = TRUE
  /\ UNCHANGED <<file, axiom, merged, pc, source, regen, checked, info, unread, outcome, evidence, result, moved, edits>>

Next ==
  \/ Starts \/ ReadsSource \/ AsksForDafny \/ Regen \/ Check
  \/ Extracts \/ Types \/ ReadsUnread \/ ReadsEvidence \/ Tells
  \/ Edit \/ Stop

Spec == Init /\ [][Next]_vars

-----------------------------------------------------------------------------
TypeOK ==
  /\ file \in Versions /\ merged \in Versions /\ axiom \in BOOLEAN
  /\ pc \in {"idle", "source", "dafny", "regen", "check", "extract", "typed", "unread", "evidence", "tell"}
  /\ outcome \in {"none", "passed", "failed", "vacuous", "timed_out", "cancelled", "not_started"}
  /\ info.status \in {"none", "unavailable", "read"}

Told == pc = "idle" /\ result # Nothing /\ evidence # Nothing

(* "Proved: every //@ contract in the file holds", to the agent, or "Proved"   *)
(* and "every contract holds" to the operator, is said only of a content       *)
(* that was checked clean, whose every specification line was attached to a   *)
(* function the proof covered, and which trusts and leaves out nothing.  A    *)
(* file that moves while the proof runs is left out of this; the README says  *)
(* what becomes of it.                                                        *)
OutrightIsOutright ==
  Told /\ ~moved /\ (result.words = "outright" \/ result.heading = "proved" \/ result.summary = "every_contract_holds") =>
    /\ checked.exit = 0 /\ checked.verified > 0 /\ checked.of = file
    /\ \A l \in Range(file.lines) : l.attached /\ l.owner \in Extracted(file)
    /\ file.skip = {} /\ file.abstract \cap Extracted(file) = {} /\ ~file.assume /\ ~checked.axiom

(* A result that is no error has had every line of every function it proves   *)
(* attached, and the evidence names what the check proved.                    *)
PassesAreWhole ==
  Told /\ ~moved /\ ~result.error =>
    /\ evidence = [v |-> checked.of, axiom |-> checked.axiom]
    /\ \A l \in Range(file.lines) : l.owner = Nobody \/ l.owner \in Extracted(file) => l.attached /\ l.owner # Nobody

(* A run that was stopped before its outcome is settled never passes, and a   *)
(* run that verified nothing is never proved, whatever else happened.         *)
NoPassWithoutAProof ==
  outcome = "passed" => regen.exit = 0 /\ checked.exit = 0 /\ checked.verified > 0 /\ checked.of # Nothing

(* After a stop no process of the proof starts and nothing passes any more.   *)
StopsEndIt ==
  stopped /\ stopped' =>
    /\ (pc # "check" => pc' # "check") /\ (pc # "typed" => pc' # "typed")
    /\ (outcome # "passed" => outcome' # "passed")

Inv == TypeOK /\ OutrightIsOutright /\ PassesAreWhole /\ NoPassWithoutAProof
=============================================================================
