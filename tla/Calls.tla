-------------------------------- MODULE Calls --------------------------------
(***************************************************************************)
(* The calls of a reply: `runCalls', `outcomeOf', `permitted', `hooked'    *)
(* and `runCall' of packages/core/src/loop.ts with the rule and the judge  *)
(* of permission-rule.ts and permissions.ts, the hooks of hooks.ts and the *)
(* grace of `step'.  A call is judged once its command was parsed, which   *)
(* for PowerShell takes a process; asked about, hooked, announced to the   *)
(* handlers and run, each across an await at which the operator may stop   *)
(* the run.  A call that does not report within the grace is left behind   *)
(* and goes on by itself, into later runs.                                 *)
(***************************************************************************)
EXTENDS Integers, Sequences, SequencesExt

CONSTANTS
  Kinds,      \* the calls a model may make; two of a kind are the same call
  Access,     \* Access[k]: read, write or run
  Floor,      \* the kinds the floor refuses
  Rule,       \* Rule[k]: what the operator's and the project's rules that match k say, a set of verdicts
  Slow,       \* the kinds whose command a process parses
  Repeat,     \* the kind of a call with the id of the one before
  Modes,      \* the modes the operator switches between
  Present,    \* someone can be asked
  Size        \* Size[r]: how many calls the reply of run r makes

Runs == 1 .. Len(Size)
Ids == {id \in Runs \X (1 .. 3) : id[2] <= Size[id[1]]}
LastRun == Len(Size)

VARIABLES
  mode, run, open, next,
  kind,       \* kind[id]: the calls of the runs so far
  at,         \* at[id]: the await a call is at
  gave,       \* gave[id]: what a call that ended gave
  result,     \* result[id]: the result the conversation has
  decided,    \* decided[id]: the call's permission entries, in order
  intent,     \* the calls whose intent is on disk
  stopped,    \* the runs the operator stopped
  left,       \* the calls the run went on without
  allowed,    \* `allowedForSession'
  refused,    \* `floorRefused': the runs the floor refused a call in
  late,       \* the calls an entry was written of after they were left
  seen        \* seen[id]: the mode a call is judged in, while its command is parsed
vars == <<mode, run, open, next, kind, at, gave, result, decided, intent, stopped, left, allowed, refused, late, seen>>

Init ==
  /\ mode \in Modes /\ run = 0 /\ open = FALSE /\ next = 1
  /\ kind = [id \in Ids |-> Repeat] /\ at = [id \in Ids |-> "none"]
  /\ gave = [id \in Ids |-> "none"] /\ result = [id \in Ids |-> "none"] /\ decided = [id \in Ids |-> <<>>]
  /\ intent = {} /\ stopped = {} /\ left = {} /\ allowed = {} /\ refused = {} /\ late = {}
  /\ seen = [id \in Ids |-> "none"]

------------------------------------------------------------------------------
\* The rules (`strongest', `decide', `afterRefusal').
Strongest(verdicts) == CASE "deny" \in verdicts -> "deny" [] "ask" \in verdicts -> "ask" [] "allow" \in verdicts -> "allow" [] OTHER -> "unmatched"
Ask == IF Present THEN "ask" ELSE "deny"
Decide(floor, in, access, rule) ==
  CASE floor \/ (in = "read" /\ access # "read") \/ rule = "deny" -> "deny"
    [] ~floor /\ (in # "read" \/ access = "read") /\ rule = "allow" -> "allow"
    [] ~floor /\ (in # "read" \/ access = "read") /\ rule = "ask" -> Ask
    [] OTHER -> IF in = "full" \/ access = "read" THEN "allow" ELSE Ask
AfterRefusal(decision, access, was) == IF was /\ decision = "allow" /\ access # "read" THEN Ask ELSE decision

\* What decides a call of kind k in run r and mode `in', and as whom (`judge', `heightened').
Judge(k, in) ==
  [decision |-> Decide(k \in Floor, in, Access[k], Strongest(Rule[k])),
   by |-> CASE k \in Floor -> "floor"
            [] k \notin Floor /\ in = "read" /\ Access[k] # "read" -> "mode"
            [] OTHER -> IF Strongest(Rule[k]) # "unmatched" THEN "rule" ELSE "mode"]
Heightened(verdict, k, r) ==
  LET decision == AfterRefusal(verdict.decision, Access[k], r \in refused)
  IN IF decision = verdict.decision THEN verdict ELSE [decision |-> decision, by |-> "after_floor"]

------------------------------------------------------------------------------
Current == <<run, next>>
Stopped(id) == id[1] \in stopped
Write(id, entry) ==
  /\ decided' = [decided EXCEPT ![id] = Append(@, entry)]
  /\ late' = IF id \in left THEN late \cup {id} ELSE late
Gives(id, what) == at' = [at EXCEPT ![id] = "given"] /\ gave' = [gave EXCEPT ![id] = what]
GoesOn(id, where) == at' = [at EXCEPT ![id] = where] /\ UNCHANGED gave

Request ==
  /\ ~open /\ run < LastRun /\ run' = run + 1 /\ open' = TRUE /\ next' = 1
  /\ \E batch \in [1 .. Size[run'] -> Kinds \cup {Repeat}] :
        batch[1] # Repeat /\ kind' = [id \in Ids |-> IF id[1] = run' THEN batch[id[2]] ELSE kind[id]]
  /\ UNCHANGED <<mode, at, gave, result, decided, intent, stopped, left, allowed, refused, late, seen>>

\* A call whose id an earlier one took neither runs nor has a result.  The mode
\* is read before the command is parsed.
Take ==
  /\ open /\ next <= Size[run] /\ at[Current] = "none" /\ run \notin stopped
  /\ IF kind[Current] = Repeat THEN next' = next + 1 /\ UNCHANGED <<at, seen>>
     ELSE at' = [at EXCEPT ![Current] = "parsing"] /\ seen' = [seen EXCEPT ![Current] = mode] /\ UNCHANGED next
  /\ UNCHANGED <<mode, run, open, kind, gave, result, decided, intent, stopped, left, allowed, refused, late>>

\* The command is parsed and the call judged, in the mode there was before, with
\* what the floor refused and the operator allowed until now.
SessionAllows(verdict, k) == verdict.decision = "ask" /\ verdict.by # "after_floor" /\ k \in allowed
Judged(id) ==
  LET k == kind[id]
      verdict == Heightened(Judge(k, seen[id]), k, id[1])
      ask == verdict.decision = "ask" /\ ~SessionAllows(verdict, k)
      entry == IF SessionAllows(verdict, k) THEN [decision |-> "allow", by |-> "session"] ELSE verdict
  IN /\ at[id] = "parsing" /\ seen' = [seen EXCEPT ![id] = "none"] /\ UNCHANGED <<mode, run, open, next, kind, result, intent, stopped, left, allowed>>
     /\ IF ask THEN GoesOn(id, "asking") /\ UNCHANGED <<decided, refused, late>>
        ELSE /\ Write(id, entry)
             /\ refused' = IF entry.by = "floor" THEN refused \cup {id[1]} ELSE refused
             /\ IF entry.decision = "allow" THEN GoesOn(id, "before")
                ELSE Gives(id, IF Stopped(id) THEN "stopped" ELSE "refused")

\* The operator answers, or a stop ends the wait, which refuses the call.
Answered(id) ==
  /\ at[id] = "asking" /\ UNCHANGED <<mode, run, open, next, kind, result, intent, stopped, left, refused, seen>>
  /\ \E answer \in IF Stopped(id) THEN {"none"} ELSE {"once", "session", "deny"} :
       LET allow == answer \in {"once", "session"}
       IN /\ Write(id, [decision |-> IF allow THEN "allow" ELSE "deny", by |-> "operator"])
          /\ allowed' = IF answer = "session" THEN allowed \cup {kind[id]} ELSE allowed
          /\ IF allow THEN GoesOn(id, "before") ELSE Gives(id, IF Stopped(id) THEN "stopped" ELSE "refused")

Intend(id) == intent' = intent \cup {id}

\* The hooks before the call, which a stop cancels; one may still refuse it.
\* Its intent is synced before the handlers hear of it.
Hooked(id) ==
  /\ at[id] = "before" /\ UNCHANGED <<mode, run, open, next, kind, result, stopped, left, allowed, refused, seen>>
  /\ \/ Stopped(id) /\ Gives(id, "stopped") /\ UNCHANGED <<decided, late, intent>>
     \/ ~Stopped(id) /\ Gives(id, "refused") /\ Write(id, [decision |-> "deny", by |-> "hook"]) /\ UNCHANGED intent
     \/ ~Stopped(id) /\ GoesOn(id, "opening") /\ Intend(id) /\ UNCHANGED <<decided, late>>

Cancelled(id) == Stopped(id)

\* The handlers of the call's start have run; the tool runs unless a stop came.
Opened(id) ==
  /\ at[id] = "opening" /\ IF Cancelled(id) THEN Gives(id, "stopped") ELSE GoesOn(id, "executing")
  /\ UNCHANGED <<mode, run, open, next, kind, result, decided, intent, stopped, left, allowed, refused, late, seen>>

\* The tool reports, and the handlers and hooks after it have run.
Reported(id) ==
  /\ at[id] = "executing" /\ Gives(id, "ran")
  /\ UNCHANGED <<mode, run, open, next, kind, result, decided, intent, stopped, left, allowed, refused, late, seen>>

Record ==
  /\ open /\ next <= Size[run] /\ at[Current] = "given"
  /\ result' = [result EXCEPT ![Current] = gave[Current]] /\ next' = next + 1
  /\ UNCHANGED <<mode, run, open, kind, at, gave, decided, intent, stopped, left, allowed, refused, late, seen>>

Stop == open /\ run \notin stopped /\ stopped' = stopped \cup {run} /\ UNCHANGED <<mode, run, open, next, kind, at, gave, result, decided, intent, left, allowed, refused, late, seen>>

\* The grace is over and the call has not reported: the run goes on without it.
DawdlesRunning(id) == at[id] \in {"before", "opening", "executing"}
Dawdles(id) == at[id] \in {"before", "opening", "executing"} \/ (at[id] = "parsing" /\ kind[id] \in Slow)
Grace ==
  /\ open /\ run \in stopped /\ next <= Size[run] /\ Dawdles(Current)
  /\ left' = left \cup {Current} /\ result' = [result EXCEPT ![Current] = "unknown"] /\ next' = next + 1
  /\ UNCHANGED <<mode, run, open, kind, at, gave, decided, intent, stopped, allowed, refused, late, seen>>

UnbegunAfter(id) == id[1] = run /\ id[2] > next /\ kind[id] # Repeat
Unbegun(id) == id[1] = run /\ id[2] >= next /\ kind[id] # Repeat

\* The calls the stop came before are answered at once.
Rest ==
  /\ open /\ run \in stopped /\ next <= Size[run] /\ at[Current] = "none"
  /\ result' = [id \in Ids |-> IF Unbegun(id) THEN "stopped" ELSE result[id]]
  /\ next' = Size[run] + 1
  /\ UNCHANGED <<mode, run, open, kind, at, gave, decided, intent, stopped, left, allowed, refused, late, seen>>

End == open /\ next > Size[run] /\ open' = FALSE /\ UNCHANGED <<mode, run, next, kind, at, gave, result, decided, intent, stopped, left, allowed, refused, late, seen>>

Switch == mode' \in Modes \ {mode} /\ UNCHANGED <<run, open, next, kind, at, gave, result, decided, intent, stopped, left, allowed, refused, late, seen>>

Advance == \E id \in Ids : Judged(id) \/ Answered(id) \/ Hooked(id) \/ Opened(id) \/ Reported(id)
Next == Request \/ Take \/ Record \/ Stop \/ Grace \/ Rest \/ End \/ Switch \/ Advance
Spec == Init /\ [][Next]_vars

\* The session's own steps happen; a call, the operator and a hook may take for ever.
Settles == Record \/ Grace \/ Rest \/ End \/ (\E id \in Ids : (kind[id] \notin Slow /\ Judged(id)) \/ (Stopped(id) /\ Answered(id)))
FairSpec == Spec /\ WF_vars(Settles)

------------------------------------------------------------------------------
\* The types of the state, and that a call that ended gave something.
TypeOK ==
  /\ mode \in Modes /\ run \in 0 .. LastRun /\ next \in 1 .. 4
  /\ at \in [Ids -> {"none", "parsing", "asking", "before", "opening", "executing", "given"}]
  /\ gave \in [Ids -> {"none", "ran", "refused", "stopped"}] /\ result \in [Ids -> {"none", "ran", "refused", "stopped", "unknown"}]
  /\ \A id \in Ids : (at[id] = "given") = (gave[id] # "none")
  /\ stopped \subseteq 1 .. run /\ left \subseteq Ids /\ allowed \subseteq Kinds /\ refused \subseteq 1 .. run
  /\ seen \in [Ids -> Modes \cup {"none"}]

\* Every call of a run that ended has its one result, the model's provider
\* requires it, however the stop crossed them: only a repeated id has none.
OneResultEach == \A id \in Ids : id[1] < run \/ (id[1] = run /\ ~open) => (result[id] = "none") = (kind[id] = Repeat)

\* A tool runs only on the last word of its permission entries, and with its
\* intent on disk first.
OnlyAllowedCallsRun == \A id \in Ids : at[id] = "executing" => (Last(decided[id]).decision = "allow" /\ id \in intent)

\* Once the floor refused a call in a run, no other command or change of that
\* run runs on the mode's or a rule's word alone.
AfterTheFloorNoModeAllows == [][\A id \in Ids : at'[id] = "executing" /\ at[id] # "executing" /\ id[1] \in refused /\ Access[kind[id]] # "read" => Last(decided[id]).by \in {"operator", "session"}]_vars

\* The session's word to the model, and the permissions guide's: after the
\* floor refused a call, the rest of the request asks before every change.
AfterTheFloorEveryChangeIsAsked == [][\A id \in Ids : at'[id] = "executing" /\ at[id] # "executing" /\ id[1] \in refused /\ Access[kind[id]] # "read" => Last(decided[id]).by = "operator"]_vars

\* After a stop no tool starts, whatever wait of its call the stop came in,
\* of this run or of one left behind.
StoppedRunsStartNothing == [][\A id \in Ids : at'[id] = "executing" /\ at[id] # "executing" => ~Stopped(id)]_vars

\* What the comment on `step' says of work that was left: it reports nothing more.
LeftCallsAreSilent == late = {}

\* A stop ends the calls, however long the tool it interrupts takes.
StopEndsTheCalls == \A r \in Runs : (r \in stopped) ~> (run > r \/ ~open)

\* What the session promises of a reply's calls, in one: a result for each, no
\* tool that was not allowed or whose intent is not on disk, no mode's word
\* after the floor's, and none started after a stop.
Safety == [](OneResultEach /\ OnlyAllowedCallsRun) /\ AfterTheFloorNoModeAllows /\ StoppedRunsStartNothing
=============================================================================
