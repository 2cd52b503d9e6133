------------------------------ MODULE Admission ------------------------------
(***************************************************************************)
(* How the calls on a session are let in: `prompt', `compact', `abort' and *)
(* `dispose' of packages/core/src/loop.ts, each an async function whose    *)
(* awaits the others cross.  What a run does once it was let in is         *)
(* RunLoop's; here it is recorded, ends or fails.                          *)
(***************************************************************************)
EXTENDS Naturals, FiniteSets

CONSTANTS
  Callers,   \* the calls of a behaviour, each of any kind
  None

VARIABLES
  op,        \* op[c]: what call c is, once it was made
  at,        \* at[c]: the await call c is at
  on,        \* on[c]: the run or the compaction that await waits for
  told,      \* told[c]: prompt c's admission was stopped
  started,   \* the startup handlers have finished
  running,   \* the prompt whose run is going (`running')
  stage,     \* where that run is
  stopped,   \* that run's signal is aborted
  runs,      \* requests the file holds
  closed,    \* input no longer belongs to the run
  compacting,\* the call compacting, and whether its signal is aborted
  cut,
  held,      \* the input handlers a failed run waits for
  unsaved,   \* an answer could not be saved (`questionFailure')
  broken,    \* the file could not be written
  disposed,
  over       \* the writer is closed
vars == <<op, at, on, told, started, running, stage, stopped, runs, closed, compacting, cut, held, unsaved, broken, disposed, over>>
session == <<started, running, stage, stopped, runs, closed, compacting, cut, held, unsaved, broken, disposed, over>>

Ops == {"prompt", "steer", "compact", "stop", "dispose"}
Ats == {"idle", "starting", "waiting", "amending", "handling", "running", "compacting", "first", "second", "returned", "refused"}
Stages == {"none", "capturing", "working", "failing", "ended"}

Init ==
  /\ op = [c \in Callers |-> "none"] /\ at = [c \in Callers |-> "idle"]
  /\ on = [c \in Callers |-> None] /\ told = [c \in Callers |-> FALSE]
  /\ started = FALSE /\ running = None /\ stage = "none" /\ stopped = FALSE
  /\ runs \in 0 .. 1 /\ closed = FALSE /\ compacting = None /\ cut = FALSE
  /\ held = {} /\ unsaved = FALSE /\ broken = FALSE /\ disposed = FALSE /\ over = FALSE

Go(c, where) == at' = [at EXCEPT ![c] = where]
Admitting == {c \in Callers : op[c] \in {"prompt", "steer"} /\ at[c] \in {"starting", "waiting"}}
TellAll == told' = [c \in Callers |-> told[c] \/ c \in Admitting]
NeverAgain == disposed \/ unsaved
Aborts == stopped' = (stopped \/ running # None)

\* A call is made.  A stop tells every admission, the run and the compaction
\* at once; a disposal too, and it waits for the startup handlers first.
Call(c, kind) ==
  /\ at[c] = "idle" /\ op' = [op EXCEPT ![c] = kind]
  /\ UNCHANGED <<started, running, stage, runs, closed, compacting, held, unsaved, broken, over>>
  /\ CASE kind \in {"prompt", "steer", "compact"} ->
            /\ Go(c, IF NeverAgain THEN "refused" ELSE "starting")
            /\ UNCHANGED <<on, told, stopped, cut, disposed>>
       [] kind = "stop" ->
            /\ Go(c, "first") /\ on' = [on EXCEPT ![c] = running]
            /\ TellAll /\ Aborts /\ cut' = (cut \/ compacting # None)
            /\ UNCHANGED disposed
       [] kind = "dispose" ->
            /\ Go(c, IF disposed THEN "returned" ELSE "starting") /\ disposed' = TRUE
            /\ TellAll /\ Aborts /\ cut' = (cut \/ compacting # None)
            /\ UNCHANGED on

Startup == ~started /\ started' = TRUE /\ UNCHANGED <<op, at, on, told, running, stage, stopped, runs, closed, compacting, cut, held, unsaved, broken, disposed, over>>

\* Input for a run: it joins once the request is in the file, unless the run
\* has ended or the file failed.
Joined == IF closed \/ broken THEN "refused" ELSE "handling"

Ready(c) ==
  \/ at[c] = "starting" /\ started
  \/ at[c] = "waiting" /\ (told[c] \/ compacting # on[c])

Barred(c) == NeverAgain \/ told[c]
MustWaitOnce(c) == compacting # None /\ at[c] = "starting"
MustWait(c) == compacting # None

\* A prompt goes on after its wait: it is refused, waits for the compaction
\* there is, joins the run there is, or becomes a run, with no await between.
Admit(c) ==
  /\ op[c] \in {"prompt", "steer"} /\ Ready(c)
  /\ UNCHANGED <<op, told, started, runs, cut, compacting, held, unsaved, broken, disposed, over>>
  /\ \/ Barred(c) /\ Go(c, "refused") /\ UNCHANGED <<on, running, stage, stopped, closed>>
     \/ /\ ~Barred(c) /\ MustWait(c)
        /\ Go(c, "waiting") /\ on' = [on EXCEPT ![c] = compacting] /\ UNCHANGED <<running, stage, stopped, closed>>
     \/ /\ ~Barred(c) /\ ~MustWait(c) /\ running # None
        /\ Go(c, IF op[c] = "prompt" THEN "refused" ELSE IF stage = "capturing" THEN "amending" ELSE Joined)
        /\ UNCHANGED <<on, running, stage, stopped, closed>>
     \/ /\ ~Barred(c) /\ ~MustWait(c) /\ running = None
        /\ Go(c, "running") /\ running' = c /\ stage' = "capturing" /\ stopped' = FALSE /\ closed' = FALSE
        /\ UNCHANGED on

\* Everything that waited for the request to be in the file goes on.
Resumed(c) == at' = [d \in Callers |-> IF at[d] = "amending" THEN c ELSE at[d]]

\* The base is captured and the request written; or the base fails, which is
\* no run; or the write does.
Record ==
  /\ stage = "capturing" /\ UNCHANGED <<op, on, told, started, running, stopped, compacting, cut, held, unsaved, disposed, over>>
  /\ \/ stage' = "working" /\ runs' = runs + 1 /\ Resumed(Joined) /\ UNCHANGED <<closed, broken>>
     \/ stage' = "failing" /\ closed' = TRUE /\ Resumed("refused") /\ UNCHANGED <<runs, broken>>
     \/ stage' = "failing" /\ runs' = runs + 1 /\ broken' = TRUE /\ Resumed("refused") /\ UNCHANGED closed

\* The run ends as settlement says, or a write of it fails; its failure waits
\* for the input handlers running then.
RunEnds ==
  /\ stage = "working" /\ UNCHANGED <<op, at, on, told, started, running, stopped, runs, compacting, cut, disposed, over>>
  /\ \/ stage' = "ended" /\ closed' = TRUE /\ UNCHANGED <<held, broken, unsaved>>
     \/ /\ stage' = "failing" /\ held' = {c \in Callers : at[c] = "handling"}
        /\ \/ broken' = TRUE /\ UNCHANGED unsaved
           \/ unsaved' = TRUE /\ UNCHANGED broken
        /\ UNCHANGED closed

\* `prompt' returns: nothing runs any more.
RunOverKept ==
  /\ stage \in {"ended", "failing"} /\ \A c \in held : at[c] # "handling"
  /\ at' = [at EXCEPT ![running] = "returned"] /\ stage' = "none" /\ held' = {}
  /\ UNCHANGED <<op, on, told, started, running, stopped, runs, closed, compacting, cut, unsaved, broken, disposed, over>>
RunOver ==
  /\ stage \in {"ended", "failing"} /\ \A c \in held : at[c] # "handling"
  /\ at' = [at EXCEPT ![running] = "returned"] /\ running' = None /\ stage' = "none" /\ held' = {}
  /\ UNCHANGED <<op, on, told, started, stopped, runs, closed, compacting, cut, unsaved, broken, disposed, over>>

HandlerEnds(c) == at[c] = "handling" /\ Go(c, "returned") /\ UNCHANGED <<op, on, told, session>>

\* `compact' after its wait, and the compaction's end.
Compact(c) ==
  /\ op[c] = "compact" /\ at[c] = "starting" /\ started
  /\ UNCHANGED <<op, on, told, started, running, stage, stopped, runs, closed, held, unsaved, broken, disposed, over>>
  /\ \/ /\ ~NeverAgain /\ running = None /\ compacting = None /\ runs > 0
        /\ Go(c, "compacting") /\ compacting' = c /\ cut' = FALSE
     \/ /\ (NeverAgain \/ running # None \/ compacting # None \/ runs = 0)
        /\ Go(c, "refused") /\ UNCHANGED <<compacting, cut>>
CompactionEnds(c) ==
  /\ compacting = c /\ Go(c, "returned") /\ compacting' = None
  /\ UNCHANGED <<op, on, told, started, running, stage, stopped, runs, closed, cut, held, unsaved, broken, disposed, over>>

\* The awaits of a stop and of a disposal: the run as it is when the await is
\* reached, then the compaction as it is then.
CompactionOver(c) == on[c] = None \/ compacting # on[c]
RunSettled(c) == on[c] = None \/ running # on[c] \/ stage \in {"ended", "failing"}
Wait(c) ==
  /\ UNCHANGED <<op, told, started, running, stage, stopped, runs, closed, compacting, cut, held, unsaved, broken, disposed>>
  /\ \/ op[c] = "dispose" /\ at[c] = "starting" /\ started /\ Go(c, "first") /\ on' = [on EXCEPT ![c] = running] /\ UNCHANGED over
     \/ at[c] = "first" /\ RunSettled(c) /\ Go(c, "second") /\ on' = [on EXCEPT ![c] = compacting] /\ UNCHANGED over
     \/ /\ at[c] = "second" /\ CompactionOver(c) /\ Go(c, "returned")
        /\ over' = (over \/ op[c] = "dispose") /\ UNCHANGED on

Next ==
  \/ Startup \/ Record \/ RunEnds \/ RunOver
  \/ \E c \in Callers : Admit(c) \/ HandlerEnds(c) \/ Compact(c) \/ CompactionEnds(c) \/ Wait(c) \/ \E kind \in Ops : Call(c, kind)
Spec == Init /\ [][Next]_vars

\* A run that is stopped ends (RunLoop's StopEndsTheRun); one that is not may
\* go on for ever.  A summary, an input handler and the startup handlers end.
Settles ==
  \/ Startup \/ RunOver \/ (stopped /\ (Record \/ RunEnds))
  \/ \E c \in Callers : Admit(c) \/ HandlerEnds(c) \/ Compact(c) \/ CompactionEnds(c) \/ Wait(c)
FairSpec == Spec /\ WF_vars(Settles)

------------------------------------------------------------------------------
\* The types of the state, and that a run has its prompt and a compaction its call.
TypeOK ==
  /\ op \in [Callers -> Ops \cup {"none"}] /\ at \in [Callers -> Ats] /\ on \in [Callers -> Callers \cup {None}]
  /\ stage \in Stages /\ runs \in Nat /\ held \subseteq Callers
  /\ (running = None) = (stage = "none") /\ (running # None => at[running] = "running")
  /\ compacting # None => at[compacting] = "compacting"

\* A run and a compaction never change the conversation at once, whatever
\* prompts, compactions and stops cross each other's waits.
OneAtATime == running = None \/ compacting = None

\* Once a disposal has closed the file, no run writes to it and no compaction
\* is left, and none starts: every call let in before was waited for.
NothingWorksOnAClosedFile == over => stage \notin {"capturing", "working"} /\ compacting = None

\* A prompt stopped while it waited to be let in never reaches a run: neither
\* as the run nor as input that joins another.
StoppedPromptsStayOut == \A c \in Callers : told[c] => at[c] \in {"starting", "waiting", "refused"}

\* Once an answer was lost, nothing new begins in the session.
NothingBeginsAfterALostAnswer == [][unsaved => (running' \in {running, None} /\ compacting' \in {compacting, None})]_vars

\* Every stop and every disposal returns.
StopsReturn == \A c \in Callers : (at[c] = "first" \/ op[c] = "dispose") ~> at[c] = "returned"

\* What the session promises of its callers, in one: a run and a compaction
\* never at once, nothing at work on a closed file, stopped prompts kept out,
\* and nothing new after a lost answer.
Safety == [](OneAtATime /\ NothingWorksOnAClosedFile /\ StoppedPromptsStayOut) /\ NothingBeginsAfterALostAnswer
=============================================================================
