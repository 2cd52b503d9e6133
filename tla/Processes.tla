----------------------------- MODULE Processes -----------------------------
(* One run of a process (process.ts): the child and what it starts, the stop, *)
(* the time limit and the grace after its exit, what is stopped before the    *)
(* run reports, and what the shell (tools/shell.ts) and a hook (hooks.ts) make *)
(* of it, while whoever outlived the child still prints.                      *)
EXTENDS Naturals, FiniteSets

CONSTANTS Kids,       \* what the child may start, directly or not
          Platforms,  \* how a tree is stopped: its group, a Windows job, or taskkill
          MaxPrint,   \* bound on the chunks printed
          KeepChunks, SpoolAfter  \* the chunks a result shows, and those kept in memory

Processes == {"child"} \cup Kids

VARIABLES where, limited,  \* the platform, and whether the run has a time limit
          pc, aborted,
          proc,     \* each process: within reach of a stop of the tree, out of it, dying or gone
          holds,    \* those whose output is the run's
          code,     \* the child's exit code, none when it was killed
          seen,     \* its exit was seen
          printed,  \* chunks written to the output
          size,     \* chunks read of them
          file, saved, failed,  \* the capture's file, the chunks in it, whether it failed
          outcome,  \* how the run's use of the child ended
          waits,    \* whether its release waits for the output to close
          expired,  \* whether it gave the group up
          run, told \* the ProcessRun, and the call's result

capture == <<file, saved, failed>>
world == <<proc, holds, code, printed>>
vars == <<where, limited, pc, aborted, world, seen, size, capture, outcome, waits, expired, run, told>>

Null == 3  \* no exit code: killed by a signal
Nothing == [ended |-> "none", code |-> Null]
Untold == [error |-> FALSE, size |-> 0, note |-> "none"]

Init ==
  /\ where \in Platforms /\ limited \in BOOLEAN
  /\ pc = "called" /\ aborted = FALSE
  /\ proc = [p \in Processes |-> "none"] /\ holds = {} /\ code = Null /\ seen = FALSE
  /\ printed = 0 /\ size = 0 /\ saved = 0
  /\ \/ file = "open" /\ failed = FALSE
     \/ file = "none" /\ failed = TRUE
  /\ outcome = "none" /\ waits = FALSE /\ expired = FALSE /\ run = Nothing /\ told = Untold

-----------------------------------------------------------------------------
(* The processes.  One started inherits its parent's place and, or not, its   *)
(* output.  Another session leaves the group, and an exited parent breaks the *)
(* chain taskkill follows; nothing leaves a job.                              *)
Runs(p) == proc[p] \in {"in", "out"}
Forks(k) ==
  /\ k \in Kids /\ proc[k] = "none"
  /\ \E p \in Processes \ {k} :
       /\ Runs(p) /\ proc' = [proc EXCEPT ![k] = proc[p]]
       /\ holds' \in {holds, IF p \in holds THEN holds \cup {k} ELSE holds}
  /\ UNCHANGED <<where, limited, pc, aborted, code, printed, seen, size, capture, outcome, waits, expired, run, told>>

Leaves(k) ==
  /\ k \in Kids /\ proc[k] = "in" /\ where # "job" /\ proc' = [proc EXCEPT ![k] = "out"]
  /\ UNCHANGED <<where, limited, pc, aborted, holds, code, printed, seen, size, capture, outcome, waits, expired, run, told>>

Dies(p) ==
  /\ Runs(p) \/ proc[p] = "dying"
  /\ proc' = [proc EXCEPT ![p] = "gone"] /\ holds' = holds \ {p}
  /\ code' \in IF p # "child" THEN {code} ELSE IF proc[p] = "dying" THEN {Null} ELSE {0, 1, 2, Null}
  /\ UNCHANGED <<where, limited, pc, aborted, printed, seen, size, capture, outcome, waits, expired, run, told>>

Prints(p) ==
  /\ p \in holds /\ Runs(p) /\ printed < MaxPrint /\ printed' = printed + 1
  /\ UNCHANGED <<where, limited, pc, aborted, proc, holds, code, seen, size, capture, outcome, waits, expired, run, told>>

Aborts == ~aborted /\ aborted' = TRUE
          /\ UNCHANGED <<where, limited, pc, world, seen, size, capture, outcome, waits, expired, run, told>>

(* What Tesota sees of them, at any time once the child runs: its exit, and a *)
(* chunk of its output, which the capture writes unless its file failed.      *)
SeesExit ==
  /\ proc["child"] = "gone" /\ ~seen /\ seen' = TRUE
  /\ UNCHANGED <<where, limited, pc, aborted, world, size, capture, outcome, waits, expired, run, told>>

Reads ==
  /\ size < printed /\ size' = size + 1
  /\ \/ file = "open" /\ saved' = saved + 1 /\ UNCHANGED <<file, failed>>
     \/ file = "open" /\ file' = "closed" /\ failed' = TRUE /\ UNCHANGED saved
     \/ file # "open" /\ UNCHANGED capture
  /\ UNCHANGED <<where, limited, pc, aborted, world, seen, outcome, waits, expired, run, told>>

(* close: the child's exit was seen, nobody holds its output, and all was read *)
Closed == seen /\ holds = {} /\ size = printed

-----------------------------------------------------------------------------
(* runProcess: a stopped run starts nothing; the jobs are loaded meanwhile.   *)
Calls ==
  /\ pc = "called"
  /\ IF aborted THEN outcome' = "interrupted" /\ pc' = "over" ELSE pc' = "starts" /\ UNCHANGED outcome
  /\ UNCHANGED <<where, limited, aborted, world, seen, size, capture, waits, expired, run, told>>

Starts ==
  /\ pc = "starts"
  /\ \/ /\ pc' = "runs" /\ proc' = [proc EXCEPT !["child"] = "in"] /\ holds' = {"child"} /\ UNCHANGED outcome
     \/ pc' = "release" /\ outcome' = "failed" /\ UNCHANGED <<proc, holds>>
     \/ aborted /\ pc' = "over" /\ outcome' = "interrupted" /\ UNCHANGED <<proc, holds>>
  /\ UNCHANGED <<where, limited, aborted, code, printed, seen, size, capture, waits, expired, run, told>>

(* The child's close, or the grace after its exit; the limit; the stop.       *)
Ends ==
  /\ pc = "runs" /\ pc' = "release"
  /\ \/ (Closed \/ seen) /\ outcome' = "code"
     \/ limited /\ outcome' = "timed_out"
     \/ aborted /\ outcome' = "interrupted"
  /\ UNCHANGED <<where, limited, aborted, world, seen, size, capture, waits, expired, run, told>>

(* stop: a run that ended by itself leaves what outlived it; any other stops  *)
(* its job or its tree, then waits for the output of a child not seen to exit. *)
Stopped == outcome # "code" \/ ~seen
Started == proc["child"] # "none"
StopTree == [p \in Processes |-> IF proc[p] = "in" THEN "dying" ELSE proc[p]]

Releases ==
  /\ pc = "release" /\ waits' = (Stopped /\ Started /\ ~seen)
  /\ IF Stopped /\ Started
     THEN pc' = (IF where = "job" THEN "closing" ELSE "tree") /\ proc' = IF where = "taskkill" THEN proc ELSE StopTree
     ELSE pc' = "over" /\ UNCHANGED proc
  /\ UNCHANGED <<where, limited, aborted, holds, code, printed, seen, size, capture, outcome, expired, run, told>>

(* stopTree: the group is waited for until none of it is left, or the deadline; *)
(* taskkill follows the child while it lives, and may fail.                     *)
TreeStopped ==
  /\ pc = "tree" /\ pc' = "closing"
  /\ \/ where = "posix" /\ UNCHANGED proc
        /\ expired' = \E p \in Processes : proc[p] = "dying"
     \/ where = "taskkill" /\ proc' \in {proc, IF proc["child"] = "gone" THEN proc ELSE StopTree} /\ UNCHANGED expired
  /\ UNCHANGED <<where, limited, aborted, holds, code, printed, seen, size, capture, outcome, waits, run, told>>

OutputClosed ==
  /\ pc = "closing" /\ (waits => Closed) /\ pc' = "over"
  /\ UNCHANGED <<where, limited, aborted, world, seen, size, capture, outcome, waits, expired, run, told>>

(* Its result: a stop that comes while it is being released still cancels it. *)
Result ==
  LET ended == CASE outcome = "code" -> [ended |-> "exited", code |-> code]
                 [] outcome = "timed_out" -> [ended |-> "timed_out", code |-> Null]
                 [] outcome = "failed" /\ ~aborted -> [ended |-> "not_started", code |-> Null]
                 [] OTHER -> [ended |-> "cancelled", code |-> Null]
  IN  {ended} \cup IF aborted THEN {[ended |-> "cancelled", code |-> Null]} ELSE {}

(* execute, Capture.finish: the end of the output, and where all of it is, or  *)
(* why it could not be saved.                                                   *)
Cut == size > SpoolAfter
Noted(unsaved) ==
  CASE Cut /\ file # "none" /\ ~failed -> "path"
    [] (Cut \/ size > KeepChunks) /\ (failed \/ unsaved) -> "not_saved"
    [] size > KeepChunks /\ ~failed /\ ~unsaved -> "cut"
    [] OTHER -> "none"
Reports ==
  /\ pc = "over" /\ pc' = "done"
  /\ run' \in Result
  /\ LET deletes == file # "none" /\ (~Cut \/ failed)
     IN  \E unsaved \in IF deletes THEN BOOLEAN ELSE {FALSE} :
           /\ told' = [error |-> run'.ended # "exited" \/ run'.code # 0, size |-> size, note |-> Noted(unsaved)]
           /\ file' = IF deletes THEN IF unsaved THEN "left" ELSE "deleted" ELSE IF file = "open" THEN "closed" ELSE file
           /\ failed' = (failed \/ unsaved)
  /\ UNCHANGED <<where, limited, aborted, world, seen, size, saved, outcome, waits, expired>>

Next ==
  \/ \E p \in Processes : Forks(p) \/ Leaves(p) \/ Dies(p) \/ Prints(p)
  \/ Aborts \/ SeesExit \/ Reads \/ Calls \/ Starts \/ Ends \/ Releases \/ TreeStopped \/ OutputClosed \/ Reports
Spec == Init /\ [][Next]_vars

-----------------------------------------------------------------------------
(* runHook: what a hook's run decides, given what its output says.            *)
Ran(says) ==
  CASE run.ended = "cancelled" -> "nothing"
    [] run.ended \in {"not_started", "timed_out"} -> "note"
    [] run.ended = "exited" /\ run.code = 2 -> "blocked"
    [] run.ended = "exited" /\ run.code \notin {0, 2} -> "note"
    [] OTHER -> CASE says = "block" -> "blocked" [] says \in {"garbage", "message"} -> "note" [] OTHER -> "nothing"
(* runHooks: any that blocks blocks the call, whatever the others said.       *)
Blocks(rans) == "blocked" \in rans

-----------------------------------------------------------------------------
Done == pc = "done"
TypeOK ==
  /\ proc \in [Processes -> {"none", "in", "out", "dying", "gone"}] /\ holds \subseteq Processes
  /\ size \in 0 .. printed /\ saved \in 0 .. size /\ file \in {"none", "open", "closed", "deleted", "left"}
  /\ run.ended \in {"none", "exited", "timed_out", "cancelled", "not_started"}

(* A run that a stop or its limit ended reports only when nothing of its tree *)
(* runs on: gone with its group but for the deadline, dying with its job, and *)
(* nobody prints to the output of a child it stopped.                         *)
StopsLeaveNothing ==
  Done /\ outcome \in {"timed_out", "interrupted"} /\ Started =>
    /\ where # "taskkill" => \A p \in Processes : proc[p] # "in"
    /\ where = "posix" /\ ~expired => \A p \in Processes : proc[p] # "dying"
    /\ waits => holds = {} /\ told.size = printed

(* One that ended by itself stops nothing that outlived it, and its code is   *)
(* the child's; a call succeeds only so.                                      *)
CodesAreItsOwn ==
  /\ outcome \in {"none", "code"} => \A p \in Processes : proc[p] # "dying"
  /\ run.ended = "exited" => outcome = "code" /\ proc["child"] = "gone" /\ run.code = code
  /\ Done /\ ~told.error => outcome = "code" /\ code = 0

(* What a result leaves out is in the file it names, whole, whatever is read  *)
(* later, or it says that it is not; without a word it leaves nothing out. No *)
(* other file is kept.                                                        *)
OutputIsAccountedFor ==
  Done => CASE told.note = "path" -> saved = told.size /\ file = "closed"
            [] told.note = "none" -> told.size <= KeepChunks /\ file \notin {"open", "closed"}
            [] OTHER -> file \notin {"open", "closed"}

(* A hook's block is lost only to a stop or its time, and a hook blocks only  *)
(* by its own exit.                                                           *)
BlocksHold ==
  Done => \A says \in {"block", "garbage", "message", "nothing"} :
            /\ proc["child"] = "gone" /\ code = 2 /\ ~Blocks({Ran(says), "note"}) => aborted \/ limited
            /\ Blocks({Ran(says), "note"}) => ~Stopped /\ code \in {0, 2}

Inv == TypeOK /\ StopsLeaveNothing /\ CodesAreItsOwn /\ OutputIsAccountedFor /\ BlocksHold
=============================================================================
