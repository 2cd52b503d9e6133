----------------------------- MODULE Subagents -----------------------------
(***************************************************************************)
(* The subagents of one top session (packages/core/src/children.ts,        *)
(* agent-rule.ts, and the jobs of loop.ts they run as): how calls of any   *)
(* session of the tree start children against one count, what stops a      *)
(* child, and how its end gives its place back.  Each session is an actor  *)
(* of its own; an action is what one does between two awaits.              *)
(*                                                                         *)
(* Abstracted: the brief, the report, the worktree and the permissions of  *)
(* a child.  Each session takes one request (module RunLoop has the runs   *)
(* that follow each other), and its settlement is one stage.               *)
(***************************************************************************)
EXTENDS Naturals, FiniteSets

CONSTANTS Top,      \* the session the operator started
          Kids,     \* bound: the children the tree ever starts
          Limit,    \* children running at once across the tree; 4 in the code
          MaxDepth  \* how far below the top session a child may be; 2 in the code

ASSUME SubagentsAssumption ==
  /\ Top \notin Kids /\ IsFiniteSet(Kids)
  /\ Limit \in Nat /\ MaxDepth \in Nat

Sessions == {Top} \cup Kids

\* Where a session is.  "discarding": its job's start could not be recorded.
Phase == {"none", "turns", "stopping", "settling", "over", "discarding", "gone"}

VARIABLES
  phase,    \* where each session is
  above,    \* the sessions above each
  call,     \* what its `agent' call does: "none", "model", or the child it waits for
  left,     \* the sessions whose stopped run went on without such a call
  stopped,  \* the sessions whose run's signal is aborted
  awaited,  \* the children a `stopJobs' waits for
  running,  \* tree.running
  counted   \* the children whose spawn still counts them

vars == <<phase, above, call, left, stopped, awaited, running, counted>>

Depth(s) == Cardinality(above[s])
Below(s) == {k \in Kids : s \in above[k]}
Parent(k) == CHOOSE s \in above[k] : Depth(s) + 1 = Depth(k)
Children(s) == {k \in Below(s) : Depth(k) = Depth(s) + 1}

\* A job runs until its child is let go of.
Jobs(s) == {k \in Children(s) : phase[k] \in {"turns", "stopping", "settling", "over"}}

\* A call starts a job only while its session's run is open.
RunOpen(s) == phase[s] \in {"turns", "stopping", "settling"}

-----------------------------------------------------------------------------
Init ==
  /\ phase = [s \in Sessions |-> IF s = Top THEN "turns" ELSE "none"]
  /\ above = [s \in Sessions |-> {}]
  /\ call = [s \in Sessions |-> "none"]
  /\ left = {} /\ stopped = {} /\ counted = {}
  /\ awaited = [s \in Sessions |-> {}]
  /\ running = 0

-----------------------------------------------------------------------------
(* Starting a child. *)

\* admitChild(), for a child the permissions allow.
Admitted(s) == Depth(s) < MaxDepth /\ running < Limit

\* spawn() admits the call and asks which model the child runs on; a refused
\* call changes nothing.
Spawn(s) ==
  /\ phase[s] = "turns" /\ s \notin stopped /\ call[s] = "none"
  /\ Admitted(s)
  /\ call' = [call EXCEPT ![s] = "model"]
  /\ UNCHANGED <<phase, above, left, stopped, awaited, running, counted>>

\* A call waits for its model, in its run or left behind by it.
Asked(s) == call[s] = "model" \/ s \in left

\* What of the call goes on: a run that left it hears nothing of it.
Answers(s, what) ==
  \/ call[s] = "model" /\ call' = [call EXCEPT ![s] = what] /\ UNCHANGED left
  \/ s \in left /\ left' = left \ {s} /\ UNCHANGED call

\* Mutant: a child whose session cannot be created keeps its place.
SpawnRefusedCounted(s) ==
  /\ Asked(s)
  /\ Answers(s, "none")
  /\ running' \in {running, running + 1}
  /\ UNCHANGED <<phase, above, stopped, awaited, counted>>
\* The named model cannot run, no run of its session is open any longer, or the
\* child's session cannot be created: the count is as it was.
SpawnRefused(s) ==
  /\ Asked(s)
  /\ Answers(s, "none")
  /\ UNCHANGED <<phase, above, stopped, awaited, running, counted>>

\* Mutant: listens for a stop that was already given.
StartsOnceStopped(s) ==
  /\ Asked(s) /\ RunOpen(s)
  /\ \E k \in Kids, wait \in BOOLEAN :
       /\ phase[k] = "none"
       /\ phase' = [phase EXCEPT ![k] = "turns"]
       /\ above' = [above EXCEPT ![k] = above[s] \cup {s}]
       /\ counted' = counted \cup {k}
       /\ Answers(s, IF wait THEN k ELSE "none")
  /\ running' = running + 1
  /\ UNCHANGED <<stopped, awaited>>
\* jobs.start(): the child's session is created, its job's start recorded, and
\* it works on its brief, told at once of a stop already given.
Start(s) ==
  /\ Asked(s) /\ RunOpen(s)
  /\ \E k \in Kids, wait \in BOOLEAN :
       /\ phase[k] = "none"
       /\ phase' = [phase EXCEPT ![k] = "turns"]
       /\ above' = [above EXCEPT ![k] = above[s] \cup {s}]
       /\ counted' = counted \cup {k}
       /\ stopped' = IF s \in stopped THEN stopped \cup {k} ELSE stopped
       /\ Answers(s, IF wait THEN k ELSE "none")
  /\ running' = running + 1
  /\ UNCHANGED awaited

\* The journal refuses the job's start: the child is to be discarded.
StartNotRecorded(s) ==
  /\ Asked(s) /\ RunOpen(s)
  /\ \E k \in Kids :
       /\ phase[k] = "none"
       /\ phase' = [phase EXCEPT ![k] = "discarding"]
       /\ above' = [above EXCEPT ![k] = above[s] \cup {s}]
       /\ counted' = counted \cup {k}
       /\ Answers(s, k)
  /\ running' = running + 1
  /\ UNCHANGED <<stopped, awaited>>

\* uncount(): gives the child's place back, once.
UncountAgain(k) ==  \* mutant: whoever asks gives it back
  /\ running' = running - 1
  /\ counted' = counted \ {k}
Uncount(k) ==
  /\ running' = IF k \in counted THEN running - 1 ELSE running
  /\ counted' = counted \ {k}

\* discard() disposes the child and uncounts it; spawn() catches the failure
\* and uncounts it again.
Discarded(k) ==
  /\ phase[k] = "discarding"
  /\ phase' = [phase EXCEPT ![k] = "gone"]
  /\ Uncount(k)
  /\ UNCHANGED <<above, call, left, stopped, awaited>>

\* The call that waited for its child returns with its end; or, when its job's
\* start or end could not be recorded, refused.
WaitReturns(s) ==
  /\ call[s] \in Kids /\ phase[call[s]] = "gone"
  /\ Uncount(call[s]) \/ UNCHANGED <<running, counted>>
  /\ call' = [call EXCEPT ![s] = "none"]
  /\ UNCHANGED <<phase, above, left, stopped, awaited>>

-----------------------------------------------------------------------------
(* What ends a session's run. *)

\* abort(): the run's signal reaches each of its jobs, whose child is stopped
\* the same way, before anything else happens.
Stops(s) == stopped' = stopped \cup {s} \cup {k \in Below(s) : phase[k] \notin {"none", "gone", "discarding"}}

\* The operator stops the run.
Stop ==
  /\ RunOpen(Top) /\ Top \notin stopped
  /\ Stops(Top)
  /\ UNCHANGED <<phase, above, call, left, awaited, running, counted>>

\* A child reached its replies or its time.
Limited(k) ==
  /\ phase[k] \in {"turns", "stopping", "settling"} /\ k \notin stopped
  /\ Stops(k)
  /\ UNCHANGED <<phase, above, call, left, awaited, running, counted>>

\* A session's jobs are stopped with its turns; its run waits for those.
StopJobs(s) ==
  /\ stopped' = stopped \cup UNION {{k} \cup Below(k) : k \in Jobs(s)}
  /\ awaited' = [awaited EXCEPT ![s] = Jobs(s)]
  /\ phase' = [phase EXCEPT ![s] = "stopping"]

\* Its turns end with no call going: when no job runs it is done, and at any
\* time it may fail or leave a question unresolved.
TurnsEnd(s) ==
  /\ phase[s] = "turns" /\ call[s] = "none" /\ s \notin stopped
  /\ StopJobs(s)
  /\ UNCHANGED <<above, call, left, running, counted>>

\* A stopped session's turns end whatever its call does.
StoppedTurnsEnd(s) ==
  /\ phase[s] = "turns" /\ s \in stopped
  /\ left' = IF call[s] = "model" THEN left \cup {s} ELSE left
  /\ call' = [call EXCEPT ![s] = "none"]
  /\ StopJobs(s)
  /\ UNCHANGED <<above, running, counted>>

\* Mutant: a run settles without its jobs.
JobsNotAwaited(s) ==
  /\ phase[s] = "stopping"
  /\ phase' = [phase EXCEPT ![s] = "settling"]
  /\ awaited' = [awaited EXCEPT ![s] = {}]
  /\ UNCHANGED <<above, call, left, stopped, running, counted>>
\* stopJobs() returned, and the run settles.
JobsStopped(s) ==
  /\ phase[s] = "stopping" /\ \A k \in awaited[s] : phase[k] = "gone"
  /\ phase' = [phase EXCEPT ![s] = "settling"]
  /\ awaited' = [awaited EXCEPT ![s] = {}]
  /\ UNCHANGED <<above, call, left, stopped, running, counted>>

\* The settlement sends the run back to the model.
SentBack(s) ==
  /\ phase[s] = "settling" /\ s \notin stopped
  /\ phase' = [phase EXCEPT ![s] = "turns"]
  /\ UNCHANGED <<above, call, left, stopped, awaited, running, counted>>

RunEnds(s) ==
  /\ phase[s] = "settling"
  /\ phase' = [phase EXCEPT ![s] = "over"]
  /\ UNCHANGED <<above, call, left, stopped, awaited, running, counted>>

\* Its journal fails: the run ends where it is, and its signal is aborted.
Fails(s) ==
  /\ RunOpen(s)
  /\ phase' = [phase EXCEPT ![s] = "over"]
  /\ left' = IF call[s] = "model" THEN left \cup {s} ELSE left
  /\ call' = [call EXCEPT ![s] = "none"]
  /\ awaited' = [awaited EXCEPT ![s] = {}]
  /\ Stops(s)
  /\ UNCHANGED <<above, running, counted>>

\* runChild() disposes the child's session, and its place is given back.
Disposed(k) ==
  /\ phase[k] = "over"
  /\ phase' = [phase EXCEPT ![k] = "gone"]
  /\ Uncount(k)
  /\ UNCHANGED <<above, call, left, stopped, awaited>>

-----------------------------------------------------------------------------
Next ==
  \/ \E s \in Sessions :
       \/ Spawn(s) \/ SpawnRefused(s) \/ Start(s) \/ StartNotRecorded(s) \/ WaitReturns(s)
       \/ TurnsEnd(s) \/ StoppedTurnsEnd(s) \/ JobsStopped(s) \/ SentBack(s) \/ RunEnds(s) \/ Fails(s)
  \/ \E k \in Kids : Discarded(k) \/ Limited(k) \/ Disposed(k)
  \/ Stop

Spec == Init /\ [][Next]_vars

\* A child's time is limited by a timer; a stop ends turns, and a settlement
\* ends, within limits of their own.  Nothing else is promised to happen.
FairSpec ==
  /\ Spec
  /\ \A s \in Sessions : WF_vars(StoppedTurnsEnd(s)) /\ WF_vars(JobsStopped(s)) /\ WF_vars(RunEnds(s) /\ s \in stopped)
                          /\ WF_vars(WaitReturns(s))
  /\ \A k \in Kids : WF_vars(Limited(k)) /\ WF_vars(Discarded(k)) /\ WF_vars(Disposed(k))

-----------------------------------------------------------------------------
(* Properties. *)

TypeOK ==
  /\ phase \in [Sessions -> Phase]
  /\ above \in [Sessions -> SUBSET Sessions]
  /\ call \in [Sessions -> {"none", "model"} \cup Kids]
  /\ left \subseteq Sessions /\ stopped \subseteq Sessions
  /\ awaited \in [Sessions -> SUBSET Kids]
  /\ running \in Nat /\ counted \subseteq Kids

\* The tree's count is the children not yet let go of, whatever fails on the
\* way: no place is lost, so no later call is refused for a child that is gone,
\* and none is given back twice.  (children.ts spawn: `uncount'.)
CountIsExact == running = Cardinality({k \in Kids : phase[k] \notin {"none", "gone"}})

\* A child not told to stop has a parent at work and not stopped either: a stop
\* of any session reaches all below it, those starting at that moment included,
\* and no run is over while a child of it works on.  (loop.ts jobHost.start,
\* stopJobs.)
WorkingChildHasAWorkingParent ==
  \A k \in Kids : phase[k] \in {"turns", "stopping", "settling"} /\ k \notin stopped
    => Parent(k) \notin stopped /\ phase[Parent(k)] = "turns"

\* The tree's count is the children that take a place, each taken and given
\* back once, and no child works below a session that does not.
TreeIsConsistent == CountIsExact /\ WorkingChildHasAWorkingParent

\* A run that did not fail settles with none of the children its turns started:
\* their ends are in its conversation.  (loop.ts start: "A run's jobs end with
\* it".)  A call left behind may yet start one, already told to stop.
SettlesAfterItsChildren ==
  [][\A s \in Sessions : phase[s] = "stopping" /\ phase'[s] = "settling"
       => \A k \in Jobs(s) : k \in stopped /\ k \notin awaited[s]]_vars

\* A call that waits for its child returns: the child's time is limited, and a
\* full tree refuses instead of making a session wait for a place.
WaitedCallsReturn == \A s \in Sessions : call[s] \in Kids ~> call[s] \notin Kids

\* Once the top session's run is over, every place is given back.
TreeDrains == phase[Top] = "over" ~> running = 0

\* What session.ts says of agentLimit: "How many subagents may run at once
\* across the session's tree".
WithinLimit == running <= Limit

\* A call that waits for its child returns, and a stopped tree drains.  (agent.ts
\* execute, children.ts.)
TreeEnds == WaitedCallsReturn /\ TreeDrains
=============================================================================
