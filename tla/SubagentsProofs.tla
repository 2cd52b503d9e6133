-------------------------- MODULE SubagentsProofs ---------------------------
(***************************************************************************)
(* Proofs about Subagents, for any finite set of children, limit and depth: *)
(* the tree's count is exact, a stop reaches all below it, and a run        *)
(* settles after its children.                                             *)
(***************************************************************************)
EXTENDS Subagents, FiniteSetTheorems, TLAPS

JobPhase == {"turns", "stopping", "settling", "over"}
ParentOf(k, s) == above[k] = above[s] \cup {s}

\* The places taken are the children's that are not let go of.
CountInv ==
  /\ counted = {k \in Kids : phase[k] \notin {"none", "gone"}}
  /\ running = Cardinality(counted)

\* The sessions above one are those above its parent, and its parent; a child
\* not started is in no one's way.
TreeInv ==
  /\ phase[Top] # "none" /\ above[Top] = {}
  /\ \A s \in Sessions : s \notin above[s]
  /\ \A s \in Sessions : \A t \in above[s] : above[t] \subseteq above[s] /\ phase[t] # "none"
  /\ \A k \in Kids : phase[k] = "none" => above[k] = {}
  /\ \A k \in Kids : phase[k] # "none" => \E s \in Sessions : ParentOf(k, s)

\* A call in its run waits for its model only in turns; one left behind is of
\* a stopped run.
CallInv ==
  /\ \A s \in Sessions : call[s] = "model" => phase[s] = "turns"
  /\ left \subseteq stopped

\* The inductive form of WorkingChildHasAWorkingParent: it holds of a child
\* whose run is over too, until it is let go of, which is what settlement
\* waits for.
StopInv ==
  \A k \in Kids, s \in Sessions :
    ParentOf(k, s) /\ phase[k] \in JobPhase /\ k \notin stopped => s \notin stopped /\ phase[s] = "turns"

Inv == TypeOK /\ CountInv /\ TreeInv /\ CallInv /\ StopInv

-----------------------------------------------------------------------------
(* The tree. *)

\* The tree is finite.
LEMMA FiniteSessions == IsFiniteSet(Sessions)
BY SubagentsAssumption, FS_AddElement, FS_Singleton, FS_Union DEF Sessions

\* Children and the top session are the sessions.
LEMMA KidsAreSessions == Kids \subseteq Sessions /\ Top \in Sessions
BY DEF Sessions

\* A child is one level below its parent.
LEMMA DepthOfChild ==
  ASSUME TypeOK, TreeInv, NEW k \in Kids, NEW s \in Sessions, ParentOf(k, s)
  PROVE  Depth(k) = Depth(s) + 1 /\ Depth(s) \in Nat
<1>1. IsFiniteSet(above[s])
  BY FiniteSessions, FS_Subset DEF TypeOK
<1>2. s \notin above[s]
  BY DEF TreeInv
<1> QED
  BY <1>1, <1>2, FS_AddElement, FS_CardinalityType DEF ParentOf, Depth

\* A session's children are those it is the parent of.
LEMMA ChildrenAre ==
  ASSUME TypeOK, TreeInv, NEW s \in Sessions
  PROVE  Children(s) = {k \in Kids : phase[k] # "none" /\ ParentOf(k, s)}
<1> USE KidsAreSessions
<1>1. ASSUME NEW k \in Kids, phase[k] # "none", ParentOf(k, s)
      PROVE  k \in Children(s)
  BY <1>1, DepthOfChild DEF Children, Below, ParentOf
<1>2. ASSUME NEW k \in Children(s)
      PROVE  k \in Kids /\ phase[k] # "none" /\ ParentOf(k, s)
  <2>1. k \in Kids /\ s \in above[k] /\ Depth(k) = Depth(s) + 1
    BY DEF Children, Below
  <2>2. phase[k] # "none"
    BY <2>1 DEF TreeInv
  <2>3. PICK p \in Sessions : ParentOf(k, p)
    BY <2>1, <2>2 DEF TreeInv
  <2>4. Depth(k) = Depth(p) + 1 /\ Depth(p) \in Nat
    BY <2>1, <2>3, DepthOfChild
  <2>5. CASE s = p
    BY <2>1, <2>2, <2>3, <2>5
  <2>6. CASE s # p
    <3>1. s \in above[p]
      BY <2>1, <2>3, <2>6 DEF ParentOf
    <3>2. above[s] \cup {s} \subseteq above[p] /\ s \notin above[s]
      BY <3>1 DEF TreeInv
    <3>3. IsFiniteSet(above[p]) /\ IsFiniteSet(above[s])
      BY FiniteSessions, FS_Subset DEF TypeOK
    <3>4. Cardinality(above[s] \cup {s}) = Depth(s) + 1 /\ Depth(s) \in Nat
      BY <3>2, <3>3, FS_AddElement, FS_CardinalityType DEF Depth
    <3>5. Cardinality(above[s] \cup {s}) <= Depth(p)
      BY <3>2, <3>3, FS_Subset DEF Depth
    <3> QED
      BY <2>1, <2>4, <3>4, <3>5
  <2> QED
    BY <2>5, <2>6
<1> QED
  BY <1>1, <1>2 DEF Children, Below

\* A child has one parent, the session it is the parent of.
LEMMA ParentIs ==
  ASSUME TypeOK, TreeInv, NEW k \in Kids, NEW s \in Sessions, ParentOf(k, s)
  PROVE  Parent(k) = s
<1> USE KidsAreSessions
<1>1. s \in above[k] /\ Depth(s) + 1 = Depth(k)
  BY DepthOfChild DEF ParentOf
<1>2. phase[k] # "none"
  BY <1>1 DEF TreeInv
<1>3. ASSUME NEW t \in above[k], Depth(t) + 1 = Depth(k)
      PROVE  t = s
  <2>1. t \in Sessions /\ k \in Children(t)
    BY <1>3 DEF TypeOK, Children, Below, Sessions
  <2>2. ParentOf(k, t)
    BY <2>1, ChildrenAre
  <2>3. CASE t # s
    <3>1. t \in above[s] /\ s \in above[t]
      BY <2>2, <2>3 DEF ParentOf
    <3> QED
      BY <2>1, <3>1 DEF TreeInv
  <2> QED
    BY <2>3
<1>4. Parent(k) = CHOOSE t \in above[k] : Depth(t) + 1 = Depth(k)
  BY DEF Parent
<1> QED
  BY <1>1, <1>3, <1>4

-----------------------------------------------------------------------------
(* The count. *)

\* A place taken adds one to the count.
LEMMA Takes ==
  ASSUME TypeOK, CountInv, NEW k \in Kids, NEW p \in {"turns", "discarding"}, phase[k] = "none",
         phase' = [phase EXCEPT ![k] = p], counted' = counted \cup {k}, running' = running + 1
  PROVE  CountInv'
<1>1. counted' = {j \in Kids : phase'[j] \notin {"none", "gone"}}
  BY KidsAreSessions DEF TypeOK, CountInv
<1>2. k \notin counted /\ IsFiniteSet(counted)
  BY SubagentsAssumption, FS_Subset DEF CountInv
<1>3. running' = Cardinality(counted')
  BY <1>2, FS_AddElement DEF CountInv
<1> QED
  BY <1>1, <1>3 DEF CountInv

\* A place given back takes one off, and there is one to take.
LEMMA Frees ==
  ASSUME TypeOK, CountInv, NEW k \in Kids, phase[k] \in {"discarding", "over"},
         phase' = [phase EXCEPT ![k] = "gone"], Uncount(k)
  PROVE  CountInv'
<1>1. k \in counted
  BY DEF CountInv
<1>2. counted' = {j \in Kids : phase'[j] \notin {"none", "gone"}}
  BY KidsAreSessions DEF TypeOK, CountInv, Uncount
<1>3. IsFiniteSet(counted)
  BY SubagentsAssumption, FS_Subset DEF CountInv
<1>4. running' = Cardinality(counted')
  BY <1>1, <1>3, FS_RemoveElement DEF CountInv, Uncount
<1> QED
  BY <1>2, <1>4 DEF CountInv

\* The count stays while no child takes or leaves its place.
LEMMA Stays ==
  ASSUME CountInv, UNCHANGED <<running, counted>>,
         \A k \in Kids : phase'[k] \in {"none", "gone"} <=> phase[k] \in {"none", "gone"}
  PROVE  CountInv'
BY DEF CountInv

\* Every step keeps the count exact.
LEMMA CountStep ==
  ASSUME TypeOK, CountInv, [Next]_vars
  PROVE  CountInv'
<1> USE KidsAreSessions
<1>1. ASSUME NEW s \in Sessions, Spawn(s) \/ SpawnRefused(s)
      PROVE  CountInv'
  BY <1>1, Stays DEF Spawn, SpawnRefused
<1>2. ASSUME NEW s \in Sessions, Start(s)
      PROVE  CountInv'
  BY <1>2, Takes DEF Start
<1>3. ASSUME NEW s \in Sessions, StartNotRecorded(s)
      PROVE  CountInv'
  BY <1>3, Takes DEF StartNotRecorded
<1>4. ASSUME NEW s \in Sessions, WaitReturns(s)
      PROVE  CountInv'
  <2>1. UNCHANGED <<running, counted, phase>>
    BY <1>4 DEF WaitReturns, Uncount, CountInv
  <2> QED
    BY <2>1, Stays
<1>5. ASSUME NEW s \in Sessions, TurnsEnd(s) \/ StoppedTurnsEnd(s)
      PROVE  CountInv'
  BY <1>5, Stays DEF TurnsEnd, StoppedTurnsEnd, StopJobs, TypeOK
<1>6. ASSUME NEW s \in Sessions, JobsStopped(s) \/ SentBack(s) \/ RunEnds(s)
      PROVE  CountInv'
  BY <1>6, Stays DEF JobsStopped, SentBack, RunEnds, TypeOK
<1>7. ASSUME NEW s \in Sessions, Fails(s)
      PROVE  CountInv'
  BY <1>7, Stays DEF Fails, RunOpen, TypeOK
<1>8. ASSUME NEW k \in Kids, Discarded(k) \/ Disposed(k)
      PROVE  CountInv'
  BY <1>8, Frees DEF Discarded, Disposed
<1>9. ASSUME NEW k \in Kids, Limited(k)
      PROVE  CountInv'
  BY <1>9, Stays DEF Limited
<1>10. CASE Stop
  BY <1>10, Stays DEF Stop
<1>11. CASE UNCHANGED vars
  BY <1>11, Stays DEF vars
<1> QED
  BY <1>1, <1>2, <1>3, <1>4, <1>5, <1>6, <1>7, <1>8, <1>9, <1>10, <1>11 DEF Next

-----------------------------------------------------------------------------
(* The types, and whom a call is of. *)

\* Every step keeps the types.
LEMMA TypeStep ==
  ASSUME TypeOK, CountInv, [Next]_vars
  PROVE  TypeOK'
<1> USE KidsAreSessions DEF Phase
<1>0. running' \in Nat /\ counted' \subseteq Kids
  <2>1. CountInv'
    BY CountStep
  <2>2. counted' \subseteq Kids /\ IsFiniteSet(counted')
    BY <2>1, SubagentsAssumption, FS_Subset DEF CountInv
  <2> QED
    BY <2>1, <2>2, FS_CardinalityType DEF CountInv
<1>1. ASSUME NEW s \in Sessions, Spawn(s) \/ SpawnRefused(s)
      PROVE  TypeOK'
  BY <1>0, <1>1 DEF TypeOK, Spawn, SpawnRefused, Answers
<1>2. ASSUME NEW s \in Sessions, Start(s) \/ StartNotRecorded(s)
      PROVE  TypeOK'
  BY <1>0, <1>2 DEF TypeOK, Start, StartNotRecorded, Answers
<1>3. ASSUME NEW s \in Sessions, WaitReturns(s)
      PROVE  TypeOK'
  BY <1>0, <1>3 DEF TypeOK, WaitReturns
<1>4. ASSUME NEW s \in Sessions, TurnsEnd(s) \/ StoppedTurnsEnd(s)
      PROVE  TypeOK'
  BY <1>0, <1>4 DEF TypeOK, TurnsEnd, StoppedTurnsEnd, StopJobs, Jobs, Children, Below
<1>5. ASSUME NEW s \in Sessions, JobsStopped(s) \/ SentBack(s) \/ RunEnds(s)
      PROVE  TypeOK'
  BY <1>0, <1>5 DEF TypeOK, JobsStopped, SentBack, RunEnds
<1>6. ASSUME NEW s \in Sessions, Fails(s)
      PROVE  TypeOK'
  BY <1>0, <1>6 DEF TypeOK, Fails, Stops, Below
<1>7. ASSUME NEW k \in Kids, Discarded(k) \/ Disposed(k)
      PROVE  TypeOK'
  BY <1>0, <1>7 DEF TypeOK, Discarded, Disposed
<1>8. ASSUME NEW k \in Kids, Limited(k)
      PROVE  TypeOK'
  BY <1>0, <1>8 DEF TypeOK, Limited, Stops, Below
<1>9. CASE Stop
  BY <1>0, <1>9 DEF TypeOK, Stop, Stops, Below
<1>10. CASE UNCHANGED vars
  BY <1>10 DEF TypeOK, vars
<1> QED
  BY <1>1, <1>2, <1>3, <1>4, <1>5, <1>6, <1>7, <1>8, <1>9, <1>10 DEF Next, TypeOK

\* Every step keeps what is known of calls.
LEMMA CallStep ==
  ASSUME TypeOK, CallInv, [Next]_vars
  PROVE  CallInv'
<1> USE KidsAreSessions DEF TypeOK, CallInv
<1>1. ASSUME NEW s \in Sessions, Spawn(s) \/ SpawnRefused(s)
      PROVE  CallInv'
  BY <1>1 DEF Spawn, SpawnRefused, Answers
<1>2. ASSUME NEW s \in Sessions, Start(s) \/ StartNotRecorded(s)
      PROVE  CallInv'
  BY <1>2 DEF Start, StartNotRecorded, Answers
<1>3. ASSUME NEW s \in Sessions, WaitReturns(s)
      PROVE  CallInv'
  BY <1>3 DEF WaitReturns
<1>4. ASSUME NEW s \in Sessions, TurnsEnd(s) \/ StoppedTurnsEnd(s)
      PROVE  CallInv'
  BY <1>4 DEF TurnsEnd, StoppedTurnsEnd, StopJobs
<1>5. ASSUME NEW s \in Sessions, JobsStopped(s) \/ SentBack(s) \/ RunEnds(s)
      PROVE  CallInv'
  BY <1>5 DEF JobsStopped, SentBack, RunEnds
<1>6. ASSUME NEW s \in Sessions, Fails(s)
      PROVE  CallInv'
  BY <1>6 DEF Fails, Stops
<1>7. ASSUME NEW k \in Kids, Discarded(k) \/ Disposed(k)
      PROVE  CallInv'
  BY <1>7 DEF Discarded, Disposed
<1>8. ASSUME NEW k \in Kids, Limited(k)
      PROVE  CallInv'
  BY <1>8 DEF Limited, Stops
<1>9. CASE Stop
  BY <1>9 DEF Stop, Stops
<1>10. CASE UNCHANGED vars
  BY <1>10 DEF vars
<1> QED
  BY <1>1, <1>2, <1>3, <1>4, <1>5, <1>6, <1>7, <1>8, <1>9, <1>10 DEF Next

-----------------------------------------------------------------------------
(* The tree only grows. *)

\* A step that starts no child leaves the tree as it is.
LEMMA TreeKept ==
  ASSUME TypeOK, TreeInv, above' = above,
         \A s \in Sessions : phase'[s] = "none" <=> phase[s] = "none"
  PROVE  TreeInv'
BY KidsAreSessions DEF TypeOK, TreeInv, ParentOf

\* A child is added below the session that starts it.
LEMMA TreeGrows ==
  ASSUME TypeOK, TreeInv, NEW s \in Sessions, NEW k \in Kids, NEW p \in {"turns", "discarding"},
         phase[s] # "none", phase[k] = "none",
         phase' = [phase EXCEPT ![k] = p], above' = [above EXCEPT ![k] = above[s] \cup {s}]
  PROVE  TreeInv'
<1> USE KidsAreSessions
<1>1. k # s /\ k # Top /\ k \notin above[s]
  BY DEF TreeInv
<1>2. \A t \in Sessions : k \notin above[t]
  BY DEF TreeInv
<1>3. /\ phase'[k] # "none" /\ above'[k] = above[s] \cup {s}
      /\ \A t \in Sessions : t # k => phase'[t] = phase[t] /\ above'[t] = above[t]
      /\ above[s] \subseteq Sessions
  BY DEF TypeOK
<1>4. phase'[Top] # "none" /\ above'[Top] = {}
  BY <1>1, <1>3 DEF TreeInv
<1>5. \A t \in Sessions : t \notin above'[t]
  BY <1>1, <1>3 DEF TreeInv
<1>6. ASSUME NEW t \in Sessions, NEW u \in above'[t]
      PROVE  above'[u] \subseteq above'[t] /\ phase'[u] # "none"
  <2>1. CASE t = k
    <3>1. u \in above[s] \/ u = s
      BY <1>3, <1>6, <2>1
    <3>2. u \in Sessions /\ u # k
      BY <1>1, <1>3, <3>1
    <3>3. above[u] \subseteq above[s] /\ phase[u] # "none"
      BY <3>1 DEF TreeInv
    <3> QED
      BY <1>3, <2>1, <3>2, <3>3
  <2>2. CASE t # k
    <3>1. u \in above[t] /\ above'[t] = above[t]
      BY <1>3, <1>6, <2>2
    <3>2. u \in Sessions /\ u # k
      BY <1>2, <3>1 DEF TypeOK
    <3> QED
      BY <1>3, <3>1, <3>2 DEF TreeInv
  <2> QED
    BY <2>1, <2>2
<1>7. \A j \in Kids : phase'[j] = "none" => above'[j] = {}
  BY <1>3 DEF TreeInv
<1>8. ASSUME NEW j \in Kids, phase'[j] # "none"
      PROVE  \E t \in Sessions : above'[j] = above'[t] \cup {t}
  <2>1. CASE j = k
    BY <1>1, <1>3, <2>1
  <2>2. CASE j # k
    <3>1. PICK t \in Sessions : above[j] = above[t] \cup {t}
      BY <1>3, <1>8, <2>2 DEF TreeInv, ParentOf
    <3>2. t # k
      BY <1>2, <3>1
    <3> QED
      BY <1>3, <2>2, <3>1, <3>2
  <2> QED
    BY <2>1, <2>2
<1> QED
  BY <1>4, <1>5, <1>6, <1>7, <1>8 DEF TreeInv, ParentOf

\* Every step keeps the tree.
LEMMA TreeStep ==
  ASSUME TypeOK, TreeInv, [Next]_vars
  PROVE  TreeInv'
<1> USE KidsAreSessions DEF TypeOK
<1>1. ASSUME NEW s \in Sessions, Spawn(s) \/ SpawnRefused(s) \/ WaitReturns(s)
      PROVE  TreeInv'
  BY <1>1, TreeKept DEF Spawn, SpawnRefused, WaitReturns
<1>2. ASSUME NEW s \in Sessions, Start(s)
      PROVE  TreeInv'
  BY <1>2, TreeGrows DEF Start, RunOpen
<1>3. ASSUME NEW s \in Sessions, StartNotRecorded(s)
      PROVE  TreeInv'
  BY <1>3, TreeGrows DEF StartNotRecorded, RunOpen
<1>4. ASSUME NEW s \in Sessions, TurnsEnd(s) \/ StoppedTurnsEnd(s)
      PROVE  TreeInv'
  BY <1>4, TreeKept DEF TurnsEnd, StoppedTurnsEnd, StopJobs
<1>5. ASSUME NEW s \in Sessions, JobsStopped(s) \/ SentBack(s) \/ RunEnds(s)
      PROVE  TreeInv'
  BY <1>5, TreeKept DEF JobsStopped, SentBack, RunEnds
<1>6. ASSUME NEW s \in Sessions, Fails(s)
      PROVE  TreeInv'
  BY <1>6, TreeKept DEF Fails, RunOpen
<1>7. ASSUME NEW k \in Kids, Discarded(k) \/ Disposed(k)
      PROVE  TreeInv'
  BY <1>7, TreeKept DEF Discarded, Disposed
<1>8. ASSUME NEW k \in Kids, Limited(k)
      PROVE  TreeInv'
  BY <1>8, TreeKept DEF Limited
<1>9. CASE Stop
  BY <1>9, TreeKept DEF Stop
<1>10. CASE UNCHANGED vars
  BY <1>10, TreeKept DEF vars
<1> QED
  BY <1>1, <1>2, <1>3, <1>4, <1>5, <1>6, <1>7, <1>8, <1>9, <1>10 DEF Next

-----------------------------------------------------------------------------
(* A stop reaches all below it. *)

\* A step that stops no one, ends no turns and starts no job.
LEMMA StopKept ==
  ASSUME StopInv, above' = above, stopped' = stopped,
         \A k \in Kids : phase'[k] \in JobPhase => phase[k] \in JobPhase,
         \A s \in Sessions : phase[s] = "turns" => phase'[s] = "turns"
  PROVE  StopInv'
BY DEF StopInv, ParentOf

\* A stop of s, whatever s does then: what is below one below s is below s.
LEMMA StopsReach ==
  ASSUME TypeOK, TreeInv, StopInv, NEW s \in Sessions, Stops(s), above' = above,
         \A k \in Kids : phase'[k] \in JobPhase => phase[k] \in JobPhase,
         \A t \in Sessions \ {s} : phase[t] = "turns" => phase'[t] = "turns"
  PROVE  StopInv'
<1> USE KidsAreSessions
<1> SUFFICES ASSUME NEW k \in Kids, NEW p \in Sessions, ParentOf(k, p),
                    phase'[k] \in JobPhase, k \notin stopped'
             PROVE  p \notin stopped' /\ phase'[p] = "turns"
  BY DEF StopInv, ParentOf
<1>1. phase[k] \in JobPhase /\ k \notin stopped
  BY DEF Stops
<1>2. p \notin stopped /\ phase[p] = "turns"
  BY <1>1 DEF StopInv
<1>3. s \notin above[k]
  BY <1>1 DEF Stops, Below, JobPhase
<1>4. p # s /\ s \notin above[p]
  BY <1>3 DEF ParentOf
<1> QED
  BY <1>2, <1>4 DEF Stops, Below

\* The end of s's turns: its jobs and all below them are stopped.
LEMMA StopJobsReach ==
  ASSUME TypeOK, TreeInv, StopInv, NEW s \in Sessions, StopJobs(s), above' = above, phase[s] = "turns"
  PROVE  StopInv'
<1> USE KidsAreSessions
<1>0. Jobs(s) = {k \in Kids : ParentOf(k, s) /\ phase[k] \in JobPhase}
  BY ChildrenAre DEF Jobs, JobPhase
<1> SUFFICES ASSUME NEW k \in Kids, NEW p \in Sessions, ParentOf(k, p),
                    phase'[k] \in JobPhase, k \notin stopped'
             PROVE  p \notin stopped' /\ phase'[p] = "turns"
  BY DEF StopInv, ParentOf
<1>1. phase[k] \in JobPhase /\ k \notin stopped
  BY DEF StopJobs, TypeOK, JobPhase
<1>2. p \notin stopped /\ phase[p] = "turns"
  BY <1>1 DEF StopInv
<1>3. k \notin Jobs(s) /\ \A j \in Jobs(s) : j \notin above[k]
  BY DEF StopJobs, Below
<1>4. p # s
  BY <1>0, <1>1, <1>3
<1>5. \A j \in Jobs(s) : p # j /\ j \notin above[p]
  BY <1>3 DEF ParentOf
<1>6. p \notin stopped'
  BY <1>2, <1>5 DEF StopJobs, Below
<1> QED
  BY <1>2, <1>4, <1>6 DEF StopJobs, TypeOK

\* A child that starts is told of a stop already given.
LEMMA StartTold ==
  ASSUME TypeOK, TreeInv, CallInv, StopInv, NEW s \in Sessions, Start(s)
  PROVE  StopInv'
<1> USE KidsAreSessions
<1>1. PICK j \in Kids : /\ phase[j] = "none"
                        /\ phase' = [phase EXCEPT ![j] = "turns"]
                        /\ above' = [above EXCEPT ![j] = above[s] \cup {s}]
                        /\ stopped' = IF s \in stopped THEN stopped \cup {j} ELSE stopped
  BY DEF Start
<1>2. s \in stopped \/ phase[s] = "turns"
  BY DEF Start, Asked, CallInv
<1>3. s # j /\ \A t \in Sessions : j \notin above[t]
  BY <1>1 DEF TreeInv, Start, RunOpen
<1> SUFFICES ASSUME NEW k \in Kids, NEW p \in Sessions, above'[k] = above'[p] \cup {p},
                    phase'[k] \in JobPhase, k \notin stopped'
             PROVE  p \notin stopped' /\ phase'[p] = "turns"
  BY DEF StopInv, ParentOf
<1>4. CASE k = j
  <2>1. above'[k] = above[s] \cup {s} /\ s \notin stopped
    BY <1>1, <1>4 DEF TypeOK
  <2>2. p = s
    <3>1. p # j
      BY <1>3, <2>1
    <3>2. above'[p] = above[p] /\ above'[s] = above[s]
      BY <1>1, <1>3, <3>1 DEF TypeOK
    <3>3. CASE p # s
      <4>1. p \in above[s] /\ s \in above[p]
        BY <2>1, <3>2, <3>3
      <4> QED
        BY <4>1 DEF TreeInv
    <3> QED
      BY <3>3
  <2> QED
    BY <1>1, <1>2, <1>3, <2>1, <2>2 DEF TypeOK
<1>5. CASE k # j
  <2>1. above'[k] = above[k] /\ phase'[k] = phase[k] /\ k \notin stopped
    BY <1>1, <1>5 DEF TypeOK
  <2>2. p # j
    BY <1>3, <2>1
  <2>3. above'[p] = above[p] /\ phase'[p] = phase[p]
    BY <1>1, <2>2 DEF TypeOK
  <2>4. p \notin stopped /\ phase[p] = "turns"
    BY <2>1, <2>3 DEF StopInv, ParentOf
  <2> QED
    BY <1>1, <2>2, <2>3, <2>4
<1> QED
  BY <1>4, <1>5

\* A child that is to be discarded is no job.
LEMMA DiscardedIsNoJob ==
  ASSUME TypeOK, TreeInv, StopInv, NEW s \in Sessions, StartNotRecorded(s)
  PROVE  StopInv'
<1> USE KidsAreSessions
<1>1. PICK j \in Kids : /\ phase[j] = "none"
                        /\ phase' = [phase EXCEPT ![j] = "discarding"]
                        /\ above' = [above EXCEPT ![j] = above[s] \cup {s}]
  BY DEF StartNotRecorded
<1>2. \A t \in Sessions : j \notin above[t]
  BY <1>1 DEF TreeInv
<1> SUFFICES ASSUME NEW k \in Kids, NEW p \in Sessions, above'[k] = above'[p] \cup {p},
                    phase'[k] \in JobPhase, k \notin stopped'
             PROVE  p \notin stopped' /\ phase'[p] = "turns"
  BY DEF StopInv, ParentOf
<1>3. k # j /\ above'[k] = above[k] /\ phase'[k] = phase[k] /\ stopped' = stopped
  BY <1>1 DEF TypeOK, JobPhase, StartNotRecorded
<1>4. p # j
  BY <1>2, <1>3
<1>5. above'[p] = above[p] /\ phase'[p] = phase[p]
  BY <1>1, <1>4 DEF TypeOK
<1> QED
  BY <1>3, <1>5 DEF StopInv, ParentOf

\* Every step keeps the working below the working.
LEMMA StopStep ==
  ASSUME TypeOK, TreeInv, CallInv, StopInv, [Next]_vars
  PROVE  StopInv'
<1> USE KidsAreSessions DEF TypeOK
<1>1. ASSUME NEW s \in Sessions, Spawn(s) \/ SpawnRefused(s) \/ WaitReturns(s)
      PROVE  StopInv'
  BY <1>1, StopKept DEF Spawn, SpawnRefused, WaitReturns
<1>2. ASSUME NEW s \in Sessions, Start(s)
      PROVE  StopInv'
  BY <1>2, StartTold
<1>3. ASSUME NEW s \in Sessions, StartNotRecorded(s)
      PROVE  StopInv'
  BY <1>3, DiscardedIsNoJob
<1>4. ASSUME NEW s \in Sessions, TurnsEnd(s) \/ StoppedTurnsEnd(s)
      PROVE  StopInv'
  BY <1>4, StopJobsReach DEF TurnsEnd, StoppedTurnsEnd
<1>5. ASSUME NEW s \in Sessions, JobsStopped(s) \/ SentBack(s) \/ RunEnds(s)
      PROVE  StopInv'
  BY <1>5, StopKept DEF JobsStopped, SentBack, RunEnds, JobPhase
<1>6. ASSUME NEW s \in Sessions, Fails(s)
      PROVE  StopInv'
  BY <1>6, StopsReach DEF Fails, RunOpen, JobPhase
<1>7. ASSUME NEW k \in Kids, Discarded(k) \/ Disposed(k)
      PROVE  StopInv'
  BY <1>7, StopKept DEF Discarded, Disposed, JobPhase
<1>8. ASSUME NEW k \in Kids, Limited(k)
      PROVE  StopInv'
  BY <1>8, StopsReach DEF Limited
<1>9. CASE Stop
  BY <1>9, StopsReach DEF Stop
<1>10. CASE UNCHANGED vars
  BY <1>10, StopKept DEF vars
<1> QED
  BY <1>1, <1>2, <1>3, <1>4, <1>5, <1>6, <1>7, <1>8, <1>9, <1>10 DEF Next

-----------------------------------------------------------------------------
(* The theorems. *)

\* At first only the top session is there.
LEMMA InitInv == Init => Inv
<1> SUFFICES ASSUME Init PROVE Inv
  OBVIOUS
<1>1. TypeOK
  BY KidsAreSessions DEF Init, TypeOK, Phase
<1>2. counted = {k \in Kids : phase[k] \notin {"none", "gone"}} /\ counted = {}
  BY KidsAreSessions, SubagentsAssumption DEF Init
<1>3. CountInv
  BY <1>2, FS_EmptySet DEF Init, CountInv
<1>4. TreeInv
  BY KidsAreSessions, SubagentsAssumption DEF Init, TreeInv
<1>5. CallInv /\ StopInv
  BY KidsAreSessions, SubagentsAssumption DEF Init, CallInv, StopInv, JobPhase
<1> QED
  BY <1>1, <1>3, <1>4, <1>5 DEF Inv

\* Every step keeps the invariant.
LEMMA StepInv == Inv /\ [Next]_vars => Inv'
BY CountStep, TypeStep, CallStep, TreeStep, StopStep DEF Inv

\* The invariant holds always.
LEMMA AlwaysInv == Spec => []Inv
BY InitInv, StepInv, PTL DEF Spec

\* Every reachable state of the tree is well typed (children.ts, all of the tree's state).
THEOREM SubagentsTypeCorrect == Spec => []TypeOK
<1>1. Inv => TypeOK
  BY DEF Inv
<1> QED
  BY <1>1, AlwaysInv, PTL

\* The count is exact, and a child that works on has a parent that does and is not stopped
\* (children.ts spawn and `uncount'; loop.ts jobHost.start, stopJobs).
THEOREM TreeStaysConsistent == Spec => []TreeIsConsistent
<1>1. ASSUME Inv PROVE CountIsExact
  BY <1>1 DEF Inv, CountInv, CountIsExact
<1>2. ASSUME Inv PROVE WorkingChildHasAWorkingParent
  <2> SUFFICES ASSUME NEW k \in Kids, phase[k] \in {"turns", "stopping", "settling"}, k \notin stopped
               PROVE  Parent(k) \notin stopped /\ phase[Parent(k)] = "turns"
    BY DEF WorkingChildHasAWorkingParent
  <2>1. PICK s \in Sessions : ParentOf(k, s)
    BY <1>2 DEF Inv, TreeInv
  <2>2. Parent(k) = s
    BY <1>2, <2>1, ParentIs DEF Inv
  <2> QED
    BY <1>2, <2>1, <2>2 DEF Inv, StopInv, JobPhase
<1>3. Inv => TreeIsConsistent
  BY <1>1, <1>2 DEF TreeIsConsistent
<1> QED
  BY <1>3, AlwaysInv, PTL

\* A run settles with none of the children its turns started (loop.ts start, stopJobs).
THEOREM RunsSettleAfterTheirChildren == Spec => SettlesAfterItsChildren
<1>1. ASSUME Inv, [Next]_vars, NEW s \in Sessions, phase[s] = "stopping", phase'[s] = "settling", NEW k \in Jobs(s)
      PROVE  k \in stopped /\ k \notin awaited[s]
  <2>1. k \in Kids /\ ParentOf(k, s) /\ phase[k] \in JobPhase
    BY <1>1, ChildrenAre DEF Inv, Jobs, JobPhase
  <2>2. k \in stopped
    BY <1>1, <2>1 DEF Inv, StopInv
  <2>3. JobsStopped(s)
    BY <1>1, KidsAreSessions DEF Inv, TypeOK, Next, Spawn, SpawnRefused, Start, StartNotRecorded, WaitReturns, TurnsEnd,
       StoppedTurnsEnd, StopJobs, JobsStopped, SentBack, RunEnds, Fails, RunOpen, Discarded, Disposed, Limited, Stop, vars
  <2>4. k \notin awaited[s]
    BY <2>1, <2>3 DEF JobsStopped, JobPhase
  <2> QED
    BY <2>2, <2>4
<1>2. Inv /\ [Next]_vars =>
        [\A s \in Sessions : phase[s] = "stopping" /\ phase'[s] = "settling"
           => \A k \in Jobs(s) : k \in stopped /\ k \notin awaited[s]]_vars
  BY <1>1
<1> QED
  BY <1>2, AlwaysInv, PTL DEF Spec, SettlesAfterItsChildren
=============================================================================
