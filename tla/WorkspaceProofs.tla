---------------------------- MODULE WorkspaceProofs ----------------------------
(***************************************************************************)
(* Proofs about Workspace, for any processes and sessions and any number   *)
(* of openings, changes and crashes: no two sessions work in one folder,   *)
(* closing removes no work, and what it keeps is told.                     *)
(***************************************************************************)
EXTENDS Workspace, TLAPS

\* The mark of no process is neither a process nor a session.
Apart == Nobody \notin Processes /\ Nobody \notin Sessions

Places == {"idle", "binding", "adding", "leasing", "recording", "reopening", "working", "unleasing"} \cup Closing
Holding == {"recording", "working", "unleasing"}
Trees == [there : BOOLEAN, dirty : BOOLEAN, away : BOOLEAN]

Typed ==
  /\ pc \in [Processes -> Places] /\ of \in [Processes -> Sessions \cup {Nobody}]
  /\ writer \in [Sessions -> Processes \cup {Nobody}] /\ record \in [Sessions -> {"none", "checkout", "worktree"}]
  /\ checkout \in Processes \cup {Nobody} /\ lease \in [Sessions -> Processes \cup {Nobody}]
  /\ tree \in [Sessions -> Trees] /\ branch \in [Sessions -> {"none", "base", "ahead"}]
  /\ crashes \in Nat /\ \A p \in Processes : (pc[p] = "idle") = (of[p] = Nobody)

\* A session whose header is not written yet has one process, which holds its file; two
\* processes come to one session only where the second resumed it.
SessionInv ==
  /\ \A p \in Processes, s \in Sessions : of[p] = s /\ record[s] = "none" => writer[s] = p
  /\ \A p, q \in Processes : p # q /\ of[p] = of[q] /\ of[p] # Nobody => of[p] \in raced

\* What the header says at each place of a process.
RecordInv ==
  \A p \in Processes :
    /\ pc[p] \in {"binding", "adding", "recording"} => record[of[p]] = "none"
    /\ pc[p] \in {"working", "reopening"} => record[of[p]] # "none"
    /\ checkout = p => record[of[p]] # "worktree"

\* A process that works, or is about to or just did, holds one lease: the checkout's or its
\* worktree's.
LeaseInv ==
  \A p \in Processes :
    /\ pc[p] \in Holding /\ checkout # p => lease[of[p]] = p
    /\ checkout = p => \A s \in Sessions : lease[s] # p

\* The worktree of a process on its way to work is there.
FolderInv ==
  \A p \in Processes : pc[p] \in {"leasing", "recording", "working"} /\ checkout # p =>
    tree[of[p]].there \/ of[p] \in removed \cup raced

\* What a closing process found unchanged still is, unless work came since.
ClosingInv ==
  \A p \in Processes :
    /\ pc[p] \in {"removing", "deleting"} => of[p] \in late \/ (~tree[of[p]].away /\ branch[of[p]] # "ahead")
    /\ pc[p] = "deleting" => ~tree[of[p]].there \/ of[p] \in raced

IInv == Typed /\ SessionInv /\ RecordInv /\ LeaseInv /\ LeasesAreHeld /\ FolderInv /\ ClosingInv /\ WorkIsKept /\ KeptWorkIsTold

-----------------------------------------------------------------------------
(* Every step keeps the invariant. *)

LEMMA TreesAre == NoTree \in Trees /\ Fresh \in Trees
BY DEF NoTree, Fresh, Trees

LEMMA Changed ==
  ASSUME NEW t \in Trees
  PROVE  [t EXCEPT !.dirty = ~@] \in Trees /\ [t EXCEPT !.dirty = FALSE] \in Trees /\ [t EXCEPT !.away = ~@] \in Trees
BY DEF Trees

LEMMA Begins == ASSUME Apart, Init PROVE IInv
<1>1. Typed
  BY DEF Apart, Init, Typed, Places, Trees, NoTree
<1> QED
  BY <1>1 DEF Apart, Init, IInv, SessionInv, RecordInv, LeaseInv, LeasesAreHeld, FolderInv, ClosingInv, WorkIsKept, KeptWorkIsTold, Holding, NoTree

\* A new session has no process yet: one at it whose header is not written would hold its file.
LEMMA CreatesStep == ASSUME Apart, IInv, NEW p \in Processes, NEW s \in Sessions, Creates(p, s) PROVE IInv'
<1> USE DEF Apart, IInv, Creates, Goes, Git, History
<1>1. Typed'
  <2>1. pc' \in [Processes -> Places] /\ of' \in [Processes -> Sessions \cup {Nobody}]
    BY DEF Typed, Places, Closing
  <2>2. writer' \in [Sessions -> Processes \cup {Nobody}] /\ record' \in [Sessions -> {"none", "checkout", "worktree"}]
    BY DEF Typed
  <2>3. checkout' \in Processes \cup {Nobody} /\ lease' \in [Sessions -> Processes \cup {Nobody}] /\ crashes' \in Nat
    BY DEF Typed
  <2>4. tree' \in [Sessions -> Trees] /\ branch' \in [Sessions -> {"none", "base", "ahead"}]
    BY DEF Typed, Trees
  <2>5. \A q \in Processes : (pc'[q] = "idle") = (of'[q] = Nobody)
    BY DEF Typed, Places, Closing
  <2> QED
    BY <2>1, <2>2, <2>3, <2>4, <2>5 DEF Typed
<1>2. SessionInv'
  BY DEF Typed, SessionInv, RecordInv
<1>3. RecordInv'
  BY DEF Typed, SessionInv, RecordInv, LeasesAreHeld, Holding
<1>4. LeaseInv'
  BY DEF Typed, LeaseInv, LeasesAreHeld, Holding
<1>5. LeasesAreHeld'
  BY DEF Typed, LeaseInv, LeasesAreHeld, Holding
<1>6. FolderInv'
  BY DEF Typed, FolderInv, SessionInv, Holding, Trees
<1>7. ClosingInv'
  BY DEF Typed, ClosingInv, SessionInv, RecordInv, Trees
<1>8. WorkIsKept'
  BY DEF Typed, WorkIsKept, ClosingInv, Trees
<1>9. KeptWorkIsTold'
  BY DEF Typed, KeptWorkIsTold, SessionInv, RecordInv, LeaseInv, LeasesAreHeld, ClosingInv, Holding, Trees
<1> QED
  BY <1>1, <1>2, <1>3, <1>4, <1>5, <1>6, <1>7, <1>8, <1>9 DEF IInv

\* Whoever is at a session already makes its resumption a race.
LEMMA OpensStep == ASSUME Apart, IInv, NEW p \in Processes, NEW s \in Sessions, Opens(p, s) PROVE IInv'
<1> USE DEF Apart, IInv, Opens, Goes, Git, History
<1>1. Typed'
  <2>1. pc' \in [Processes -> Places] /\ of' \in [Processes -> Sessions \cup {Nobody}]
    BY DEF Typed, Places, Closing
  <2>2. writer' \in [Sessions -> Processes \cup {Nobody}] /\ record' \in [Sessions -> {"none", "checkout", "worktree"}]
    BY DEF Typed
  <2>3. checkout' \in Processes \cup {Nobody} /\ lease' \in [Sessions -> Processes \cup {Nobody}] /\ crashes' \in Nat
    BY DEF Typed
  <2>4. tree' \in [Sessions -> Trees] /\ branch' \in [Sessions -> {"none", "base", "ahead"}]
    BY DEF Typed, Trees
  <2>5. \A q \in Processes : (pc'[q] = "idle") = (of'[q] = Nobody)
    BY DEF Typed, Places, Closing
  <2> QED
    BY <2>1, <2>2, <2>3, <2>4, <2>5 DEF Typed
<1>2. SessionInv'
  BY DEF Typed, SessionInv, RecordInv
<1>3. RecordInv'
  BY DEF Typed, SessionInv, RecordInv, LeasesAreHeld, Holding
<1>4. LeaseInv'
  BY DEF Typed, LeaseInv, LeasesAreHeld, Holding
<1>5. LeasesAreHeld'
  BY DEF Typed, LeaseInv, LeasesAreHeld, Holding
<1>6. FolderInv'
  BY DEF Typed, FolderInv, SessionInv, Holding, Trees
<1>7. ClosingInv'
  BY DEF Typed, ClosingInv, SessionInv, RecordInv, Trees
<1>8. WorkIsKept'
  BY DEF Typed, WorkIsKept, ClosingInv, Trees
<1>9. KeptWorkIsTold'
  BY DEF Typed, KeptWorkIsTold, SessionInv, RecordInv, LeaseInv, LeasesAreHeld, ClosingInv, Holding, Trees
<1> QED
  BY <1>1, <1>2, <1>3, <1>4, <1>5, <1>6, <1>7, <1>8, <1>9 DEF IInv

\* The checkout is taken only while it is free.
LEMMA BindsStep == ASSUME Apart, IInv, NEW p \in Processes, Binds(p) PROVE IInv'
<1> USE DEF Apart, IInv, Binds, Goes, Git, History
<1>1. Typed'
  BY DEF Typed, Places, Trees, Closing
<1>2. SessionInv'
  BY DEF Typed, SessionInv, RecordInv
<1>3. RecordInv'
  BY DEF Typed, SessionInv, RecordInv, LeasesAreHeld, Holding
<1>4. LeaseInv'
  BY DEF Typed, LeaseInv, LeasesAreHeld, Holding
<1>5. LeasesAreHeld'
  BY DEF Typed, LeaseInv, LeasesAreHeld, Holding
<1>6. FolderInv'
  BY DEF Typed, FolderInv, SessionInv, Holding, Trees
<1>7. ClosingInv'
  BY DEF Typed, ClosingInv, SessionInv, RecordInv, Trees
<1>8. WorkIsKept'
  BY DEF Typed, WorkIsKept, ClosingInv, Trees
<1>9. KeptWorkIsTold'
  BY DEF Typed, KeptWorkIsTold, SessionInv, RecordInv, LeaseInv, LeasesAreHeld, ClosingInv, Holding, Trees
<1> QED
  BY <1>1, <1>2, <1>3, <1>4, <1>5, <1>6, <1>7, <1>8, <1>9 DEF IInv

\* A worktree is made for a session that only this process is at, or that was resumed in a race.
LEMMA AddsStep == ASSUME Apart, IInv, NEW p \in Processes, Adds(p) PROVE IInv'
<1> USE DEF Apart, IInv, Adds, Fresh, Goes, Git, History
<1>1. Typed'
  BY DEF Typed, Places, Trees, Closing
<1>2. SessionInv'
  BY DEF Typed, SessionInv, RecordInv
<1>3. RecordInv'
  BY DEF Typed, SessionInv, RecordInv, LeasesAreHeld, Holding
<1>4. LeaseInv'
  BY DEF Typed, LeaseInv, LeasesAreHeld, Holding
<1>5. LeasesAreHeld'
  BY DEF Typed, LeaseInv, LeasesAreHeld, Holding
<1>6. FolderInv'
  BY DEF Typed, FolderInv, SessionInv, Holding, Trees
<1>7. ClosingInv'
  BY DEF Typed, ClosingInv, SessionInv, RecordInv, Trees
<1>8. WorkIsKept'
  BY DEF Typed, WorkIsKept, ClosingInv, Trees
<1>9. KeptWorkIsTold'
  BY DEF Typed, KeptWorkIsTold, SessionInv, RecordInv, LeaseInv, LeasesAreHeld, ClosingInv, Holding, Trees
<1> QED
  BY <1>1, <1>2, <1>3, <1>4, <1>5, <1>6, <1>7, <1>8, <1>9 DEF IInv

LEMMA FailsToAddStep == ASSUME Apart, IInv, NEW p \in Processes, FailsToAdd(p) PROVE IInv'
<1> USE DEF Apart, IInv, FailsToAdd, Refuses, Goes, Git, History
<1>1. Typed'
  BY DEF Typed, Places, Trees, Closing
<1>2. SessionInv'
  BY DEF Typed, SessionInv, RecordInv
<1>3. RecordInv'
  BY DEF Typed, SessionInv, RecordInv, LeasesAreHeld, Holding
<1>4. LeaseInv'
  BY DEF Typed, LeaseInv, LeasesAreHeld, Holding
<1>5. LeasesAreHeld'
  BY DEF Typed, LeaseInv, LeasesAreHeld, Holding
<1>6. FolderInv'
  BY DEF Typed, FolderInv, SessionInv, Holding, Trees
<1>7. ClosingInv'
  BY DEF Typed, ClosingInv, SessionInv, RecordInv, Trees
<1>8. WorkIsKept'
  BY DEF Typed, WorkIsKept, ClosingInv, Trees
<1>9. KeptWorkIsTold'
  BY DEF Typed, KeptWorkIsTold, SessionInv, RecordInv, LeaseInv, LeasesAreHeld, ClosingInv, Holding, Trees
<1> QED
  BY <1>1, <1>2, <1>3, <1>4, <1>5, <1>6, <1>7, <1>8, <1>9 DEF IInv

LEMMA LeasesStep == ASSUME Apart, IInv, NEW p \in Processes, Leases(p) PROVE IInv'
<1> USE DEF Apart, IInv, Leases, Goes, Git, History
<1>1. Typed'
  BY DEF Typed, Places, Trees, Closing
<1>2. SessionInv'
  BY DEF Typed, SessionInv, RecordInv
<1>3. RecordInv'
  BY DEF Typed, SessionInv, RecordInv, LeasesAreHeld, Holding
<1>4. LeaseInv'
  BY DEF Typed, LeaseInv, LeasesAreHeld, Holding
<1>5. LeasesAreHeld'
  BY DEF Typed, LeaseInv, LeasesAreHeld, Holding
<1>6. FolderInv'
  BY DEF Typed, FolderInv, SessionInv, Holding, Trees
<1>7. ClosingInv'
  BY DEF Typed, ClosingInv, SessionInv, RecordInv, Trees
<1>8. WorkIsKept'
  BY DEF Typed, WorkIsKept, ClosingInv, Trees
<1>9. KeptWorkIsTold'
  BY DEF Typed, KeptWorkIsTold, SessionInv, RecordInv, LeaseInv, LeasesAreHeld, ClosingInv, Holding, Trees
<1> QED
  BY <1>1, <1>2, <1>3, <1>4, <1>5, <1>6, <1>7, <1>8, <1>9 DEF IInv

\* The one that holds the lease stays at the session, so its worktree is not left.
LEMMA LeaseRefusedStep == ASSUME Apart, IInv, NEW p \in Processes, LeaseRefused(p) PROVE IInv'
<1> USE DEF Apart, IInv, LeaseRefused, Refuses, Goes, Git, History
<1>1. Typed'
  BY DEF Typed, Places, Trees, Closing
<1>2. SessionInv'
  BY DEF Typed, SessionInv, RecordInv
<1>3. RecordInv'
  BY DEF Typed, SessionInv, RecordInv, LeasesAreHeld, Holding
<1>4. LeaseInv'
  BY DEF Typed, LeaseInv, LeasesAreHeld, Holding
<1>5. LeasesAreHeld'
  BY DEF Typed, LeaseInv, LeasesAreHeld, Holding
<1>6. FolderInv'
  BY DEF Typed, FolderInv, SessionInv, Holding, Trees
<1>7. ClosingInv'
  BY DEF Typed, ClosingInv, SessionInv, RecordInv, Trees
<1>8. WorkIsKept'
  BY DEF Typed, WorkIsKept, ClosingInv, Trees
<1>9. KeptWorkIsTold'
  BY DEF Typed, KeptWorkIsTold, SessionInv, RecordInv, LeaseInv, LeasesAreHeld, ClosingInv, Holding, Trees
<1> QED
  BY <1>1, <1>2, <1>3, <1>4, <1>5, <1>6, <1>7, <1>8, <1>9 DEF IInv

LEMMA RecordsStep == ASSUME Apart, IInv, NEW p \in Processes, Records(p) PROVE IInv'
<1> USE DEF Apart, IInv, Records, Goes, Git, History
<1>1. Typed'
  BY DEF Typed, Places, Trees, Closing
<1>2. SessionInv'
  BY DEF Typed, SessionInv, RecordInv
<1>3. RecordInv'
  BY DEF Typed, SessionInv, RecordInv, LeasesAreHeld, Holding
<1>4. LeaseInv'
  BY DEF Typed, LeaseInv, LeasesAreHeld, Holding
<1>5. LeasesAreHeld'
  BY DEF Typed, LeaseInv, LeasesAreHeld, Holding
<1>6. FolderInv'
  BY DEF Typed, FolderInv, SessionInv, Holding, Trees
<1>7. ClosingInv'
  BY DEF Typed, ClosingInv, SessionInv, RecordInv, Trees
<1>8. WorkIsKept'
  BY DEF Typed, WorkIsKept, ClosingInv, Trees
<1>9. KeptWorkIsTold'
  BY DEF Typed, KeptWorkIsTold, SessionInv, RecordInv, LeaseInv, LeasesAreHeld, ClosingInv, Holding, Trees
<1> QED
  BY <1>1, <1>2, <1>3, <1>4, <1>5, <1>6, <1>7, <1>8, <1>9 DEF IInv

LEMMA FailsToRecordStep == ASSUME Apart, IInv, NEW p \in Processes, FailsToRecord(p) PROVE IInv'
<1> USE DEF Apart, IInv, FailsToRecord, Goes, Git, History
<1>1. Typed'
  BY DEF Typed, Places, Trees, Closing
<1>2. SessionInv'
  BY DEF Typed, SessionInv, RecordInv
<1>3. RecordInv'
  BY DEF Typed, SessionInv, RecordInv, LeasesAreHeld, Holding
<1>4. LeaseInv'
  BY DEF Typed, LeaseInv, LeasesAreHeld, Holding
<1>5. LeasesAreHeld'
  BY DEF Typed, LeaseInv, LeasesAreHeld, Holding
<1>6. FolderInv'
  BY DEF Typed, FolderInv, SessionInv, Holding, Trees
<1>7. ClosingInv'
  BY DEF Typed, ClosingInv, SessionInv, RecordInv, Trees
<1>8. WorkIsKept'
  BY DEF Typed, WorkIsKept, ClosingInv, Trees
<1>9. KeptWorkIsTold'
  BY DEF Typed, KeptWorkIsTold, SessionInv, RecordInv, LeaseInv, LeasesAreHeld, ClosingInv, Holding, Trees
<1> QED
  BY <1>1, <1>2, <1>3, <1>4, <1>5, <1>6, <1>7, <1>8, <1>9 DEF IInv

LEMMA ReopensCheckoutStep == ASSUME Apart, IInv, NEW p \in Processes, ReopensCheckout(p) PROVE IInv'
<1> USE DEF Apart, IInv, ReopensCheckout, Refuses, Goes, Git, History
<1>1. Typed'
  BY DEF Typed, Places, Trees, Closing
<1>2. SessionInv'
  BY DEF Typed, SessionInv, RecordInv
<1>3. RecordInv'
  BY DEF Typed, SessionInv, RecordInv, LeasesAreHeld, Holding
<1>4. LeaseInv'
  BY DEF Typed, LeaseInv, LeasesAreHeld, Holding
<1>5. LeasesAreHeld'
  BY DEF Typed, LeaseInv, LeasesAreHeld, Holding
<1>6. FolderInv'
  BY DEF Typed, FolderInv, SessionInv, Holding, Trees
<1>7. ClosingInv'
  BY DEF Typed, ClosingInv, SessionInv, RecordInv, Trees
<1>8. WorkIsKept'
  BY DEF Typed, WorkIsKept, ClosingInv, Trees
<1>9. KeptWorkIsTold'
  BY DEF Typed, KeptWorkIsTold, SessionInv, RecordInv, LeaseInv, LeasesAreHeld, ClosingInv, Holding, Trees
<1> QED
  BY <1>1, <1>2, <1>3, <1>4, <1>5, <1>6, <1>7, <1>8, <1>9 DEF IInv

LEMMA ReopensWorktreeStep == ASSUME Apart, IInv, NEW p \in Processes, ReopensWorktree(p) PROVE IInv'
<1> USE DEF Apart, IInv, ReopensWorktree, Refuses, Goes, Git, History
<1>1. Typed'
  <2>1. pc' \in [Processes -> Places] /\ of' \in [Processes -> Sessions \cup {Nobody}]
    BY DEF Typed, Places, Closing
  <2>2. writer' \in [Sessions -> Processes \cup {Nobody}] /\ record' \in [Sessions -> {"none", "checkout", "worktree"}]
    BY DEF Typed
  <2>3. checkout' \in Processes \cup {Nobody} /\ lease' \in [Sessions -> Processes \cup {Nobody}] /\ crashes' \in Nat
    BY DEF Typed
  <2>4. tree' \in [Sessions -> Trees] /\ branch' \in [Sessions -> {"none", "base", "ahead"}]
    <3>1. Fresh \in Trees
      BY TreesAre
    <3> QED
      BY <3>1 DEF Typed
  <2>5. \A q \in Processes : (pc'[q] = "idle") = (of'[q] = Nobody)
    BY DEF Typed, Places, Closing
  <2> QED
    BY <2>1, <2>2, <2>3, <2>4, <2>5 DEF Typed
<1>2. SessionInv'
  BY DEF Typed, SessionInv, RecordInv
<1>3. RecordInv'
  BY DEF Typed, SessionInv, RecordInv, LeasesAreHeld, Holding
<1>4. LeaseInv'
  BY DEF Typed, LeaseInv, LeasesAreHeld, Holding
<1>5. LeasesAreHeld'
  BY DEF Typed, LeaseInv, LeasesAreHeld, Holding
<1>6. FolderInv'
  BY DEF Typed, FolderInv, SessionInv, Holding, Trees, Fresh
<1>7. ClosingInv'
  BY DEF Typed, ClosingInv, SessionInv, RecordInv, Trees, Fresh
<1>8. WorkIsKept'
  BY DEF Typed, WorkIsKept, ClosingInv, Trees
<1>9. KeptWorkIsTold'
  BY DEF Typed, KeptWorkIsTold, SessionInv, RecordInv, LeaseInv, LeasesAreHeld, ClosingInv, Holding, Trees
<1> QED
  BY <1>1, <1>2, <1>3, <1>4, <1>5, <1>6, <1>7, <1>8, <1>9 DEF IInv

\* The session's file is let go before its folder; its header was written.
LEMMA DisposesStep == ASSUME Apart, IInv, NEW p \in Processes, Disposes(p) PROVE IInv'
<1> USE DEF Apart, IInv, Disposes, Goes, Git, History
<1>1. Typed'
  BY DEF Typed, Places, Trees, Closing
<1>2. SessionInv'
  BY DEF Typed, SessionInv, RecordInv
<1>3. RecordInv'
  BY DEF Typed, SessionInv, RecordInv, LeasesAreHeld, Holding
<1>4. LeaseInv'
  BY DEF Typed, LeaseInv, LeasesAreHeld, Holding
<1>5. LeasesAreHeld'
  BY DEF Typed, LeaseInv, LeasesAreHeld, Holding
<1>6. FolderInv'
  BY DEF Typed, FolderInv, SessionInv, Holding, Trees
<1>7. ClosingInv'
  BY DEF Typed, ClosingInv, SessionInv, RecordInv, Trees
<1>8. WorkIsKept'
  BY DEF Typed, WorkIsKept, ClosingInv, Trees
<1>9. KeptWorkIsTold'
  BY DEF Typed, KeptWorkIsTold, SessionInv, RecordInv, LeaseInv, LeasesAreHeld, ClosingInv, Holding, Trees
<1> QED
  BY <1>1, <1>2, <1>3, <1>4, <1>5, <1>6, <1>7, <1>8, <1>9 DEF IInv

\* From here the worktree has no lease.
LEMMA UnleasesStep == ASSUME Apart, IInv, NEW p \in Processes, Unleases(p) PROVE IInv'
<1> USE DEF Apart, IInv, Unleases, Ends, Goes, Git, History
<1>1. Typed'
  <2>1. pc' \in [Processes -> Places]
    BY DEF Typed, Places, Closing
  <2>2. of' \in [Processes -> Sessions \cup {Nobody}]
    BY DEF Typed
  <2>3. writer' \in [Sessions -> Processes \cup {Nobody}] /\ record' \in [Sessions -> {"none", "checkout", "worktree"}]
    BY DEF Typed
  <2>4. checkout' \in Processes \cup {Nobody} /\ lease' \in [Sessions -> Processes \cup {Nobody}] /\ crashes' \in Nat
    BY DEF Typed
  <2>5. tree' \in [Sessions -> Trees] /\ branch' \in [Sessions -> {"none", "base", "ahead"}]
    BY DEF Typed
  <2>6. \A q \in Processes : (pc'[q] = "idle") = (of'[q] = Nobody)
    BY DEF Typed, Places, Closing
  <2> QED
    BY <2>1, <2>2, <2>3, <2>4, <2>5, <2>6 DEF Typed
<1>2. SessionInv'
  BY DEF Typed, SessionInv, RecordInv
<1>3. RecordInv'
  BY DEF Typed, SessionInv, RecordInv, LeasesAreHeld, Holding
<1>4. LeaseInv'
  BY DEF Typed, LeaseInv, LeasesAreHeld, Holding
<1>5. LeasesAreHeld'
  BY DEF Typed, LeaseInv, LeasesAreHeld, Holding
<1>6. FolderInv'
  BY DEF Typed, FolderInv, SessionInv, Holding, Trees
<1>7. ClosingInv'
  BY DEF Typed, ClosingInv, SessionInv, RecordInv, Trees
<1>8. WorkIsKept'
  BY DEF Typed, WorkIsKept, ClosingInv, Trees
<1>9. KeptWorkIsTold'
  BY DEF Typed, KeptWorkIsTold, SessionInv, RecordInv, LeaseInv, LeasesAreHeld, ClosingInv, Holding, Trees
<1> QED
  BY <1>1, <1>2, <1>3, <1>4, <1>5, <1>6, <1>7, <1>8, <1>9 DEF IInv

\* What is kept is told.
LEMMA ChecksStep == ASSUME Apart, IInv, NEW p \in Processes, Checks(p) PROVE IInv'
<1> USE DEF Apart, IInv, Checks, Unchanged, Keeps, Ends, Unlocks, Goes, Git, History
<1>1. Typed'
  BY DEF Typed, Places, Trees, Closing
<1>2. SessionInv'
  BY DEF Typed, SessionInv, RecordInv
<1>3. RecordInv'
  BY DEF Typed, SessionInv, RecordInv, LeasesAreHeld, Holding
<1>4. LeaseInv'
  BY DEF Typed, LeaseInv, LeasesAreHeld, Holding
<1>5. LeasesAreHeld'
  BY DEF Typed, LeaseInv, LeasesAreHeld, Holding
<1>6. FolderInv'
  BY DEF Typed, FolderInv, SessionInv, Holding, Trees
<1>7. ClosingInv'
  BY DEF Typed, ClosingInv, SessionInv, RecordInv, Trees
<1>8. WorkIsKept'
  BY DEF Typed, WorkIsKept, ClosingInv, Trees
<1>9. KeptWorkIsTold'
  BY DEF Typed, KeptWorkIsTold, SessionInv, RecordInv, LeaseInv, LeasesAreHeld, ClosingInv, Holding, Trees
<1> QED
  BY <1>1, <1>2, <1>3, <1>4, <1>5, <1>6, <1>7, <1>8, <1>9 DEF IInv

\* Another process at the session came to it in a race.
LEMMA RemovesStep == ASSUME Apart, IInv, NEW p \in Processes, Removes(p) PROVE IInv'
<1> USE DEF Apart, IInv, Removes, Keeps, Ends, Unlocks, Goes, Git, History
<1>1. Typed'
  <2>1. pc' \in [Processes -> Places] /\ of' \in [Processes -> Sessions \cup {Nobody}]
    BY DEF Typed, Places, Closing
  <2>2. writer' \in [Sessions -> Processes \cup {Nobody}] /\ record' \in [Sessions -> {"none", "checkout", "worktree"}]
    BY DEF Typed
  <2>3. checkout' \in Processes \cup {Nobody} /\ lease' \in [Sessions -> Processes \cup {Nobody}] /\ crashes' \in Nat
    BY DEF Typed
  <2>4. tree' \in [Sessions -> Trees] /\ branch' \in [Sessions -> {"none", "base", "ahead"}]
    <3>1. NoTree \in Trees
      BY TreesAre
    <3> QED
      BY <3>1 DEF Typed
  <2>5. \A q \in Processes : (pc'[q] = "idle") = (of'[q] = Nobody)
    BY DEF Typed, Places, Closing
  <2> QED
    BY <2>1, <2>2, <2>3, <2>4, <2>5 DEF Typed
<1>2. SessionInv'
  BY DEF Typed, SessionInv, RecordInv
<1>3. RecordInv'
  BY DEF Typed, SessionInv, RecordInv, LeasesAreHeld, Holding
<1>4. LeaseInv'
  BY DEF Typed, LeaseInv, LeasesAreHeld, Holding
<1>5. LeasesAreHeld'
  BY DEF Typed, LeaseInv, LeasesAreHeld, Holding
<1>6. FolderInv'
  BY DEF Typed, FolderInv, SessionInv, Holding, Trees
<1>7. ClosingInv'
  BY DEF Typed, ClosingInv, SessionInv, RecordInv, Trees, NoTree
<1>8. WorkIsKept'
  BY DEF Typed, WorkIsKept, ClosingInv, Trees
<1>9. KeptWorkIsTold'
  BY DEF Typed, KeptWorkIsTold, SessionInv, RecordInv, LeaseInv, LeasesAreHeld, ClosingInv, Holding, Trees
<1> QED
  BY <1>1, <1>2, <1>3, <1>4, <1>5, <1>6, <1>7, <1>8, <1>9 DEF IInv

\* The branch holds what it held when it was looked at, or work came late.
LEMMA DeletesStep == ASSUME Apart, IInv, NEW p \in Processes, Deletes(p) PROVE IInv'
<1> USE DEF Apart, IInv, Deletes, Ends, Unlocks, Goes, Git, History
<1>1. Typed'
  BY DEF Typed, Places, Trees, Closing
<1>2. SessionInv'
  BY DEF Typed, SessionInv, RecordInv
<1>3. RecordInv'
  BY DEF Typed, SessionInv, RecordInv, LeasesAreHeld, Holding
<1>4. LeaseInv'
  BY DEF Typed, LeaseInv, LeasesAreHeld, Holding
<1>5. LeasesAreHeld'
  BY DEF Typed, LeaseInv, LeasesAreHeld, Holding
<1>6. FolderInv'
  BY DEF Typed, FolderInv, SessionInv, Holding, Trees
<1>7. ClosingInv'
  BY DEF Typed, ClosingInv, SessionInv, RecordInv, Trees
<1>8. WorkIsKept'
  BY DEF Typed, WorkIsKept, ClosingInv, Trees
<1>9. KeptWorkIsTold'
  BY DEF Typed, KeptWorkIsTold, SessionInv, RecordInv, LeaseInv, LeasesAreHeld, ClosingInv, Holding, Trees
<1> QED
  BY <1>1, <1>2, <1>3, <1>4, <1>5, <1>6, <1>7, <1>8, <1>9 DEF IInv

\* What a killed process held is free, and it kept no word of its worktree.
LEMMA CrashesStep == ASSUME Apart, IInv, NEW p \in Processes, Crashes(p) PROVE IInv'
<1> USE DEF Apart, IInv, Crashes, Ends, Unlocks, Git, History
<1>1. Typed'
  BY DEF Typed, Places, Trees, Closing
<1>2. SessionInv'
  BY DEF Typed, SessionInv, RecordInv
<1>3. RecordInv'
  BY DEF Typed, SessionInv, RecordInv, LeasesAreHeld, Holding
<1>4. LeaseInv'
  BY DEF Typed, LeaseInv, LeasesAreHeld, Holding
<1>5. LeasesAreHeld'
  BY DEF Typed, LeaseInv, LeasesAreHeld, Holding
<1>6. FolderInv'
  BY DEF Typed, FolderInv, SessionInv, Holding, Trees
<1>7. ClosingInv'
  BY DEF Typed, ClosingInv, SessionInv, RecordInv, Trees
<1>8. WorkIsKept'
  BY DEF Typed, WorkIsKept, ClosingInv, Trees
<1>9. KeptWorkIsTold'
  BY DEF Typed, KeptWorkIsTold, SessionInv, RecordInv, LeaseInv, LeasesAreHeld, ClosingInv, Holding, Trees
<1> QED
  BY <1>1, <1>2, <1>3, <1>4, <1>5, <1>6, <1>7, <1>8, <1>9 DEF IInv

LEMMA WorksStep == ASSUME Apart, IInv, NEW s \in Sessions, Works(s) PROVE IInv'
<1> USE DEF Apart, IInv, Works, Git, History
<1>1. Typed'
  <2>1. pc' \in [Processes -> Places] /\ of' \in [Processes -> Sessions \cup {Nobody}]
    BY DEF Typed, Places, Closing
  <2>2. writer' \in [Sessions -> Processes \cup {Nobody}] /\ record' \in [Sessions -> {"none", "checkout", "worktree"}]
    BY DEF Typed
  <2>3. checkout' \in Processes \cup {Nobody} /\ lease' \in [Sessions -> Processes \cup {Nobody}] /\ crashes' \in Nat
    BY DEF Typed
  <2>4. tree' \in [Sessions -> Trees] /\ branch' \in [Sessions -> {"none", "base", "ahead"}]
    <3>1. tree \in [Sessions -> Trees] /\ branch \in [Sessions -> {"none", "base", "ahead"}]
      BY DEF Typed
    <3>2. tree[s] \in Trees
      BY <3>1
    <3>3. CASE tree' = [tree EXCEPT ![s].dirty = ~@]
      BY <3>1, <3>2, <3>3, Changed
    <3>4. CASE tree' = [tree EXCEPT ![s].dirty = FALSE]
      BY <3>1, <3>2, <3>4, Changed
    <3>5. CASE tree' = [tree EXCEPT ![s].away = ~@]
      BY <3>1, <3>2, <3>5, Changed
    <3> QED
      BY <3>3, <3>4, <3>5
  <2>5. \A q \in Processes : (pc'[q] = "idle") = (of'[q] = Nobody)
    BY DEF Typed, Places, Closing
  <2> QED
    BY <2>1, <2>2, <2>3, <2>4, <2>5 DEF Typed
<1>2. SessionInv'
  BY DEF Typed, SessionInv, RecordInv
<1>3. RecordInv'
  BY DEF Typed, SessionInv, RecordInv, LeasesAreHeld, Holding
<1>4. LeaseInv'
  BY DEF Typed, LeaseInv, LeasesAreHeld, Holding
<1>5. LeasesAreHeld'
  BY DEF Typed, LeaseInv, LeasesAreHeld, Holding
<1>6. FolderInv'
  BY DEF Typed, FolderInv, SessionInv, Holding, Trees
<1>7. ClosingInv'
  BY DEF Typed, ClosingInv, SessionInv, RecordInv, Trees
<1>8. WorkIsKept'
  BY DEF Typed, WorkIsKept, ClosingInv, Trees
<1>9. KeptWorkIsTold'
  BY DEF Typed, KeptWorkIsTold, SessionInv, RecordInv, LeaseInv, LeasesAreHeld, ClosingInv, Holding, Trees
<1> QED
  BY <1>1, <1>2, <1>3, <1>4, <1>5, <1>6, <1>7, <1>8, <1>9 DEF IInv

LEMMA RemovedStep == ASSUME Apart, IInv, NEW s \in Sessions, OperatorRemoves(s) PROVE IInv'
<1> USE DEF Apart, IInv, OperatorRemoves, NoTree, Git, History
<1>1. Typed'
  BY DEF Typed, Places, Trees, Closing
<1>2. SessionInv'
  BY DEF Typed, SessionInv, RecordInv
<1>3. RecordInv'
  BY DEF Typed, SessionInv, RecordInv, LeasesAreHeld, Holding
<1>4. LeaseInv'
  BY DEF Typed, LeaseInv, LeasesAreHeld, Holding
<1>5. LeasesAreHeld'
  BY DEF Typed, LeaseInv, LeasesAreHeld, Holding
<1>6. FolderInv'
  BY DEF Typed, FolderInv, SessionInv, Holding, Trees
<1>7. ClosingInv'
  BY DEF Typed, ClosingInv, SessionInv, RecordInv, Trees
<1>8. WorkIsKept'
  BY DEF Typed, WorkIsKept, ClosingInv, Trees
<1>9. KeptWorkIsTold'
  BY DEF Typed, KeptWorkIsTold, SessionInv, RecordInv, LeaseInv, LeasesAreHeld, ClosingInv, Holding, Trees
<1> QED
  BY <1>1, <1>2, <1>3, <1>4, <1>5, <1>6, <1>7, <1>8, <1>9 DEF IInv

-----------------------------------------------------------------------------
(* What workspaces promise.                                                *)

LEMMA NextKeeps == ASSUME Apart, IInv, [Next]_vars PROVE IInv'
<1>1. CASE UNCHANGED vars
  BY <1>1 DEF IInv, Typed, SessionInv, RecordInv, LeaseInv, LeasesAreHeld, FolderInv, ClosingInv, WorkIsKept, KeptWorkIsTold, vars
<1>2. CASE \E p \in Processes, s \in Sessions : Creates(p, s) \/ Opens(p, s)
  BY <1>2, CreatesStep, OpensStep
<1>3. ASSUME NEW p \in Processes,
             \/ Binds(p) \/ Adds(p) \/ FailsToAdd(p) \/ Leases(p) \/ LeaseRefused(p) \/ Records(p) \/ FailsToRecord(p)
             \/ ReopensCheckout(p) \/ ReopensWorktree(p) \/ Disposes(p) \/ Unleases(p) \/ Checks(p) \/ Removes(p) \/ Deletes(p) \/ Crashes(p)
      PROVE  IInv'
  BY <1>3, BindsStep, AddsStep, FailsToAddStep, LeasesStep, LeaseRefusedStep, RecordsStep, FailsToRecordStep, ReopensCheckoutStep,
     ReopensWorktreeStep, DisposesStep, UnleasesStep, ChecksStep, RemovesStep, DeletesStep, CrashesStep
<1>4. CASE \E s \in Sessions : Works(s) \/ OperatorRemoves(s)
  BY <1>4, WorksStep, RemovedStep
<1> QED
  BY <1>1, <1>2, <1>3, <1>4 DEF Next

LEMMA Always == ASSUME Apart PROVE Spec => []IInv
<1>1. Init => IInv
  BY Begins
<1>2. IInv /\ [Next]_vars => IInv'
  BY NextKeeps
<1> QED
  BY <1>1, <1>2, PTL DEF Spec

\* Two sessions never work in one folder, and the leases that keep them apart are held by
\* processes that use them, over crashes, refusals and whatever closes meanwhile.
\* (workspace.ts: bindWorkspace, newWorktree, reopenWorkspace, leaseOn, worktreeLease.)
THEOREM FoldersAreKeptApart == ASSUME Apart PROVE Spec => [](TypeOK /\ OneSessionPerFolder /\ LeasesAreHeld)
<1>1. IInv => OneSessionPerFolder
  <2> SUFFICES ASSUME IInv, NEW p \in Processes, NEW q \in Processes, pc[p] = "working", pc[q] = "working", Place(p) = Place(q)
               PROVE  p = q
    BY DEF OneSessionPerFolder
  <2>1. of[p] \in Sessions /\ of[q] \in Sessions
    BY DEF IInv, Typed
  <2>2. CASE checkout = p
    BY <2>1, <2>2 DEF Place, Apart
  <2>3. CASE checkout # p
    <3>1. checkout # q /\ of[p] = of[q]
      BY <2>1, <2>3 DEF Place, Apart
    <3> QED
      BY <2>3, <3>1 DEF IInv, LeaseInv, Holding
  <2> QED
    BY <2>2, <2>3
<1>2. IInv => TypeOK /\ LeasesAreHeld
  BY DEF IInv, Typed, TypeOK, Places
<1> QED
  BY <1>1, <1>2, Always, PTL

\* A working session's folder is there unless the operator removed it or the session was
\* resumed while it was still closing.  (workspace.ts: worktreeWorkspace, reopenWorkspace.)
THEOREM FoldersStay == ASSUME Apart PROVE Spec => []WorkingFoldersStay
<1>1. IInv => WorkingFoldersStay
  BY DEF IInv, FolderInv, WorkingFoldersStay
<1> QED
  BY <1>1, Always, PTL

\* Closing removes no work but what came between its last look and its last Git call, and
\* a worktree left with work in it was told of.  (workspace.ts: worktreeWorkspace, unchanged.)
THEOREM WorkIsKeptOrTold == ASSUME Apart PROVE Spec => [](WorkIsKept /\ KeptWorkIsTold)
<1>1. IInv => WorkIsKept /\ KeptWorkIsTold
  BY DEF IInv
<1> QED
  BY <1>1, Always, PTL

=============================================================================
