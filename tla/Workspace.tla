------------------------------- MODULE Workspace -------------------------------
(***************************************************************************)
(* Where sessions of several Tesota processes work: the checkout for the   *)
(* one that holds its lease, a worktree on a branch of its own for every   *)
(* other session and for a writing subagent.  A lease is an operating      *)
(* system lock, gone with its process; a worktree outlives it.  Closing    *)
(* removes a worktree only where nothing changed, in several Git calls     *)
(* that other processes and the operator interleave with.                  *)
(***************************************************************************)
EXTENDS Naturals, FiniteSets

CONSTANTS
  Processes, Sessions, Nobody,
  InGit,       \* whether the checkout is in a Git repository with a commit
  MaxWork, MaxCrash, MaxOpen   \* bound the changes in worktrees, the crashes and the openings

VARIABLES
  pc, of,      \* each process: what it is doing, and the session it does it for
  writer,      \* who holds each session file's lock
  record,      \* the workspace each session's header records, "none" before there is one
  checkout,    \* who holds the lease on the checkout
  lease,       \* who holds the lease on each session's worktree
  tree,        \* each worktree: whether it is there, holds changes, and is on its branch
  branch,      \* each session's branch: "none", at its "base" or "ahead" of it
  told,        \* the sessions whose last close said where their kept work is
  late, raced, lost, removed,   \* history: see the properties
  work, crashes, opens
vars == <<pc, of, writer, record, checkout, lease, tree, branch, told, late, raced, lost, removed, work, crashes, opens>>

NoTree == [there |-> FALSE, dirty |-> FALSE, away |-> FALSE]
Fresh == [there |-> TRUE, dirty |-> FALSE, away |-> FALSE]
Init ==
  /\ pc = [p \in Processes |-> "idle"] /\ of = [p \in Processes |-> Nobody]
  /\ writer = [s \in Sessions |-> Nobody] /\ record = [s \in Sessions |-> "none"]
  /\ checkout = Nobody /\ lease = [s \in Sessions |-> Nobody]
  /\ tree = [s \in Sessions |-> NoTree] /\ branch = [s \in Sessions |-> "none"]
  /\ told = {} /\ late = {} /\ raced = {} /\ lost = {} /\ removed = {} /\ work = 0 /\ crashes = 0 /\ opens = 0

History == <<told, late, raced, lost, removed, work, crashes>>
Git == <<tree, branch>>
Goes(p, from, to) == pc[p] = from /\ pc' = [pc EXCEPT ![p] = to]
\* A start that fails ends with the session's lock let go.
Refuses(p, from) == Goes(p, from, "idle") /\ writer' = [writer EXCEPT ![of[p]] = Nobody] /\ of' = [of EXCEPT ![p] = Nobody]
Closing == {"checking", "removing", "deleting"}

----------------------------------------------------------------------------
(* A new session, or a writing child.                                        *)

Creates(p, s) ==
  /\ record[s] = "none" /\ writer[s] = Nobody /\ branch[s] = "none" /\ opens < MaxOpen /\ opens' = opens + 1
  /\ \E child \in BOOLEAN : Goes(p, "idle", IF child THEN "adding" ELSE "binding")
  /\ of' = [of EXCEPT ![p] = s] /\ writer' = [writer EXCEPT ![s] = p]
  /\ UNCHANGED <<record, checkout, lease, Git, History>>
Binds(p) ==
  /\ IF checkout = Nobody THEN Goes(p, "binding", "recording") /\ checkout' = p
     ELSE Goes(p, "binding", "adding") /\ UNCHANGED checkout
  /\ UNCHANGED <<of, writer, record, lease, Git, History, opens>>
Adds(p) ==
  /\ InGit /\ Goes(p, "adding", "leasing")
  /\ tree' = [tree EXCEPT ![of[p]] = Fresh] /\ branch' = [branch EXCEPT ![of[p]] = "base"]
  /\ UNCHANGED <<of, writer, record, checkout, lease, History, opens>>
\* Outside Git, or when Git fails: what it may have made goes with the failure.
FailsToAdd(p) == Refuses(p, "adding") /\ UNCHANGED <<record, checkout, lease, Git, History, opens>>
Leases(p) ==
  /\ pc[p] = "leasing" /\ lease[of[p]] = Nobody /\ Goes(p, "leasing", IF record[of[p]] = "none" THEN "recording" ELSE "working")
  /\ lease' = [lease EXCEPT ![of[p]] = p]
  /\ UNCHANGED <<of, writer, record, checkout, Git, History, opens>>
LeaseRefused(p) == pc[p] = "leasing" /\ lease[of[p]] # Nobody /\ Refuses(p, "leasing") /\ UNCHANGED <<record, checkout, lease, Git, History, opens>>
\* The header names the workspace; a session that cannot write it lets go of both.
Records(p) ==
  /\ Goes(p, "recording", "working") /\ record' = [record EXCEPT ![of[p]] = IF checkout = p THEN "checkout" ELSE "worktree"]
  /\ UNCHANGED <<of, writer, checkout, lease, Git, History, opens>>
FailsToRecord(p) ==
  /\ Goes(p, "recording", IF checkout = p THEN "idle" ELSE "unleasing")
  /\ writer' = IF checkout = p THEN [writer EXCEPT ![of[p]] = Nobody] ELSE writer
  /\ of' = IF checkout = p THEN [of EXCEPT ![p] = Nobody] ELSE of
  /\ checkout' = IF checkout = p THEN Nobody ELSE checkout
  /\ UNCHANGED <<record, lease, Git, History, opens>>

----------------------------------------------------------------------------
(* A session resumed: its checkout must be free, its worktree is made again. *)

Opens(p, s) ==
  /\ record[s] # "none" /\ writer[s] = Nobody /\ opens < MaxOpen /\ opens' = opens + 1
  /\ Goes(p, "idle", "reopening") /\ of' = [of EXCEPT ![p] = s] /\ writer' = [writer EXCEPT ![s] = p]
  /\ raced' = IF \E q \in Processes \ {p} : of[q] = s THEN raced \cup {s} ELSE raced
  /\ UNCHANGED <<record, checkout, lease, Git, told, late, lost, removed, work, crashes>>
ReopensCheckout(p) ==
  /\ pc[p] = "reopening" /\ record[of[p]] = "checkout" /\ UNCHANGED <<record, lease, Git, History, opens>>
  /\ \/ checkout = Nobody /\ Goes(p, "reopening", "working") /\ checkout' = p /\ UNCHANGED <<of, writer>>
     \/ checkout # Nobody /\ Refuses(p, "reopening") /\ UNCHANGED checkout
\* A worktree that is gone is made again from its branch, or from its base when the branch went too.
ReopensWorktree(p) ==
  LET s == of[p] IN
  /\ pc[p] = "reopening" /\ record[s] = "worktree" /\ UNCHANGED <<record, checkout, lease, History, opens>>
  /\ \/ /\ Goes(p, "reopening", "leasing") /\ UNCHANGED <<of, writer>>
        /\ tree' = IF tree[s].there THEN tree ELSE [tree EXCEPT ![s] = Fresh]
        /\ branch' = IF tree[s].there \/ branch[s] # "none" THEN branch ELSE [branch EXCEPT ![s] = "base"]
     \/ ~tree[s].there /\ Refuses(p, "reopening") /\ UNCHANGED Git

----------------------------------------------------------------------------
(* Work in a worktree, by its session, a process it left or the operator.    *)

Works(s) ==
  /\ tree[s].there /\ work < MaxWork /\ work' = work + 1
  /\ \/ tree' = [tree EXCEPT ![s].dirty = ~@] /\ UNCHANGED branch
     \/ branch[s] = "base" /\ ~tree[s].away /\ branch' = [branch EXCEPT ![s] = "ahead"] /\ tree' = [tree EXCEPT ![s].dirty = FALSE]
     \/ tree' = [tree EXCEPT ![s].away = ~@] /\ UNCHANGED branch
  /\ late' = IF \E p \in Processes : of[p] = s /\ pc[p] \in {"removing", "deleting"} THEN late \cup {s} ELSE late
  /\ UNCHANGED <<pc, of, writer, record, checkout, lease, told, raced, lost, removed, crashes, opens>>
OperatorRemoves(s) ==
  /\ tree[s].there /\ work < MaxWork /\ work' = work + 1
  /\ tree' = [tree EXCEPT ![s] = NoTree] /\ branch' \in {branch, [branch EXCEPT ![s] = "none"]}
  /\ removed' = removed \cup {s}
  /\ UNCHANGED <<pc, of, writer, record, checkout, lease, told, late, raced, lost, crashes, opens>>

----------------------------------------------------------------------------
(* Closing.                                                                  *)

\* The session file's lock goes first, the workspace after it.
Disposes(p) ==
  /\ Goes(p, "working", "unleasing") /\ writer' = [writer EXCEPT ![of[p]] = Nobody]
  /\ UNCHANGED <<of, record, checkout, lease, Git, History, opens>>
Ends(p) == of' = [of EXCEPT ![p] = Nobody]
\* Mutant: closing takes a worktree as unchanged whatever its branch holds.
UnchangedTree(s) == tree[s].there /\ ~tree[s].dirty /\ branch[s] # "none"
Unchanged(s) == tree[s].there /\ ~tree[s].dirty /\ ~tree[s].away /\ branch[s] = "base"
\* The lease is let go before the worktree is looked at.
Unleases(p) ==
  /\ IF checkout = p THEN Goes(p, "unleasing", "idle") /\ Ends(p) /\ checkout' = Nobody /\ UNCHANGED lease
     ELSE Goes(p, "unleasing", "checking") /\ lease' = [lease EXCEPT ![of[p]] = Nobody] /\ UNCHANGED <<of, checkout>>
  /\ UNCHANGED <<writer, record, Git, History, opens>>
\* A session whose header was never written still held its file's lock.
Unlocks(p) == writer' = [s \in Sessions |-> IF writer[s] = p THEN Nobody ELSE writer[s]]
Keeps(p, from) == Goes(p, from, "idle") /\ Ends(p) /\ told' = told \cup {of[p]} /\ Unlocks(p)
Checks(p) ==
  /\ pc[p] = "checking"
  /\ \/ Unchanged(of[p]) /\ Goes(p, "checking", "removing") /\ UNCHANGED <<of, told, writer>>
     \/ ~Unchanged(of[p]) /\ Keeps(p, "checking")
  /\ UNCHANGED <<record, checkout, lease, Git, late, raced, lost, removed, work, crashes, opens>>
\* Git refuses to remove a worktree that holds changes, and may fail for another reason.
Removes(p) ==
  LET s == of[p] IN
  /\ pc[p] = "removing"
  /\ \/ /\ tree[s].there /\ ~tree[s].dirty /\ Goes(p, "removing", "deleting") /\ tree' = [tree EXCEPT ![s] = NoTree]
        /\ lost' = IF tree[s].away THEN lost \cup {s} ELSE lost
        /\ UNCHANGED <<of, told, writer>>
     \/ Keeps(p, "removing") /\ UNCHANGED <<tree, lost>>
  /\ UNCHANGED <<record, checkout, lease, branch, late, raced, removed, work, crashes, opens>>
\* The branch is deleted whatever it holds by then, unless a worktree has it checked out.
Deletes(p) ==
  LET s == of[p] IN
  /\ pc[p] = "deleting" /\ Goes(p, "deleting", "idle") /\ Ends(p) /\ told' = told \ {s} /\ Unlocks(p)
  /\ branch' = IF tree[s].there /\ ~tree[s].away THEN branch ELSE [branch EXCEPT ![s] = "none"]
  /\ lost' = IF branch[s] = "ahead" /\ branch'[s] = "none" THEN lost \cup {s} ELSE lost
  /\ UNCHANGED <<record, checkout, lease, tree, late, raced, removed, work, crashes, opens>>
\* The operating system lets go of what a killed process held.
Crashes(p) ==
  /\ pc[p] # "idle" /\ crashes < MaxCrash /\ crashes' = crashes + 1
  /\ pc' = [pc EXCEPT ![p] = "idle"] /\ Ends(p) /\ Unlocks(p)
  /\ checkout' = IF checkout = p THEN Nobody ELSE checkout
  /\ lease' = [s \in Sessions |-> IF lease[s] = p THEN Nobody ELSE lease[s]]
  /\ UNCHANGED <<record, Git, told, late, raced, lost, removed, work, opens>>

Next ==
  \/ \E p \in Processes :
       \/ \E s \in Sessions : Creates(p, s) \/ Opens(p, s)
       \/ Binds(p) \/ Adds(p) \/ FailsToAdd(p) \/ Leases(p) \/ LeaseRefused(p) \/ Records(p) \/ FailsToRecord(p)
       \/ ReopensCheckout(p) \/ ReopensWorktree(p) \/ Disposes(p) \/ Unleases(p) \/ Checks(p) \/ Removes(p) \/ Deletes(p) \/ Crashes(p)
  \/ \E s \in Sessions : Works(s) \/ OperatorRemoves(s)
Spec == Init /\ [][Next]_vars

----------------------------------------------------------------------------
Place(p) == IF checkout = p THEN Nobody ELSE of[p]
\* No two sessions work in one folder, whichever processes and however each came to it.
OneSessionPerFolder ==
  \A p, q \in Processes : pc[p] = "working" /\ pc[q] = "working" /\ Place(p) = Place(q) => p = q
\* The folder of a working session stays, unless the operator removed it or the session was
\* resumed while the one before it, its lease let go, was still closing.
WorkingFoldersStay ==
  \A p \in Processes : pc[p] = "working" /\ checkout # p => tree[of[p]].there \/ of[p] \in removed \cup raced
\* Closing removes no work, but for work done between its check and its last Git call.
WorkIsKept == lost \subseteq late
\* A worktree left with no session of a process on it holds work its close told of, or a process died over it, or Git failed.
KeptWorkIsTold ==
  \A s \in Sessions : tree[s].there /\ crashes = 0 /\ record[s] = "worktree" /\ (\A p \in Processes : of[p] # s) /\ s \notin removed => s \in told \cup raced
\* A held lease is of a process that is there and uses it.
LeasesAreHeld ==
  /\ \A s \in Sessions : lease[s] # Nobody => of[lease[s]] = s /\ pc[lease[s]] \in {"recording", "working", "unleasing"}
  /\ checkout # Nobody => pc[checkout] \in {"recording", "working", "unleasing"}
TypeOK ==
  /\ pc \in [Processes -> {"idle", "binding", "adding", "leasing", "recording", "reopening", "working", "unleasing"} \cup Closing]
  /\ of \in [Processes -> Sessions \cup {Nobody}] /\ checkout \in Processes \cup {Nobody}
  /\ \A p \in Processes : (pc[p] = "idle") = (of[p] = Nobody)
Inv == TypeOK /\ OneSessionPerFolder /\ WorkingFoldersStay /\ WorkIsKept /\ KeptWorkIsTold /\ LeasesAreHeld
================================================================================
