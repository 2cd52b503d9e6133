---------------------------- MODULE PullRequest ----------------------------
(***************************************************************************)
(* tesota receipt: the last receipt of a repository, stated about the      *)
(* commit HEAD names.  The command reads HEAD, then each checked file, then*)
(* what the commit holds, each on its own, while the operator may go on    *)
(* editing and committing.                                                 *)
(***************************************************************************)
EXTENDS Naturals, Sequences

CONSTANTS
  Contents,   \* what a file may hold
  MaxCommit   \* bounds the commits after the run

Files == {"changed", "checked", "other"}   \* recorded by the run, read by its checks, and neither

VARIABLES
  tree,       \* each file as it is on disk
  commits,    \* what each commit holds; the first is the receipt's base
  seen,       \* what the run left and its checks read
  pc, commit, stale, after,
  moved,      \* whether something changed on disk or in the repository since the command began
  stated      \* the commit a Statement was written about, or 0
vars == <<tree, commits, seen, pc, commit, stale, after, moved, stated>>

Tip == Len(commits)
Reset == stale' = FALSE /\ after' = FALSE
Init ==
  /\ commits \in {<<c>> : c \in [Files -> Contents]}
  /\ tree \in {t \in [Files -> Contents] : t["other"] = commits[1]["other"]}
  /\ seen = tree /\ pc = "idle" /\ commit = 0 /\ stale = FALSE /\ after = FALSE /\ moved = FALSE /\ stated = 0

\* HEAD's commit is read before anything else (subjectOf).
Asks ==
  /\ pc = "idle" /\ pc' = "content" /\ commit' = Tip /\ moved' = FALSE /\ Reset
  /\ UNCHANGED <<tree, commits, seen, stated>>
\* The checked files must hash as they did, and then must not differ from HEAD (current).
ReadsContent ==
  /\ pc = "content" /\ pc' = "status" /\ stale' = (tree["checked"] # seen["checked"])
  /\ UNCHANGED <<tree, commits, seen, commit, after, moved, stated>>
ReadsStatus ==
  /\ pc = "status" /\ pc' = "compare"
  /\ stale' = (stale \/ tree["checked"] # commits[Tip]["checked"])
  /\ UNCHANGED <<tree, commits, seen, commit, after, moved, stated>>
\* What the commit holds is compared with what the run recorded, for every path that
\* is recorded or differs from the base (changedAfter).
Differs(p) == IF p = "changed" THEN commits[commit][p] # seen[p] ELSE commits[commit][p] # commits[1][p]
Compares ==
  /\ pc = "compare" /\ pc' = "write"
  /\ after' = \E p \in Files : Differs(p)
  /\ UNCHANGED <<tree, commits, seen, commit, stale, moved, stated>>
Writes ==
  /\ pc = "write" /\ pc' = "idle" /\ commit' = 0
  /\ stated' = IF stale \/ after THEN 0 ELSE commit
  /\ Reset
  /\ UNCHANGED <<tree, commits, seen, moved>>
Edit(p) ==
  /\ \E c \in Contents \ {tree[p]} : tree' = [tree EXCEPT ![p] = c]
  /\ moved' = TRUE
  /\ UNCHANGED <<commits, seen, pc, commit, stale, after, stated>>
CommitOf(ps) ==
  /\ Tip <= MaxCommit
  /\ commits' = Append(commits, [p \in Files |-> IF p \in ps THEN tree[p] ELSE commits[Tip][p]])
  /\ moved' = TRUE
  /\ UNCHANGED <<tree, seen, pc, commit, stale, after, stated>>
Next == Asks \/ ReadsContent \/ ReadsStatus \/ Compares \/ Writes \/ (\E p \in Files : Edit(p)) \/ (\E ps \in SUBSET Files : CommitOf(ps))
Spec == Init /\ [][Next]_vars

----------------------------------------------------------------------------
TypeOK ==
  /\ tree \in [Files -> Contents] /\ seen \in [Files -> Contents] /\ stated \in 0..Tip /\ commit \in 0..Tip
  /\ pc \in {"idle", "content", "status", "compare", "write"}

\* A Statement is about a commit that holds what the checks saw, what the run left
\* and, of every other file, what it began from, while nothing moves as it is written
\* (staleRefusal).
StatementsHold ==
  pc = "write" /\ ~stale /\ ~after /\ ~moved =>
    /\ \A p \in {"changed", "checked"} : commits[commit][p] = seen[p]
    /\ commits[commit]["other"] = commits[1]["other"]
Inv == TypeOK /\ StatementsHold
=============================================================================
