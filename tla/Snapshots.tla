----------------------------- MODULE Snapshots -----------------------------
(* The bases of requests in folders without a repository (core/base.ts,        *)
(* snapshot.ts): each folder's hidden Git directory, made, written to and     *)
(* pruned under one lock by sessions that are stopped and killed in between,   *)
(* while others edit the folders.                                             *)
EXTENDS Naturals, Sequences, FiniteSets

CONSTANTS Takers,  \* sessions, each about to take a request's base
          Folders, Repositories,  \* the units there are: not Git's own, or its own
          Large,   \* the folders whose other file may be over the limit from the start
          Units,   \* those of each session's folder, in order
          Kept,    \* snapshots kept past their day; 10 in the code
          MaxDay, MaxEdit, MaxTake, MaxCrash  \* bounds

Nobody == "nobody"
NoCommit == 0
MaxCommit == MaxTake * Cardinality(Folders)
(* A tree: what it holds of a folder's ordinary file, and whether it holds its *)
(* other one.  The index holds one at most.                                   *)
Trees == [file : 0 .. MaxEdit, other : BOOLEAN]
(* Git's directory of a folder: whether it is there, has a HEAD and all its   *)
(* objects, whether its exclude file names the other file, when it was last    *)
(* used, its index, its last commit, and the Git that keeps its index locked.  *)
NoStore == [dir |-> FALSE, head |-> FALSE, whole |-> TRUE, leftOut |-> FALSE, used |-> 0, index |-> {},
            tip |-> NoCommit, held |-> "no"]

VARIABLES day, edits, crashes,
          file, large,   \* the edit each folder's file is of, and whether its other one is over the limit
          store,         \* Git's directory of each, see NoStore
          commits,       \* each commit: its folder, its tree, and whether it is there
          lock,
          pc, stopped, takes,
          unit, named,   \* the unit a capture is at, and whether its scan left the other file out
          found,         \* the units it found
          since, had     \* when the unit's snapshot was last marked used, and what its file held since its scan
folders == <<file, large>>
capture == <<unit, named, found, had>>
vars == <<day, edits, crashes, folders, store, commits, lock, pc, stopped, takes, capture, since>>

Init ==
  /\ day = 1 /\ edits = 0 /\ crashes = 0 /\ lock = Nobody /\ commits = <<>>
  /\ file = [f \in Folders |-> 0] /\ large \in {f \in [Folders -> BOOLEAN] : \A g \in Folders \ Large : ~f[g]} /\ store = [f \in Folders |-> NoStore]
  /\ pc = [t \in Takers |-> "idle"] /\ stopped = [t \in Takers |-> FALSE] /\ takes = 0
  /\ unit = [t \in Takers |-> 1] /\ named = [t \in Takers |-> FALSE] /\ found = [t \in Takers |-> <<>>]
  /\ since = [t \in Takers |-> 0] /\ had = [t \in Takers |-> {}]

At(t) == Units[t][unit[t]]
Refused(t) == [folder |-> At(t), kind |-> "refused", commit |-> NoCommit, tooLarge |-> FALSE, day |-> 0]
Snapshot(t, commit) == [folder |-> At(t), kind |-> "snapshot", commit |-> commit, tooLarge |-> named[t], day |-> since[t]]

(* captureBase: the next unit once one is found; the capture ends with the last. *)
Finds(t, base) ==
  /\ found' = [found EXCEPT ![t] = Append(@, base)]
  /\ had' = [had EXCEPT ![t] = {}] /\ named' = [named EXCEPT ![t] = FALSE]
  /\ IF unit[t] < Len(Units[t]) THEN unit' = [unit EXCEPT ![t] = @ + 1] /\ pc' = [pc EXCEPT ![t] = "scans"]
     ELSE unit' = [unit EXCEPT ![t] = 1] /\ pc' = [pc EXCEPT ![t] = "idle"]

Captures(t) ==
  /\ pc[t] \in {"idle", "failed"} /\ takes < MaxTake /\ takes' = takes + 1
  /\ pc' = [pc EXCEPT ![t] = "scans"] /\ found' = [found EXCEPT ![t] = <<>>] /\ unit' = [unit EXCEPT ![t] = 1]
  /\ stopped' = [stopped EXCEPT ![t] = FALSE]
  /\ UNCHANGED <<day, edits, crashes, folders, store, commits, lock, named, since, had>>

(* repositoryBase: its commit, null before the first, or refused. *)
Names(t) ==
  /\ pc[t] = "scans" /\ At(t) \in Repositories
  /\ \E kind \in {"commit", "refused"} : Finds(t, [Refused(t) EXCEPT !.kind = kind])
  /\ UNCHANGED <<day, edits, crashes, folders, store, commits, lock, stopped, takes, since>>

(* takeSnapshot.  The scan, which may find the folder past its limits. *)
Scans(t) ==
  /\ pc[t] = "scans" /\ At(t) \notin Repositories
  /\ \/ Finds(t, Refused(t))
     \/ ~stopped[t] /\ named' = [named EXCEPT ![t] = large[At(t)]] /\ had' = [had EXCEPT ![t] = {file[At(t)]}]
        /\ pc' = [pc EXCEPT ![t] = "waits"] /\ UNCHANGED <<unit, found>>
  /\ UNCHANGED <<day, edits, crashes, folders, store, commits, lock, stopped, takes, since>>

(* The wait for the store ends with a stop, or in its time with an error; an  *)
(* error ends the capture unless it is stopped.                               *)
Fails(t) == IF stopped[t] THEN Finds(t, Refused(t)) ELSE pc' = [pc EXCEPT ![t] = "failed"] /\ UNCHANGED capture
GivesUp(t) ==
  /\ pc[t] = "waits"
  /\ \/ stopped[t] /\ Finds(t, Refused(t))
     \/ lock # Nobody /\ Fails(t)
  /\ UNCHANGED <<day, edits, crashes, folders, store, commits, lock, stopped, takes, since>>

Refuses(t) == Finds(t, Refused(t)) /\ lock' = Nobody
(* The exclude file and the mark of its use, which a directory half removed may *)
(* not take; then nothing after a stop.                                         *)
Prepares(t, made) ==
  \/ /\ ~made.whole /\ Fails(t) /\ lock' = Nobody
     /\ store' = [store EXCEPT ![At(t)] = made] /\ UNCHANGED since
  \/ /\ store' = [store EXCEPT ![At(t)] = [made EXCEPT !.leftOut = named[t], !.used = day]]
     /\ since' = [since EXCEPT ![t] = day]
     /\ IF stopped[t] THEN Refuses(t)
        ELSE pc' = [pc EXCEPT ![t] = "adds"] /\ lock' = t /\ UNCHANGED capture
Enters(t) ==
  /\ pc[t] = "waits" /\ lock = Nobody /\ ~stopped[t]
  /\ IF store[At(t)].head THEN Prepares(t, store[At(t)])
     ELSE /\ store' = [store EXCEPT ![At(t)].dir = TRUE] /\ lock' = t
          /\ pc' = [pc EXCEPT ![t] = "inits"] /\ UNCHANGED <<capture, since>>
  /\ UNCHANGED <<day, edits, crashes, folders, commits, stopped, takes>>

(* git init and git config; the first may have made a HEAD though one failed. *)
Inits(t) ==
  /\ pc[t] = "inits"
  /\ \/ \E whole \in {TRUE, store[At(t)].whole} : Prepares(t, [store[At(t)] EXCEPT !.head = TRUE, !.whole = whole])
     \/ \E head \in BOOLEAN : store' = [store EXCEPT ![At(t)].head = head] /\ Refuses(t) /\ UNCHANGED since
  /\ UNCHANGED <<day, edits, crashes, folders, commits, stopped, takes>>

(* git add -A: the file, and the other one unless it is left out; what the    *)
(* index holds already is not left out.                                       *)
Added(f) == [file |-> file[f], other |-> ~store[f].leftOut \/ \E tree \in store[f].index : tree.other]
Adds(t) ==
  /\ pc[t] = "adds"
  /\ \/ store[At(t)].whole /\ store[At(t)].held = "no"
        /\ store' = [store EXCEPT ![At(t)].index = {Added(At(t))}] /\ pc' = [pc EXCEPT ![t] = "commits"]
     \/ pc' = [pc EXCEPT ![t] = "prunes"] /\ UNCHANGED store
  /\ UNCHANGED <<day, edits, crashes, folders, commits, lock, stopped, takes, capture, since>>

Committed(f) ==
  /\ \E tree \in store[f].index : commits' = Append(commits, [folder |-> f, tree |-> tree, there |-> TRUE])
  /\ store' = [store EXCEPT ![f].tip = Len(commits) + 1, ![f].held = "no"]
Commits(t) ==
  /\ pc[t] = "commits"
  /\ \/ store[At(t)].held = "no" /\ Committed(At(t)) /\ pc' = [pc EXCEPT ![t] = "reads"]
     \/ pc' = [pc EXCEPT ![t] = "prunes"] /\ UNCHANGED <<commits, store>>
  /\ UNCHANGED <<day, edits, crashes, folders, lock, stopped, takes, capture, since>>

(* prune: past those kept, the most recently used, each not used in the last  *)
(* day; those used at one moment follow in any order.                          *)
Stores == {f \in Folders : store[f].dir}
KeptOnes ==
  {k \in SUBSET Stores : /\ Cardinality(k) = IF Cardinality(Stores) < Kept THEN Cardinality(Stores) ELSE Kept
                         /\ \A f \in k, g \in Stores \ k : store[f].used >= store[g].used}
Prunings == {{f \in Stores \ k : day - store[f].used > 1} : k \in KeptOnes}
Removed(gone) ==
  /\ store' = [f \in Folders |-> IF f \in gone THEN NoStore ELSE store[f]]
  /\ commits' = [n \in DOMAIN commits |-> [commits[n] EXCEPT !.there = @ /\ commits[n].folder \notin gone]]

(* rev-parse, and the store is pruned before the snapshot counts; a removal    *)
(* that fails ends the capture.                                                *)
Ends(t) ==
  /\ pc[t] \in {"reads", "prunes"} /\ lock' = Nobody
  /\ \E old \in Prunings :
       \/ pc[t] = "reads" /\ Removed(old) /\ Finds(t, Snapshot(t, store[At(t)].tip))
       \/ Removed(old) /\ Finds(t, Refused(t))
       \/ \E gone \in SUBSET old \ {old} : Removed(gone) /\ Fails(t)
  /\ UNCHANGED <<day, edits, crashes, folders, stopped, takes, since>>

-----------------------------------------------------------------------------
Stops(t) ==
  /\ pc[t] \notin {"idle", "failed"} /\ ~stopped[t] /\ stopped' = [stopped EXCEPT ![t] = TRUE]
  /\ UNCHANGED <<day, edits, crashes, folders, store, commits, lock, pc, takes, capture, since>>

(* Killed: its lock is free; the Git it ran may have made a HEAD, may go on    *)
(* with its index locked, or leave it so; of what it was removing, some is     *)
(* gone and some half gone.                                                    *)
Crashes(t) ==
  /\ pc[t] \notin {"idle", "failed"} /\ crashes < MaxCrash /\ crashes' = crashes + 1
  /\ pc' = [pc EXCEPT ![t] = "failed"] /\ lock' = IF lock = t THEN Nobody ELSE lock
  /\ CASE pc[t] = "inits" -> \E head \in BOOLEAN : store' = [store EXCEPT ![At(t)].head = head] /\ UNCHANGED commits
       [] pc[t] \in {"adds", "commits"} -> store' \in {store, [store EXCEPT ![At(t)].held = IF @ = "no" THEN pc[t] ELSE @]} /\ UNCHANGED commits
       [] pc[t] \in {"reads", "prunes"} /\ UNION Prunings # {} ->
            \E f \in UNION Prunings, head \in BOOLEAN :
                  /\ store' \in {[store EXCEPT ![f].head = head, ![f].whole = FALSE, ![f].used = 0, ![f].index = index] :
                                 index \in {{}, store[f].index}}
                  /\ commits' = [n \in DOMAIN commits |-> [commits[n] EXCEPT !.there = @ /\ commits[n].folder # f]]
       [] OTHER -> UNCHANGED <<store, commits>>
  /\ UNCHANGED <<day, edits, folders, stopped, takes, capture, since>>

(* A Git that outlived its session ends, its commit made or not. *)
Outlives(f) ==
  /\ store[f].held # "no" /\ \A t \in Takers : lock # t \/ At(t) # f
  /\ \/ store[f].held = "commits" /\ Committed(f)
     \/ store' \in {[store EXCEPT ![f].held = "no", ![f].index = tree] :
                     tree \in {store[f].index} \cup IF store[f].held = "adds" /\ store[f].whole THEN {{Added(f)}} ELSE {}} /\ UNCHANGED commits
  /\ UNCHANGED <<day, edits, crashes, folders, lock, pc, stopped, takes, capture, since>>

Edits(f) ==
  /\ edits < MaxEdit /\ edits' = edits + 1
  /\ \/ file' = [file EXCEPT ![f] = edits'] /\ UNCHANGED large
     \/ large' = [large EXCEPT ![f] = ~@] /\ UNCHANGED file
  /\ had' = [t \in Takers |-> IF At(t) = f /\ had[t] # {} THEN had[t] \cup {file'[f]} ELSE had[t]]
  /\ UNCHANGED <<day, crashes, store, commits, lock, pc, stopped, takes, unit, named, found, since>>

Passes ==
  /\ day < MaxDay /\ day' = day + 1
  /\ UNCHANGED <<edits, crashes, folders, store, commits, lock, pc, stopped, takes, capture, since>>

Next ==
  \/ \E t \in Takers : Captures(t) \/ Names(t) \/ Scans(t) \/ GivesUp(t) \/ Enters(t) \/ Inits(t) \/ Adds(t) \/ Commits(t)
                       \/ Ends(t) \/ Stops(t) \/ Crashes(t)
  \/ \E f \in Folders : Outlives(f) \/ Edits(f)
  \/ Passes
Spec == Init /\ [][Next]_vars

-----------------------------------------------------------------------------
Writing == {"inits", "adds", "commits", "reads", "prunes"}
TypeOK ==
  /\ lock \in Takers \cup {Nobody} /\ Len(commits) <= MaxCommit
  /\ \A t \in Takers : Len(found[t]) <= Len(Units[t]) /\ unit[t] \in DOMAIN Units[t]

(* One writer for the store. *)
OneWriter == \A t \in Takers : pc[t] \in Writing <=> lock = t

(* A snapshot's commit is there as long as its folder was used in the last    *)
(* day, whoever prunes or is killed meanwhile.                                *)
BasesAreKept ==
  \A t \in Takers : \A n \in DOMAIN found[t] :
    LET base == found[t][n] IN base.kind = "snapshot" /\ day - base.day <= 1 =>
      base.commit # NoCommit /\ commits[base.commit].there /\ commits[base.commit].folder = base.folder

(* What a snapshot does not hold it names, and its file is one the folder     *)
(* held since the scan.                                                       *)
LeftOutIsNamed ==
  \A t \in Takers : \A n \in DOMAIN found[t] :
    LET base == found[t][n] IN base.kind = "snapshot" => base.tooLarge \/ commits[base.commit].tree.other
BaseIsTheFolder ==
  \A t \in Takers : pc[t] = "reads" => commits[store[At(t)].tip].tree.file \in had[t]

Inv == TypeOK /\ OneWriter /\ BasesAreKept /\ LeftOutIsNamed /\ BaseIsTheFolder
=============================================================================
