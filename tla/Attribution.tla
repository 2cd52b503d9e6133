----------------------------- MODULE Attribution -----------------------------
(***************************************************************************)
(* What a request changed in one repository: the commit and the refs the   *)
(* request was admitted on, the state captured before its first tool that  *)
(* may change files, the state as it settles, and the comparison.  The     *)
(* agent and the operator edit, commit, switch branch, rewind and fetch at *)
(* any point of it; neither is told apart by what they leave.              *)
(***************************************************************************)
EXTENDS Naturals, FiniteSets, Sequences

CONSTANTS
  Paths,       \* the files
  Contents,    \* what a file may hold: 0 is no file
  Big,         \* the contents over the size a capture hashes
  MaxCommit, MaxEdit, MaxTime   \* bounds the commits, the edits and the seconds

Branches == {"main", "side"}
Empty == [p \in Paths |-> 0]

VARIABLES
  commits,     \* the commits there are: parent, tree, committer second
  refs,        \* where each branch points; 0 where there is no commit
  on,          \* the branch checked out, or "(detached)"
  at,          \* the commit checked out
  tree,        \* the files as they are
  clock, edits,
  pc,
  admitted,    \* the request's base, its start second and the tips recorded with it
  existed,     \* the commits the branches reached as the tips were recorded
  start, end,  \* the captures
  found        \* what the gate concluded of the unit
vars == <<commits, refs, on, at, tree, clock, edits, pc, admitted, existed, start, end, found>>

TreeOf(c) == IF c = 0 THEN Empty ELSE commits[c].tree
Ancestors(c) ==
  LET f[i \in 0..Len(commits)] == IF i = 0 THEN {} ELSE {i} \cup f[commits[i].parent] IN f[c]
Range(a, b) == Ancestors(b) \ Ancestors(a)
Dirty == {p \in Paths : tree[p] # TreeOf(at)[p]}

NoPrint == [status |-> "none", head |-> 0, branch |-> "", dirty |-> {}, blobs |-> Empty]
NoFinding == [eligible |-> FALSE, resolved |-> FALSE, changed |-> {}, inherited |-> {}, unmeasured |-> {}]
Init ==
  /\ commits = <<[parent |-> 0, tree |-> [p \in Paths |-> 1], time |-> 0]>>
  /\ \E c \in {0, 1} : refs = [b \in Branches |-> IF b = "main" THEN c ELSE 0] /\ at = c /\ tree = TreeOf(c)
  /\ on = "main" /\ clock = 0 /\ edits = 0 /\ pc = "idle"
  /\ admitted = [base |-> 0, second |-> 0, tips |-> {}, read |-> FALSE] /\ existed = {}
  /\ start = NoPrint /\ end = NoPrint /\ found = NoFinding

----------------------------------------------------------------------------
(* Git, under the agent and the operator.                                   *)

Git == <<commits, refs, on, at, tree>>
Gate == <<pc, admitted, existed, start, end, found>>
Works == edits < MaxEdit /\ edits' = edits + 1 /\ UNCHANGED <<clock, pc, admitted, existed, start, end, found>>
Moves(c) == at' = c /\ refs' = IF on = "(detached)" THEN refs ELSE [refs EXCEPT ![on] = c]
Edit ==
  /\ Works /\ UNCHANGED <<commits, refs, on, at>>
  /\ \E p \in Paths, v \in Contents : v # tree[p] /\ tree' = [tree EXCEPT ![p] = v]
Commit ==
  /\ Works /\ Len(commits) < MaxCommit /\ UNCHANGED <<on, tree>>
  /\ \E t \in {[p \in Paths |-> IF p \in s THEN tree[p] ELSE TreeOf(at)[p]] : s \in (SUBSET Dirty) \ {{}}} :
       commits' = Append(commits, [parent |-> at, tree |-> t, time |-> clock])
  /\ Moves(Len(commits) + 1)
\* Switching keeps the edits of files the two commits hold alike; other edits refuse it.
Switch ==
  /\ Works /\ UNCHANGED <<commits, refs>>
  /\ \E b \in Branches \cup {"(detached)"} :
       LET c == IF b = "(detached)" THEN at ELSE refs[b]
       IN  /\ b # on /\ c # 0
           /\ \A p \in Dirty : TreeOf(c)[p] = TreeOf(at)[p]
           /\ on' = b /\ at' = c /\ tree' = [p \in Paths |-> IF p \in Dirty THEN tree[p] ELSE TreeOf(c)[p]]
\* A branch is moved to any commit there is, with the files or without (reset --hard, --soft).
Reset ==
  /\ Works /\ UNCHANGED <<commits, on>>
  /\ \E c \in DOMAIN commits : c # at /\ Moves(c) /\ tree' \in {tree, TreeOf(c)}
\* A commit made elsewhere arrives, with its own second, on a branch of its own or none.
Fetch ==
  /\ Works /\ Len(commits) < MaxCommit /\ UNCHANGED <<on, at, tree>>
  /\ \E parent \in {0} \cup DOMAIN commits, p \in Paths, second \in 0..clock :
       commits' = Append(commits, [parent |-> parent, tree |-> [TreeOf(parent) EXCEPT ![p] = 2], time |-> second])
  /\ refs' \in {refs} \cup (IF on = "side" THEN {} ELSE {[refs EXCEPT !["side"] = Len(commits) + 1]})
Tick == clock < MaxTime /\ clock' = clock + 1 /\ UNCHANGED <<Git, edits, Gate>>

----------------------------------------------------------------------------
(* The captures and the comparison.                                         *)

Goes(from, to) == pc = from /\ pc' = to /\ UNCHANGED <<Git, clock, edits>>
Admit ==
  /\ Goes("idle", "tips") /\ admitted' = [base |-> at, second |-> clock, tips |-> {}, read |-> FALSE]
  /\ UNCHANGED <<existed, start, end, found>>
\* A tip the base reaches already is left out.
TipsUnmerged == {refs[b] : b \in Branches} \ (Ancestors(admitted.base) \cup {0})
RecordsTips ==
  /\ Goes("tips", "admitted")
  /\ \E read \in BOOLEAN : admitted' = [admitted EXCEPT !.tips = IF read THEN TipsUnmerged ELSE {}, !.read = read]
  /\ existed' = UNION {Ancestors(refs[b]) : b \in Branches}
  /\ UNCHANGED <<start, end, found>>

\* Git's status names the commit, the branch and the dirty paths; their files are hashed after.
Status == [status |-> "known", head |-> at, branch |-> on, dirty |-> Dirty, blobs |-> Empty]
Unknown == [NoPrint EXCEPT !.status = "unknown"]
Hashed(print) == [print EXCEPT !.blobs = [p \in Paths |-> IF p \in print.dirty THEN tree[p] ELSE 0]]
\* The first tool that may change files waits for the capture.
StartStatus == Goes("admitted", "hashing") /\ start' \in {Status, Unknown} /\ UNCHANGED <<admitted, existed, end, found>>
StartHash == Goes("hashing", "running") /\ start' \in (IF start.status = "known" THEN {Hashed(start), Unknown} ELSE {start}) /\ UNCHANGED <<admitted, existed, end, found>>
EndStatus == Goes("running", "ending") /\ end' \in {Status, Unknown} /\ UNCHANGED <<admitted, existed, start, found>>

Unmeasured(print) == {p \in print.dirty : print.blobs[p] \in Big}
Measured(print) == print.dirty \ Unmeasured(print)
Differs(s, e, p) == (p \in Measured(s)) # (p \in Measured(e)) \/ (p \in Measured(s) /\ s.blobs[p] # e.blobs[p])
Committed(e) == {p \in Paths : TreeOf(e.head)[p] # TreeOf(admitted.base)[p]}
AttributePath(s, e, p) ==
  CASE p \in Unmeasured(s) \cup Unmeasured(e) -> "unmeasured"
    [] Differs(s, e, p) \/ p \in Committed(e) -> "request"
    [] OTHER -> IF p \in Measured(s) THEN "inherited" ELSE "unchanged"
Of(s, e, how) == {p \in Paths : AttributePath(s, e, p) = how}
\* A repository settles as unchanged only when nothing moved at all.
FingerprintEligible(s, e) ==
  ~(s.status = "known" /\ e.status = "known") \/ s.head # e.head \/ (\E p \in Paths : Differs(s, e, p)) \/ Unmeasured(s) \cup Unmeasured(e) # {}

\* Of the commits since the base: on the branch of the start, descended from it, reached by
\* no ref there was, and made no earlier.
HistoryFacts(s, e) ==
  LET range == Range(admitted.base, e.head)
  IN  [sameBranch |-> s.branch # "(detached)" /\ s.branch = e.branch,
       descends |-> admitted.base \in Ancestors(e.head),
       exclusive |-> range \cap UNION {Ancestors(t) : t \in admitted.tips} = {},
       timely |-> \A c \in range : commits[c].time >= admitted.second]
HistoryRead(s, e) == admitted.base # 0 /\ e.head # 0 /\ admitted.read /\ s.status = "known"
\* As if the recorded tips were not looked at.
AttributableAnyway(s, e, read) ==
  /\ s.status = "known" /\ e.status = "known" /\ s.head = admitted.base
  /\ \/ e.head = admitted.base
     \/ read /\ HistoryRead(s, e) /\ (LET f == HistoryFacts(s, e) IN f.sameBranch /\ f.descends /\ f.timely)
HistoryAttributable(s, e, read) ==
  /\ s.status = "known" /\ e.status = "known" /\ s.head = admitted.base
  /\ \/ e.head = admitted.base
     \/ read /\ HistoryRead(s, e) /\ (LET f == HistoryFacts(s, e) IN f.sameBranch /\ f.descends /\ f.exclusive /\ f.timely)
\* An unreadable end keeps the whole difference from the base.
FromBase == {p \in Paths : tree[p] # TreeOf(admitted.base)[p]}
Finding(s, e, read) ==
  LET known == s.status = "known" /\ e.status = "known"
      resolved == HistoryAttributable(s, e, read)
      unmeasured == Unmeasured(s) \cup Unmeasured(e)
  IN  [eligible |-> FingerprintEligible(s, e) \/ ~resolved, resolved |-> resolved,
       changed |-> IF known THEN Of(s, e, "request") ELSE FromBase \ unmeasured,
       inherited |-> IF known THEN Of(s, e, "inherited") ELSE {}, unmeasured |-> unmeasured]
ReadsEnd == end' \in IF end.status = "known" THEN {Hashed(end), Unknown} ELSE {end}
Settles ==
  /\ Goes("ending", "settled") /\ ReadsEnd
  /\ \E read \in BOOLEAN : found' = Finding(start, end', read)
  /\ UNCHANGED <<admitted, existed, start>>
\* A run that was stopped keeps an inventory of what it left, verified by nothing.
Stops ==
  /\ Goes("ending", "left") /\ ReadsEnd
  /\ \E read \in BOOLEAN :
       LET f == Finding(start, end', read) IN found' = IF f.eligible THEN f ELSE [f EXCEPT !.changed = {}]
  /\ UNCHANGED <<admitted, existed, start>>
\* The answer to a question the request ended on goes on with it, from its base and its
\* first capture, with a second of its own.
Continues ==
  /\ Goes("settled", "running") /\ start.status = "known"
  /\ admitted' = [admitted EXCEPT !.second = clock] /\ end' = NoPrint /\ found' = NoFinding
  /\ UNCHANGED <<existed, start>>
Concluded == pc \in {"settled", "left"}
Done == Concluded /\ UNCHANGED vars
Next ==
  \/ Edit \/ Commit \/ Switch \/ Reset \/ Fetch \/ Tick
  \/ Admit \/ RecordsTips \/ StartStatus \/ StartHash \/ EndStatus \/ Settles \/ Stops \/ Continues \/ Done
Spec == Init /\ [][Next]_vars

----------------------------------------------------------------------------
TypeOK ==
  /\ at \in 0..Len(commits) /\ \A b \in Branches : refs[b] \in 0..Len(commits)
  /\ on \in Branches => refs[on] = at
  /\ tree \in [Paths -> Contents] /\ start.dirty \cup end.dirty \subseteq Paths
  /\ \A c \in DOMAIN commits : commits[c].parent < c

\* What a capture shows of a file: what it hashed where the file was dirty, else the commit's.
Seen(print, p) == IF p \in print.dirty THEN print.blobs[p] ELSE TreeOf(print.head)[p]

\* Work is the request's only where no commit in it was on a branch as the request began or is
\* older than it, and where it grew on the branch and from the commit the request began on:
\* what the operator had, fetched or switched to is never credited (historyFacts).
CreditsAreNew ==
  Concluded /\ found.resolved =>
    /\ start.head = admitted.base
    /\ \A c \in Range(admitted.base, end.head) : c \notin existed /\ commits[c].time >= admitted.second
    /\ end.head # admitted.base => start.branch = end.branch /\ admitted.base \in Ancestors(end.head)

\* Nothing that changed while the request ran is missed: a file that is not what the first
\* capture saw is listed, or named as not measured, and the unit is not judged unchanged;
\* and what is called inherited was left as it was (compareFingerprints).
NothingIsMissed ==
  Concluded /\ start.status = "known" /\ end.status = "known" =>
    /\ \A p \in Paths : Seen(start, p) # Seen(end, p) /\ found.resolved => found.eligible /\ p \in found.changed \cup found.unmeasured
    /\ \A p \in Paths : Seen(end, p) # TreeOf(admitted.base)[p] => p \in found.changed \cup found.inherited \cup found.unmeasured
    /\ \A p \in found.inherited : Seen(start, p) = Seen(end, p)
    /\ ~found.eligible => end.head = admitted.base /\ found.changed = {}

Inv == TypeOK /\ CreditsAreNew /\ NothingIsMissed
=============================================================================
