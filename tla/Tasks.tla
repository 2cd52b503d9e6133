------------------------------- MODULE Tasks -------------------------------
(* The agent's task lists (core/tasks.ts): the book the running loop keeps of *)
(* each run's list and of what a request inherits, and the one a resumed       *)
(* session replays from its journal, over updates, refused ones, compactions   *)
(* and crashes that lose what was not synced.                                  *)
EXTENDS Naturals, Sequences, FiniteSets, SequencesExt

CONSTANTS Ids,      \* the ids a provider gives calls, used again
          Lists,    \* what an update may hold, see IsList
          Empty,    \* the list of them with no task
          Given,    \* the replies a model may give, each a sequence of its calls' ids and lists
          Journals, \* what a session's file may hold when it is opened
          MaxRun, MaxTurn  \* bounds on the runs, and on the replies and compactions

(* A list: its tasks in progress, its blank titles, its longest title and its  *)
(* size in bytes.                                                              *)
IsList(l) == {l.inProgress, l.blank, l.longest, l.bytes} \subseteq Nat
TaskListAccepted(l) == l.inProgress <= 1 /\ l.blank = 0 /\ l.longest <= 1024 /\ l.bytes <= 16384
LinkAccepted(parent, run) == parent >= 1 /\ parent < run

RunIds == 1 .. MaxRun
Nil == [kind |-> "none"]
Unavailable == [kind |-> "unavailable"]
ListOf(list, run, id) == [kind |-> "list", tasks |-> list, run |-> run, callId |-> id]
NoBook == [own |-> [r \in RunIds |-> Nil], parents |-> [r \in RunIds |-> 0], calls |-> [r \in RunIds, i \in Ids |-> Nil]]
Invalid == MaxRun + 1  \* a link that names no earlier run

VARIABLES journal, synced,  \* the session's file, and how much of it a crash leaves
          live,     \* the loop's book
          runs,     \* the runs it has
          reply,    \* the calls of the reply it works on, from the next on
          answered, \* the ids of that reply answered already
          saving,   \* the update whose result is written and not yet synced
          heard,    \* the list the operator last heard of in each run
          repeated  \* a reply gave two updates one id
vars == <<journal, synced, live, runs, reply, answered, saving, heard, repeated>>

-----------------------------------------------------------------------------
(* TaskBook. *)
Linked(book, run, parent) == [book EXCEPT !.parents[run] = IF LinkAccepted(parent, run) THEN parent ELSE Invalid]
Saved(book, run, id, list) ==
  [book EXCEPT !.own[run] = IF list \in Lists /\ TaskListAccepted(list) THEN ListOf(list, run, id) ELSE Unavailable]
State(book, run) ==
  LET at[r \in RunIds] == CASE book.own[r] # Nil -> book.own[r]
                            [] book.own[r] = Nil /\ book.parents[r] = 0 -> Nil
                            [] book.own[r] = Nil /\ book.parents[r] = Invalid -> Unavailable
                            [] OTHER -> at[book.parents[r]]
  IN  at[run]
Apply(book, entry) ==
  CASE entry.type = "continues" -> Linked(book, entry.run, entry.parent)
    [] entry.type = "assistant" ->
         [book EXCEPT !.calls = [k \in RunIds \X Ids |->
            LET given == {n \in DOMAIN entry.calls : entry.run = k[1] /\ entry.calls[n].id = k[2]}
            IN  IF given = {} THEN @[k] ELSE entry.calls[CHOOSE n \in given : \A m \in given : m <= n].list]]
    [] entry.type = "result" -> IF entry.error THEN book ELSE Saved(book, entry.run, entry.id, book.calls[entry.run, entry.id])
    [] OTHER -> book
Replay(entries) == FoldLeft(Apply, NoBook, entries)

(* tasksSection, tasksNotice: what a compaction and a request that continues   *)
(* another say of the list.                                                    *)
Section(state, kept) ==
  IF state.kind # "list" THEN state
  ELSE IF state.tasks = Empty THEN Nil
  ELSE IF kept THEN [kind |-> "below"] ELSE [kind |-> "list", tasks |-> state.tasks]
Notice(state) == Section(state, FALSE)

-----------------------------------------------------------------------------
Requests(entries) == {n \in DOMAIN entries : entries[n].type = "request"}
Opened(entries) ==
  /\ journal' = entries /\ synced' = Len(entries) /\ live' = Replay(entries)
  /\ runs' = Cardinality(Requests(entries))
  /\ heard' = [r \in RunIds |-> Replay(entries).own[r]]
  /\ reply' = <<>> /\ answered' = {} /\ saving' = FALSE

Init ==
  /\ journal \in Journals /\ synced = Len(journal) /\ live = Replay(journal)
  /\ runs = Cardinality(Requests(journal))
  /\ heard = [r \in RunIds |-> live.own[r]]
  /\ reply = <<>> /\ answered = {} /\ saving = FALSE /\ repeated = FALSE

Room == Cardinality({n \in DOMAIN journal : journal[n].type \in {"assistant", "compaction"}}) < MaxTurn

(* start: the request, the run it continues and what it is told of that run's *)
(* list are in the file before anything runs.                                  *)
Starts(parent) ==
  /\ reply = <<>> /\ runs < MaxRun /\ parent \in 0 .. runs
  /\ LET run == runs + 1
         book == IF parent = 0 THEN live ELSE Linked(live, run, parent)
         said == Notice(State(book, run))
         asked == [type |-> "request", run |-> run]
         link == [type |-> "continues", run |-> run, parent |-> parent]
     IN  /\ live' = book /\ runs' = run
         /\ journal' = journal \o IF parent = 0 THEN <<asked>>
                                  ELSE IF said = Nil THEN <<asked, link>>
                                  ELSE <<asked, link, [type |-> "notice", run |-> run, said |-> said]>>
  /\ synced' = Len(journal')
  /\ UNCHANGED <<reply, answered, saving, heard, repeated>>

Replies(calls) ==
  /\ reply = <<>> /\ runs > 0 /\ Room
  /\ journal' = Append(journal, [type |-> "assistant", run |-> runs, calls |-> calls])
  /\ reply' = calls /\ answered' = {}
  /\ repeated' = (repeated \/ \E m, n \in DOMAIN calls : m < n /\ calls[m].id = calls[n].id)
  /\ UNCHANGED <<synced, live, runs, saving, heard>>

(* runCalls: a call whose id another of the reply took neither runs nor has a *)
(* result; the file is synced before one runs.                                 *)
Skips ==
  /\ reply # <<>> /\ ~saving /\ Head(reply).id \in answered
  /\ reply' = Tail(reply)
  /\ UNCHANGED <<journal, synced, live, runs, answered, saving, heard, repeated>>

(* update_tasks: its result is written, and its list synced before anyone     *)
(* hears of it.                                                                *)
Answers ==
  /\ reply # <<>> /\ ~saving /\ Head(reply).id \notin answered
  /\ LET accepted == TaskListAccepted(Head(reply).list)
     IN  /\ journal' = Append(journal, [type |-> "result", run |-> runs, id |-> Head(reply).id, error |-> ~accepted])
         /\ saving' = accepted
         /\ IF accepted THEN UNCHANGED <<reply, answered>>
            ELSE reply' = Tail(reply) /\ answered' = answered \cup {Head(reply).id}
  /\ synced' = Len(journal)
  /\ UNCHANGED <<live, runs, heard, repeated>>
Hears ==
  /\ saving /\ saving' = FALSE
  /\ synced' = Len(journal)
  /\ live' = Saved(live, runs, Head(reply).id, Head(reply).list)
  /\ heard' = [heard EXCEPT ![runs] = live'.own[runs]]
  /\ reply' = Tail(reply) /\ answered' = answered \cup {Head(reply).id}
  /\ UNCHANGED <<journal, runs, repeated>>

(* compact: its head says where the list stands. *)
Compacts(kept) ==
  /\ reply = <<>> /\ runs > 0 /\ Room
  /\ journal' = Append(journal, [type |-> "compaction", run |-> runs, kept |-> kept, said |-> Section(State(live, runs), kept)])
  /\ synced' = Len(journal')
  /\ UNCHANGED <<live, runs, reply, answered, saving, heard, repeated>>

(* A crash keeps what was synced, and of the rest what the system wrote; the  *)
(* session is opened again.                                                    *)
Crashes == \E n \in synced .. Len(journal) : Opened(SubSeq(journal, 1, n)) /\ UNCHANGED repeated

Next ==
  \/ \E parent \in 0 .. MaxRun : Starts(parent)
  \/ \E calls \in Given : Replies(calls)
  \/ Skips \/ Answers \/ Hears \/ Crashes \/ \E kept \in BOOLEAN : Compacts(kept)
Spec == Init /\ [][Next]_vars

-----------------------------------------------------------------------------
TypeOK ==
  /\ runs \in 0 .. MaxRun /\ synced \in 0 .. Len(journal)
  /\ \A r \in RunIds : live.own[r].kind \in {"none", "list", "unavailable"} /\ live.parents[r] \in 0 .. Invalid

(* "The live loop and replay both drive it, so they agree on every state":     *)
(* while no reply gave two updates one id.  The loop runs the first of such    *)
(* two, and replay reads the arguments of the last.                            *)
BooksAgree ==
  LET replayed == Replay(journal) IN ~saving /\ ~repeated => \A r \in RunIds : State(replayed, r) = State(live, r)

(* What the operator heard of a run's list, a crash does not take back. *)
HeardIsKept ==
  LET kept == Replay(SubSeq(journal, 1, synced)) IN ~repeated => \A r \in RunIds : heard[r] # Nil => kept.own[r] = heard[r]

(* A compaction replayed, and a notice, say what they said then. *)
SaidIsReplayed ==
  ~repeated => \A n \in DOMAIN journal : LET e == journal[n] IN
    /\ e.type = "compaction" => e.said = Section(State(Replay(SubSeq(journal, 1, n)), e.run), e.kept)
    /\ e.type = "notice" => e.said = Notice(State(Replay(SubSeq(journal, 1, n)), e.run))

(* A list is always one within the bounds that a run of the same request made: *)
(* this one or one it continues, by links that lead to earlier runs.           *)
Ancestors(r) ==
  LET up[s \in RunIds] == {s} \cup IF live.parents[s] \in 1 .. (s - 1) THEN up[live.parents[s]] ELSE {} IN up[r]
ListsAreItsRequests ==
  \A r \in RunIds : State(live, r).kind = "list" =>
    TaskListAccepted(State(live, r).tasks) /\ State(live, r).run \in Ancestors(r)

Inv == TypeOK /\ BooksAgree /\ HeardIsKept /\ SaidIsReplayed /\ ListsAreItsRequests
=============================================================================
