------------------------------ MODULE Journal -------------------------------
(***************************************************************************)
(* A session's file: what the loop appends to it, when it is synced, what  *)
(* a kill, a power loss or a failed write leaves of it, and how opening it *)
(* again repairs and recovers it (packages/core/src/session.ts,            *)
(* session-file.ts, session-lock.ts, reconcile-rule.ts).  Two sessions: a  *)
(* top one and the subagent one of its calls starts as a job, each with a  *)
(* file and a lock of its own.                                             *)
(*                                                                         *)
(* Abstracted: an entry is its type, its run and what it is about; the     *)
(* entries that only add text to the conversation are left out.  A run     *)
(* takes one reply, whose calls go in order; RunLoop has the order of      *)
(* everything else in a run.  A sync makes everything appended durable.    *)
(***************************************************************************)
EXTENDS Naturals, Sequences, FiniteSets, SequencesExt

CONSTANTS Top, Kid,  \* the two sessions
          Replies,   \* the sets of calls each session's first reply may make
          Kind,      \* what each call is: "read", "write", "ask" or "agent"
          MaxRun,    \* bound: runs of the two sessions
          MaxCrash   \* bound: kills, power losses and failed writes

Files == {Top, Kid}
CallsOf == [f \in Files |-> UNION Replies[f]]
Calls == CallsOf[Top] \cup CallsOf[Kid]

ASSUME JournalAssumption ==
  /\ Top # Kid /\ CallsOf[Top] \cap CallsOf[Kid] = {} /\ Calls \subseteq Nat /\ IsFiniteSet(Calls)
  /\ MaxRun \in Nat /\ MaxCrash \in Nat
  /\ \A c \in Calls : Kind[c] \in {"read", "write", "ask", "agent"}
  /\ \A c \in CallsOf[Kid] : Kind[c] # "agent"

Entry(type, run, of) == [type |-> type, run |-> run, of |-> of]

\* Where a session's writer is.  "missing" has no file, and no one holds the lock
\* of a "closed" one; "opening" and "children" recover it.
Stage == {"missing", "closed", "opening", "children", "idle", "asked", "replied", "calling",
          "answered", "settling", "settled", "syncing"}

VARIABLES
  file,      \* the whole entries in each file, as the system would read it
  tail,      \* how the file's last line ends
  synced,    \* how many of its entries are durable
  stage,     \* where its writer is
  next,      \* where the writer goes once what it appended is synced
  call,      \* the call it runs; 0 when none
  poisoned,  \* a write failed: the open session takes no other
  todo,      \* what recovery has yet to append
  by,        \* who holds it: the operator, a job, or its parent's recovery
  orphans,   \* the children whose job recovery ended, to be recovered too
  ran,       \* history: the calls that ran
  saved,     \* history: the questions whose answer the operator was told is saved
  crashes

vars == <<file, tail, synced, stage, next, call, poisoned, todo, by, orphans, ran, saved, crashes>>

-----------------------------------------------------------------------------
(* What is read from a sequence of entries. *)

About(s, type, of) == \E i \in DOMAIN s : s[i].type = type /\ s[i].of = of
InRun(s, type, run) == \E i \in DOMAIN s : s[i].type = type /\ s[i].run = run
RunsOf(s) == Cardinality({i \in DOMAIN s : s[i].type = "request"})
AskedIn(s) == UNION {s[i].of : i \in {k \in DOMAIN s : s[k].type = "reply"}}
JobsGoing(s) == {j \in {Kid} : About(s, "jobStart", j) /\ ~About(s, "jobEnd", j) /\ ~About(s, "jobUnknown", j)}
EachOf(S, F(_)) == LET q == SetToSeq(S) IN [i \in 1 .. Len(q) |-> F(q[i])]

\* toolMayChangeFiles() of the gate's rule, which the intent records.
MayChangeFiles(c) == Kind[c] \in {"write", "agent"}

\* repairs(): what recovery adds for a call, in `reconcile-rule.ts'.
RepairsRanAgain(seen, intended, repaired, readOnly) ==  \* mutant: an earlier repair does not count
  IF seen THEN "none" ELSE IF ~intended THEN "notRun" ELSE IF readOnly THEN "noEffect" ELSE "outcomeUnknown"
Repairs(seen, intended, repaired, readOnly) ==
  IF seen \/ repaired THEN "none"
  ELSE IF ~intended THEN "notRun"
  ELSE IF readOnly THEN "noEffect" ELSE "outcomeUnknown"

RepairOf(s, c) == Repairs(About(s, "result", c), About(s, "intent", c),
                          \E i \in DOMAIN s : s[i].type = "repair" /\ s[i].of[1] = c,
                          ~MayChangeFiles(c))

\* unsettledReceipt(): a run that may have changed files and left no receipt.
LacksReceipt(s, r) ==
  /\ \E i \in DOMAIN s : s[i].type = "intent" /\ s[i].run = r /\ MayChangeFiles(s[i].of)
  /\ ~InRun(s, "receipt", r)

\* recovery(): an answer that was saved is its call's result, every other call
\* without one is repaired, a job without an end ends unknown, and the last
\* run, when it has no end, is interrupted.
Answered(s) == {c \in AskedIn(s) : About(s, "answer", c) /\ ~About(s, "result", c)}
Repaired(s) == {c \in AskedIn(s) \ Answered(s) : RepairOf(s, c) # "none"}
Interrupted(s) == RunsOf(s) > 0 /\ ~InRun(s, "runEnd", RunsOf(s))

RecoveryOfTheLastRun(s) ==  \* mutant: the jobs of a run stay open
  LET r == RunsOf(s) IN
    EachOf(Answered(s), LAMBDA c : Entry("result", 1, c))
    \o EachOf(Repaired(s), LAMBDA c : Entry("repair", 1, <<c, RepairOf(s, c)>>))
    \o (IF Interrupted(s) /\ LacksReceipt(s, r) THEN <<Entry("receipt", r, "none")>> ELSE << >>)
    \o (IF Interrupted(s) THEN <<Entry("runEnd", r, "interrupted")>> ELSE << >>)
Recovery(s) ==
  LET r == RunsOf(s) IN
    EachOf(Answered(s), LAMBDA c : Entry("result", 1, c))
    \o EachOf(Repaired(s), LAMBDA c : Entry("repair", 1, <<c, RepairOf(s, c)>>))
    \o EachOf(JobsGoing(s), LAMBDA j : Entry("jobUnknown", 1, j))
    \o (IF Interrupted(s) /\ LacksReceipt(s, r) THEN <<Entry("receipt", r, "none")>> ELSE << >>)
    \o (IF Interrupted(s) THEN <<Entry("runEnd", r, "interrupted")>> ELSE << >>)

\* entryAt(): the place an entry must have to be read back.
Placed(s, i) ==
  LET runs == RunsOf(SubSeq(s, 1, i - 1)) IN
  /\ IF s[i].type = "request" THEN s[i].run = runs + 1 ELSE s[i].run \in 1 .. runs
  /\ s[i].type = "runEnd" /\ s[i].of = "completed" =>
       i > 1 /\ s[i - 1].type = "settled" /\ s[i - 1].of = "verified" /\ s[i - 1].run = s[i].run
  /\ s[i].type = "answer" =>  \* linkedClarification()
       /\ About(SubSeq(s, 1, i - 1), "intent", s[i].of)
       /\ ~About(SubSeq(s, 1, i - 1), "result", s[i].of) /\ ~About(SubSeq(s, 1, i - 1), "answer", s[i].of)
       /\ ~InRun(SubSeq(s, 1, i - 1), "runEnd", s[i].run)

-----------------------------------------------------------------------------
Init ==
  /\ file = [f \in Files |-> << >>]
  /\ tail = [f \in Files |-> "whole"]
  /\ synced = [f \in Files |-> 0]
  /\ stage = [f \in Files |-> IF f = Top THEN "idle" ELSE "missing"]
  /\ next = [f \in Files |-> "idle"]
  /\ call = [f \in Files |-> 0]
  /\ poisoned = [f \in Files |-> FALSE]
  /\ todo = [f \in Files |-> << >>]
  /\ by = [f \in Files |-> "operator"]
  /\ orphans = [f \in Files |-> {}]
  /\ ran = {} /\ saved = {}
  /\ crashes = 0

-----------------------------------------------------------------------------
(* The writer: recording.append() and recording.sync(). *)

Run(f) == RunsOf(file[f])
Open(f) == stage[f] \notin {"missing", "closed"}

\* A write and its sync are one step of the process, which holds its children too.
Turn(f) == \A g \in Files : g # f /\ stage[g] = "syncing" => by[f] = "operator" /\ by[g] = "operator"

\* An entry is appended; the loop goes on, or waits until it is synced.
AppendTo(f, e, to) ==
  /\ ~poisoned[f] /\ Turn(f)
  /\ file' = [file EXCEPT ![f] = Append(@, e)]
  /\ stage' = [stage EXCEPT ![f] = to]
  /\ UNCHANGED next

AppendSynced(f, e, to) ==
  /\ ~poisoned[f] /\ Turn(f)
  /\ file' = [file EXCEPT ![f] = Append(@, e)]
  /\ stage' = [stage EXCEPT ![f] = "syncing"]
  /\ next' = [next EXCEPT ![f] = to]

\* sync() returned: what waited for it happens.  Once its intent is synced a
\* call runs; once his answer is, the operator is told it is saved.
SyncedPastTheEnd(f) ==  \* mutant: counts an entry too many
  /\ stage[f] = "syncing" /\ ~poisoned[f]
  /\ synced' = [synced EXCEPT ![f] = Len(file[f]) + 1]
  /\ stage' = [stage EXCEPT ![f] = next[f]]
  /\ UNCHANGED <<file, tail, next, call, poisoned, todo, by, orphans, ran, saved, crashes>>
Synced(f) ==
  /\ stage[f] = "syncing" /\ ~poisoned[f]
  /\ synced' = [synced EXCEPT ![f] = Len(file[f])]
  /\ stage' = [stage EXCEPT ![f] = next[f]]
  /\ ran' = IF next[f] = "calling" THEN ran \cup {call[f]} ELSE ran
  /\ saved' = IF next[f] = "answered" THEN saved \cup {call[f]} ELSE saved
  /\ UNCHANGED <<file, tail, next, call, poisoned, todo, by, orphans, crashes>>

\* The disk refuses a write or a sync; part of the line may be there.
WriteFails(f) ==
  /\ Open(f) /\ stage[f] \notin {"opening", "children"} /\ ~poisoned[f] /\ crashes < MaxCrash
  /\ crashes' = crashes + 1
  /\ poisoned' = [poisoned EXCEPT ![f] = TRUE]
  /\ \E t \in {"whole", "torn"} : tail' = [tail EXCEPT ![f] = t]
  /\ UNCHANGED <<file, synced, stage, next, call, todo, by, orphans, ran, saved>>

-----------------------------------------------------------------------------
(* A run, as the loop writes it. *)

unrecovered == <<tail, synced, poisoned, todo, by, orphans, crashes>>

\* start(): the request is synced before the model hears of it; a child's comes
\* once its job's start is.
Request(f) ==
  /\ stage[f] = "idle" /\ Run(Top) + Run(Kid) < MaxRun
  /\ by[f] = "job" => About(SubSeq(file[Top], 1, synced[Top]), "jobStart", f)
  /\ AppendSynced(f, Entry("request", Run(f) + 1, "none"), "asked")
  /\ UNCHANGED <<unrecovered, call, ran, saved>>

\* replied(): a reply, with the calls it makes in a first run.
Reply(f) ==
  /\ stage[f] = "asked"
  /\ \E S \in Replies[f] : AppendTo(f, Entry("reply", Run(f), IF Run(f) = 1 THEN S ELSE {}), "replied")
  /\ UNCHANGED <<unrecovered, call, ran, saved>>

\* The calls of the run's reply without a result, and the first of them.
Unanswered(f) ==
  {c \in AskedIn(file[f]) : ~About(file[f], "result", c) /\ \E i \in DOMAIN file[f] :
     file[f][i].type = "reply" /\ file[f][i].run = Run(f) /\ c \in file[f][i].of}
IsNext(f, c) == c \in Unanswered(f) /\ \A d \in Unanswered(f) : c <= d

\* Mutant: a call runs with its intent only appended.
IntentOnlyAppended(f) ==
  /\ stage[f] = "replied"
  /\ \E c \in Calls :
       /\ IsNext(f, c)
       /\ call' = [call EXCEPT ![f] = c]
       /\ AppendTo(f, Entry("intent", Run(f), c), "calling")
       /\ ran' = ran \cup {c}
  /\ UNCHANGED <<unrecovered, saved>>
\* runCall(): the call's intent is synced before it runs.
Intent(f) ==
  /\ stage[f] = "replied"
  /\ \E c \in Calls :
       /\ IsNext(f, c)
       /\ call' = [call EXCEPT ![f] = c]
       /\ AppendSynced(f, Entry("intent", Run(f), c), "calling")
  /\ UNCHANGED <<unrecovered, ran, saved>>

\* Mutant: the operator is told before the answer is synced.
AnswerOnlyAppended(f) ==
  /\ stage[f] = "calling" /\ Kind[call[f]] = "ask" /\ ~About(file[f], "answer", call[f])
  /\ AppendTo(f, Entry("answer", Run(f), call[f]), "answered")
  /\ saved' = saved \cup {call[f]}
  /\ UNCHANGED <<unrecovered, call, ran>>
\* questionHost.ask(): the answer is synced before the form closes.
Answer(f) ==
  /\ stage[f] = "calling" /\ Kind[call[f]] = "ask" /\ ~About(file[f], "answer", call[f])
  /\ AppendSynced(f, Entry("answer", Run(f), call[f]), "answered")
  /\ UNCHANGED <<unrecovered, call, ran, saved>>

\* jobHost.start(): the child's session is created, and the job's start synced.
JobStart(f) ==
  /\ f = Top /\ stage[f] = "calling" /\ Kind[call[f]] = "agent" /\ stage[Kid] = "missing"
  /\ ~poisoned[f]
  /\ file' = [file EXCEPT ![f] = Append(@, Entry("jobStart", Run(f), Kid))]
  /\ stage' = [stage EXCEPT ![f] = "syncing", ![Kid] = "idle"]
  /\ next' = [next EXCEPT ![f] = "calling"]
  /\ by' = [by EXCEPT ![Kid] = "job"]
  /\ UNCHANGED <<tail, synced, poisoned, todo, orphans, crashes, call, ran, saved>>

\* The child's session is disposed, and its job's end is written whatever the
\* parent's run does meanwhile.
JobEnd(f) ==
  /\ f = Top /\ stage[f] \in {"asked", "replied", "calling", "answered", "settling", "settled"}
  /\ JobsGoing(file[f]) # {} /\ ~(by[Kid] = "job" /\ Open(Kid))
  /\ AppendSynced(f, Entry("jobEnd", Run(f), Kid), stage[f])
  /\ UNCHANGED <<unrecovered, call, ran, saved>>

\* The call's result; a call a stop or a failure ended has one too.
Result(f) ==
  /\ stage[f] \in {"calling", "answered"}
  /\ AppendTo(f, Entry("result", Run(f), call[f]), "replied")
  /\ call' = [call EXCEPT ![f] = 0]
  /\ UNCHANGED <<unrecovered, ran, saved>>

\* Once no job runs: the verifier's receipt, if it gives one, then its
\* settlement, synced.  The end of a job that ended may not be taken in.
Receipt(f) ==
  /\ stage[f] = "replied" /\ Unanswered(f) = {}
  /\ f = Top => ~(by[Kid] = "job" /\ Open(Kid))
  /\ \/ AppendTo(f, Entry("receipt", Run(f), "none"), "settling")
     \/ ~poisoned[f] /\ stage' = [stage EXCEPT ![f] = "settling"] /\ UNCHANGED <<file, next>>
  /\ UNCHANGED <<unrecovered, call, ran, saved>>

Settled(f) ==
  /\ stage[f] = "settling"
  /\ \E of \in {"verified", "not"} : AppendSynced(f, Entry("settled", Run(f), of), "settled")
  /\ UNCHANGED <<unrecovered, call, ran, saved>>

\* settle(): the run's end follows its verification.
RunEndCompleted(f) ==  \* mutant: whatever the verification said
  /\ stage[f] = "settled"
  /\ AppendSynced(f, Entry("runEnd", Run(f), "completed"), "idle")
  /\ UNCHANGED <<unrecovered, call, ran, saved>>
RunEnd(f) ==
  /\ stage[f] = "settled"
  /\ AppendSynced(f, Entry("runEnd", Run(f), IF Last(file[f]) = Entry("settled", Run(f), "verified") THEN "completed" ELSE "incomplete"), "idle")
  /\ UNCHANGED <<unrecovered, call, ran, saved>>

\* What an open session holds is let go.
Closed(f) ==
  /\ stage' = [stage EXCEPT ![f] = "closed"]
  /\ call' = [call EXCEPT ![f] = 0]
  /\ poisoned' = [poisoned EXCEPT ![f] = FALSE]
  /\ todo' = [todo EXCEPT ![f] = << >>]
  /\ orphans' = [orphans EXCEPT ![f] = {}]

\* dispose(): between runs, or once the file takes no more.
Dispose(f) ==
  /\ stage[f] = "idle" \/ poisoned[f]
  /\ Closed(f)
  /\ UNCHANGED <<file, tail, synced, next, by, ran, saved, crashes>>

-----------------------------------------------------------------------------
(* Opening it again. *)

\* readSessionFile(): a torn last line is cut, a whole one is given its newline,
\* and the repair is synced.
Read(f) ==
  /\ file' = file
  /\ tail' = [tail EXCEPT ![f] = "whole"]
  /\ synced' = [synced EXCEPT ![f] = IF tail[f] = "whole" THEN @ ELSE Len(file[f])]

\* Under its lock the file is read, and recovery() says what to add to it.
Opened(f, who) ==
  /\ stage[f] = "closed"
  /\ Read(f)
  /\ todo' = [todo EXCEPT ![f] = Recovery(file'[f])]
  /\ by' = [by EXCEPT ![f] = who]

OpenSession(f) ==
  /\ Opened(f, "operator")
  /\ stage' = [stage EXCEPT ![f] = IF todo'[f] = << >> THEN "idle" ELSE "opening"]
  /\ orphans' = [orphans EXCEPT ![f] = JobsGoing(file'[f])]
  /\ UNCHANGED <<next, call, poisoned, ran, saved, crashes>>

\* recovered(): what recovery adds is appended, then synced.
RecoveryAppends(f) ==
  /\ stage[f] = "opening" /\ todo[f] # << >>
  /\ file' = [file EXCEPT ![f] = Append(@, Head(todo[f]))]
  /\ todo' = [todo EXCEPT ![f] = Tail(@)]
  /\ UNCHANGED <<tail, synced, stage, next, call, poisoned, by, orphans, ran, saved, crashes>>

RecoverySynced(f) ==
  /\ stage[f] = "opening" /\ todo[f] = << >>
  /\ synced' = [synced EXCEPT ![f] = Len(file[f])]
  /\ stage' = [stage EXCEPT ![f] = IF by[f] = "recovery" THEN "closed" ELSE "children"]
  /\ UNCHANGED <<file, tail, next, call, poisoned, todo, by, orphans, ran, saved, crashes>>

\* recoverChild(): a child no one holds is recovered as opening it would.
RecoverChild(f, k) ==
  /\ stage[f] = "children" /\ k \in orphans[f]
  /\ orphans' = [orphans EXCEPT ![f] = @ \ {k}]
  /\ IF stage[k] = "closed"
     THEN /\ Opened(k, "recovery")
          /\ stage' = [stage EXCEPT ![k] = IF todo'[k] = << >> THEN "closed" ELSE "opening"]
     ELSE UNCHANGED <<file, tail, synced, todo, by, stage>>
  /\ UNCHANGED <<next, call, poisoned, ran, saved, crashes>>

\* Then the session is open.
ChildrenRecovered(f) ==
  /\ stage[f] = "children" /\ orphans[f] = {}
  /\ \A k \in Files : ~(by[k] = "recovery" /\ Open(k))
  /\ stage' = [stage EXCEPT ![f] = "idle"]
  /\ UNCHANGED <<file, tail, synced, next, call, poisoned, todo, by, orphans, ran, saved, crashes>>

\* A write of recovery fails: the lock is released.
RecoveryFails(f) ==
  /\ stage[f] = "opening" /\ crashes < MaxCrash
  /\ crashes' = crashes + 1
  /\ \E t \in {"whole", "torn"} : tail' = [tail EXCEPT ![f] = t]
  /\ Closed(f)
  /\ UNCHANGED <<file, synced, next, by, ran, saved>>

-----------------------------------------------------------------------------
(* The process and the machine. *)

\* How a last line may end: a write cut short, or a whole entry whose newline
\* is missing.
Tails(f, n) == {tail[f], "torn"} \cup (IF n > synced[f] THEN {"unterminated"} ELSE {})

Ends(F) ==
  /\ stage' = [f \in Files |-> IF f \in F /\ Open(f) THEN "closed" ELSE stage[f]]
  /\ call' = [f \in Files |-> IF f \in F THEN 0 ELSE call[f]]
  /\ poisoned' = [f \in Files |-> poisoned[f] /\ f \notin F]
  /\ todo' = [f \in Files |-> IF f \in F THEN << >> ELSE todo[f]]
  /\ orphans' = [f \in Files |-> IF f \in F THEN {} ELSE orphans[f]]

\* A process is killed, with the subagents and the recovery it holds: the
\* system keeps what was appended, and releases the locks.
Kill(f) ==
  /\ crashes < MaxCrash /\ Open(f) /\ by[f] = "operator"
  /\ crashes' = crashes + 1
  /\ LET F == {f} \cup (IF f = Top /\ by[Kid] # "operator" THEN {Kid} ELSE {}) IN
       /\ Ends(F)
       /\ tail' \in {t \in [Files -> {"whole", "torn", "unterminated"}] :
                      \A g \in Files : IF g \in F /\ Open(g) THEN t[g] \in Tails(g, Len(file[g])) ELSE t[g] = tail[g]}
  /\ UNCHANGED <<file, synced, next, by, ran, saved>>

\* Power is lost: what was not synced may be lost too.
PowerLoss ==
  /\ crashes < MaxCrash
  /\ crashes' = crashes + 1
  /\ Ends(Files)
  /\ \E keep \in [Files -> 0 .. Max({Len(file[f]) : f \in Files})] :
       /\ \A f \in Files : synced[f] <= keep[f] /\ keep[f] <= Len(file[f])
       /\ file' = [f \in Files |-> SubSeq(file[f], 1, keep[f])]
       /\ tail' \in {t \in [Files -> {"whole", "torn", "unterminated"}] :
                      \A f \in Files : t[f] \in IF stage[f] = "missing" THEN {"whole"} ELSE Tails(f, keep[f])}
  /\ UNCHANGED <<synced, next, by, ran, saved>>

-----------------------------------------------------------------------------
Next ==
  \/ \E f \in Files :
       \/ Synced(f) \/ WriteFails(f) \/ Request(f) \/ Reply(f) \/ Intent(f) \/ Answer(f)
       \/ JobStart(f) \/ JobEnd(f) \/ Result(f) \/ Receipt(f) \/ Settled(f) \/ RunEnd(f)
       \/ Dispose(f) \/ OpenSession(f) \/ RecoveryAppends(f) \/ RecoverySynced(f)
       \/ RecoverChild(f, Kid) \/ ChildrenRecovered(f) \/ RecoveryFails(f) \/ Kill(f)
  \/ PowerLoss

Spec == Init /\ [][Next]_vars

-----------------------------------------------------------------------------
(* Properties. *)

TypeOK ==
  /\ \A f \in Files :
       /\ \A i \in DOMAIN file[f] : file[f][i].run \in 1 .. MaxRun
       /\ synced[f] \in 0 .. Len(file[f])
       /\ stage[f] \in Stage /\ next[f] \in Stage
       /\ call[f] \in CallsOf[f] \cup {0}
  /\ tail \in [Files -> {"whole", "torn", "unterminated"}]
  /\ poisoned \in [Files -> BOOLEAN]
  /\ by \in [Files -> {"operator", "job", "recovery"}]
  /\ orphans \in [Files -> SUBSET {Kid}]
  /\ ran \subseteq Calls /\ saved \subseteq Calls
  /\ crashes \in 0 .. MaxCrash

\* Whatever the crash, the file reads back: each entry is where entryAt() wants
\* it, a completed end right after the verification that allowed it.
\* (session-file.ts wholeLines: otherwise the session never opens again.)
ReadsBack == \A f \in Files : \A i \in DOMAIN file[f] : Placed(file[f], i)

\* A call that ran is never told as one that did not, nor one that may have
\* changed files as one that only read.  (loop.ts runCall: its intent is synced
\* first; reconcile-rule.ts.)
RanCallsAreKnown ==
  \A c \in ran, f \in Files :
    /\ ~About(file[f], "repair", <<c, "notRun">>)
    /\ MayChangeFiles(c) => ~About(file[f], "repair", <<c, "noEffect">>)

\* Each call has one outcome at most, and each run and job one end and one
\* receipt, however often recovery itself is cut short.  (session.ts recovery:
\* "recovering twice adds nothing the second time".)
OutcomesOf(s, c) == {i \in DOMAIN s : \/ s[i].type = "result" /\ s[i].of = c
                                      \/ s[i].type = "repair" /\ s[i].of[1] = c}
OneOutcome ==
  \A f \in Files :
    /\ \A c \in CallsOf[f] : Cardinality(OutcomesOf(file[f], c)) <= 1
    /\ \A r \in 1 .. MaxRun, t \in {"receipt", "runEnd"} :
         Cardinality({i \in DOMAIN file[f] : file[f][i].type = t /\ file[f][i].run = r}) <= 1
    /\ Cardinality({i \in DOMAIN file[f] : file[f][i].type \in {"jobEnd", "jobUnknown"}}) <= 1

\* A session that comes to rest has nothing open: every call has an outcome and
\* every run an end; one that opens has ended every job too.  (session.ts
\* openSession: "the repairs are synced before anything runs".)
AtRestNothingIsOpen ==
  [][\A f \in Files : stage[f] # "idle" /\ stage'[f] = "idle" =>
       /\ \A c \in AskedIn(file'[f]) : OutcomesOf(file'[f], c) # {}
       /\ \A r \in 1 .. RunsOf(file'[f]) : InRun(file'[f], "runEnd", r)
       /\ stage[f] \in {"closed", "opening", "children"} => JobsGoing(file'[f]) = {}]_vars

\* An answer the operator was told is saved is its call's result once the
\* session is at rest, after any crash.  (loop.ts questionHost, session.ts
\* recovery.)
SavedAnswersSurvive ==
  \A c \in saved, f \in Files :
    stage[f] = "idle" /\ c \in AskedIn(file[f]) => About(file[f], "result", c)

\* What is durable is only appended to.  (session-file.ts: "never rewritten";
\* the tail's repair is the one place that cuts.)
DurableOnlyGrows ==
  [][\A f \in Files : /\ synced'[f] >= synced[f]
                      /\ SubSeq(file'[f], 1, synced[f]) = SubSeq(file[f], 1, synced[f])]_vars

\* Nothing is appended after a line cut short, which would spoil both.
\* (session.ts recording: a failed write poisons the session.)
NothingFollowsATear ==
  [][\A f \in Files : Len(file'[f]) > Len(file[f]) => tail[f] = "whole"]_vars

\* A session at rest has nothing open in its file, and a file's durable part
\* only grows: no recovery rewrites what an earlier one left, and nothing
\* follows a torn line.  (session.ts openSession and recovered, session-file.ts.)
RestsComplete == AtRestNothingIsOpen /\ DurableOnlyGrows /\ NothingFollowsATear

\* What recovered() says of the children whose job it found running: each "is
\* recovered too, so it ends `interrupted` with its parent."
ChildrenEndWithTheirParent ==
  stage[Top] = "idle" /\ About(file[Top], "jobUnknown", Kid) /\ by[Kid] # "operator" /\ stage[Kid] = "closed"
    => \A r \in 1 .. Run(Kid) : InRun(file[Kid], "runEnd", r)
=============================================================================
