----------------------------- MODULE Operations -----------------------------
(* The ledger of the gate's operations: what each pass over a request plans,  *)
(* starts and ends, several at once, and what a stop leaves of it             *)
(* (operations.ts, with the runners that publish to it).  A step runs its     *)
(* threads at once and is over when all are; a stop aborts it and waits.      *)
EXTENDS Naturals, Sequences, FiniteSets, SequencesExt, FiniteSetsExt

CONSTANTS Steps,    \* the steps of a pass: each a sequence of threads of works, see Work
          MaxPass,  \* bound on the passes over the first request, one fewer over each later one
          MaxRun    \* bound on the requests

(* A work: its name, whether it is announced before its step starts, the      *)
(* work it belongs to, whether it is an opinion (which ends done), and        *)
(* whether its runner starts it after a stop all the same.                    *)
IsWork(w) == {w.planned, w.opinion, w.anyway} \subseteq BOOLEAN

VARIABLES all,      \* #all: the operations of this request, in the order published
          attempts, \* #attempts: how each pass closed, "open" meanwhile
          request,  \* #run
          pc,       \* where the gate is
          step,     \* the step it is in
          at,       \* what each thread of the step does next
          live,     \* the operation each thread runs, by its place in `all` or Nowhere
          left,     \* the threads a thrown error left behind: their step, thread and place
          aborted,  \* the step's signal
          told,     \* unfinished(), as the stopped receipt quotes it
          met,      \* which operations ran at once, as it happened
          waste     \* operations that threads left behind have started

vars == <<all, attempts, request, pc, step, at, live, left, aborted, told, met, waste>>

Nowhere == 0
generation == Len(attempts)
Threads == 1..Len(Steps[step])
Work(t, k) == Steps[step][t][k]
Now == {k \in DOMAIN all : all[k].gen = generation}

Op(w, parent) == [name |-> w.name, gen |-> generation, state |-> "planned", result |-> "none",
                  opinion |-> w.opinion, parent |-> parent, concurrent |-> FALSE]

Init ==
  /\ all = <<>> /\ attempts = <<>> /\ request = 1
  /\ pc = "agent" /\ step = 1 /\ at = <<>> /\ live = <<>> /\ left = {}
  /\ aborted = FALSE /\ told = {} /\ met = {} /\ waste = {}

-----------------------------------------------------------------------------
(* beginRun and beginAttempt.                                                 *)
BeginsRun ==
  /\ pc \in {"agent", "end"} /\ attempts # <<>> /\ request < MaxRun
  /\ pc' = "agent"
  /\ request' = request + 1
  /\ all' = <<>> /\ attempts' = <<>> /\ met' = {} /\ waste' = {} /\ told' = {}
  /\ UNCHANGED <<step, at, live, left, aborted>>

BeginsAttempt ==
  /\ pc = "agent" /\ generation + request <= MaxPass
  /\ attempts' = Append(attempts, "open")
  /\ pc' = "plan" /\ step' = 1 /\ aborted' = FALSE /\ told' = {}
  /\ UNCHANGED <<all, request, at, live, left, met, waste>>

(* A step announces the works it plans, before any of them starts.            *)
PlannedOf(t) == SelectSeq(Steps[step][t], LAMBDA w : w.planned)
PlaceOf(name) == Max({k \in Now : all[k].name = name} \cup {Nowhere})
Plans ==
  /\ pc = "plan"
  /\ all' = all \o LET ws == FlattenSeq([t \in Threads |-> PlannedOf(t)])
                   IN  [k \in DOMAIN ws |-> Op(ws[k], ws[k].parent)]
  /\ at' = [t \in Threads |-> 1] /\ live' = [t \in Threads |-> Nowhere]
  /\ pc' = "run"
  /\ UNCHANGED <<attempts, request, step, left, aborted, told, met, waste>>

(* #related: one is an ancestor or descendant of the other.                   *)
Above(ops, j, k) ==
  \/ ops[k].parent = ops[j].name
  \/ \E m \in DOMAIN ops : ops[m].gen = ops[k].gen /\ ops[m].name = ops[k].parent /\ ops[m].parent = ops[j].name
Related(ops, j, k) == ops[j].gen = ops[k].gen /\ (Above(ops, j, k) \/ Above(ops, k, j))

(* Only the operation that starts is told to run with others.                 *)
StartAlone(ops, k) ==
  LET others == {j \in DOMAIN ops : ops[j].state = "running" /\ ~Related(ops, j, k)}
  IN  [ops EXCEPT ![k] = [@ EXCEPT !.state = "running", !.concurrent = others # {}]]

(* start: the planned operation, or one published now; both it and the        *)
(* unrelated ones that run then ran with others.                              *)
StartOf(ops, k) ==
  LET others == {j \in DOMAIN ops : ops[j].state = "running" /\ ~Related(ops, j, k)}
  IN  [j \in DOMAIN ops |->
         IF j = k THEN [ops[j] EXCEPT !.state = "running", !.concurrent = others # {}]
         ELSE IF j \in others THEN [ops[j] EXCEPT !.concurrent = TRUE] ELSE ops[j]]
Meets(ops, k) == {{j, k} : j \in {j \in DOMAIN ops : j # k /\ ops[j].state = "running" /\ ~Related(ops, j, k)}}

StartsWork(t) ==
  /\ pc = "run" /\ live[t] = Nowhere /\ at[t] <= Len(Steps[step][t])
  /\ LET w == Work(t, at[t])
         ops == IF w.planned THEN all ELSE Append(all, Op(w, w.parent))
         k == IF w.planned THEN PlaceOf(w.name) ELSE Len(ops)
     IN  /\ ~aborted \/ w.anyway
         /\ all' = StartOf(ops, k) /\ met' = met \cup Meets(ops, k)
         /\ live' = [live EXCEPT ![t] = k]
  /\ UNCHANGED <<attempts, request, pc, step, at, left, aborted, told, waste>>

(* A runner passes over a work: a model's faults after a main run that did    *)
(* not pass, a control nothing calls for, the works left at a stop, but for   *)
(* those it starts all the same.                                              *)
PassesOver(t) ==
  /\ pc = "run" /\ live[t] = Nowhere /\ at[t] <= Len(Steps[step][t])
  /\ (aborted /\ ~Work(t, at[t]).anyway) \/ Work(t, at[t]).parent # "none"
  /\ at' = [at EXCEPT ![t] = @ + 1]
  /\ UNCHANGED <<all, attempts, request, pc, step, live, left, aborted, told, met, waste>>

(* reused: work of the same content as before is told as ended, never run.    *)
Reuses(t) ==
  /\ pc = "run" /\ ~aborted /\ live[t] = Nowhere /\ at[t] <= Len(Steps[step][t])
  /\ LET w == Work(t, at[t])
     IN  /\ ~w.planned /\ ~w.opinion
         /\ all' = Append(all, [Op(w, w.parent) EXCEPT !.state = "ended", !.result = "passed"])
  /\ at' = [at EXCEPT ![t] = @ + 1]
  /\ UNCHANGED <<attempts, request, pc, step, live, left, aborted, told, met, waste>>

(* end: of an operation that runs, and of no other.                           *)
EndOf(ops, k, result) ==
  IF k \in DOMAIN ops /\ ops[k].state = "running"
  THEN [ops EXCEPT ![k].state = "ended", ![k].result = result] ELSE ops
Results(op) == IF op.opinion THEN {"done"} ELSE IF aborted THEN {"cancelled", "passed"} ELSE {"passed", "failed"}

EndsWork(t) ==
  /\ pc = "run" /\ live[t] # Nowhere
  /\ \E result \in Results(all[live[t]]) : all' = EndOf(all, live[t], result)
  /\ live' = [live EXCEPT ![t] = Nowhere] /\ at' = [at EXCEPT ![t] = @ + 1]
  /\ UNCHANGED <<attempts, request, pc, step, left, aborted, told, met, waste>>

(* unfinished(), read as the stopped receipt is written, before the close.    *)
Unfinished(ops) ==
  {ops[k].name : k \in {k \in Now : ops[k].state \in {"planned", "running"} \/ ops[k].result \in {"cancelled", "interrupted"}}}

(* A runner that throws ends its operation as interrupted and the pass with   *)
(* it, as stopped whether the operator stopped it or not; the other threads   *)
(* of its step go on, awaited by nobody.                                      *)
Throws(t) ==
  /\ pc = "run" /\ live[t] # Nowhere
  /\ all' = EndOf(all, live[t], "interrupted")
  /\ left' = left \cup {[step |-> step, thread |-> u, at |-> at[u], live |-> live[u], request |-> request] :
                          u \in {u \in Threads \ {t} : at[u] <= Len(Steps[step][u])}}
  /\ told' = IF aborted THEN Unfinished(all') ELSE {}
  /\ pc' = "close" /\ live' = [u \in Threads |-> Nowhere]
  /\ UNCHANGED <<attempts, request, step, at, aborted, met, waste>>

(* The operator stops: the step is aborted, and over once its threads are.    *)
Stop ==
  /\ pc = "run" /\ ~aborted
  /\ aborted' = TRUE
  /\ UNCHANGED <<all, attempts, request, pc, step, at, live, left, told, met, waste>>

StepOver == \A t \in Threads : live[t] = Nowhere /\ at[t] > Len(Steps[step][t])
StepEnds ==
  /\ pc = "run" /\ StepOver /\ ~aborted /\ step < Len(Steps)
  /\ step' = step + 1 /\ pc' = "plan"
  /\ UNCHANGED <<all, attempts, request, at, live, left, aborted, told, met, waste>>

(* closeAttempt: what never began is not_started, what began and reported no  *)
(* end is interrupted.                                                        *)
Closed(op) ==
  IF op.gen # generation \/ op.state = "ended" THEN op
  ELSE IF op.state = "planned" THEN [op EXCEPT !.state = "ended", !.result = "not_started"]
  ELSE [op EXCEPT !.state = "ended", !.result = "interrupted"]
CloseAttempt(closedAs) ==
  /\ all' = [k \in DOMAIN all |-> Closed(all[k])]
  /\ attempts' = [attempts EXCEPT ![generation] = closedAs]
  /\ UNCHANGED <<request, step, at, live, left, aborted, told, met, waste>>

(* A step that sends something back ends the pass for the agent; the last one *)
(* that sends nothing back settles it.                                        *)
SendsBack == pc = "run" /\ StepOver /\ ~aborted /\ pc' = "agent" /\ CloseAttempt("returned_to_agent")
Settles == pc = "run" /\ StepOver /\ ~aborted /\ step = Len(Steps) /\ pc' = "end" /\ CloseAttempt("settled")

(* A stopped pass is told once its step is over, and closed once its receipt  *)
(* has the inventory of what the run left.                                    *)
Tells ==
  /\ pc = "run" /\ StepOver /\ aborted
  /\ told' = Unfinished(all) /\ pc' = "close"
  /\ UNCHANGED <<all, attempts, request, step, at, live, left, aborted, met, waste>>
Stopped == pc = "close" /\ pc' = "end" /\ CloseAttempt("stopped")

-----------------------------------------------------------------------------
(* A thread left behind ends its operation, or starts its next one under      *)
(* whatever request and pass the ledger is at by then.                        *)
LeftBehind(l) ==
  /\ left' = (left \ {l}) \cup
       (IF l.live # Nowhere /\ l.at < Len(Steps[l.step][l.thread]) THEN {[l EXCEPT !.live = Nowhere, !.at = @ + 1]} ELSE {})
  /\ IF l.live # Nowhere
     THEN /\ IF l.request = request THEN \E result \in Results(all[l.live]) : all' = EndOf(all, l.live, result)
                                     ELSE all' = all
          /\ UNCHANGED <<waste, met>>
     ELSE LET w == Steps[l.step][l.thread][l.at]
              ops == Append(all, Op(w, w.parent))
          IN  /\ all' = StartOf(ops, Len(ops)) /\ met' = met \cup Meets(ops, Len(ops))
              /\ waste' = waste \cup {Len(ops)}
  /\ UNCHANGED <<attempts, request, pc, step, at, live, aborted, told>>

Next ==
  \/ BeginsRun \/ BeginsAttempt \/ Plans
  \/ (pc = "run" /\ \E t \in Threads : StartsWork(t) \/ Reuses(t) \/ PassesOver(t) \/ EndsWork(t) \/ Throws(t))
  \/ Stop \/ StepEnds \/ SendsBack \/ Settles \/ Tells \/ Stopped
  \/ \E l \in left : LeftBehind(l)
Spec == Init /\ [][Next]_vars

-----------------------------------------------------------------------------
(* ledger: passes that went back folded, then the latest ended operations,    *)
(* a count of the earlier ones, and what runs.                                *)
Recent == 3
Returned == {g \in DOMAIN attempts : attempts[g] = "returned_to_agent"}
Folded(g) == Cardinality({k \in DOMAIN all : all[k].gen = g})
Latest == {k \in DOMAIN all : all[k].gen \notin Returned}
Done == {k \in Latest : all[k].state = "ended"}
Shown == {k \in Done : Cardinality({j \in Done : j > k}) < Recent}
Earlier == Cardinality(Done) - Cardinality(Shown)
Running == {k \in Latest : all[k].state = "running"}

TypeOK ==
  /\ pc \in {"agent", "plan", "run", "close", "end"}
  /\ \A k \in DOMAIN all : all[k].state \in {"planned", "running", "ended"}

(* No operation of a pass is left open once the pass closed, and none is      *)
(* added to it or started in it later, but for what a thread that a thrown    *)
(* error left behind goes on to start.                                        *)
ClosedPassesStayClosed ==
  \A k \in DOMAIN all \ waste : attempts[all[k].gen] # "open" => all[k].state = "ended"

(* An operation reads as concurrent exactly when it ran while one that is     *)
(* neither its ancestor nor its descendant ran.                               *)
ConcurrencyIsTold ==
  \A k \in DOMAIN all : all[k].concurrent <=> \E pair \in met : k \in pair

(* A stopped receipt names everything the stop cut short or kept from         *)
(* starting, opinions apart: whatever of the pass has no result of its own.   *)
StopsAreTold ==
  pc = "end" /\ aborted =>
    \A k \in Now \ waste : all[k].name \in told \/ all[k].result \in {"passed", "failed", "done"}

(* The ledger counts every operation once: each is in a folded row, among the *)
(* earlier ones, shown, running, or planned and shown nowhere yet.            *)
EveryOperationIsShown ==
  Cardinality({k \in DOMAIN all : all[k].state # "planned" \/ all[k].gen \in Returned})
    = FoldSet(LAMBDA g, n : n + Folded(g), 0, Returned) + Earlier + Cardinality(Shown) + Cardinality(Running)

(* What ended never ends again another way within its request.                *)
EndsAreFinal ==
  request' = request =>
    \A k \in DOMAIN all : all[k].state = "ended" => all'[k] = [all[k] EXCEPT !.concurrent = all'[k].concurrent]

Inv == TypeOK /\ ClosedPassesStayClosed /\ ConcurrencyIsTold /\ StopsAreTold /\ EveryOperationIsShown
=============================================================================
