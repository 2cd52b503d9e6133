------------------------------ MODULE Strength ------------------------------
(* How strong the contracts are that a request added or changed, once they    *)
(* proved: the mutants of each function, each operator in turn up to a limit, *)
(* each proved again, and a survivor dropped only when the prover shows that  *)
(* it returns the code's own result (proof-guarantees.ts, proof-mutation.ts). *)
EXTENDS Naturals, Sequences, FiniteSets, SequencesExt, FiniteSetsExt

CONSTANTS Names,     \* the functions of the files that proved, in order
          Operators, \* the mutation operators, in order
          Kinds,     \* the functions a file may hold
          Limit      \* MUTANT_LIMIT

(* A function: its contract at the request's base and now ("none" for no      *)
(* contract), whether its parameters are plain names, whether it calls        *)
(* itself, and how many places each operator finds in its body.               *)
IsKind(k) == {k.plain, k.recursive} \subseteq BOOLEAN /\ k.sites \in [1..Len(Operators) -> Nat]

VARIABLES fn,       \* the functions
          scope,    \* "read", or "unavailable": what LemmaScript attached now
          baseRead, \* whether it could be asked of the base
          items,    \* the contracts measured, in order, "unset" before
          at,       \* the contract measured
          tried,    \* the mutants of it proved so far, each with what became of it
          pending,  \* a survivor whose equivalence is asked
          done,     \* the results, in order
          stopped

subject == <<fn, scope, baseRead>>
vars == <<subject, items, at, tried, pending, done, stopped>>

None == [op |-> 0, n |-> 0]
Outcomes == {"passed", "failed", "timed_out"}  \* and what decides no more than a timeout

Init ==
  /\ fn \in [1..Len(Names) -> Kinds]
  /\ scope \in {"read", "unavailable"} /\ baseRead \in BOOLEAN
  /\ items = <<>> /\ at = 0 /\ tried = <<>> /\ pending = None /\ done = <<>> /\ stopped = FALSE

-----------------------------------------------------------------------------
(* changedContracts: the contracts the proof covers that the base lacks or    *)
(* annotates differently; with no scope to read there is none.                *)
Contracts == IF scope = "unavailable" THEN {} ELSE {k \in DOMAIN fn : fn[k].now # "none"}
Before(k) == IF baseRead THEN fn[k].base ELSE "none"
Changed == {k \in Contracts : Before(k) # fn[k].now}

Chooses ==
  /\ at = 0
  /\ items' = SetToSortSeq(Changed, <)
  /\ at' = 1
  /\ UNCHANGED <<subject, tried, pending, done, stopped>>

(* mutants: in each round every operator gives its next place, until a round  *)
(* finds none, and the limit keeps the first ones.                            *)
RoundOf(sites, r) == LET ops == SelectSeq([o \in 1..Len(Operators) |-> o], LAMBDA o : sites[o] >= r)
                     IN  [k \in DOMAIN ops |-> [op |-> ops[k], n |-> r]]
Rounds(sites) == Max({sites[o] : o \in 1..Len(Operators)} \cup {0})
ByOperator(sites) == FlattenSeq([o \in 1..Len(Operators) |-> [n \in 1..sites[o] |-> [op |-> o, n |-> n]]])
AllMutants(sites) == FlattenSeq([r \in 1..Rounds(sites) |-> RoundOf(sites, r)])
Mutants(sites) == SubSeq(AllMutants(sites), 1, Min({Limit, Len(AllMutants(sites))}))

Working == at > 0 /\ at <= Len(items)
Body == fn[items[at]]

(* mutantFinding: what a mutant's proof says of the contract.  A mutant that  *)
(* proved does what the code does or something else the contract allows; one  *)
(* that did not may be ruled out or only lack a proof step.                   *)
Finding(o) == IF o = "failed" THEN "rejected" ELSE IF o = "passed" THEN "survived" ELSE "inconclusive"
Does == {"same", "other"}

Proves ==
  /\ Working /\ pending = None /\ ~stopped
  /\ Len(tried) < Len(Mutants(Body.sites))
  /\ LET m == Mutants(Body.sites)[Len(tried) + 1]
     IN  \E o \in Outcomes :
           IF Finding(o) = "survived"
           THEN \E does \in Does : pending' = [op |-> m.op, n |-> m.n, does |-> does] /\ UNCHANGED tried
           ELSE tried' = Append(tried, [m |-> m, does |-> "unknown", end |-> Finding(o)]) /\ UNCHANGED pending
  /\ UNCHANGED <<subject, items, at, done, stopped>>

(* equivalenceSource: a copy of the function as mutated, asked to return what *)
(* the original does.  It is asked only where the copy's proof is about the   *)
(* mutant alone: of plain parameters and a function that does not call itself. *)
AskedOfAny == Body.plain
Asked == Body.plain /\ ~Body.recursive
(* What the proof of it can show: for a function that calls itself, the copy  *)
(* would call the original, so nothing about the mutant.                      *)
CanPass(does) == does = "same" \/ Body.recursive

(* equivalentMutant: only a proof that passed drops a survivor.               *)
Equivalent(o) == o = "passed"
Decides ==
  /\ pending # None
  /\ \E o \in Outcomes :
       /\ (o = "passed" => CanPass(pending.does) /\ ~stopped)
       /\ tried' = Append(tried, [m |-> [op |-> pending.op, n |-> pending.n], does |-> pending.does,
                                  end |-> IF Asked /\ Equivalent(o) THEN "equivalent" ELSE "survived"])
  /\ pending' = None
  /\ UNCHANGED <<subject, items, at, done, stopped>>

Counts == [rejected |-> Len(SelectSeq(tried, LAMBDA t : t.end = "rejected")),
           inconclusive |-> Len(SelectSeq(tried, LAMBDA t : t.end = "inconclusive")),
           equivalent |-> Len(SelectSeq(tried, LAMBDA t : t.end = "equivalent")),
           survived |-> SelectSeq(tried, LAMBDA t : t.end = "survived")]
NextContract ==
  /\ Working /\ pending = None
  /\ stopped \/ Len(tried) = Len(Mutants(Body.sites))
  /\ done' = Append(done, Counts)
  /\ at' = at + 1 /\ tried' = <<>>
  /\ UNCHANGED <<subject, items, pending, stopped>>

(* The operator stops, or a time limit of the step passes.                    *)
Stop ==
  /\ Working /\ ~stopped
  /\ stopped' = TRUE
  /\ UNCHANGED <<subject, items, at, tried, pending, done>>

Next == Chooses \/ Proves \/ Decides \/ NextContract \/ Stop
Spec == Init /\ [][Next]_vars

-----------------------------------------------------------------------------
TypeOK ==
  /\ at \in 0..Len(Names) + 1 /\ Len(done) <= Len(items)
  /\ \A k \in DOMAIN tried : tried[k].end \in {"rejected", "inconclusive", "equivalent", "survived"}

(* A survivor is dropped only when the mutant really does what the code does, *)
(* so the count of equivalent mutants hides no behaviour a contract allows.   *)
OnlyEquivalentsAreDropped == \A k \in DOMAIN tried : tried[k].end = "equivalent" => tried[k].does = "same"

(* The limit keeps a mix: no operator has given two mutants more than another *)
(* that has places left, so the first ones never crowd the others out.        *)
Given(ms, o) == Cardinality({k \in DOMAIN ms : ms[k].op = o})
TheLimitKeepsAMix ==
  \A k \in DOMAIN fn : LET ms == Mutants(fn[k].sites) IN
    \A o, p \in 1..Len(Operators) : Given(ms, o) > Given(ms, p) + 1 => Given(ms, p) = fn[k].sites[p]

(* Once it ended unstopped, every contract that really changed was measured,  *)
(* each of its mutants is counted once, and its survivors are the ones whose  *)
(* proof passed and that nothing showed to be the same.                       *)
EveryChangeIsMeasured ==
  at > Len(items) /\ ~stopped =>
    /\ scope = "read" => \A k \in DOMAIN fn : fn[k].now \notin {"none", fn[k].base} => k \in Range(items)
    /\ at > 0 => Len(done) = Len(items)
    /\ \A k \in DOMAIN done : LET d == done[k] IN
         /\ d.rejected + d.inconclusive + d.equivalent + Len(d.survived)
              = Min({Limit, Len(AllMutants(fn[items[k]].sites))})
         /\ \A s \in Range(d.survived) : s.does \in Does

Inv == TypeOK /\ OnlyEquivalentsAreDropped /\ TheLimitKeepsAMix /\ (at > 0 => EveryChangeIsMeasured)
=============================================================================
