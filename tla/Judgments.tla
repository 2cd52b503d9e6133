------------------------------ MODULE Judgments -----------------------------
(* What models are asked of a request, and what is kept of their answers:     *)
(* ClaimCheck restates each changed contract without the request and compares *)
(* the restatement with it; open cases are listed from the request alone.     *)
(* Each judgment sees the newest whole requests that fit its model, and the   *)
(* context is recorded (pi-claimcheck.ts, open-cases.ts, request-references.ts). *)
EXTENDS Integers, Sequences, FiniteSets, SequencesExt, FiniteSetsExt

CONSTANTS Requests,   \* the requests of the chain: sequences of [size, refs]
          Capacity,   \* what a prompt may take; 0 when the model's context is unknown
          Allowance,  \* the model's maximum output
          MaxItems,   \* bound on the contracts judged
          MaxRefs,    \* the shared context's limits: entries (8 in the code)
          MaxBytes,   \* and bytes (128 KiB)
          Units       \* the repositories whose contracts are judged

(* A reference is read, with its size, or already a gap; a prompt counts it   *)
(* in tokens.                                                                 *)
Gap == 0
ReadRef(r) == r # Gap

VARIABLES asked,     \* the chain as the operator gave it: each request with the references named
          items,     \* how many contracts each unit has to judge
          pc,        \* what each unit's ClaimCheck does next, and the open cases'
          restated,  \* the functions pass 1 answered for, by unit
          compared,  \* pass 2's
          status,    \* ClaimCheck's status, by unit
          reason,    \* and why
          open,      \* OpenCases' status
          records,   \* requestJudgments, in order
          sent,      \* the judgments really asked of a model
          stopped

vars == <<asked, items, pc, restated, compared, status, reason, open, records, sent, stopped>>

Jobs == Units \cup {"open_cases"}

-----------------------------------------------------------------------------
(* boundedReferences: whole references while they fit, a gap for each that    *)
(* does not, and one more gap that stands for those past the last entry.      *)
Taken(refs) == IF Len(refs) > MaxRefs THEN MaxRefs - 1 ELSE Len(refs)
Bytes(refs) == FoldSeq(+, 0, refs)
Kept(refs) ==
  FoldLeft(LAMBDA kept, r : Append(kept, IF ReadRef(r) /\ Bytes(kept) + r > MaxBytes THEN Gap ELSE r),
           <<>>, SubSeq(refs, 1, Taken(refs)))
Bounded(refs) == Kept(refs) \o (IF Len(refs) > MaxRefs THEN <<Gap>> ELSE <<>>)

(* readReferences: what another session reads of them again.                  *)
ReadAgain(refs) == Bounded(refs)

chain == [k \in DOMAIN asked |-> [size |-> asked[k].size, refs |-> Bounded(asked[k].refs)]]

Init ==
  /\ asked \in Requests
  /\ items \in [Units -> 0..MaxItems]
  /\ pc = [j \in Jobs |-> "start"]
  /\ restated = [u \in Units |-> {}] /\ compared = [u \in Units |-> {}]
  /\ status = [u \in Units |-> "none"] /\ reason = [u \in Units |-> "none"]
  /\ open = "none" /\ records = <<>> /\ sent = {} /\ stopped = FALSE

-----------------------------------------------------------------------------
(* judgmentPrompt: the newest contiguous suffix of whole requests, with their *)
(* references, that fits together with the model's output.                    *)
Tokens(from) ==
  FoldSeq(LAMBDA g, sum : sum + g.size + Bytes(g.refs), 0, SubSeq(chain, from, Len(chain)))
FitsWithoutAllowance(tokens) == Capacity > 0 /\ tokens <= Capacity
Fits(tokens) == Capacity > 0 /\ tokens + Allowance <= Capacity
Fitting == {from \in 1..Len(chain) : \A k \in from..Len(chain) : Fits(Tokens(k))}
First == Min(Fitting \cup {Len(chain) + 1})
Prompts == First <= Len(chain) \/ (chain = <<>> /\ Fits(0))

(* What is recorded of it, before it is sent: the requests shown and left     *)
(* out, each reference with what became of it.                                *)
Judgment(job) ==
  [job |-> job, shown |-> First..Len(chain), omitted |-> 1..First - 1,
   refs |-> FlattenSeq([k \in DOMAIN chain |->
              [r \in DOMAIN chain[k].refs |-> IF k >= First /\ ReadRef(chain[k].refs[r]) THEN "read" ELSE "unavailable"]])]

(* recorded: one request to a model.  It answers, or gives no usable answer:  *)
(* an error, a stop, a time limit or no call of the tool.  Its answers carry   *)
(* the number of their function, and of two with one number the first counts: *)
(* they may miss a function or number none there is.                          *)
Replies == SUBSET (1..MaxItems + 1)

-----------------------------------------------------------------------------
(* claimCheck: turned off, or no model selected, or no such restating model.  *)
Ends(u, s, why) == status' = [status EXCEPT ![u] = s] /\ reason' = [reason EXCEPT ![u] = why] /\ pc' = [pc EXCEPT ![u] = "end"]

Starts(u) ==
  /\ pc[u] = "start"
  /\ IF items[u] = 0 THEN Ends(u, "not_run", "no eligible changed contract")
     ELSE \/ Ends(u, "disabled", "off")
          \/ Ends(u, "not_run", "no model")
          \/ pc' = [pc EXCEPT ![u] = "restate"] /\ UNCHANGED <<status, reason>>
  /\ UNCHANGED <<asked, items, restated, compared, open, records, sent, stopped>>

(* Pass 1 sees the contracts alone.                                           *)
Restates(u) ==
  /\ pc[u] = "restate"
  /\ \/ /\ ~stopped
        /\ \E r \in Replies : restated' = [restated EXCEPT ![u] = r]
        /\ pc' = [pc EXCEPT ![u] = "compare"] /\ UNCHANGED <<status, reason>>
     \/ Ends(u, "not_run", "restatement") /\ UNCHANGED restated
  /\ UNCHANGED <<asked, items, compared, open, records, sent, stopped>>

Compares(u) ==
  /\ pc[u] = "compare"
  /\ records' = Append(records, Judgment(u))
  /\ IF Prompts THEN /\ pc' = [pc EXCEPT ![u] = "answer"]
                     /\ sent' = sent \cup {u} /\ UNCHANGED <<status, reason>>
                ELSE Ends(u, "partial", "too_long") /\ UNCHANGED sent
  /\ UNCHANGED <<asked, items, restated, compared, open, stopped>>

(* claimcheckResult: completed only when every contract has its restatement   *)
(* and its comparison.                                                        *)
EnoughOf(answers, n) == Cardinality(answers) >= n
AllOf(answers, n) == 1..n \subseteq answers
Complete(u) == AllOf(restated[u], items[u]) /\ AllOf(compared'[u], items[u])
Answers(u) ==
  /\ pc[u] = "answer"
  /\ \/ /\ ~stopped
        /\ \E c \in Replies : compared' = [compared EXCEPT ![u] = c]
        /\ IF Complete(u) THEN Ends(u, "completed", "none") ELSE Ends(u, "partial", "missing")
     \/ Ends(u, "partial", "comparison") /\ UNCHANGED compared
  /\ UNCHANGED <<asked, items, restated, open, records, sent, stopped>>

(* openCases: off, unknown, too long, or listed or not by its model.          *)
Lists ==
  /\ pc["open_cases"] = "start"
  /\ \/ /\ open' \in {"disabled", "not_run"}
        /\ pc' = [pc EXCEPT !["open_cases"] = "end"] /\ UNCHANGED <<records, sent>>
     \/ /\ records' = Append(records, Judgment("open_cases"))
        /\ IF Prompts THEN /\ pc' = [pc EXCEPT !["open_cases"] = "answer"]
                           /\ sent' = sent \cup {"open_cases"} /\ UNCHANGED open
                      ELSE /\ pc' = [pc EXCEPT !["open_cases"] = "end"]
                           /\ open' = "not_run" /\ UNCHANGED sent
  /\ UNCHANGED <<asked, items, restated, compared, status, reason, stopped>>

Listed ==
  /\ pc["open_cases"] = "answer"
  /\ open' \in (IF stopped THEN {"not_run"} ELSE {"listed", "not_run"})
  /\ pc' = [pc EXCEPT !["open_cases"] = "end"]
  /\ UNCHANGED <<asked, items, restated, compared, status, reason, records, sent, stopped>>

Stop ==
  /\ ~stopped /\ \E j \in Jobs : pc[j] \notin {"start", "end"}
  /\ stopped' = TRUE
  /\ UNCHANGED <<asked, items, pc, restated, compared, status, reason, open, records, sent>>

Next ==
  \/ \E u \in Units : Starts(u) \/ Restates(u) \/ Compares(u) \/ Answers(u)
  \/ Lists \/ Listed \/ Stop
Spec == Init /\ [][Next]_vars

-----------------------------------------------------------------------------
(* reviewStatus and combineComparisons: the receipt's one word for the units. *)
Eligible == {u \in Units : reason[u] # "no eligible changed contract"}
With(s) == Cardinality({u \in Eligible : status[u] = s})
ReviewStatus(total, completed, partial, disabled) ==
  CASE total > 0 /\ completed = total -> "completed"
    [] total > 0 /\ completed # total /\ disabled = total -> "disabled"
    [] total > 0 /\ completed # total /\ disabled # total /\ partial + completed > 0 -> "partial"
    [] OTHER -> "not_run"
Combined == ReviewStatus(Cardinality(Eligible), With("completed"), With("partial"), With("disabled"))

TypeOK ==
  /\ \A j \in Jobs : pc[j] \in {"start", "restate", "compare", "answer", "end"}
  /\ \A u \in Units : status[u] \in {"none", "completed", "partial", "not_run", "disabled"}
  /\ open \in {"none", "listed", "not_run", "disabled"}

(* The review reads completed only when every eligible contract of every unit *)
(* has a restatement and a comparison of its own.                             *)
CompletedIsComplete ==
  (\A u \in Units : pc[u] = "end") /\ Combined = "completed" =>
    \A u \in Units : items[u] > 0 =>
      \A n \in 1..items[u] : n \in restated[u] /\ n \in compared[u]

(* A judgment records the requests its model saw and the ones it did not:     *)
(* together they are the chain, the ones shown are the newest, they fit with  *)
(* the model's output, and no request that could have been added was left     *)
(* out.  Each reference of the chain is accounted for.                        *)
JudgmentsAreOfWholeRequests ==
  \A k \in DOMAIN records : LET j == records[k] IN
    /\ j.shown \cup j.omitted = DOMAIN chain /\ j.shown \cap j.omitted = {}
    /\ \A a \in j.omitted, b \in j.shown : a < b
    /\ j.shown # {} => Tokens(Min(j.shown)) + Allowance <= Capacity
    /\ j.omitted # {} => ~Fits(Tokens(Max(j.omitted)))
    /\ Len(j.refs) = FoldSeq(LAMBDA g, n : n + Len(g.refs), 0, chain)

(* The shared references stay within both limits, keep every reference that   *)
(* fits whole, and name a gap for the rest; what a child or a later request   *)
(* reads again is what was kept.                                              *)
ReferencesStayBounded ==
  \A k \in DOMAIN asked : LET refs == asked[k].refs IN
    /\ Len(Bounded(refs)) <= MaxRefs /\ Bytes(Bounded(refs)) <= MaxBytes
    /\ ReadAgain(Bounded(refs)) = Bounded(refs)
    /\ (\E r \in DOMAIN refs : ReadRef(refs[r]) /\ (r > Len(Bounded(refs)) \/ Bounded(refs)[r] # refs[r])) =>
         \E r \in DOMAIN Bounded(refs) : Bounded(refs)[r] = Gap

Inv == TypeOK /\ CompletedIsComplete /\ JudgmentsAreOfWholeRequests
=============================================================================
