------------------------- MODULE ConversationProofs -------------------------
(***************************************************************************)
(* Proofs about Session's conversation: that its file gives back what the  *)
(* model saw.  What a file gives is recursive over its entries, so the     *)
(* first lemmas are an induction and what the recursion gives.             *)
(***************************************************************************)
EXTENDS SessionProofs, SequenceTheorems, WellFoundedInduction, TLAPS

\* What the conversation, the ledger and the file hold.
Pairs == Nat \X Nat
MessageKinds == {"asked", "referenced", "checking", "amended", "reply", "result", "head"}
Plain == [kind : MessageKinds, of : Pairs, given : {<<>>}]
Messages == [kind : MessageKinds, of : Pairs, given : Seq(Seq(Plain))]
Inputs == [message : Plain, at : Nat]
EntryTypes ==
  {"request", "references", "amendment", "delivered", "assistant", "clarification", "tool_result", "reconciliation", "compaction", "run_end"}
FileEntries == [type : EntryTypes, of : Pairs]
IsRead(s) == s = [history |-> s.history, ledger |-> s.ledger, summarized |-> s.summarized]

\* What the file gives back.
Read == H!Rebuilt(hEntries)

HTyped ==
  /\ hHistory \in Seq(Messages) /\ hLedger \in Seq(Inputs) /\ hEntries \in Seq(FileEntries)
  /\ IsRead(Read) /\ Read.ledger \in Seq(Inputs)
  /\ hQueue \in Seq([id : Pairs, at : Nat]) /\ hAnswered \in Seq([call : Pairs, at : Nat]) /\ hTodo \in Seq(Pairs)
  /\ hOrder \in Nat /\ hSummarized \in BOOLEAN /\ hOpen \in BOOLEAN
  /\ hRuns \in 0 .. MaxRun /\ hReplies \in 0 .. MaxReply /\ hAmends \in 0 .. MaxAmend

\* Two ledgers hold the same messages; one is in the order of its places, up to a last.
Same(in, read) == Len(read) = Len(in) /\ \A i \in 1 .. Len(in) : read[i].message = in[i].message
Sorted(in, last) ==
  /\ \A i, j \in 1 .. Len(in) : i < j => in[i].at <= in[j].at
  /\ \A i \in 1 .. Len(in) : in[i].at <= last

\* The file gives the conversation, and the ledger with places of its own.
ReadsInv == Read.history = hHistory /\ Read.summarized = hSummarized /\ Same(hLedger, Read.ledger)
SortedInv == Sorted(hLedger, hOrder - 1) /\ Sorted(Read.ledger, Len(hEntries))

\* An entry is there once, at p.  A place of each ledger is behind the same of their input.
Once(es, e, p) == p \in 1 .. Len(es) /\ \A q \in 1 .. Len(es) : es[q] = e <=> q = p
Before(a, p, b, q) == (a < b /\ p < q) \/ (b < a /\ q < p)
Between(in, read, at, p) == \A i \in 1 .. Len(in) : Before(in[i].at, read[i].at, at, p)

\* What waits to enter the ledger, the answer and the amendments, has one entry each, and
\* relates to the ledger's input and to what else waits by its entry's place as it does by
\* its own.
Waiting(queue, answered) ==
  [k \in (IF answered = <<>> THEN {} ELSE {0}) \cup (1 .. Len(queue)) |->
     IF k = 0 THEN [entry |-> H!Entry("clarification", answered[1].call), at |-> answered[1].at]
     ELSE [entry |-> H!Entry("amendment", queue[k].id), at |-> queue[k].at]]
Pending(es, in, read, order, e, at) ==
  at \in Nat /\ at < order /\ \E p \in 1 .. Len(es) : Once(es, e, p) /\ Between(in, read, at, p)
Agree(es, e, a, f, b) == \A p, q \in 1 .. Len(es) : es[p] = e /\ es[q] = f => Before(a, p, b, q)
Waits(es, in, read, order, w) ==
  /\ \A k \in DOMAIN w : Pending(es, in, read, order, w[k].entry, w[k].at)
  /\ \A j, k \in DOMAIN w : j # k => Agree(es, w[j].entry, w[j].at, w[k].entry, w[k].at)
WaitInv == Waits(hEntries, hLedger, Read.ledger, hOrder, Waiting(hQueue, hAnswered))

\* Entries are of amendments and answers there were; an answer saved for a call without a
\* result is the one on its way.
FreshInv ==
  /\ \A p \in 1 .. Len(hEntries) : hEntries[p].type = "amendment" => hEntries[p].of[1] <= hAmends
  /\ \A p \in 1 .. Len(hEntries) : hEntries[p].type = "clarification" =>
       /\ hEntries[p].of[1] <= hReplies
       /\ \A i \in 1 .. Len(hTodo) : hTodo[i] = hEntries[p].of => i = 1 /\ hAnswered # <<>>
  /\ Len(hAnswered) <= 1
  /\ hAnswered # <<>> => hTodo # <<>> /\ hAnswered[1].call = hTodo[1]

\* The calls to come are the last reply's, which only results follow.
LastReply(h, t, r) ==
  t # <<>> =>
    /\ t = H!Calls(r) \/ (t = <<<<r, 2>>>> /\ H!Calls(r) = <<<<r, 1>>, <<r, 2>>>>)
    /\ \E j \in 1 .. Len(h) : h[j] = H!Message("reply", H!Of(r)) /\ \A k \in j + 1 .. Len(h) : h[k].kind = "result"

\* Each reply is one message, and each result is its reply's, with results between.
Replies(h, r) ==
  /\ \A i \in 1 .. Len(h) : h[i].kind = "reply" => h[i].of[1] <= r /\ h[i] = H!Message("reply", H!Of(h[i].of[1]))
  /\ \A i, j \in 1 .. Len(h) : h[i].kind = "reply" /\ h[i] = h[j] => i = j
Follows(h, i) ==
  \E j \in 1 .. i - 1 : h[j] = H!Message("reply", H!Of(h[i].of[1])) /\ \A k \in j + 1 .. i : h[k].kind = "result"
Results(h) == \A i \in 1 .. Len(h) : h[i].kind = "result" => Follows(h, i)

\* A call has one result once it is no longer to come, and none before.
Listed(t, c) == \E i \in 1 .. Len(t) : t[i] = c
HasResult(h, c) == \E j \in 1 .. Len(h) : h[j] = H!Message("result", c)
OneResult(h, c) == \A j, k \in 1 .. Len(h) : h[j] = H!Message("result", c) /\ h[k] = H!Message("result", c) => j = k
OfReply(h, c) ==
  \E i \in 1 .. Len(h) : h[i].kind = "reply" /\ \E n \in 1 .. Len(H!Calls(h[i].of[1])) : c = H!Calls(h[i].of[1])[n]
Settled(h, t) == \A c : OfReply(h, c) => OneResult(h, c) /\ (Listed(t, c) <=> ~HasResult(h, c))

\* The calls of the conversation h, of which t are to come.
Shape(h, t, r) == LastReply(h, t, r) /\ Replies(h, r) /\ Results(h) /\ Settled(h, t)

\* What entered the ledger is in the conversation, or repeated in a summary's head.
Kept(h, in) ==
  \A i \in 1 .. Len(in) :
    (\E j \in 1 .. Len(h) : h[j] = in[i].message) \/ \E j \in 1 .. Len(h) : \E k \in 1 .. Len(h[j].given) : h[j].given[k] = <<in[i].message>>
HasHead(h) == \E i \in 1 .. Len(h) : h[i].kind = "head"

ShapeInv == Shape(hHistory, hTodo, hReplies) /\ Kept(hHistory, hLedger) /\ hSummarized = HasHead(hHistory) /\ (hTodo # <<>> => hOpen)

HInv == HTyped /\ ReadsInv /\ SortedInv /\ WaitInv /\ FreshInv /\ ShapeInv

-----------------------------------------------------------------------------
(* Induction, and the greatest of some numbers.                            *)

\* A set of numbers with 0 and the successor of each of its own up to n has all of them.
LEMMA Induction ==
  ASSUME NEW S, NEW n \in Nat, 0 \in S, \A k \in 0 .. n - 1 : k \in S => k + 1 \in S
  PROVE  \A k \in 0 .. n : k \in S
<1> SUFFICES ASSUME ~ \A k \in 0 .. n : k \in S PROVE FALSE
  OBVIOUS
<1> DEFINE T == {k \in 0 .. n : k \notin S}
<1> DEFINE R == OpToRel(<, Nat)
<1>1. T \subseteq Nat /\ T # {}
  OBVIOUS
<1>2. PICK x \in T : \A y \in T : ~ (<<y, x>> \in R)
  <2> HIDE DEF T, R
  <2> QED
    BY <1>1, NatLessThanWellFounded, WFMin, Zenon DEF R
<1>3. x \in Nat /\ x <= n /\ x # 0 /\ x \notin S
  OBVIOUS
<1>4. x - 1 \notin T
  <2>1. x - 1 \in Nat /\ x - 1 < x
    BY <1>3
  <2>2. <<x - 1, x>> \in R
    BY <2>1, <1>3 DEF OpToRel
  <2> QED
    BY <1>2, <2>2
<1>5. x - 1 \in 0 .. n - 1 /\ x - 1 \in S
  BY <1>3, <1>4
<1> QED
  BY <1>3, <1>5

\* Numbers up to a bound have a greatest.
LEMMA Greatest ==
  ASSUME NEW S, S \subseteq Nat, S # {}, NEW n \in Nat, \A x \in S : x <= n
  PROVE  H!Max(S) \in S /\ \A x \in S : x <= H!Max(S)
<1> DEFINE T == {n - x : x \in S}
<1> DEFINE R == OpToRel(<, Nat)
<1>1. T \subseteq Nat /\ T # {}
  <2>1. PICK x \in S : TRUE
    OBVIOUS
  <2>2. n - x \in T
    BY <2>1
  <2>3. \A x1 \in S : n - x1 \in Nat
    OBVIOUS
  <2> QED
    BY <2>2, <2>3
<1>2. PICK t \in T : \A y \in T : ~ (<<y, t>> \in R)
  <2> HIDE DEF T, R
  <2> QED
    BY <1>1, NatLessThanWellFounded, WFMin, Zenon DEF R
<1>3. PICK x \in S : t = n - x
  OBVIOUS
<1>4. \A y \in S : x >= y
  <2> SUFFICES ASSUME NEW y \in S, ~ (x >= y) PROVE FALSE
    OBVIOUS
  <2>1. n - y \in Nat /\ t \in Nat /\ n - y < t
    BY <1>3, <1>1
  <2>2. <<n - y, t>> \in R
    BY <2>1 DEF OpToRel
  <2> QED
    BY <1>2, <2>2
<1>5. \E z \in S : \A y \in S : z >= y
  BY <1>4
<1>6. H!Max(S) \in S /\ \A y \in S : H!Max(S) >= y
  BY <1>5, Zenon DEF H!Max
<1> QED
  BY <1>6

-----------------------------------------------------------------------------
(* What the recursions give.                                               *)

LEMMA ReadsEquation ==
  ASSUME NEW es, Len(es) \in Nat
  PROVE  H!Reads(es) = [n \in 0 .. Len(es) |-> IF n = 0 THEN H!Blank ELSE H!ReadBack(H!Reads(es)[n - 1], es, n)]
<1> DEFINE Eq(f, m) == f = [n \in 0 .. m |-> IF n = 0 THEN H!Blank ELSE H!ReadBack(f[n - 1], es, n)]
<1> DEFINE S == {m \in Nat : \E f : Eq(f, m)}
<1>1. 0 \in S
  <2> DEFINE f == [n \in 0 .. 0 |-> H!Blank]
  <2>1. Eq(f, 0)
    OBVIOUS
  <2> QED
    BY <2>1
<1>2. \A k \in 0 .. Len(es) - 1 : k \in S => k + 1 \in S
  <2> SUFFICES ASSUME NEW k \in 0 .. Len(es) - 1, NEW f, Eq(f, k) PROVE \E g : Eq(g, k + 1)
    OBVIOUS
  <2> DEFINE g == [n \in 0 .. k + 1 |-> IF n = k + 1 THEN H!ReadBack(f[k], es, n) ELSE f[n]]
  <2>1. \A n \in 0 .. k : g[n] = f[n]
    OBVIOUS
  <2>2. g[k + 1] = H!ReadBack(g[k], es, k + 1)
    BY <2>1
  <2>3. \A n \in 0 .. k : g[n] = IF n = 0 THEN H!Blank ELSE H!ReadBack(g[n - 1], es, n)
    <3> SUFFICES ASSUME NEW n \in 0 .. k PROVE g[n] = IF n = 0 THEN H!Blank ELSE H!ReadBack(g[n - 1], es, n)
      OBVIOUS
    <3>1. f[n] = IF n = 0 THEN H!Blank ELSE H!ReadBack(f[n - 1], es, n)
      OBVIOUS
    <3>2. n # 0 => n - 1 \in 0 .. k
      OBVIOUS
    <3> HIDE DEF g
    <3> QED
      BY <2>1, <3>1, <3>2
  <2>4. g = [n \in 0 .. k + 1 |-> g[n]]
    OBVIOUS
  <2>5. \A n \in 0 .. k + 1 : g[n] = IF n = 0 THEN H!Blank ELSE H!ReadBack(g[n - 1], es, n)
    <3> SUFFICES ASSUME NEW n \in 0 .. k + 1 PROVE g[n] = IF n = 0 THEN H!Blank ELSE H!ReadBack(g[n - 1], es, n)
      OBVIOUS
    <3> HIDE DEF g
    <3>1. CASE n = k + 1
      BY <2>2, <3>1
    <3>2. CASE n \in 0 .. k
      BY <2>3, <3>2
    <3> QED
      BY <3>1, <3>2
  <2> HIDE DEF g
  <2> QED
    BY <2>4, <2>5
<1>3. Len(es) \in S
  <2> HIDE DEF S
  <2>1. \A k \in 0 .. Len(es) : k \in S
    BY <1>1, <1>2, Induction, Zenon
  <2> QED
    BY <2>1
<1>4. \E f : Eq(f, Len(es))
  BY <1>3
<1>5. H!Reads(es) = CHOOSE f : Eq(f, Len(es))
  BY DEF H!Reads
<1> HIDE DEF Eq
<1>6. Eq(H!Reads(es), Len(es))
  BY <1>4, <1>5
<1> QED
  BY <1>6 DEF Eq

\* What the first n entries give is what the n-th adds to the ones before.
LEMMA ReadsStep ==
  ASSUME NEW es, Len(es) \in Nat
  PROVE  /\ H!Reads(es)[0] = H!Blank
         /\ \A n \in 1 .. Len(es) : H!Reads(es)[n] = H!ReadBack(H!Reads(es)[n - 1], es, n)
<1> DEFINE g == H!Reads(es)
<1>1. g = [n \in 0 .. Len(es) |-> IF n = 0 THEN H!Blank ELSE H!ReadBack(g[n - 1], es, n)]
  BY ReadsEquation
<1> HIDE DEF g
<1>2. g[0] = H!Blank
  BY <1>1
<1>3. \A n \in 1 .. Len(es) : g[n] = H!ReadBack(g[n - 1], es, n)
  BY <1>1
<1> QED
  BY <1>2, <1>3 DEF g

\* An entry is read by what comes before it.
LEMMA ReadBackPrefix ==
  ASSUME NEW es, NEW fs, NEW n \in Nat \ {0}, \A i \in 1 .. n : fs[i] = es[i], NEW s
  PROVE  H!ReadBack(s, fs, n) = H!ReadBack(s, es, n)
<1>1. fs[n] = es[n]
  OBVIOUS
<1>2. \A e : H!OrderOf(fs, n, e) = H!OrderOf(es, n, e)
  <2> SUFFICES ASSUME NEW e PROVE H!OrderOf(fs, n, e) = H!OrderOf(es, n, e)
    OBVIOUS
  <2>1. {i \in 1 .. n : fs[i] = e} = {i \in 1 .. n : es[i] = e}
    OBVIOUS
  <2> QED
    BY <2>1 DEF H!OrderOf
<1>3. \A c : H!Given(fs, n, c) <=> H!Given(es, n, c)
  BY DEF H!Given
<1> QED
  BY <1>1, <1>2, <1>3 DEF H!ReadBack

\* More entries change nothing of what the first ones give.
LEMMA ReadsPrefix ==
  ASSUME NEW es, NEW fs, Len(es) \in Nat, Len(fs) \in Nat, Len(es) <= Len(fs), \A i \in 1 .. Len(es) : fs[i] = es[i]
  PROVE  H!Reads(fs)[Len(es)] = H!Rebuilt(es)
<1> DEFINE S == {k \in 0 .. Len(es) : H!Reads(fs)[k] = H!Reads(es)[k]}
<1>1. 0 \in S
  BY ReadsStep
<1>2. \A k \in 0 .. Len(es) - 1 : k \in S => k + 1 \in S
  <2> SUFFICES ASSUME NEW k \in 0 .. Len(es) - 1, H!Reads(fs)[k] = H!Reads(es)[k]
               PROVE  H!Reads(fs)[k + 1] = H!Reads(es)[k + 1]
    OBVIOUS
  <2>1. H!Reads(fs)[k + 1] = H!ReadBack(H!Reads(fs)[k], fs, k + 1)
    <3>1. k + 1 \in 1 .. Len(fs) /\ (k + 1) - 1 = k
      OBVIOUS
    <3> QED
      BY <3>1, ReadsStep
  <2>2. H!Reads(es)[k + 1] = H!ReadBack(H!Reads(es)[k], es, k + 1)
    <3>1. k + 1 \in 1 .. Len(es) /\ (k + 1) - 1 = k
      OBVIOUS
    <3> QED
      BY <3>1, ReadsStep
  <2>3. k + 1 \in Nat \ {0} /\ \A i \in 1 .. k + 1 : fs[i] = es[i]
    OBVIOUS
  <2>4. H!ReadBack(H!Reads(es)[k], fs, k + 1) = H!ReadBack(H!Reads(es)[k], es, k + 1)
    <3> DEFINE n == k + 1
    <3>1. n \in Nat \ {0} /\ \A i \in 1 .. n : fs[i] = es[i]
      BY <2>3
    <3> DEFINE s == H!Reads(es)[k]
    <3> HIDE DEF S, n, s
    <3>2. H!ReadBack(s, fs, n) = H!ReadBack(s, es, n)
      BY <3>1, ReadBackPrefix
    <3> QED
      BY <3>2 DEF n, s
  <2> QED
    BY <2>1, <2>2, <2>4, Zenon
<1>3. Len(es) \in S
  <2> HIDE DEF S
  <2>1. \A k \in 0 .. Len(es) : k \in S
    BY <1>1, <1>2, Induction, Zenon
  <2> QED
    BY <2>1
<1> QED
  BY <1>3 DEF H!Rebuilt

\* One entry more.
LEMMA OneMore ==
  ASSUME NEW T, NEW es \in Seq(T), NEW e \in T
  PROVE  H!Rebuilt(es \o <<e>>) = H!ReadBack(H!Rebuilt(es), es \o <<e>>, Len(es) + 1)
<1> DEFINE fs == es \o <<e>>
<1>1. Len(fs) = Len(es) + 1 /\ Len(es) \in Nat /\ \A i \in 1 .. Len(es) : fs[i] = es[i]
  OBVIOUS
<1> HIDE DEF fs
<1>2. H!Reads(fs)[Len(es)] = H!Rebuilt(es)
  BY <1>1, ReadsPrefix
<1>3. H!Reads(fs)[Len(es) + 1] = H!ReadBack(H!Reads(fs)[Len(es)], fs, Len(es) + 1)
  <2>1. Len(es) + 1 \in 1 .. Len(fs) /\ (Len(es) + 1) - 1 = Len(es)
    BY <1>1
  <2> QED
    BY <1>1, <2>1, ReadsStep
<1> QED
  BY <1>1, <1>2, <1>3 DEF fs, H!Rebuilt

\* The same of what joins the ledger.
Added(in, due, n) == H!ToLedger(in, H!Message("amended", due[n].id), due[n].at)

LEMMA JoinsEquation ==
  ASSUME NEW in, NEW due, Len(due) \in Nat
  PROVE  H!Joins(in, due) = [n \in 0 .. Len(due) |-> IF n = 0 THEN in ELSE Added(H!Joins(in, due)[n - 1], due, n)]
<1> DEFINE Eq(f, m) == f = [n \in 0 .. m |-> IF n = 0 THEN in ELSE Added(f[n - 1], due, n)]
<1> DEFINE S == {m \in Nat : \E f : Eq(f, m)}
<1>1. 0 \in S
  <2> DEFINE f == [n \in 0 .. 0 |-> in]
  <2>1. Eq(f, 0)
    OBVIOUS
  <2> QED
    BY <2>1
<1>2. \A k \in 0 .. Len(due) - 1 : k \in S => k + 1 \in S
  <2> SUFFICES ASSUME NEW k \in 0 .. Len(due) - 1, NEW f, Eq(f, k) PROVE \E g : Eq(g, k + 1)
    OBVIOUS
  <2> DEFINE g == [n \in 0 .. k + 1 |-> IF n = k + 1 THEN Added(f[k], due, n) ELSE f[n]]
  <2>1. \A n \in 0 .. k : g[n] = f[n]
    OBVIOUS
  <2>2. g[k + 1] = Added(g[k], due, k + 1)
    BY <2>1
  <2>3. \A n \in 0 .. k : g[n] = IF n = 0 THEN in ELSE Added(g[n - 1], due, n)
    <3> SUFFICES ASSUME NEW n \in 0 .. k PROVE g[n] = IF n = 0 THEN in ELSE Added(g[n - 1], due, n)
      OBVIOUS
    <3>1. f[n] = IF n = 0 THEN in ELSE Added(f[n - 1], due, n)
      OBVIOUS
    <3>2. n # 0 => n - 1 \in 0 .. k
      OBVIOUS
    <3> HIDE DEF g
    <3> QED
      BY <2>1, <3>1, <3>2
  <2>4. g = [n \in 0 .. k + 1 |-> g[n]]
    OBVIOUS
  <2>5. \A n \in 0 .. k + 1 : g[n] = IF n = 0 THEN in ELSE Added(g[n - 1], due, n)
    <3> SUFFICES ASSUME NEW n \in 0 .. k + 1 PROVE g[n] = IF n = 0 THEN in ELSE Added(g[n - 1], due, n)
      OBVIOUS
    <3> HIDE DEF g
    <3>1. CASE n = k + 1
      BY <2>2, <3>1
    <3>2. CASE n \in 0 .. k
      BY <2>3, <3>2
    <3> QED
      BY <3>1, <3>2
  <2> HIDE DEF g
  <2> QED
    BY <2>4, <2>5
<1>3. Len(due) \in S
  <2> HIDE DEF S
  <2>1. \A k \in 0 .. Len(due) : k \in S
    BY <1>1, <1>2, Induction, Zenon
  <2> QED
    BY <2>1
<1>4. \E f : Eq(f, Len(due))
  BY <1>3
<1>5. H!Joins(in, due) = CHOOSE f : Eq(f, Len(due))
  BY DEF H!Joins, Added
<1> HIDE DEF Eq
<1>6. Eq(H!Joins(in, due), Len(due))
  BY <1>4, <1>5
<1> QED
  BY <1>6 DEF Eq

LEMMA JoinsStep ==
  ASSUME NEW in, NEW due, Len(due) \in Nat
  PROVE  /\ H!Joins(in, due)[0] = in
         /\ \A n \in 1 .. Len(due) : H!Joins(in, due)[n] = Added(H!Joins(in, due)[n - 1], due, n)
<1> DEFINE g == H!Joins(in, due)
<1>1. g = [n \in 0 .. Len(due) |-> IF n = 0 THEN in ELSE Added(g[n - 1], due, n)]
  BY JoinsEquation
<1> HIDE DEF g
<1>2. g[0] = in
  BY <1>1
<1>3. \A n \in 1 .. Len(due) : g[n] = Added(g[n - 1], due, n)
  BY <1>1
<1> QED
  BY <1>2, <1>3 DEF g

-----------------------------------------------------------------------------
(* The ledger.                                                             *)

LEMMA InputTypes ==
  ASSUME NEW in \in Seq(Inputs)
  PROVE  \A i \in 1 .. Len(in) : in[i] \in Inputs /\ in[i].at \in Nat /\ in[i].message \in Plain
<1> SUFFICES ASSUME NEW i \in 1 .. Len(in) PROVE in[i] \in Inputs /\ in[i].at \in Nat /\ in[i].message \in Plain
  OBVIOUS
<1>1. in[i] \in Inputs
  OBVIOUS
<1> QED
  BY <1>1 DEF Inputs

\* A place is behind exactly the input that came no later.
LEMMA PlaceOf ==
  ASSUME NEW in \in Seq(Inputs), NEW last, Sorted(in, last), NEW at \in Nat
  PROVE  H!Place(in, at) \in 0 .. Len(in) /\ \A i \in 1 .. Len(in) : in[i].at <= at <=> i <= H!Place(in, at)
<1> DEFINE S == {0} \cup {i \in 1 .. Len(in) : in[i].at <= at}
<1>1. S \subseteq Nat /\ S # {} /\ Len(in) \in Nat /\ \A x \in S : x <= Len(in)
  OBVIOUS
<1>2. H!Max(S) \in S /\ \A x \in S : x <= H!Max(S)
  <2> HIDE DEF S
  <2> QED
    BY <1>1, Greatest
<1>3. H!Place(in, at) = H!Max(S)
  BY DEF H!Place
<1>4. \A i \in 1 .. Len(in) : i <= H!Max(S) => in[i].at <= at
  <2> SUFFICES ASSUME NEW i \in 1 .. Len(in), i <= H!Max(S) PROVE in[i].at <= at
    OBVIOUS
  <2>0. \A j \in 1 .. Len(in) : in[j].at \in Nat
    BY InputTypes
  <2>1. H!Max(S) \in 1 .. Len(in) /\ in[H!Max(S)].at <= at
    BY <1>2
  <2>2. in[i].at <= in[H!Max(S)].at
    <3> DEFINE m == H!Max(S)
    <3>1. m \in 1 .. Len(in) /\ i <= m
      BY <2>1
    <3> HIDE DEF m
    <3> QED
      BY <3>1, <2>0 DEF Sorted, m
  <2> DEFINE m == H!Max(S)
  <2>3. in[m].at <= at /\ in[i].at <= in[m].at /\ in[m].at \in Nat /\ in[i].at \in Nat
    BY <2>0, <2>1, <2>2
  <2> QED
    BY <2>3
<1>5. \A i \in 1 .. Len(in) : in[i].at <= at => i <= H!Max(S)
  BY <1>2
<1>6. H!Max(S) \in 0 .. Len(in)
  BY <1>1, <1>2
<1> HIDE DEF S
<1> QED
  BY <1>3, <1>4, <1>5, <1>6

\* A message joins a ledger behind what came no later.
LEMMA ToLedgerIs ==
  ASSUME NEW in \in Seq(Inputs), NEW last, Sorted(in, last), NEW at \in Nat, NEW message \in Plain
  PROVE  /\ H!ToLedger(in, message, at) \in Seq(Inputs)
         /\ Len(H!ToLedger(in, message, at)) = Len(in) + 1
         /\ \A i \in 1 .. Len(in) + 1 :
              H!ToLedger(in, message, at)[i] =
                IF i <= H!Place(in, at) THEN in[i]
                ELSE IF i = H!Place(in, at) + 1 THEN [message |-> message, at |-> at] ELSE in[i - 1]
<1> DEFINE P == H!Place(in, at)
           new == [message |-> message, at |-> at]
<1>1. P \in 0 .. Len(in)
  BY PlaceOf
<1>2. new \in Inputs
  BY DEF Inputs
<1>3. H!ToLedger(in, message, at) = SubSeq(in, 1, P) \o <<new>> \o SubSeq(in, P + 1, Len(in))
  BY DEF H!ToLedger
<1> HIDE DEF P, new
<1> DEFINE a == SubSeq(in, 1, P)
           b == SubSeq(in, P + 1, Len(in))
<1>4. a \in Seq(Inputs) /\ Len(a) = P /\ \A i \in 1 .. P : a[i] = in[i]
  BY <1>1
<1>5. b \in Seq(Inputs) /\ Len(b) = Len(in) - P /\ \A i \in 1 .. Len(in) - P : b[i] = in[P + i]
  BY <1>1
<1> HIDE DEF a, b
<1>6. a \o <<new>> \in Seq(Inputs) /\ Len(a \o <<new>>) = P + 1 /\ (\A i \in 1 .. P : (a \o <<new>>)[i] = in[i]) /\ (a \o <<new>>)[P + 1] = new
  BY <1>1, <1>2, <1>4
<1> DEFINE c == a \o <<new>>
<1>7. c \in Seq(Inputs) /\ Len(c) = P + 1 /\ (\A i \in 1 .. P : c[i] = in[i]) /\ c[P + 1] = new
  BY <1>6
<1> HIDE DEF c
<1>8. c \o b \in Seq(Inputs) /\ Len(c \o b) = Len(in) + 1
  BY <1>1, <1>5, <1>7
<1>9. \A i \in 1 .. Len(in) + 1 : (c \o b)[i] = IF i <= P THEN in[i] ELSE IF i = P + 1 THEN new ELSE in[i - 1]
  <2> SUFFICES ASSUME NEW i \in 1 .. Len(in) + 1 PROVE (c \o b)[i] = IF i <= P THEN in[i] ELSE IF i = P + 1 THEN new ELSE in[i - 1]
    OBVIOUS
  <2>1. CASE i <= P + 1
    BY <2>1, <1>1, <1>5, <1>7
  <2>2. CASE i > P + 1
    <3>1. i \in Len(c) + 1 .. Len(c) + Len(b)
      BY <1>1, <1>5, <1>7, <2>2
    <3>2. (c \o b)[i] = b[i - Len(c)]
      <4>1. c \in Seq(Inputs) /\ b \in Seq(Inputs)
        BY <1>5, <1>7
      <4> QED
        BY <3>1, <4>1, SMTT(30)
    <3>3. (c \o b)[i] = b[i - (P + 1)]
      BY <3>2, <1>7
    <3>4. i - (P + 1) \in 1 .. Len(in) - P /\ P + (i - (P + 1)) = i - 1
      BY <2>2, <1>1
    <3> QED
      BY <3>3, <3>4, <2>2, <1>1, <1>5
  <2>3. i <= P + 1 \/ i > P + 1
    BY <1>1
  <2> QED
    BY <2>1, <2>2, <2>3, Zenon
<1>10. H!ToLedger(in, message, at) = c \o b
  BY <1>3 DEF a, b, c
<1> QED
  BY <1>8, <1>9, <1>10 DEF P, new

\* So the ledger keeps its order, and what it had.
LEMMA ToLedgerKeeps ==
  ASSUME NEW in \in Seq(Inputs), NEW last \in Int, Sorted(in, last), NEW at \in Nat, at <= last, NEW message \in Plain
  PROVE  /\ Sorted(H!ToLedger(in, message, at), last)
         /\ \A i \in 1 .. Len(in) + 1 :
              LET e == H!ToLedger(in, message, at)[i]
              IN e = [message |-> message, at |-> at] \/ \E j \in 1 .. Len(in) : e = in[j]
<1> DEFINE T == H!ToLedger(in, message, at)
           P == H!Place(in, at)
           new == [message |-> message, at |-> at]
<1>1. P \in 0 .. Len(in) /\ \A i \in 1 .. Len(in) : in[i].at <= at <=> i <= P
  BY PlaceOf
<1>2. /\ T \in Seq(Inputs) /\ Len(T) = Len(in) + 1
      /\ \A i \in 1 .. Len(in) + 1 : T[i] = IF i <= P THEN in[i] ELSE IF i = P + 1 THEN new ELSE in[i - 1]
  BY ToLedgerIs
<1>3. \A i \in 1 .. Len(in) : in[i].at \in Nat /\ in[i].at <= last
  BY InputTypes DEF Sorted
<1>4. new.at = at
  OBVIOUS
<1> HIDE DEF T, P, new
<1>5. \A i, j \in 1 .. Len(in) : i < j => in[i].at <= in[j].at
  BY DEF Sorted
<1>6. \A i \in 1 .. Len(in) + 1 : T[i] = new \/ \E j \in 1 .. Len(in) : T[i] = in[j]
  <2> SUFFICES ASSUME NEW i \in 1 .. Len(in) + 1 PROVE T[i] = new \/ \E j \in 1 .. Len(in) : T[i] = in[j]
    OBVIOUS
  <2>1. CASE i <= P
    BY <1>1, <1>2, <2>1
  <2>2. CASE i = P + 1
    BY <1>1, <1>2, <2>2
  <2>3. CASE i > P + 1
    <3>1. T[i] = in[i - 1] /\ i - 1 \in 1 .. Len(in)
      BY <1>1, <1>2, <2>3
    <3> QED
      BY <3>1
  <2> QED
    BY <1>1, <2>1, <2>2, <2>3
<1>7. \A i \in 1 .. Len(T) : T[i].at <= last
  BY <1>2, <1>3, <1>4, <1>6
<1>8. \A i, j \in 1 .. Len(T) : i < j => T[i].at <= T[j].at
  <2> SUFFICES ASSUME NEW i \in 1 .. Len(T), NEW j \in 1 .. Len(T), i < j PROVE T[i].at <= T[j].at
    OBVIOUS
  <2>1. CASE j <= P
    <3>1. T[i] = in[i] /\ T[j] = in[j] /\ i \in 1 .. Len(in) /\ j \in 1 .. Len(in)
      BY <1>1, <1>2, <2>1
    <3> QED
      BY <1>5, <3>1
  <2>2. CASE j = P + 1
    <3>1. T[i] = in[i] /\ T[j] = new /\ i \in 1 .. Len(in) /\ i <= P
      BY <1>1, <1>2, <2>2
    <3> QED
      BY <1>1, <1>4, <3>1
  <2>3. CASE j > P + 1 /\ i <= P
    <3>1. T[i] = in[i] /\ T[j] = in[j - 1] /\ i \in 1 .. Len(in) /\ j - 1 \in 1 .. Len(in) /\ i < j - 1
      BY <1>1, <1>2, <2>3
    <3> QED
      BY <1>5, <3>1
  <2>4. CASE j > P + 1 /\ i = P + 1
    <3>1. T[i] = new /\ T[j] = in[j - 1] /\ j - 1 \in 1 .. Len(in) /\ ~ (j - 1 <= P)
      BY <1>1, <1>2, <2>4
    <3> QED
      BY <1>1, <1>3, <1>4, <3>1
  <2>5. CASE i > P + 1
    <3>1. T[i] = in[i - 1] /\ T[j] = in[j - 1] /\ i - 1 \in 1 .. Len(in) /\ j - 1 \in 1 .. Len(in) /\ i - 1 < j - 1
      BY <1>1, <1>2, <2>5
    <3> QED
      BY <1>5, <3>1
  <2> QED
    BY <1>1, <1>2, <2>1, <2>2, <2>3, <2>4, <2>5
<1> QED
  BY <1>2, <1>6, <1>7, <1>8 DEF Sorted, T, new

\* A message takes the same place in both ledgers when its places relate to theirs alike,
\* and so does what still waits.
LEMMA BothLedgers ==
  ASSUME NEW in \in Seq(Inputs), NEW read \in Seq(Inputs), NEW last \in Int, NEW end \in Int,
         Sorted(in, last), Sorted(read, end), Same(in, read),
         NEW at \in Nat, NEW p \in Nat, Between(in, read, at, p), at <= last, p <= end, NEW message \in Plain
  PROVE  LET T == H!ToLedger(in, message, at)
             U == H!ToLedger(read, message, p)
         IN /\ T \in Seq(Inputs) /\ U \in Seq(Inputs) /\ Same(T, U) /\ Sorted(T, last) /\ Sorted(U, end)
            /\ \A b, q \in Nat : Between(in, read, b, q) /\ Before(at, p, b, q) => Between(T, U, b, q)
<1> DEFINE T == H!ToLedger(in, message, at)
           U == H!ToLedger(read, message, p)
           P == H!Place(in, at)
           new == [message |-> message, at |-> at]
           also == [message |-> message, at |-> p]
<1>1. P \in 0 .. Len(in) /\ \A i \in 1 .. Len(in) : in[i].at <= at <=> i <= P
  BY PlaceOf
<1>2. H!Place(read, p) \in 0 .. Len(read) /\ \A i \in 1 .. Len(read) : read[i].at <= p <=> i <= H!Place(read, p)
  BY PlaceOf
<1>3. Len(read) = Len(in) /\ \A i \in 1 .. Len(in) : in[i].at \in Nat /\ read[i].at \in Nat /\ read[i].message = in[i].message
  BY InputTypes DEF Same
<1>4. H!Place(read, p) = P
  <2> DEFINE R == H!Place(read, p)
  <2>1. \A i \in 1 .. Len(in) : i <= P <=> i <= R
    BY <1>1, <1>2, <1>3 DEF Between, Before
  <2>2. P \in 0 .. Len(in) /\ R \in 0 .. Len(in)
    BY <1>1, <1>2, <1>3
  <2> HIDE DEF R, P
  <2>3. R = P
    BY <2>1, <2>2
  <2> QED
    BY <2>3 DEF R
<1>5. /\ T \in Seq(Inputs) /\ Len(T) = Len(in) + 1
      /\ \A i \in 1 .. Len(in) + 1 : T[i] = IF i <= P THEN in[i] ELSE IF i = P + 1 THEN new ELSE in[i - 1]
  BY ToLedgerIs, SMTT(30)
<1>6. /\ U \in Seq(Inputs) /\ Len(U) = Len(in) + 1
      /\ \A i \in 1 .. Len(in) + 1 : U[i] = IF i <= P THEN read[i] ELSE IF i = P + 1 THEN also ELSE read[i - 1]
  BY ToLedgerIs, <1>3, <1>4
<1>7. Sorted(T, last) /\ Sorted(U, end)
  BY ToLedgerKeeps
<1>8. new.message = also.message /\ new.at = at /\ also.at = p
  OBVIOUS
<1> HIDE DEF T, U, P, new, also
<1>9. \A i \in 1 .. Len(in) + 1 : (T[i] = new /\ U[i] = also) \/ \E j \in 1 .. Len(in) : T[i] = in[j] /\ U[i] = read[j]
  <2> SUFFICES ASSUME NEW i \in 1 .. Len(in) + 1
               PROVE  (T[i] = new /\ U[i] = also) \/ \E j \in 1 .. Len(in) : T[i] = in[j] /\ U[i] = read[j]
    OBVIOUS
  <2>1. CASE i <= P
    <3>1. i \in 1 .. Len(in)
      BY <1>1, <2>1
    <3>2. T[i] = in[i] /\ U[i] = read[i]
      BY <1>5, <1>6, <2>1
    <3> QED
      BY <3>1, <3>2
  <2>2. CASE i = P + 1
    BY <1>1, <1>5, <1>6, <2>2
  <2>3. CASE i > P + 1
    <3>1. T[i] = in[i - 1] /\ U[i] = read[i - 1] /\ i - 1 \in 1 .. Len(in)
      BY <1>1, <1>5, <1>6, <2>3
    <3> QED
      BY <3>1
  <2>4. i <= P \/ i = P + 1 \/ i > P + 1
    BY <1>1
  <2> QED
    BY <2>1, <2>2, <2>3, <2>4, Zenon
<1>10. Same(T, U)
  BY <1>3, <1>5, <1>6, <1>8, <1>9 DEF Same
<1>11. \A b, q \in Nat : Between(in, read, b, q) /\ Before(at, p, b, q) => Between(T, U, b, q)
  <2> SUFFICES ASSUME NEW b \in Nat, NEW q \in Nat, Between(in, read, b, q), Before(at, p, b, q), NEW i \in 1 .. Len(T)
               PROVE  Before(T[i].at, U[i].at, b, q)
    BY DEF Between
  <2>1. CASE T[i] = new /\ U[i] = also
    BY <1>8, <2>1
  <2>2. CASE \E j \in 1 .. Len(in) : T[i] = in[j] /\ U[i] = read[j]
    BY <2>2 DEF Between
  <2> QED
    BY <1>5, <1>9, <2>1, <2>2
<1> QED
  BY <1>5, <1>6, <1>7, <1>10, <1>11 DEF T, U

-----------------------------------------------------------------------------
(* Messages, and a conversation that grows.                                *)

LEMMA MessageIs ==
  ASSUME NEW kind \in MessageKinds, NEW of \in Pairs
  PROVE  /\ H!Message(kind, of) \in Plain /\ H!Message(kind, of) \in Messages
         /\ H!Message(kind, of).kind = kind /\ H!Message(kind, of).of = of /\ H!Message(kind, of).given = <<>>
<1>1. <<>> \in Seq(Seq(Plain))
  OBVIOUS
<1> QED
  BY <1>1 DEF H!Message, Plain, Messages

LEMMA OfIs == ASSUME NEW r \in Nat PROVE H!Of(r) \in Pairs /\ H!Of(r)[1] = r
BY DEF H!Of, Pairs

LEMMA CallsIs ==
  ASSUME NEW r \in Nat
  PROVE  H!Calls(r) = <<<<r, 1>>>> \/ H!Calls(r) = <<<<r, 1>>, <<r, 2>>>>
BY DEF H!Calls

LEMMA CallsOf ==
  ASSUME NEW r \in Nat, NEW c, \E n \in 1 .. Len(H!Calls(r)) : c = H!Calls(r)[n]
  PROVE  c \in Pairs /\ c[1] = r
BY CallsIs DEF Pairs

Extends(g, h) == Len(g) \in Nat /\ Len(h) <= Len(g) /\ \A i \in 1 .. Len(h) : g[i] = h[i]

LEMMA Appended ==
  ASSUME NEW T, NEW h \in Seq(T), NEW ms \in Seq(T)
  PROVE  /\ h \o ms \in Seq(T) /\ Extends(h \o ms, h) /\ Len(h \o ms) = Len(h) + Len(ms)
         /\ \A i \in 1 .. Len(ms) : (h \o ms)[Len(h) + i] = ms[i]
         /\ \A i \in Len(h) + 1 .. Len(h) + Len(ms) : \E j \in 1 .. Len(ms) : (h \o ms)[i] = ms[j]
<1>1. /\ h \o ms \in Seq(T) /\ Len(h \o ms) = Len(h) + Len(ms) /\ Len(h) \in Nat /\ Len(ms) \in Nat
      /\ \A i \in 1 .. Len(h) : (h \o ms)[i] = h[i]
  OBVIOUS
<1>2. \A i \in 1 .. Len(ms) : (h \o ms)[Len(h) + i] = ms[i]
  OBVIOUS
<1>3. \A i \in Len(h) + 1 .. Len(h) + Len(ms) : \E j \in 1 .. Len(ms) : (h \o ms)[i] = ms[j]
  <2> SUFFICES ASSUME NEW i \in Len(h) + 1 .. Len(h) + Len(ms) PROVE (h \o ms)[i] = ms[i - Len(h)] /\ i - Len(h) \in 1 .. Len(ms)
    OBVIOUS
  <2> QED
    OBVIOUS
<1> QED
  BY <1>1, <1>2, <1>3 DEF Extends

\* The same in a word.
Lengthened(f, h, ms, T) ==
  /\ f \in Seq(T) /\ Extends(f, h) /\ Len(f) = Len(h) + Len(ms)
  /\ \A i \in 1 .. Len(ms) : f[Len(h) + i] = ms[i]
  /\ \A i \in Len(h) + 1 .. Len(h) + Len(ms) : \E j \in 1 .. Len(ms) : f[i] = ms[j]
LEMMA AppendedTo == ASSUME NEW T, NEW h \in Seq(T), NEW ms \in Seq(T) PROVE Lengthened(h \o ms, h, ms, T)
BY Appended DEF Lengthened

\* What is kept stays, and a message that joins the ledger is kept where the conversation has it.
LEMMA KeptMore ==
  ASSUME NEW h, NEW g, NEW in, Len(h) \in Nat, Extends(g, h), Kept(h, in)
  PROVE  Kept(g, in)
<1> SUFFICES ASSUME NEW i \in 1 .. Len(in)
             PROVE  (\E j \in 1 .. Len(g) : g[j] = in[i].message) \/ \E j \in 1 .. Len(g) : \E k \in 1 .. Len(g[j].given) : g[j].given[k] = <<in[i].message>>
  BY DEF Kept
<1>1. \A j \in 1 .. Len(h) : j \in 1 .. Len(g) /\ g[j] = h[j]
  BY DEF Extends
<1>2. CASE \E j \in 1 .. Len(h) : h[j] = in[i].message
  BY <1>1, <1>2
<1>3. CASE \E j \in 1 .. Len(h) : \E k \in 1 .. Len(h[j].given) : h[j].given[k] = <<in[i].message>>
  <2>1. PICK j \in 1 .. Len(h) : \E k \in 1 .. Len(h[j].given) : h[j].given[k] = <<in[i].message>>
    BY <1>3
  <2>2. j \in 1 .. Len(g) /\ g[j] = h[j]
    BY <1>1
  <2> QED
    BY <2>1, <2>2
<1> QED
  BY <1>2, <1>3 DEF Kept

LEMMA KeptJoins ==
  ASSUME NEW g, NEW in \in Seq(Inputs), NEW last \in Int, Sorted(in, last), NEW at \in Nat, at <= last, NEW message \in Plain,
         Kept(g, in), \E j \in 1 .. Len(g) : g[j] = message
  PROVE  Kept(g, H!ToLedger(in, message, at))
<1> DEFINE T == H!ToLedger(in, message, at)
<1>1. Len(T) = Len(in) + 1
  BY ToLedgerIs
<1>2. \A i \in 1 .. Len(in) + 1 : T[i] = [message |-> message, at |-> at] \/ \E j \in 1 .. Len(in) : T[i] = in[j]
  BY ToLedgerKeeps
<1> HIDE DEF T
<1> SUFFICES ASSUME NEW i \in 1 .. Len(T)
             PROVE  (\E j \in 1 .. Len(g) : g[j] = T[i].message) \/ \E j \in 1 .. Len(g) : \E k \in 1 .. Len(g[j].given) : g[j].given[k] = <<T[i].message>>
  BY DEF Kept, T
<1>3. CASE T[i] = [message |-> message, at |-> at]
  <2>1. T[i].message = message
    BY <1>3
  <2> QED
    BY <2>1
<1>4. CASE \E j \in 1 .. Len(in) : T[i] = in[j]
  BY <1>4 DEF Kept
<1> QED
  BY <1>1, <1>2, <1>3, <1>4

\* Messages that are no reply, result or head change nothing of the calls.
LEMMA ToldKeeps ==
  ASSUME NEW h \in Seq(Messages), NEW g \in Seq(Messages), Extends(g, h), NEW r, Shape(h, <<>>, r),
         \A i \in Len(h) + 1 .. Len(g) : g[i].kind \notin {"reply", "result", "head"}
  PROVE  Shape(g, <<>>, r) /\ (HasHead(g) <=> HasHead(h))
<1>1. Len(h) \in Nat /\ Len(g) \in Nat /\ \A i \in 1 .. Len(h) : i \in 1 .. Len(g) /\ g[i] = h[i]
  BY DEF Extends
<1>2. \A i \in 1 .. Len(g) : g[i].kind \in {"reply", "result", "head"} => i \in 1 .. Len(h)
  BY <1>1
<1>3. LastReply(g, <<>>, r)
  BY DEF LastReply
<1>4. Replies(g, r)
  <2>1. Replies(h, r)
    BY DEF Shape
  <2>2. \A i \in 1 .. Len(g) : g[i].kind = "reply" => g[i].of[1] <= r /\ g[i] = H!Message("reply", H!Of(g[i].of[1]))
    BY <2>1, <1>1, <1>2 DEF Replies
  <2>3. \A i, j \in 1 .. Len(g) : g[i].kind = "reply" /\ g[i] = g[j] => i = j
    BY <2>1, <1>1, <1>2 DEF Replies
  <2> QED
    BY <2>2, <2>3 DEF Replies
<1>5. Results(g)
  <2> SUFFICES ASSUME NEW i \in 1 .. Len(g), g[i].kind = "result" PROVE Follows(g, i)
    BY DEF Results
  <2>1. i \in 1 .. Len(h) /\ h[i].kind = "result"
    BY <1>1, <1>2
  <2>2. Follows(h, i)
    BY <2>1 DEF Shape, Results
  <2>3. PICK j \in 1 .. i - 1 : h[j] = H!Message("reply", H!Of(h[i].of[1])) /\ \A k \in j + 1 .. i : h[k].kind = "result"
    BY <2>2 DEF Follows
  <2>4. g[j] = h[j] /\ g[i] = h[i] /\ \A k \in j + 1 .. i : g[k] = h[k]
    BY <1>1, <2>1
  <2>5. \A k \in j + 1 .. i : g[k].kind = "result"
    BY <2>3, <2>4
  <2> QED
    BY <2>3, <2>4, <2>5 DEF Follows
<1>6. Settled(g, <<>>)
  <2> SUFFICES ASSUME NEW c, OfReply(g, c) PROVE OneResult(g, c) /\ (Listed(<<>>, c) <=> ~HasResult(g, c))
    BY DEF Settled
  <2>1. OfReply(h, c)
    BY <1>1, <1>2 DEF OfReply
  <2>2. OneResult(h, c) /\ (Listed(<<>>, c) <=> ~HasResult(h, c))
    BY <2>1 DEF Shape, Settled
  <2>3. PICK i \in 1 .. Len(h) : h[i].kind = "reply" /\ \E n \in 1 .. Len(H!Calls(h[i].of[1])) : c = H!Calls(h[i].of[1])[n]
    BY <2>1 DEF OfReply
  <2>4. h[i].of[1] \in Nat
    <3>1. h[i] \in Messages
      OBVIOUS
    <3> QED
      BY <3>1 DEF Messages, Pairs
  <2>5. c \in Pairs
    BY <2>3, <2>4, CallsOf
  <2>6. H!Message("result", c).kind = "result"
    BY <2>5, MessageIs DEF MessageKinds
  <2>7. \A j \in 1 .. Len(g) : g[j] = H!Message("result", c) => j \in 1 .. Len(h)
    BY <1>2, <2>6
  <2>8. HasResult(g, c) <=> HasResult(h, c)
    BY <1>1, <2>7 DEF HasResult
  <2>9. OneResult(g, c)
    BY <1>1, <2>2, <2>7 DEF OneResult
  <2> QED
    BY <2>2, <2>8, <2>9
<1>7. HasHead(g) <=> HasHead(h)
  BY <1>1, <1>2 DEF HasHead
<1> QED
  BY <1>3, <1>4, <1>5, <1>6, <1>7 DEF Shape

\* Whatever is of a reply in the conversation is one of its calls.
LEMMA OfReplyIs ==
  ASSUME NEW h \in Seq(Messages), NEW r, Replies(h, r), NEW c, OfReply(h, c)
  PROVE  c \in Pairs /\ c[1] <= r
<1>1. PICK i \in 1 .. Len(h) : h[i].kind = "reply" /\ \E n \in 1 .. Len(H!Calls(h[i].of[1])) : c = H!Calls(h[i].of[1])[n]
  BY DEF OfReply
<1>2. h[i] \in Messages
  OBVIOUS
<1>3. h[i].of[1] \in Nat /\ h[i].of[1] <= r
  BY <1>1, <1>2 DEF Messages, Pairs, Replies
<1> QED
  BY <1>1, <1>3, CallsOf

\* A result in the conversation is of a reply there.
LEMMA ResultIs ==
  ASSUME NEW h \in Seq(Messages), NEW r, Replies(h, r), Results(h), NEW i \in 1 .. Len(h), h[i].kind = "result"
  PROVE  h[i].of[1] \in Nat /\ h[i].of[1] <= r
<1>1. PICK j \in 1 .. i - 1 : h[j] = H!Message("reply", H!Of(h[i].of[1]))
  BY DEF Results, Follows
<1>2. h[i] \in Messages
  OBVIOUS
<1>3. h[i].of[1] \in Nat
  BY <1>2 DEF Messages, Pairs
<1>4. h[j].kind = "reply" /\ h[j].of[1] = h[i].of[1]
  BY <1>1, <1>3, OfIs, MessageIs DEF MessageKinds
<1>5. j \in 1 .. Len(h)
  OBVIOUS
<1>6. h[j].of[1] <= r
  BY <1>4, <1>5 DEF Replies
<1> QED
  BY <1>3, <1>4, <1>6

\* A reply's calls are all to come.
LEMMA ReplyKeeps ==
  ASSUME NEW h \in Seq(Messages), NEW g \in Seq(Messages), Extends(g, h), NEW r \in Nat, Shape(h, <<>>, r),
         Len(g) = Len(h) + 1, g[Len(g)] = H!Message("reply", H!Of(r + 1))
  PROVE  Shape(g, H!Calls(r + 1), r + 1) /\ (HasHead(g) <=> HasHead(h))
<1> DEFINE N == Len(h) + 1
<1>1. Len(h) \in Nat /\ Len(g) = N /\ N \in Nat /\ \A i \in 1 .. Len(h) : i \in 1 .. Len(g) /\ g[i] = h[i]
  BY DEF Extends
<1>2. /\ g[N].kind = "reply" /\ g[N].of = H!Of(r + 1) /\ g[N].of[1] = r + 1 /\ g[N] = H!Message("reply", H!Of(r + 1))
  <2>1. r + 1 \in Nat
    OBVIOUS
  <2> QED
    BY <2>1, OfIs, MessageIs DEF MessageKinds
<1>3. \A i \in 1 .. N : i \in 1 .. Len(h) \/ i = N
  BY <1>1
<1>0. Replies(h, r) /\ Results(h) /\ Settled(h, <<>>)
  BY DEF Shape
<1>4. \A i \in 1 .. Len(h) : h[i] \in Messages /\ h[i].of[1] \in Nat
  <2> SUFFICES ASSUME NEW i \in 1 .. Len(h) PROVE h[i] \in Messages /\ h[i].of[1] \in Nat
    OBVIOUS
  <2>1. h[i] \in Messages
    OBVIOUS
  <2> QED
    BY <2>1 DEF Messages, Pairs
<1> HIDE DEF N
<1>5. Replies(g, r + 1)
  <2>1. \A i \in 1 .. Len(g) : g[i].kind = "reply" => g[i].of[1] <= r + 1 /\ g[i] = H!Message("reply", H!Of(g[i].of[1]))
    <3> SUFFICES ASSUME NEW i \in 1 .. Len(g), g[i].kind = "reply" PROVE g[i].of[1] <= r + 1 /\ g[i] = H!Message("reply", H!Of(g[i].of[1]))
      OBVIOUS
    <3>1. CASE i = N
      BY <1>2, <3>1
    <3>2. CASE i \in 1 .. Len(h)
      <4>1. h[i].of[1] <= r /\ h[i] = H!Message("reply", H!Of(h[i].of[1])) /\ g[i] = h[i] /\ h[i].of[1] \in Nat
        BY <1>0, <1>1, <1>4, <3>2 DEF Replies
      <4> QED
        BY <4>1
    <3> QED
      BY <1>1, <1>3, <3>1, <3>2
  <2>2. \A i, j \in 1 .. Len(g) : g[i].kind = "reply" /\ g[i] = g[j] => i = j
    <3> SUFFICES ASSUME NEW i \in 1 .. Len(g), NEW j \in 1 .. Len(g), g[i].kind = "reply", g[i] = g[j] PROVE i = j
      OBVIOUS
    <3>1. \A k \in 1 .. Len(h) : h[k].kind = "reply" => h[k] # g[N]
      BY <1>0, <1>2, <1>4 DEF Replies
    <3>2. CASE i \in 1 .. Len(h) /\ j \in 1 .. Len(h)
      <4>1. h[i].kind = "reply" /\ h[i] = h[j]
        BY <1>1, <3>2
      <4> QED
        BY <1>0, <3>2, <4>1 DEF Replies
    <3>3. CASE i = N \/ j = N
      BY <1>1, <1>2, <1>3, <3>1, <3>3
    <3> QED
      BY <1>1, <1>3, <3>2, <3>3
  <2> QED
    BY <2>1, <2>2 DEF Replies
<1>6. Results(g)
  <2> SUFFICES ASSUME NEW i \in 1 .. Len(g), g[i].kind = "result" PROVE Follows(g, i)
    BY DEF Results
  <2>1. i \in 1 .. Len(h) /\ h[i].kind = "result"
    BY <1>1, <1>2, <1>3
  <2>2. Follows(h, i)
    BY <1>0, <2>1 DEF Results
  <2>3. PICK j \in 1 .. i - 1 : h[j] = H!Message("reply", H!Of(h[i].of[1])) /\ \A k \in j + 1 .. i : h[k].kind = "result"
    BY <2>2 DEF Follows
  <2>4. g[j] = h[j] /\ g[i] = h[i] /\ \A k \in j + 1 .. i : g[k] = h[k]
    BY <1>1, <2>1
  <2>5. \A k \in j + 1 .. i : g[k].kind = "result"
    BY <2>3, <2>4
  <2> QED
    BY <2>3, <2>4, <2>5 DEF Follows
<1>7. LastReply(g, H!Calls(r + 1), r + 1)
  <2>1. \A k \in N + 1 .. Len(g) : g[k].kind = "result"
    BY <1>1
  <2>2. N \in 1 .. Len(g)
    BY <1>1 DEF N
  <2> QED
    BY <1>2, <2>1, <2>2 DEF LastReply
<1>8. Settled(g, H!Calls(r + 1))
  <2> SUFFICES ASSUME NEW c, OfReply(g, c) PROVE OneResult(g, c) /\ (Listed(H!Calls(r + 1), c) <=> ~HasResult(g, c))
    BY DEF Settled
  <2>1. c \in Pairs /\ c[1] <= r + 1
    BY <1>5, OfReplyIs
  <2>2. H!Message("result", c).kind = "result" /\ H!Message("result", c).of = c
    BY <2>1, MessageIs DEF MessageKinds
  <2>3. \A j \in 1 .. Len(g) : g[j] = H!Message("result", c) => j \in 1 .. Len(h)
    BY <1>1, <1>2, <1>3, <2>2
  <2>4. HasResult(g, c) <=> HasResult(h, c)
    BY <1>1, <2>3 DEF HasResult
  <2>5. c[1] \in Nat
    BY <2>1 DEF Pairs
  <2>6. Listed(H!Calls(r + 1), c) <=> \E n \in 1 .. Len(H!Calls(r + 1)) : c = H!Calls(r + 1)[n]
    BY DEF Listed
  <2>7. CASE c[1] <= r
    <3>1. ~Listed(H!Calls(r + 1), c)
      <4>1. SUFFICES ASSUME Listed(H!Calls(r + 1), c) PROVE FALSE
        OBVIOUS
      <4>2. r + 1 \in Nat
        OBVIOUS
      <4>3. c[1] = r + 1
        BY <2>6, <4>1, <4>2, CallsOf
      <4> QED
        BY <4>3, <2>7
    <3>2. OfReply(h, c)
      <4>1. PICK i \in 1 .. Len(g) : g[i].kind = "reply" /\ \E n \in 1 .. Len(H!Calls(g[i].of[1])) : c = H!Calls(g[i].of[1])[n]
        BY DEF OfReply
      <4>2. i # N
        <5>1. SUFFICES ASSUME i = N PROVE FALSE
          OBVIOUS
        <5>2. \E n \in 1 .. Len(H!Calls(r + 1)) : c = H!Calls(r + 1)[n]
          BY <1>2, <4>1, <5>1
        <5> QED
          BY <2>6, <3>1, <5>2
      <4> QED
        BY <1>1, <1>3, <4>1, <4>2 DEF OfReply
    <3>3. OneResult(h, c) /\ HasResult(h, c)
      <4>1. ~Listed(<<>>, c)
        BY DEF Listed
      <4> QED
        BY <1>0, <3>2, <4>1 DEF Settled
    <3>4. OneResult(g, c)
      BY <1>1, <2>3, <3>3 DEF OneResult
    <3> QED
      BY <2>4, <3>1, <3>3, <3>4
  <2>8. CASE c[1] = r + 1
    <3>1. ~HasResult(h, c)
      <4>1. SUFFICES ASSUME NEW j \in 1 .. Len(h), h[j] = H!Message("result", c) PROVE FALSE
        BY DEF HasResult
      <4>2. h[j].of[1] <= r
        BY <1>0, <2>2, <4>1, ResultIs
      <4> QED
        BY <2>2, <2>8, <4>1, <4>2
    <3>2. OneResult(g, c)
      BY <1>1, <2>3, <3>1 DEF OneResult, HasResult
    <3>3. Listed(H!Calls(r + 1), c)
      <4>1. PICK i \in 1 .. Len(g) : g[i].kind = "reply" /\ \E n \in 1 .. Len(H!Calls(g[i].of[1])) : c = H!Calls(g[i].of[1])[n]
        BY DEF OfReply
      <4>2. g[i].of[1] \in Nat
        BY <1>1, <1>2, <1>3, <1>4
      <4>3. c[1] = g[i].of[1]
        BY <4>1, <4>2, CallsOf
      <4> QED
        BY <2>6, <2>8, <4>1, <4>3
    <3> QED
      BY <2>4, <3>1, <3>2, <3>3
  <2> QED
    BY <2>1, <2>5, <2>7, <2>8
<1>9. HasHead(g) <=> HasHead(h)
  BY <1>1, <1>2, <1>3 DEF HasHead
<1> QED
  BY <1>5, <1>6, <1>7, <1>8, <1>9 DEF Shape

\* The calls to come, the one whose turn it is, and the ones after it.
LEMMA TodoIs ==
  ASSUME NEW h, NEW r \in Nat, NEW t \in Seq(Pairs), t # <<>>, LastReply(h, t, r)
  PROVE  /\ t[1] \in Pairs /\ t[1][1] = r /\ Tail(t) \in Seq(Pairs)
         /\ t = <<<<r, 1>>>> \/ t = <<<<r, 2>>>> \/ t = <<<<r, 1>>, <<r, 2>>>>
         /\ Tail(t) = <<>> \/ (Tail(t) = <<<<r, 2>>>> /\ H!Calls(r) = <<<<r, 1>>, <<r, 2>>>>)
<1>1. t = <<<<r, 1>>>> \/ t = <<<<r, 2>>>> \/ (t = <<<<r, 1>>, <<r, 2>>>> /\ H!Calls(r) = t)
  BY CallsIs DEF LastReply
<1>2. CASE t = <<<<r, 1>>>>
  BY <1>2 DEF Pairs
<1>3. CASE t = <<<<r, 2>>>>
  BY <1>3 DEF Pairs
<1>4. CASE t = <<<<r, 1>>, <<r, 2>>>> /\ H!Calls(r) = t
  BY <1>4 DEF Pairs
<1> QED
  BY <1>1, <1>2, <1>3, <1>4

LEMMA LaterIs ==
  ASSUME NEW h, NEW r \in Nat, NEW t \in Seq(Pairs), t # <<>>, LastReply(h, t, r), NEW c
  PROVE  Listed(Tail(t), c) <=> Listed(t, c) /\ c # t[1]
<1>1. t = <<<<r, 1>>>> \/ t = <<<<r, 2>>>> \/ t = <<<<r, 1>>, <<r, 2>>>>
  BY TodoIs
<1>2. CASE t = <<<<r, 1>>>> \/ t = <<<<r, 2>>>>
  <2>1. Len(t) = 1 /\ Tail(t) = <<>>
    BY <1>2
  <2>2. ~Listed(<<>>, c)
    BY DEF Listed
  <2>3. Listed(t, c) <=> c = t[1]
    BY <2>1 DEF Listed
  <2> QED
    BY <2>1, <2>2, <2>3
<1>3. CASE t = <<<<r, 1>>, <<r, 2>>>>
  <2>1. Tail(t) = <<<<r, 2>>>> /\ t[1] = <<r, 1>> /\ <<r, 1>> # <<r, 2>>
    BY <1>3
  <2>2. Listed(t, c) <=> c = <<r, 1>> \/ c = <<r, 2>>
    BY <1>3 DEF Listed
  <2>3. Listed(<<<<r, 2>>>>, c) <=> c = <<r, 2>>
    BY DEF Listed
  <2> QED
    BY <2>1, <2>2, <2>3
<1> QED
  BY <1>1, <1>2, <1>3

\* The result of the call whose turn it is.
LEMMA ResultKeeps ==
  ASSUME NEW h \in Seq(Messages), NEW g \in Seq(Messages), Extends(g, h), NEW r \in Nat, NEW t \in Seq(Pairs), t # <<>>, Shape(h, t, r),
         Len(g) = Len(h) + 1, g[Len(g)] = H!Message("result", t[1])
  PROVE  Shape(g, Tail(t), r) /\ (HasHead(g) <=> HasHead(h))
<1> DEFINE N == Len(h) + 1
           d == t[1]
<1>0. LastReply(h, t, r) /\ Replies(h, r) /\ Results(h) /\ Settled(h, t)
  BY DEF Shape
<1>1. Len(h) \in Nat /\ Len(g) = N /\ N \in Nat /\ \A i \in 1 .. Len(h) : i \in 1 .. Len(g) /\ g[i] = h[i]
  BY DEF Extends
<1>2. /\ d \in Pairs /\ d[1] = r /\ (\A c : Listed(Tail(t), c) <=> Listed(t, c) /\ c # d) /\ Listed(t, d)
      /\ Tail(t) = <<>> \/ (Tail(t) = <<<<r, 2>>>> /\ H!Calls(r) = <<<<r, 1>>, <<r, 2>>>>)
  <2>2. Listed(t, d)
    <3>1. 1 \in 1 .. Len(t)
      OBVIOUS
    <3> QED
      BY <3>1 DEF Listed
  <2>3. d \in Pairs /\ d[1] = r
    BY <1>0, TodoIs
  <2>4. \A c : Listed(Tail(t), c) <=> Listed(t, c) /\ c # d
    BY <1>0, LaterIs
  <2>5. Tail(t) = <<>> \/ (Tail(t) = <<<<r, 2>>>> /\ H!Calls(r) = <<<<r, 1>>, <<r, 2>>>>)
    BY <1>0, TodoIs
  <2> HIDE DEF d
  <2> QED
    BY <2>2, <2>3, <2>4, <2>5
<1>3. g[N].kind = "result" /\ g[N].of = d /\ g[N] = H!Message("result", d)
  BY <1>1, <1>2, MessageIs DEF MessageKinds
<1>4. \A i \in 1 .. N : i \in 1 .. Len(h) \/ i = N
  BY <1>1
<1>5. PICK j \in 1 .. Len(h) : h[j] = H!Message("reply", H!Of(r)) /\ \A k \in j + 1 .. Len(h) : h[k].kind = "result"
  BY <1>0 DEF LastReply
<1>6. g[j] = H!Message("reply", H!Of(r)) /\ \A k \in j + 1 .. N : g[k].kind = "result"
  <2>1. \A k \in j + 1 .. N : k \in j + 1 .. Len(h) \/ k = N
    BY <1>1, <1>5, SMTT(30)
  <2>2. \A k \in j + 1 .. Len(h) : g[k] = h[k]
    BY <1>1
  <2> QED
    BY <1>1, <1>3, <1>5, <2>1, <2>2
<1> HIDE DEF d, N
<1>7. LastReply(g, Tail(t), r)
  BY <1>1, <1>2, <1>6 DEF LastReply
<1>8. Replies(g, r)
  <2>1. \A i \in 1 .. Len(g) : g[i].kind = "reply" => i \in 1 .. Len(h)
    BY <1>1, <1>3, <1>4
  <2>2. \A i \in 1 .. Len(g) : g[i].kind = "reply" => g[i].of[1] <= r /\ g[i] = H!Message("reply", H!Of(g[i].of[1]))
    BY <1>0, <1>1, <2>1 DEF Replies
  <2>3. \A i, k \in 1 .. Len(g) : g[i].kind = "reply" /\ g[i] = g[k] => i = k
    BY <1>0, <1>1, <2>1 DEF Replies
  <2> QED
    BY <2>2, <2>3 DEF Replies
<1>9. Results(g)
  <2> SUFFICES ASSUME NEW i \in 1 .. Len(g), g[i].kind = "result" PROVE Follows(g, i)
    BY DEF Results
  <2>1. CASE i = N
    <3>1. j \in 1 .. N - 1
      BY <1>1 DEF N
    <3> QED
      BY <1>2, <1>3, <1>6, <2>1, <3>1 DEF Follows
  <2>2. CASE i \in 1 .. Len(h)
    <3>1. Follows(h, i)
      BY <1>0, <1>1, <2>2 DEF Results
    <3>2. PICK l \in 1 .. i - 1 : h[l] = H!Message("reply", H!Of(h[i].of[1])) /\ \A k \in l + 1 .. i : h[k].kind = "result"
      BY <3>1 DEF Follows
    <3>3. g[l] = h[l] /\ g[i] = h[i] /\ \A k \in l + 1 .. i : g[k] = h[k]
      BY <1>1, <2>2, SMTT(30)
    <3>4. \A k \in l + 1 .. i : g[k].kind = "result"
      BY <3>2, <3>3
    <3> QED
      BY <3>2, <3>3, <3>4 DEF Follows
  <2> QED
    BY <1>1, <1>4, <2>1, <2>2
<1>10. Settled(g, Tail(t))
  <2> SUFFICES ASSUME NEW c, OfReply(g, c) PROVE OneResult(g, c) /\ (Listed(Tail(t), c) <=> ~HasResult(g, c))
    BY DEF Settled
  <2>1. OfReply(h, c)
    <3>1. PICK i \in 1 .. Len(g) : g[i].kind = "reply" /\ \E n \in 1 .. Len(H!Calls(g[i].of[1])) : c = H!Calls(g[i].of[1])[n]
      BY DEF OfReply
    <3>2. i \in 1 .. Len(h)
      BY <1>1, <1>3, <1>4, <3>1
    <3> QED
      BY <1>1, <3>1, <3>2 DEF OfReply
  <2>2. c \in Pairs
    BY <1>0, <2>1, OfReplyIs
  <2>3. OneResult(h, c) /\ (Listed(t, c) <=> ~HasResult(h, c))
    BY <1>0, <2>1 DEF Settled
  <2>4. CASE c = d
    <3>1. \A i \in 1 .. Len(g) : g[i] = H!Message("result", c) <=> i = N
      BY <1>1, <1>2, <1>3, <1>4, <2>3, <2>4 DEF HasResult
    <3>2. N \in 1 .. Len(g)
      BY <1>1 DEF N
    <3>3. OneResult(g, c) /\ HasResult(g, c)
      BY <3>1, <3>2 DEF OneResult, HasResult
    <3> QED
      BY <1>2, <2>4, <3>3
  <2>5. CASE c # d
    <3>1. H!Message("result", c).of = c
      BY <2>2, MessageIs DEF MessageKinds
    <3>2. \A i \in 1 .. Len(g) : g[i] = H!Message("result", c) => i \in 1 .. Len(h)
      BY <1>1, <1>3, <1>4, <2>5, <3>1
    <3>3. HasResult(g, c) <=> HasResult(h, c)
      BY <1>1, <3>2 DEF HasResult
    <3>4. OneResult(g, c)
      BY <1>1, <2>3, <3>2 DEF OneResult
    <3> QED
      BY <1>2, <2>3, <2>5, <3>3, <3>4
  <2> QED
    BY <2>4, <2>5
<1>11. HasHead(g) <=> HasHead(h)
  BY <1>1, <1>3, <1>4 DEF HasHead
<1> QED
  BY <1>7, <1>8, <1>9, <1>10, <1>11 DEF Shape

\* A summary takes no result from its reply, and repeats what it takes of the ledger.
LEMMA CompactedIs ==
  ASSUME NEW h \in Seq(Messages), NEW in \in Seq(Inputs), NEW cut \in 0 .. Len(h)
  PROVE  LET g == H!Compacted(h, in, cut)
             rest == SubSeq(h, cut + 1, Len(h))
         IN /\ g \in Seq(Messages) /\ Len(g) = Len(h) - cut + 1 /\ g[1].kind = "head"
            /\ \A i \in 1 .. Len(h) - cut : g[i + 1] = h[cut + i] /\ rest[i] = h[cut + i]
            /\ Len(rest) = Len(h) - cut
            /\ Len(g[1].given) = Len(in)
            /\ \A i \in 1 .. Len(in) : (\E j \in 1 .. Len(rest) : rest[j] = in[i].message) \/ g[1].given[i] = <<in[i].message>>
<1> DEFINE rest == SubSeq(h, cut + 1, Len(h))
           hd == H!Head0(in, rest)
<1>1. rest \in Seq(Messages) /\ Len(rest) = Len(h) - cut /\ \A i \in 1 .. Len(h) - cut : rest[i] = h[cut + i]
  OBVIOUS
<1>2. hd.kind = "head" /\ hd.of = H!Of(0) /\ hd.given = H!Without(H!Said(in), rest)
  BY DEF H!Head0
<1> DEFINE said == H!Said(in)
           given == H!Without(said, rest)
<1>3. said \in Seq(Plain) /\ Len(said) = Len(in) /\ \A i \in 1 .. Len(in) : said[i] = in[i].message
  <2>1. \A i \in 1 .. Len(in) : in[i].message \in Plain
    BY InputTypes
  <2> QED
    BY <2>1 DEF H!Said
<1> HIDE DEF rest, said
<1>4. /\ Len(given) = Len(in) /\ given \in Seq(Seq(Plain))
      /\ \A i \in 1 .. Len(in) : given[i] = IF H!Contains(rest, said[i]) THEN <<>> ELSE <<said[i]>>
  <2>1. given = [i \in 1 .. Len(in) |-> IF H!Contains(rest, said[i]) THEN <<>> ELSE <<said[i]>>]
    BY <1>3 DEF H!Without
  <2>2. \A i \in 1 .. Len(in) : (IF H!Contains(rest, said[i]) THEN <<>> ELSE <<said[i]>>) \in Seq(Plain)
    BY <1>3
  <2> HIDE DEF given
  <2>3. Len(in) \in Nat
    OBVIOUS
  <2>4. given \in [1 .. Len(in) -> Seq(Plain)]
    BY <2>1, <2>2, Zenon
  <2> QED
    BY <2>1, <2>3, <2>4
<1>5. hd \in Messages
  <2>1. H!Of(0) \in Pairs
    BY OfIs
  <2>2. hd = [kind |-> "head", of |-> H!Of(0), given |-> given]
    BY DEF H!Head0, said
  <2> QED
    BY <1>4, <2>1, <2>2 DEF Messages, MessageKinds
<1>6. H!Compacted(h, in, cut) = <<hd>> \o rest
  BY DEF H!Compacted, rest
<1>7. \A i \in 1 .. Len(in) : (\E j \in 1 .. Len(rest) : rest[j] = in[i].message) \/ hd.given[i] = <<in[i].message>>
  <2> SUFFICES ASSUME NEW i \in 1 .. Len(in), ~ \E j \in 1 .. Len(rest) : rest[j] = in[i].message
               PROVE  hd.given[i] = <<in[i].message>>
    OBVIOUS
  <2>1. ~H!Contains(rest, said[i])
    BY <1>3 DEF H!Contains
  <2> QED
    BY <1>2, <1>3, <1>4, <2>1 DEF said
<1>8. Len(hd.given) = Len(in)
  BY <1>2, <1>4 DEF said
<1> HIDE DEF hd, given
<1> DEFINE one == <<hd>>
           g == one \o rest
<1>10. one \in Seq(Messages) /\ Len(one) = 1 /\ one[1] = hd
  BY <1>5
<1> HIDE DEF one
<1>9. g \in Seq(Messages) /\ Len(g) = Len(h) - cut + 1 /\ g[1] = hd /\ \A i \in 1 .. Len(h) - cut : g[i + 1] = rest[i]
  <2>1. Len(rest) \in Nat /\ one \in Seq(Messages) /\ rest \in Seq(Messages)
    BY <1>1, <1>10
  <2>2. /\ g \in Seq(Messages) /\ Extends(g, one) /\ Len(g) = Len(one) + Len(rest)
        /\ \A i \in 1 .. Len(rest) : g[Len(one) + i] = rest[i]
    BY <2>1, Appended
  <2> HIDE DEF g
  <2>3. \A i \in 1 .. Len(h) - cut : g[i + 1] = rest[i]
    <3> SUFFICES ASSUME NEW i \in 1 .. Len(h) - cut PROVE g[i + 1] = rest[i]
      OBVIOUS
    <3>1. i \in 1 .. Len(rest) /\ Len(one) + i = i + 1
      BY <1>1, <1>10
    <3> QED
      BY <2>2, <3>1
  <2> QED
    BY <1>1, <1>10, <2>1, <2>2, <2>3 DEF Extends
<1> HIDE DEF g
<1> QED
  BY <1>1, <1>2, <1>6, <1>7, <1>8, <1>9 DEF rest, one, g

LEMMA CompactKeeps ==
  ASSUME NEW h \in Seq(Messages), NEW in \in Seq(Inputs), NEW cut \in 1 .. Len(h), NEW r \in Nat, Shape(h, <<>>, r), Kept(h, in),
         cut < Len(h) => h[cut + 1].kind # "result"
  PROVE  LET g == H!Compacted(h, in, cut) IN g \in Seq(Messages) /\ Shape(g, <<>>, r) /\ Kept(g, in) /\ HasHead(g)
<1> DEFINE g == H!Compacted(h, in, cut)
           n == Len(h) - cut
           rest == SubSeq(h, cut + 1, Len(h))
<1>0. LastReply(h, <<>>, r) /\ Replies(h, r) /\ Results(h) /\ Settled(h, <<>>)
  BY DEF Shape
<1>1. /\ g \in Seq(Messages) /\ Len(g) = n + 1 /\ g[1].kind = "head"
      /\ \A i \in 1 .. n : g[i + 1] = h[cut + i] /\ rest[i] = h[cut + i]
      /\ Len(rest) = n /\ Len(g[1].given) = Len(in)
      /\ \A i \in 1 .. Len(in) : (\E j \in 1 .. Len(rest) : rest[j] = in[i].message) \/ g[1].given[i] = <<in[i].message>>
  <2>1. cut \in 0 .. Len(h)
    OBVIOUS
  <2> QED
    BY <2>1, CompactedIs, Zenon
<1>2. n = Len(h) - cut /\ n \in Nat /\ Len(h) \in Nat /\ cut \in Nat
  OBVIOUS
<1> HIDE DEF g, n, rest
<1>3. \A i \in 1 .. Len(g) : g[i].kind # "head" => i - 1 \in 1 .. n /\ cut + (i - 1) \in 1 .. Len(h) /\ g[i] = h[cut + (i - 1)]
  <2> SUFFICES ASSUME NEW i \in 1 .. Len(g), g[i].kind # "head"
               PROVE  i - 1 \in 1 .. n /\ cut + (i - 1) \in 1 .. Len(h) /\ g[i] = h[cut + (i - 1)]
    OBVIOUS
  <2>1. i - 1 \in 1 .. n /\ cut + (i - 1) \in 1 .. Len(h) /\ (i - 1) + 1 = i
    BY <1>1, <1>2
  <2> QED
    BY <1>1, <2>1
<1>4. LastReply(g, <<>>, r)
  BY DEF LastReply
<1>5. Replies(g, r)
  <2>1. \A i \in 1 .. Len(g) : g[i].kind = "reply" => g[i].of[1] <= r /\ g[i] = H!Message("reply", H!Of(g[i].of[1]))
    BY <1>0, <1>3 DEF Replies
  <2>2. \A i, j \in 1 .. Len(g) : g[i].kind = "reply" /\ g[i] = g[j] => i = j
    <3> SUFFICES ASSUME NEW i \in 1 .. Len(g), NEW j \in 1 .. Len(g), g[i].kind = "reply", g[i] = g[j] PROVE i = j
      OBVIOUS
    <3>1. cut + (i - 1) = cut + (j - 1)
      BY <1>0, <1>3 DEF Replies
    <3>2. cut \in Nat /\ i \in Int /\ j \in Int
      BY <1>2
    <3> QED
      BY <3>1, <3>2
  <2> QED
    BY <2>1, <2>2 DEF Replies
\* A reply's results are behind it, with nothing else between: no cut parts them.
<1>6. \A i \in 1 .. Len(h) : i > cut /\ h[i].kind = "result" =>
        \E j \in 1 .. i - 1 : j > cut /\ h[j] = H!Message("reply", H!Of(h[i].of[1])) /\ \A k \in j + 1 .. i : h[k].kind = "result"
  <2> SUFFICES ASSUME NEW i \in 1 .. Len(h), i > cut, h[i].kind = "result"
               PROVE  \E j \in 1 .. i - 1 : j > cut /\ h[j] = H!Message("reply", H!Of(h[i].of[1])) /\ \A k \in j + 1 .. i : h[k].kind = "result"
    OBVIOUS
  <2>1. PICK j \in 1 .. i - 1 : h[j] = H!Message("reply", H!Of(h[i].of[1])) /\ \A k \in j + 1 .. i : h[k].kind = "result"
    BY <1>0 DEF Results, Follows
  <2>2. j > cut
    <3>1. SUFFICES ASSUME j <= cut PROVE FALSE
      BY <1>2
    <3>2. cut + 1 \in j + 1 .. i /\ cut < Len(h)
      BY <1>2, <3>1
    <3> QED
      BY <2>1, <3>2
  <2> QED
    BY <2>1, <2>2
<1>7. Results(g)
  <2> SUFFICES ASSUME NEW i \in 1 .. Len(g), g[i].kind = "result" PROVE Follows(g, i)
    BY DEF Results
  <2> DEFINE m == cut + (i - 1)
  <2>1. i - 1 \in 1 .. n /\ m \in 1 .. Len(h) /\ m > cut /\ g[i] = h[m]
    BY <1>2, <1>3, SMTT(30)
  <2>2. PICK j \in 1 .. m - 1 : j > cut /\ h[j] = H!Message("reply", H!Of(h[m].of[1])) /\ \A k \in j + 1 .. m : h[k].kind = "result"
    BY <1>6, <2>1
  <2> DEFINE l == j - cut + 1
  <2>3. l \in 1 .. i - 1 /\ l - 1 \in 1 .. n /\ (l - 1) + 1 = l /\ cut + (l - 1) = j
    BY <1>2, <2>1, <2>2
  <2>4. g[l] = h[j]
    BY <1>1, <2>3
  <2>5. \A k \in l + 1 .. i : g[k].kind = "result"
    <3> SUFFICES ASSUME NEW k \in l + 1 .. i PROVE g[k].kind = "result"
      OBVIOUS
    <3>1. k - 1 \in 1 .. n /\ (k - 1) + 1 = k /\ cut + (k - 1) \in j + 1 .. m
      <4>1. i \in Nat /\ j \in Nat /\ j > cut /\ i - 1 <= n /\ 1 <= i
        BY <1>2, <2>1, <2>2
      <4> QED
        BY <1>2, <4>1
    <3>2. g[k] = h[cut + (k - 1)]
      BY <1>1, <3>1
    <3> QED
      BY <2>2, <3>1, <3>2
  <2> HIDE DEF l, m
  <2> QED
    BY <2>1, <2>2, <2>3, <2>4, <2>5 DEF Follows
<1>8. Settled(g, <<>>)
  <2> SUFFICES ASSUME NEW c, OfReply(g, c) PROVE OneResult(g, c) /\ (Listed(<<>>, c) <=> ~HasResult(g, c))
    BY DEF Settled
  <2>1. PICK i \in 1 .. Len(g) : g[i].kind = "reply" /\ \E x \in 1 .. Len(H!Calls(g[i].of[1])) : c = H!Calls(g[i].of[1])[x]
    BY DEF OfReply
  <2> DEFINE a == cut + (i - 1)
  <2>2. i - 1 \in 1 .. n /\ a \in 1 .. Len(h) /\ a > cut /\ g[i] = h[a]
    BY <1>2, <1>3, <2>1
  <2> HIDE DEF a
  <2>3. OfReply(h, c)
    BY <2>1, <2>2 DEF OfReply
  <2>4. c \in Pairs /\ ~Listed(<<>>, c)
    BY <1>0, <2>3, OfReplyIs DEF Listed
  <2>5. H!Message("result", c).kind = "result" /\ H!Message("result", c).of = c
    BY <2>4, MessageIs DEF MessageKinds
  <2>6. OneResult(h, c) /\ HasResult(h, c)
    BY <1>0, <2>3, <2>4 DEF Settled
  <2>7. OneResult(g, c)
    <3> SUFFICES ASSUME NEW j \in 1 .. Len(g), NEW k \in 1 .. Len(g), g[j] = H!Message("result", c), g[k] = H!Message("result", c) PROVE j = k
      BY DEF OneResult
    <3>1. cut + (j - 1) = cut + (k - 1)
      BY <1>3, <2>5, <2>6 DEF OneResult
    <3>2. cut \in Nat /\ j \in Int /\ k \in Int
      BY <1>2
    <3> QED
      BY <3>1, <3>2
  <2>8. HasResult(g, c)
    <3>1. PICK j \in 1 .. Len(h) : h[j] = H!Message("result", c)
      BY <2>6 DEF HasResult
    <3>2. PICK b \in 1 .. j - 1 : h[b] = H!Message("reply", H!Of(c[1]))
      BY <1>0, <2>5, <3>1 DEF Results, Follows
    <3>3. c[1] \in Nat /\ h[a].of[1] \in Nat
      <4>1. h[a] \in Messages
        BY <2>2
      <4> QED
        BY <2>4, <4>1 DEF Pairs, Messages
    <3>4. c[1] = h[a].of[1]
      BY <2>1, <2>2, <3>3, CallsOf
    <3>5. h[a] = H!Message("reply", H!Of(c[1]))
      BY <1>0, <2>1, <2>2, <3>4 DEF Replies
    <3>6. a = b
      <4>1. b \in 1 .. Len(h)
        OBVIOUS
      <4> QED
        BY <1>0, <2>1, <2>2, <3>2, <3>5, <4>1 DEF Replies
    <3>7. j - cut \in 1 .. n /\ cut + (j - cut) = j /\ (j - cut) + 1 \in 1 .. Len(g)
      <4>1. j \in Nat /\ j <= Len(h) /\ cut < j
        BY <1>2, <2>2, <3>6
      <4> QED
        BY <1>1, <1>2, <4>1
    <3>8. g[(j - cut) + 1] = h[j]
      BY <1>1, <3>7
    <3> QED
      BY <3>1, <3>7, <3>8 DEF HasResult
  <2> QED
    BY <2>4, <2>7, <2>8
<1>9. Kept(g, in)
  <2> SUFFICES ASSUME NEW i \in 1 .. Len(in)
               PROVE  (\E j \in 1 .. Len(g) : g[j] = in[i].message) \/ \E j \in 1 .. Len(g) : \E k \in 1 .. Len(g[j].given) : g[j].given[k] = <<in[i].message>>
    BY DEF Kept
  <2>1. CASE \E j \in 1 .. Len(rest) : rest[j] = in[i].message
    <3>1. PICK j \in 1 .. n : rest[j] = in[i].message
      BY <1>1, <2>1
    <3>2. g[j + 1] = rest[j]
      BY <1>1
    <3>3. j + 1 \in 1 .. Len(g)
      BY <1>1, <1>2
    <3> QED
      BY <3>1, <3>2, <3>3
  <2>2. CASE g[1].given[i] = <<in[i].message>>
    <3>1. 1 \in 1 .. Len(g) /\ i \in 1 .. Len(g[1].given)
      BY <1>1
    <3> QED
      BY <2>2, <3>1
  <2> QED
    BY <1>1, <2>1, <2>2
<1>10. HasHead(g)
  <2>1. 1 \in 1 .. Len(g)
    BY <1>1
  <2> QED
    BY <1>1, <2>1 DEF HasHead
<1> QED
  BY <1>1, <1>4, <1>5, <1>7, <1>8, <1>9, <1>10 DEF Shape, g

-----------------------------------------------------------------------------
(* What an entry gives.                                                    *)

LEMMA EntryIs ==
  ASSUME NEW type \in EntryTypes, NEW of \in Pairs
  PROVE  H!Entry(type, of) \in FileEntries /\ H!Entry(type, of).type = type /\ H!Entry(type, of).of = of
BY DEF H!Entry, FileEntries

LEMMA ReadNothing ==
  ASSUME NEW s, NEW es, NEW n, es[n].type \in {"amendment", "clarification", "run_end"}
  PROVE  H!ReadBack(s, es, n) = s
BY DEF H!ReadBack

LEMMA ReadAssistant ==
  ASSUME NEW s, IsRead(s), NEW es, NEW n, es[n].type = "assistant"
  PROVE  H!ReadBack(s, es, n) =
           [history |-> Append(s.history, H!Message("reply", es[n].of)), ledger |-> s.ledger, summarized |-> s.summarized]
BY DEF H!ReadBack, IsRead

LEMMA ReadResult ==
  ASSUME NEW s, IsRead(s), NEW es, NEW n, es[n].type = "tool_result", ~H!Given(es, n, es[n].of)
  PROVE  H!ReadBack(s, es, n) =
           [history |-> Append(s.history, H!Message("result", es[n].of)), ledger |-> s.ledger, summarized |-> s.summarized]
BY DEF H!ReadBack, IsRead

LEMMA ReadAnswer ==
  ASSUME NEW s, NEW es, NEW n, es[n].type = "tool_result", H!Given(es, n, es[n].of)
  PROVE  H!ReadBack(s, es, n) =
           [history |-> Append(s.history, H!Message("result", es[n].of)),
            ledger |-> H!ToLedger(s.ledger, H!Message("result", es[n].of), H!OrderOf(es, n, H!Entry("clarification", es[n].of))),
            summarized |-> s.summarized]
BY DEF H!ReadBack

LEMMA ReadDelivered ==
  ASSUME NEW s, NEW es, NEW n, es[n].type = "delivered"
  PROVE  H!ReadBack(s, es, n) =
           [history |-> Append(s.history, H!Message("amended", es[n].of)),
            ledger |-> H!ToLedger(s.ledger, H!Message("amended", es[n].of), H!OrderOf(es, n, H!Entry("amendment", es[n].of))),
            summarized |-> s.summarized]
BY DEF H!ReadBack

LEMMA ReadReferences ==
  ASSUME NEW s, NEW es, NEW n, es[n].type = "references"
  PROVE  H!ReadBack(s, es, n) =
           [history |-> Append(s.history, H!Message("referenced", es[n].of)),
            ledger |-> H!ToLedger(s.ledger, H!Message("referenced", es[n].of), n), summarized |-> s.summarized]
BY DEF H!ReadBack

LEMMA ReadRequest ==
  ASSUME NEW s, NEW es, NEW n, es[n].type = "request"
  PROVE  LET asked == <<H!Message("asked", es[n].of)>> \o IF Checked THEN <<H!Message("checking", es[n].of)>> ELSE <<>>
         IN H!ReadBack(s, es, n) =
              [history |-> s.history \o asked, ledger |-> [i \in 1 .. Len(asked) |-> [message |-> asked[i], at |-> n]],
               summarized |-> s.summarized]
BY DEF H!ReadBack

LEMMA ReadRepair ==
  ASSUME NEW s, IsRead(s), NEW es, NEW n, es[n].type = "reconciliation"
  PROVE  H!ReadBack(s, es, n) = [history |-> H!Repaired(s.history, es[n].of), ledger |-> s.ledger, summarized |-> s.summarized]
BY DEF H!ReadBack, IsRead

LEMMA ReadCompaction ==
  ASSUME NEW s, NEW es, NEW n, es[n].type = "compaction"
  PROVE  H!ReadBack(s, es, n) =
           [history |-> H!Compacted(s.history, s.ledger, IF Len(s.history) > es[n].of[1] THEN Len(s.history) - es[n].of[1] ELSE 0),
            ledger |-> s.ledger, summarized |-> TRUE]
BY DEF H!ReadBack

\* A reply that only results follow gets its repair at the end.
LEMMA RepairedAtEnd ==
  ASSUME NEW h \in Seq(Messages), NEW r \in Nat, Replies(h, r), NEW call, call[1] = r,
         \E j \in 1 .. Len(h) : h[j] = H!Message("reply", H!Of(r)) /\ \A k \in j + 1 .. Len(h) : h[k].kind = "result"
  PROVE  H!Repaired(h, call) = h \o <<H!Message("result", call)>>
<1>1. PICK j \in 1 .. Len(h) : h[j] = H!Message("reply", H!Of(r)) /\ \A k \in j + 1 .. Len(h) : h[k].kind = "result"
  OBVIOUS
<1> DEFINE at == {i \in 1 .. Len(h) : h[i] = H!Message("reply", H!Of(call[1]))}
<1>2. at = {j}
  <2>1. h[j].kind = "reply"
    BY <1>1, OfIs, MessageIs DEF MessageKinds
  <2>2. \A i \in at : i = j
    BY <1>1, <2>1 DEF Replies
  <2>3. j \in at
    BY <1>1
  <2> HIDE DEF at
  <2> QED
    BY <2>2, <2>3
<1>3. H!Max(at) = j
  <2>1. j \in Nat /\ {j} \subseteq Nat /\ {j} # {} /\ \A x \in {j} : x <= j
    OBVIOUS
  <2>2. H!Max({j}) \in {j}
    BY <2>1, Greatest
  <2> HIDE DEF at
  <2> QED
    BY <1>2, <2>2
<1> DEFINE ends == {n \in H!Max(at) .. Len(h) : \A i \in H!Max(at) + 1 .. n : h[i].kind = "result"}
<1>4. H!Max(ends) = Len(h)
  <2>1. Len(h) \in Nat /\ j \in Nat /\ j <= Len(h)
    OBVIOUS
  <2>2. ends \subseteq Nat /\ Len(h) \in ends /\ \A x \in ends : x <= Len(h)
    <3> HIDE DEF at
    <3> QED
      BY <1>1, <1>3, <2>1
  <2>3. H!Max(ends) \in ends /\ \A x \in ends : x <= H!Max(ends)
    <3>1. ends # {}
      BY <2>2
    <3> HIDE DEF ends
    <3> QED
      BY <2>1, <2>2, <3>1, Greatest
  <2>4. H!Max(ends) \in Nat /\ H!Max(ends) <= Len(h) /\ Len(h) <= H!Max(ends)
    <3> HIDE DEF ends
    <3> QED
      BY <2>2, <2>3
  <2> HIDE DEF ends
  <2> QED
    BY <2>1, <2>4
<1>5. H!Repaired(h, call) = SubSeq(h, 1, Len(h)) \o <<H!Message("result", call)>> \o SubSeq(h, Len(h) + 1, Len(h))
  <2>1. at # {}
    BY <1>2
  <2>2. H!Repaired(h, call) = IF at = {} THEN h ELSE SubSeq(h, 1, H!Max(ends)) \o <<H!Message("result", call)>> \o SubSeq(h, H!Max(ends) + 1, Len(h))
    BY DEF H!Repaired
  <2> HIDE DEF at, ends
  <2> QED
    BY <1>4, <2>1, <2>2
<1>6. SubSeq(h, 1, Len(h)) = h /\ SubSeq(h, Len(h) + 1, Len(h)) = <<>>
  OBVIOUS
<1> DEFINE m == H!Message("result", call)
<1>7. (h \o <<m>>) \o <<>> = h \o <<m>>
  <2> HIDE DEF m
  <2> QED
    OBVIOUS
<1> QED
  BY <1>5, <1>6, <1>7

-----------------------------------------------------------------------------
(* What waits, as the file grows.                                          *)

\* An entry of nothing that waits changes nothing of it.
LEMMA WaitsOn ==
  ASSUME NEW es, NEW fs, Extends(fs, es), Len(es) \in Nat, NEW in, NEW read, NEW order \in Int, NEW later \in Int, order <= later,
         NEW w, Waits(es, in, read, order, w),
         \A p \in Len(es) + 1 .. Len(fs) : \A k \in DOMAIN w : fs[p] # w[k].entry
  PROVE  Waits(fs, in, read, later, w)
<1>1. Len(fs) \in Nat /\ Len(es) <= Len(fs) /\ \A p \in 1 .. Len(es) : fs[p] = es[p]
  BY DEF Extends
<1>2. \A k \in DOMAIN w : \A p \in 1 .. Len(fs) : fs[p] = w[k].entry => p \in 1 .. Len(es) /\ es[p] = w[k].entry
  BY <1>1
<1>3. \A k \in DOMAIN w : Pending(fs, in, read, later, w[k].entry, w[k].at)
  <2> SUFFICES ASSUME NEW k \in DOMAIN w PROVE Pending(fs, in, read, later, w[k].entry, w[k].at)
    OBVIOUS
  <2>1. Pending(es, in, read, order, w[k].entry, w[k].at)
    BY DEF Waits
  <2>2. PICK p \in 1 .. Len(es) : Once(es, w[k].entry, p) /\ Between(in, read, w[k].at, p)
    BY <2>1 DEF Pending
  <2>3. p \in 1 .. Len(fs) /\ Once(fs, w[k].entry, p)
    BY <1>1, <1>2, <2>2 DEF Once
  <2>4. w[k].at \in Nat /\ w[k].at < later
    BY <2>1 DEF Pending
  <2> QED
    BY <2>2, <2>3, <2>4 DEF Pending
<1>4. \A j, k \in DOMAIN w : j # k => Agree(fs, w[j].entry, w[j].at, w[k].entry, w[k].at)
  BY <1>2 DEF Waits, Agree
<1> QED
  BY <1>3, <1>4 DEF Waits

\* One more waits, x, of the entry e.
Grows(w, new, x, e, at) ==
  x \notin DOMAIN w /\ DOMAIN new = DOMAIN w \cup {x} /\ (\A k \in DOMAIN w : new[k] = w[k]) /\ new[x].entry = e /\ new[x].at = at

\* What comes to wait comes last, by its entry's place and by its own.
LEMMA WaitsMore ==
  ASSUME NEW es, NEW fs, Extends(fs, es), Len(es) \in Nat, Len(fs) = Len(es) + 1, NEW in \in Seq(Inputs), NEW read \in Seq(Inputs),
         Same(in, read), NEW order \in Nat, NEW last, last = order - 1, NEW later, later = order + 1,
         Sorted(in, last), Sorted(read, Len(es)),
         NEW w, Waits(es, in, read, order, w),
         NEW x, NEW new, Grows(w, new, x, fs[Len(fs)], order), \A p \in 1 .. Len(es) : es[p] # fs[Len(fs)]
  PROVE  Waits(fs, in, read, later, new)
<1> DEFINE N == Len(fs)
<1>0. /\ x \notin DOMAIN w /\ DOMAIN new = DOMAIN w \cup {x} /\ \A k \in DOMAIN w : new[k] = w[k]
      /\ new[x].entry = fs[Len(fs)] /\ new[x].at = order
  BY DEF Grows
<1>1. N \in Nat /\ N = Len(es) + 1 /\ \A p \in 1 .. Len(es) : fs[p] = es[p]
  BY DEF Extends
<1>2. \A k \in DOMAIN w : \E p \in 1 .. Len(es) : Once(es, w[k].entry, p) /\ w[k].at \in Nat /\ w[k].at < order
  BY DEF Waits, Pending
<1>3. \A k \in DOMAIN w : fs[N] # w[k].entry
  BY <1>2 DEF Once
<1>4. Waits(fs, in, read, order + 1, w)
  <2>1. \A p \in Len(es) + 1 .. Len(fs) : p = N
    BY <1>1
  <2>2. \A p \in Len(es) + 1 .. Len(fs) : \A k \in DOMAIN w : fs[p] # w[k].entry
    BY <1>3, <2>1
  <2>3. order \in Int /\ order + 1 \in Int /\ order <= order + 1
    OBVIOUS
  <2> QED
    BY <2>2, <2>3, WaitsOn
<1>5. Once(fs, fs[N], N)
  BY <1>1 DEF Once
<1>6. Between(in, read, order, N)
  <2> SUFFICES ASSUME NEW i \in 1 .. Len(in) PROVE Before(in[i].at, read[i].at, order, N)
    BY DEF Between
  <2>1. i \in 1 .. Len(read)
    BY DEF Same
  <2>2. in[i].at \in Nat /\ read[i].at \in Nat
    BY <2>1, InputTypes
  <2>3. in[i].at <= order - 1 /\ read[i].at <= Len(es)
    BY <2>1 DEF Sorted
  <2> QED
    BY <1>1, <2>2, <2>3 DEF Before
<1>7. Pending(fs, in, read, order + 1, new[x].entry, new[x].at)
  BY <1>0, <1>1, <1>5, <1>6 DEF Pending
<1>8. \A k \in DOMAIN w : Agree(fs, w[k].entry, w[k].at, new[x].entry, new[x].at) /\ Agree(fs, new[x].entry, new[x].at, w[k].entry, w[k].at)
  <2> SUFFICES ASSUME NEW k \in DOMAIN w, NEW p \in 1 .. Len(fs), NEW q \in 1 .. Len(fs), fs[p] = w[k].entry, fs[q] = fs[N]
               PROVE  Before(w[k].at, p, order, q) /\ Before(order, q, w[k].at, p)
    BY <1>0 DEF Agree
  <2>1. q = N
    BY <1>5 DEF Once
  <2>2. p # N /\ p < N
    BY <1>1, <1>3
  <2>3. w[k].at \in Nat /\ w[k].at < order
    BY <1>2
  <2> QED
    BY <1>1, <2>1, <2>2, <2>3 DEF Before
<1> HIDE DEF N
<1>9. \A k \in DOMAIN new : Pending(fs, in, read, order + 1, new[k].entry, new[k].at)
  BY <1>0, <1>4, <1>7 DEF Waits
<1>10. \A j, k \in DOMAIN new : j # k => Agree(fs, new[j].entry, new[j].at, new[k].entry, new[k].at)
  <2> SUFFICES ASSUME NEW j \in DOMAIN new, NEW k \in DOMAIN new, j # k PROVE Agree(fs, new[j].entry, new[j].at, new[k].entry, new[k].at)
    OBVIOUS
  <2>1. CASE j \in DOMAIN w /\ k \in DOMAIN w
    BY <1>0, <1>4, <2>1 DEF Waits
  <2>2. CASE j = x /\ k \in DOMAIN w
    BY <1>0, <1>8, <2>2
  <2>3. CASE j \in DOMAIN w /\ k = x
    BY <1>0, <1>8, <2>3
  <2> QED
    BY <1>0, <2>1, <2>2, <2>3
<1>11. Waits(fs, in, read, order + 1, new)
  BY <1>9, <1>10 DEF Waits
<1> QED
  BY <1>11

\* What joins the ledger no longer waits; the rest still does.
LEMMA WaitsLess ==
  ASSUME NEW es, NEW in \in Seq(Inputs), NEW read \in Seq(Inputs), NEW order \in Nat, Same(in, read),
         Sorted(in, order - 1), Len(es) \in Nat, Sorted(read, Len(es)),
         NEW w, Waits(es, in, read, order, w), NEW x \in DOMAIN w, NEW message \in Plain, NEW p \in 1 .. Len(es), Once(es, w[x].entry, p),
         NEW less, DOMAIN less = DOMAIN w \ {x}, \A k \in DOMAIN less : less[k] = w[k]
  PROVE  LET T == H!ToLedger(in, message, w[x].at)
             U == H!ToLedger(read, message, p)
         IN /\ T \in Seq(Inputs) /\ U \in Seq(Inputs) /\ Same(T, U) /\ Sorted(T, order - 1) /\ Sorted(U, Len(es))
            /\ Waits(es, T, U, order, less)
<1> DEFINE at == w[x].at
           T == H!ToLedger(in, message, at)
           U == H!ToLedger(read, message, p)
<1>1. at \in Nat /\ at < order /\ Between(in, read, at, p)
  <2>1. Pending(es, in, read, order, w[x].entry, at)
    BY DEF Waits
  <2> QED
    BY <2>1 DEF Pending, Once
<1>2. at <= order - 1 /\ p \in Nat /\ p <= Len(es) /\ order - 1 \in Int /\ Len(es) \in Int
  BY <1>1
<1>3. /\ T \in Seq(Inputs) /\ U \in Seq(Inputs) /\ Same(T, U) /\ Sorted(T, order - 1) /\ Sorted(U, Len(es))
      /\ \A b, q \in Nat : Between(in, read, b, q) /\ Before(at, p, b, q) => Between(T, U, b, q)
  <2> HIDE DEF at
  <2> QED
    BY <1>1, <1>2, BothLedgers
<1>4. \A k \in DOMAIN less : Pending(es, T, U, order, less[k].entry, less[k].at)
  <2> SUFFICES ASSUME NEW k \in DOMAIN less PROVE Pending(es, T, U, order, w[k].entry, w[k].at)
    OBVIOUS
  <2>1. k \in DOMAIN w /\ k # x
    OBVIOUS
  <2>2. Pending(es, in, read, order, w[k].entry, w[k].at) /\ Agree(es, w[x].entry, at, w[k].entry, w[k].at)
    BY <2>1 DEF Waits
  <2>3. PICK q \in 1 .. Len(es) : Once(es, w[k].entry, q) /\ Between(in, read, w[k].at, q)
    BY <2>2 DEF Pending
  <2>4. Before(at, p, w[k].at, q)
    BY <2>2, <2>3 DEF Agree, Once
  <2>5. w[k].at \in Nat /\ w[k].at < order /\ q \in Nat
    BY <2>2 DEF Pending
  <2>6. Between(T, U, w[k].at, q)
    <3> HIDE DEF at, T, U
    <3> QED
      BY <1>3, <2>3, <2>4, <2>5
  <2> HIDE DEF at, T, U
  <2> QED
    BY <2>3, <2>5, <2>6 DEF Pending
<1>5. \A j, k \in DOMAIN less : j # k => Agree(es, less[j].entry, less[j].at, less[k].entry, less[k].at)
  BY DEF Waits
<1> HIDE DEF T, U, at
<1>6. Waits(es, T, U, order, less)
  BY <1>4, <1>5 DEF Waits
<1> QED
  BY <1>3, <1>6 DEF T, U, at

-----------------------------------------------------------------------------
(* The steps.                                                              *)

\* One entry more, and what it gives.
Adds(es, e, fs) == fs = es \o <<e>>
LEMMA Grown ==
  ASSUME NEW es \in Seq(FileEntries), NEW e \in FileEntries, NEW fs, Adds(es, e, fs)
  PROVE  /\ fs \in Seq(FileEntries) /\ Len(es) \in Nat /\ Len(fs) = Len(es) + 1 /\ Extends(fs, es) /\ fs[Len(es) + 1] = e
         /\ \A p \in Len(es) + 1 .. Len(fs) : fs[p] = e
         /\ H!Rebuilt(fs) = H!ReadBack(H!Rebuilt(es), fs, Len(es) + 1)
<1>0. fs = es \o <<e>>
  BY DEF Adds
<1>1. /\ fs \in Seq(FileEntries) /\ Len(fs) = Len(es) + 1 /\ Extends(fs, es) /\ fs[Len(es) + 1] = e /\ Len(es) \in Nat
  <2>1. <<e>> \in Seq(FileEntries) /\ Len(<<e>>) = 1 /\ <<e>>[1] = e
    OBVIOUS
  <2>2. /\ fs \in Seq(FileEntries) /\ Extends(fs, es) /\ Len(fs) = Len(es) + Len(<<e>>)
        /\ \A i \in 1 .. Len(<<e>>) : fs[Len(es) + i] = <<e>>[i]
    <3> DEFINE one == <<e>>
    <3>1. one \in Seq(FileEntries) /\ fs = es \o one
      BY <1>0
    <3> HIDE DEF one
    <3>2. /\ fs \in Seq(FileEntries) /\ Extends(fs, es) /\ Len(fs) = Len(es) + Len(one)
          /\ \A i \in 1 .. Len(one) : fs[Len(es) + i] = one[i]
      BY <3>1, Appended
    <3> QED
      BY <3>2 DEF one
  <2> QED
    BY <2>1, <2>2
<1>2. H!Rebuilt(fs) = H!ReadBack(H!Rebuilt(es), fs, Len(es) + 1)
  BY <1>0, OneMore
<1>3. \A p \in Len(es) + 1 .. Len(fs) : p = Len(es) + 1
  BY <1>1
<1> QED
  BY <1>1, <1>2, <1>3

\* An entry that gives nothing.
LEMMA GrownUnread ==
  ASSUME NEW es \in Seq(FileEntries), NEW e \in FileEntries, NEW fs, Adds(es, e, fs), e.type \in {"amendment", "clarification", "run_end"}
  PROVE  H!Rebuilt(fs) = H!Rebuilt(es)
<1>1. fs[Len(es) + 1] = e /\ H!Rebuilt(fs) = H!ReadBack(H!Rebuilt(es), fs, Len(es) + 1)
  BY Grown
<1> DEFINE n == Len(es) + 1
           s == H!Rebuilt(es)
<1>2. fs[n].type \in {"amendment", "clarification", "run_end"} /\ H!Rebuilt(fs) = H!ReadBack(s, fs, n)
  BY <1>1
<1> HIDE DEF n, s
<1>3. H!ReadBack(s, fs, n) = s
  BY <1>2, ReadNothing
<1> QED
  BY <1>2, <1>3 DEF s

\* What waits, as the queue and the answer change.
LEMMA WaitingIs ==
  ASSUME NEW queue, NEW answered, Len(queue) \in Nat
  PROVE  /\ DOMAIN Waiting(queue, answered) = (IF answered = <<>> THEN {} ELSE {0}) \cup (1 .. Len(queue))
         /\ answered # <<>> => Waiting(queue, answered)[0] = [entry |-> H!Entry("clarification", answered[1].call), at |-> answered[1].at]
         /\ \A k \in 1 .. Len(queue) : Waiting(queue, answered)[k] = [entry |-> H!Entry("amendment", queue[k].id), at |-> queue[k].at]
         /\ \A k \in DOMAIN Waiting(queue, answered) : Waiting(queue, answered)[k].entry.type \in {"amendment", "clarification"}
BY DEF Waiting, H!Entry

LEMMA NothingWaits ==
  ASSUME NEW es, NEW in, NEW read, NEW order
  PROVE  Waits(es, in, read, order, Waiting(<<>>, <<>>))
<1>1. DOMAIN Waiting(<<>>, <<>>) = {}
  <2>1. 1 .. Len(<<>>) = {}
    OBVIOUS
  <2> QED
    BY <2>1 DEF Waiting
<1> QED
  BY <1>1 DEF Waits

\* What holds of a step's entries that are no amendment's and no answer's.
LEMMA FreshOn ==
  ASSUME HInv, Extends(hEntries', hEntries), \A p \in Len(hEntries) + 1 .. Len(hEntries') : hEntries'[p].type \notin {"amendment", "clarification"}
  PROVE  /\ \A p \in 1 .. Len(hEntries') : hEntries'[p].type = "amendment" => hEntries'[p].of[1] <= hAmends
         /\ \A p \in 1 .. Len(hEntries') : hEntries'[p].type = "clarification" =>
              /\ hEntries'[p].of[1] <= hReplies
              /\ \A i \in 1 .. Len(hTodo) : hTodo[i] = hEntries'[p].of => i = 1 /\ hAnswered # <<>>
<1>1. Len(hEntries) \in Nat
  BY DEF HInv, HTyped
<1>2. \A p \in 1 .. Len(hEntries') : hEntries'[p].type \in {"amendment", "clarification"} => p \in 1 .. Len(hEntries) /\ hEntries'[p] = hEntries[p]
  BY <1>1 DEF Extends
<1> QED
  BY <1>2 DEF HInv, FreshInv

LEMMA EndKeeps == ASSUME HInv, H!End PROVE HInv'
<1> DEFINE e == H!Entry("run_end", H!Of(hRuns))
<1>1. /\ hOpen /\ hTodo = <<>> /\ hQueue = <<>> /\ hOpen' = FALSE /\ Adds(hEntries, e, hEntries')
      /\ UNCHANGED <<hHistory, hLedger, hOrder, hQueue, hTodo, hAnswered, hSummarized, hRuns, hReplies, hAmends>>
  BY DEF H!End, H!Write, H!counts, Adds
<1>2. e \in FileEntries /\ e.type = "run_end"
  <2>1. H!Of(hRuns) \in Pairs
    BY OfIs DEF HInv, HTyped
  <2> QED
    BY <2>1, EntryIs DEF EntryTypes
<1>3. hEntries \in Seq(FileEntries)
  BY DEF HInv, HTyped
<1> HIDE DEF e
<1>4. /\ hEntries' \in Seq(FileEntries) /\ Len(hEntries) \in Nat /\ Len(hEntries') = Len(hEntries) + 1 /\ Extends(hEntries', hEntries)
      /\ \A p \in Len(hEntries) + 1 .. Len(hEntries') : hEntries'[p] = e
  BY <1>1, <1>2, <1>3, Grown
<1>5. Read' = Read
  BY <1>1, <1>2, <1>3, GrownUnread DEF Read
<1>6. HTyped'
  BY <1>1, <1>4, <1>5 DEF HInv, HTyped
<1>7. ReadsInv' /\ SortedInv'
  <2>1. Sorted(Read.ledger, Len(hEntries'))
    BY <1>4, InputTypes DEF HInv, HTyped, SortedInv, Sorted
  <2> QED
    BY <1>1, <1>5, <2>1 DEF HInv, ReadsInv, SortedInv
<1>8. WaitInv'
  <2>1. Waits(hEntries', hLedger, Read.ledger, hOrder, Waiting(hQueue, hAnswered))
    <3>1. hOrder \in Int /\ Len(hQueue) \in Nat
      BY DEF HInv, HTyped
    <3>3. \A k \in DOMAIN Waiting(hQueue, hAnswered) : Waiting(hQueue, hAnswered)[k].entry.type \in {"amendment", "clarification"}
      BY <3>1, WaitingIs
    <3>2. \A p \in Len(hEntries) + 1 .. Len(hEntries') : \A k \in DOMAIN Waiting(hQueue, hAnswered) : hEntries'[p] # Waiting(hQueue, hAnswered)[k].entry
      BY <1>2, <1>4, <3>3
    <3> QED
      BY <1>4, <3>1, <3>2, WaitsOn DEF HInv, WaitInv
  <2> QED
    BY <1>1, <1>5, <2>1 DEF WaitInv
<1>9. FreshInv'
  <2>1. \A p \in Len(hEntries) + 1 .. Len(hEntries') : hEntries'[p].type \notin {"amendment", "clarification"}
    BY <1>2, <1>4
  <2> QED
    BY <1>1, <1>4, <2>1, FreshOn DEF HInv, FreshInv
<1>10. ShapeInv'
  BY <1>1 DEF HInv, ShapeInv
<1> QED
  BY <1>6, <1>7, <1>8, <1>9, <1>10 DEF HInv

LEMMA AmendmentWaits ==
  ASSUME NEW queue, NEW more, NEW answered, Extends(more, queue), Len(queue) \in Nat, Len(more) = Len(queue) + 1
  PROVE  Grows(Waiting(queue, answered), Waiting(more, answered), Len(more), H!Entry("amendment", more[Len(more)].id), more[Len(more)].at)
<1> DEFINE n == Len(more)
<1>1. n \in Nat /\ n = Len(queue) + 1 /\ n # 0 /\ \A k \in 1 .. Len(queue) : k \in 1 .. n /\ k # 0 /\ more[k] = queue[k]
  BY DEF Extends
<1>2. 1 .. n = (1 .. Len(queue)) \cup {n} /\ n \notin 1 .. Len(queue)
  BY <1>1
<1>3. /\ DOMAIN Waiting(queue, answered) = (IF answered = <<>> THEN {} ELSE {0}) \cup (1 .. Len(queue))
      /\ DOMAIN Waiting(more, answered) = (IF answered = <<>> THEN {} ELSE {0}) \cup (1 .. n)
  BY DEF Waiting
<1>4. n \notin DOMAIN Waiting(queue, answered) /\ DOMAIN Waiting(more, answered) = DOMAIN Waiting(queue, answered) \cup {n}
  BY <1>1, <1>2, <1>3
<1>5. \A k \in 1 .. Len(queue) : Waiting(more, answered)[k] = Waiting(queue, answered)[k]
  BY <1>1 DEF Waiting
<1>6. answered # <<>> => Waiting(more, answered)[0] = Waiting(queue, answered)[0]
  BY DEF Waiting
<1>7. Waiting(more, answered)[n] = [entry |-> H!Entry("amendment", more[n].id), at |-> more[n].at]
  <2>1. n \in 1 .. n
    BY <1>1
  <2> QED
    BY <1>1, <2>1 DEF Waiting
<1> HIDE DEF n
<1>8. \A k \in DOMAIN Waiting(queue, answered) : Waiting(more, answered)[k] = Waiting(queue, answered)[k]
  BY <1>3, <1>5, <1>6
<1> QED
  BY <1>4, <1>7, <1>8 DEF n, Grows

LEMMA AnswerWaits ==
  ASSUME NEW queue, Len(queue) \in Nat, NEW x
  PROVE  Grows(Waiting(queue, <<>>), Waiting(queue, <<x>>), 0, H!Entry("clarification", x.call), x.at)
<1> DEFINE w == Waiting(queue, <<>>)
           one == <<x>>
           new == Waiting(queue, one)
<1>1. one # <<>> /\ one[1] = x
  OBVIOUS
<1> HIDE DEF one
<1>2. DOMAIN w = {} \cup (1 .. Len(queue)) /\ DOMAIN new = {0} \cup (1 .. Len(queue))
  BY <1>1, WaitingIs
<1>3. \A k \in 1 .. Len(queue) : new[k] = w[k]
  BY DEF Waiting
<1>4. new[0] = [entry |-> H!Entry("clarification", x.call), at |-> x.at]
  BY <1>1, WaitingIs
<1>5. 0 \notin 1 .. Len(queue)
  OBVIOUS
<1> QED
  BY <1>2, <1>3, <1>4, <1>5 DEF one, Grows

LEMMA AmendKeeps == ASSUME HInv, H!Amend PROVE HInv'
<1> DEFINE of == H!Of(hAmends + 1)
           e == H!Entry("amendment", of)
           x == [id |-> of, at |-> hOrder]
<1>1. /\ hOpen /\ hAmends < MaxAmend /\ hAmends' = hAmends + 1 /\ hOrder' = hOrder + 1 /\ Adds(hEntries, e, hEntries')
      /\ hQueue' = Append(hQueue, x)
      /\ UNCHANGED <<hHistory, hLedger, hTodo, hAnswered, hSummarized, hOpen, hRuns, hReplies>>
  BY DEF H!Amend, H!Write, Adds
<1>0. hAmends \in Nat /\ of \in Pairs /\ of[1] = hAmends + 1
  <2>1. hAmends \in Nat /\ hAmends + 1 \in Nat
    BY DEF HInv, HTyped
  <2> QED
    BY <2>1, OfIs
<1>2. e \in FileEntries /\ e.type = "amendment" /\ e.of = of
  BY <1>0, EntryIs DEF EntryTypes
<1>3. hEntries \in Seq(FileEntries)
  BY DEF HInv, HTyped
<1>x. x \in [id : Pairs, at : Nat] /\ x.id = of /\ x.at = hOrder
  BY <1>0 DEF HInv, HTyped
<1> HIDE DEF x
<1>4. /\ hEntries' \in Seq(FileEntries) /\ Len(hEntries) \in Nat /\ Len(hEntries') = Len(hEntries) + 1 /\ Extends(hEntries', hEntries)
      /\ \A p \in Len(hEntries) + 1 .. Len(hEntries') : hEntries'[p] = e
  <2> HIDE DEF e
  <2> QED
    BY <1>1, <1>2, <1>3, Grown
<1>5. Read' = Read
  <2> HIDE DEF e
  <2> QED
    BY <1>1, <1>2, <1>3, GrownUnread DEF Read
<1>6. HTyped'
  <2>1. hQueue' \in Seq([id : Pairs, at : Nat])
    BY <1>1, <1>x DEF HInv, HTyped
  <2>2. hOrder' \in Nat /\ hAmends' \in 0 .. MaxAmend
    BY <1>1, ConversationAssumption DEF HInv, HTyped
  <2> QED
    BY <1>1, <1>4, <1>5, <2>1, <2>2 DEF HInv, HTyped
<1>7. ReadsInv' /\ SortedInv'
  <2>1. Sorted(Read.ledger, Len(hEntries'))
    BY <1>4, InputTypes DEF HInv, HTyped, SortedInv, Sorted
  <2>2. Sorted(hLedger, (hOrder + 1) - 1)
    BY InputTypes DEF HInv, HTyped, SortedInv, Sorted
  <2> QED
    BY <1>1, <1>5, <2>1, <2>2 DEF HInv, ReadsInv, SortedInv
<1>8. \A p \in 1 .. Len(hEntries) : hEntries[p] # e
  <2> SUFFICES ASSUME NEW p \in 1 .. Len(hEntries), hEntries[p] = e PROVE FALSE
    OBVIOUS
  <2>1. hAmends + 1 <= hAmends
    BY <1>0, <1>2 DEF HInv, FreshInv
  <2> QED
    BY <1>0, <2>1
<1> HIDE DEF e
<1>9. WaitInv'
  <2> DEFINE w == Waiting(hQueue, hAnswered)
             new == Waiting(hQueue', hAnswered)
             n == Len(hQueue')
  <2>1. Extends(hQueue', hQueue) /\ Len(hQueue) \in Nat /\ Len(hQueue') = Len(hQueue) + 1 /\ hQueue'[Len(hQueue')] = x
    <3>1. hQueue \in Seq([id : Pairs, at : Nat])
      BY DEF HInv, HTyped
    <3>2. hQueue' = Append(hQueue, x)
      BY <1>1
    <3> QED
      BY <3>1, <3>2 DEF Extends
  <2>2. Grows(w, new, n, e, hOrder)
    <3>1. Grows(w, new, n, H!Entry("amendment", hQueue'[n].id), hQueue'[n].at)
      BY <2>1, AmendmentWaits
    <3> QED
      BY <1>x, <2>1, <3>1 DEF e
  <2>3. hEntries'[Len(hEntries')] = e
    BY <1>4
  <2>4. /\ Same(hLedger, Read.ledger) /\ Sorted(hLedger, hOrder - 1) /\ Sorted(Read.ledger, Len(hEntries)) /\ hOrder \in Nat
        /\ hLedger \in Seq(Inputs) /\ Read.ledger \in Seq(Inputs) /\ Waits(hEntries, hLedger, Read.ledger, hOrder, w)
    BY DEF HInv, HTyped, ReadsInv, SortedInv, WaitInv
  <2> HIDE DEF w, new, n
  <2>5. Waits(hEntries', hLedger, Read.ledger, hOrder + 1, new)
    <3> DEFINE fs == hEntries'
    <3>1. Grows(w, new, n, fs[Len(fs)], hOrder) /\ \A p \in 1 .. Len(hEntries) : hEntries[p] # fs[Len(fs)]
      BY <1>8, <2>2, <2>3
    <3>2. Extends(fs, hEntries) /\ Len(hEntries) \in Nat /\ Len(fs) = Len(hEntries) + 1
      BY <1>4
    <3> HIDE DEF fs
    <3>3. Waits(fs, hLedger, Read.ledger, hOrder + 1, new)
      <4> DEFINE last == hOrder - 1
                 later == hOrder + 1
      <4>1. last = hOrder - 1 /\ later = hOrder + 1 /\ Sorted(hLedger, last)
        BY <2>4
      <4> HIDE DEF last, later
      <4>2. Waits(fs, hLedger, Read.ledger, later, new)
        BY <2>4, <3>1, <3>2, <4>1, WaitsMore
      <4> QED
        BY <4>1, <4>2
    <3> QED
      BY <3>3 DEF fs
  <2> QED
    BY <1>1, <1>5, <2>5 DEF WaitInv, new
<1>10. FreshInv'
  <2>1. \A p \in 1 .. Len(hEntries') : (p \in 1 .. Len(hEntries) /\ hEntries'[p] = hEntries[p]) \/ hEntries'[p] = e
    BY <1>4 DEF Extends
  <2>2. \A p \in 1 .. Len(hEntries') : hEntries'[p].type = "amendment" => hEntries'[p].of[1] <= hAmends + 1
    <3> SUFFICES ASSUME NEW p \in 1 .. Len(hEntries'), hEntries'[p].type = "amendment" PROVE hEntries'[p].of[1] <= hAmends + 1
      OBVIOUS
    <3>1. CASE hEntries'[p] = e
      BY <1>0, <1>2, <3>1
    <3>2. CASE p \in 1 .. Len(hEntries) /\ hEntries'[p] = hEntries[p]
      <4>1. hEntries[p].of[1] <= hAmends
        BY <3>2 DEF HInv, FreshInv
      <4>2. hEntries[p].of[1] \in Nat
        <5>1. hEntries[p] \in FileEntries
          BY <1>3, <3>2
        <5> QED
          BY <5>1 DEF FileEntries, Pairs
      <4> QED
        BY <1>0, <3>2, <4>1, <4>2
    <3> QED
      BY <2>1, <3>1, <3>2
  <2>3. \A p \in 1 .. Len(hEntries') : hEntries'[p].type = "clarification" => p \in 1 .. Len(hEntries) /\ hEntries'[p] = hEntries[p]
    BY <1>2, <2>1
  <2> QED
    BY <1>1, <2>2, <2>3 DEF HInv, FreshInv
<1>11. ShapeInv'
  BY <1>1 DEF HInv, ShapeInv
<1> QED
  BY <1>6, <1>7, <1>9, <1>10, <1>11 DEF HInv

LEMMA SaveKeeps == ASSUME HInv, H!Save PROVE HInv'
<1> DEFINE call == hTodo[1]
           e == H!Entry("clarification", call)
           x == [call |-> call, at |-> hOrder]
<1>0. hTodo \in Seq(Pairs) /\ hTodo # <<>> /\ call \in Pairs /\ call[1] = hReplies /\ hReplies \in Nat
  <2>1. hTodo \in Seq(Pairs) /\ hTodo # <<>> /\ hReplies \in Nat /\ LastReply(hHistory, hTodo, hReplies)
    BY DEF H!Save, HInv, HTyped, ShapeInv, Shape
  <2> QED
    BY <2>1, TodoIs
<1>1. /\ hOpen /\ hAnswered = <<>> /\ hOrder' = hOrder + 1 /\ Adds(hEntries, e, hEntries') /\ hAnswered' = <<x>>
      /\ UNCHANGED <<hHistory, hLedger, hQueue, hTodo, hSummarized, hOpen, hRuns, hReplies, hAmends>>
  <2>1. Head(hTodo) = hTodo[1]
    BY <1>0
  <2> QED
    BY <2>1 DEF H!Save, H!Write, H!counts, Adds
<1>2. e \in FileEntries /\ e.type = "clarification" /\ e.of = call
  BY <1>0, EntryIs DEF EntryTypes
<1>3. hEntries \in Seq(FileEntries)
  BY DEF HInv, HTyped
<1>x. x \in [call : Pairs, at : Nat] /\ x.call = call /\ x.at = hOrder
  BY <1>0 DEF HInv, HTyped
<1> HIDE DEF x
<1>4. /\ hEntries' \in Seq(FileEntries) /\ Len(hEntries) \in Nat /\ Len(hEntries') = Len(hEntries) + 1 /\ Extends(hEntries', hEntries)
      /\ \A p \in Len(hEntries) + 1 .. Len(hEntries') : hEntries'[p] = e
  <2> HIDE DEF e
  <2> QED
    BY <1>1, <1>2, <1>3, Grown
<1>5. Read' = Read
  <2> HIDE DEF e
  <2> QED
    BY <1>1, <1>2, <1>3, GrownUnread DEF Read
<1>a. Len(hAnswered') = 1 /\ hAnswered'[1] = x /\ hAnswered' # <<>> /\ hAnswered' \in Seq([call : Pairs, at : Nat])
  BY <1>1, <1>x
<1>6. HTyped'
  <2>2. hOrder' \in Nat
    BY <1>1 DEF HInv, HTyped
  <2> QED
    BY <1>1, <1>4, <1>5, <1>a, <2>2 DEF HInv, HTyped
<1>7. ReadsInv' /\ SortedInv'
  <2>1. Sorted(Read.ledger, Len(hEntries'))
    BY <1>4, InputTypes DEF HInv, HTyped, SortedInv, Sorted
  <2>2. Sorted(hLedger, (hOrder + 1) - 1)
    BY InputTypes DEF HInv, HTyped, SortedInv, Sorted
  <2> QED
    BY <1>1, <1>5, <2>1, <2>2 DEF HInv, ReadsInv, SortedInv
<1>8. \A p \in 1 .. Len(hEntries) : hEntries[p] # e
  <2> SUFFICES ASSUME NEW p \in 1 .. Len(hEntries), hEntries[p] = e PROVE FALSE
    OBVIOUS
  <2>1. 1 \in 1 .. Len(hTodo) /\ hTodo[1] = hEntries[p].of
    BY <1>0, <1>2
  <2> QED
    BY <1>1, <1>2, <2>1 DEF HInv, FreshInv
<1> HIDE DEF e, call
<1>9. WaitInv'
  <2> DEFINE w == Waiting(hQueue, hAnswered)
             new == Waiting(hQueue, hAnswered')
  <2>1. Len(hQueue) \in Nat
    BY DEF HInv, HTyped
  <2>2. Grows(w, new, 0, e, hOrder)
    <3>1. Grows(Waiting(hQueue, <<>>), Waiting(hQueue, <<x>>), 0, H!Entry("clarification", x.call), x.at)
      BY <2>1, AnswerWaits
    <3> QED
      BY <1>1, <1>x, <3>1 DEF e
  <2>3. hEntries'[Len(hEntries')] = e
    BY <1>4
  <2>4. /\ Same(hLedger, Read.ledger) /\ Sorted(hLedger, hOrder - 1) /\ Sorted(Read.ledger, Len(hEntries)) /\ hOrder \in Nat
        /\ hLedger \in Seq(Inputs) /\ Read.ledger \in Seq(Inputs) /\ Waits(hEntries, hLedger, Read.ledger, hOrder, w)
    BY DEF HInv, HTyped, ReadsInv, SortedInv, WaitInv
  <2> HIDE DEF w, new
  <2>5. Waits(hEntries', hLedger, Read.ledger, hOrder + 1, new)
    <3> DEFINE fs == hEntries'
    <3>1. Grows(w, new, 0, fs[Len(fs)], hOrder) /\ \A p \in 1 .. Len(hEntries) : hEntries[p] # fs[Len(fs)]
      BY <1>8, <2>2, <2>3
    <3>2. Extends(fs, hEntries) /\ Len(hEntries) \in Nat /\ Len(fs) = Len(hEntries) + 1
      BY <1>4
    <3> HIDE DEF fs
    <3>3. Waits(fs, hLedger, Read.ledger, hOrder + 1, new)
      <4> DEFINE last == hOrder - 1
                 later == hOrder + 1
      <4>1. last = hOrder - 1 /\ later = hOrder + 1 /\ Sorted(hLedger, last)
        BY <2>4
      <4> HIDE DEF last, later
      <4>2. Waits(fs, hLedger, Read.ledger, later, new)
        BY <2>4, <3>1, <3>2, <4>1, WaitsMore
      <4> QED
        BY <4>1, <4>2
    <3> QED
      BY <3>3 DEF fs
  <2> QED
    BY <1>1, <1>5, <2>5 DEF WaitInv, new
<1>10. FreshInv'
  <2>1. \A p \in 1 .. Len(hEntries') : (p \in 1 .. Len(hEntries) /\ hEntries'[p] = hEntries[p]) \/ hEntries'[p] = e
    BY <1>4 DEF Extends
  <2>2. \A p \in 1 .. Len(hEntries') : hEntries'[p].type = "amendment" => hEntries'[p].of[1] <= hAmends
    BY <1>2, <2>1 DEF HInv, FreshInv
  <2>3. \A p \in 1 .. Len(hEntries') : hEntries'[p].type = "clarification" =>
          /\ hEntries'[p].of[1] <= hReplies
          /\ \A i \in 1 .. Len(hTodo) : hTodo[i] = hEntries'[p].of => i = 1
    <3> SUFFICES ASSUME NEW p \in 1 .. Len(hEntries'), hEntries'[p].type = "clarification"
                 PROVE  hEntries'[p].of[1] <= hReplies /\ \A i \in 1 .. Len(hTodo) : hTodo[i] = hEntries'[p].of => i = 1
      OBVIOUS
    <3>1. CASE p \in 1 .. Len(hEntries) /\ hEntries'[p] = hEntries[p]
      BY <3>1 DEF HInv, FreshInv
    <3>2. CASE hEntries'[p] = e
      <4>1. \A i \in 1 .. Len(hTodo) : hTodo[i] = call => i = 1
        <5>1. hTodo = <<<<hReplies, 1>>>> \/ hTodo = <<<<hReplies, 2>>>> \/ hTodo = <<<<hReplies, 1>>, <<hReplies, 2>>>>
          BY <1>0, TodoIs DEF HInv, ShapeInv, Shape
        <5>2. CASE hTodo = <<<<hReplies, 1>>>> \/ hTodo = <<<<hReplies, 2>>>>
          BY <5>2
        <5>3. CASE hTodo = <<<<hReplies, 1>>, <<hReplies, 2>>>>
          BY <5>3 DEF call
        <5> QED
          BY <5>1, <5>2, <5>3
      <4> QED
        BY <1>0, <1>2, <3>2, <4>1
    <3> QED
      BY <2>1, <3>1, <3>2
  <2>4. hAnswered'[1].call = hTodo[1]
    BY <1>a, <1>x DEF call
  <2> QED
    BY <1>0, <1>1, <1>a, <2>2, <2>3, <2>4 DEF HInv, FreshInv
<1>11. ShapeInv'
  BY <1>1 DEF HInv, ShapeInv
<1> QED
  BY <1>6, <1>7, <1>9, <1>10, <1>11 DEF HInv

LEMMA ReplyStepKeeps == ASSUME HInv, H!Reply PROVE HInv'
<1> DEFINE m == H!Message("reply", H!Of(hReplies + 1))
           e == H!Entry("assistant", H!Of(hReplies + 1))
<1>0. hReplies \in Nat /\ hReplies + 1 \in Nat /\ H!Of(hReplies + 1) \in Pairs
  <2>1. hReplies \in Nat /\ hReplies + 1 \in Nat
    BY DEF HInv, HTyped
  <2> QED
    BY <2>1, OfIs
<1>1. /\ hOpen /\ hTodo = <<>> /\ hReplies < MaxReply /\ hReplies' = hReplies + 1 /\ Adds(hEntries, e, hEntries')
      /\ hHistory' = hHistory \o <<m>> /\ hTodo' = H!Calls(hReplies + 1)
      /\ UNCHANGED <<hLedger, hOrder, hQueue, hAnswered, hSummarized, hOpen, hRuns, hAmends>>
  BY DEF H!Reply, H!Write, H!Add, Adds
<1>2. e \in FileEntries /\ e.type = "assistant" /\ e.of = H!Of(hReplies + 1) /\ m \in Messages /\ m.kind = "reply"
  BY <1>0, EntryIs, MessageIs DEF EntryTypes, MessageKinds
<1>3. hEntries \in Seq(FileEntries) /\ hHistory \in Seq(Messages) /\ IsRead(Read) /\ Read.history = hHistory
  BY DEF HInv, HTyped, ReadsInv
<1> HIDE DEF e
<1>4. /\ hEntries' \in Seq(FileEntries) /\ Len(hEntries) \in Nat /\ Len(hEntries') = Len(hEntries) + 1 /\ Extends(hEntries', hEntries)
      /\ \A p \in Len(hEntries) + 1 .. Len(hEntries') : hEntries'[p] = e
  BY <1>1, <1>2, <1>3, Grown
<1>5. Read' = [history |-> Append(Read.history, m), ledger |-> Read.ledger, summarized |-> Read.summarized]
  <2> DEFINE fs == hEntries'
             n == Len(hEntries) + 1
  <2>1. H!Rebuilt(fs) = H!ReadBack(Read, fs, n) /\ fs[n] = e
    BY <1>1, <1>2, <1>3, Grown DEF Read
  <2> HIDE DEF fs, n
  <2>2. fs[n].type = "assistant" /\ fs[n].of = H!Of(hReplies + 1)
    BY <1>2, <2>1
  <2>3. H!ReadBack(Read, fs, n) = [history |-> Append(Read.history, H!Message("reply", fs[n].of)), ledger |-> Read.ledger, summarized |-> Read.summarized]
    BY <1>3, <2>2, ReadAssistant
  <2> QED
    BY <2>1, <2>2, <2>3 DEF Read, fs
<1> HIDE DEF m
<1>6. /\ hHistory' \in Seq(Messages) /\ Extends(hHistory', hHistory) /\ Len(hHistory') = Len(hHistory) + 1 /\ hHistory'[Len(hHistory')] = m
      /\ Append(hHistory, m) = hHistory' /\ Len(hHistory) \in Nat
  BY <1>1, <1>2, <1>3 DEF Extends
<1>7. Read'.history = hHistory' /\ Read'.ledger = Read.ledger /\ Read'.summarized = Read.summarized /\ IsRead(Read)'
  BY <1>3, <1>5, <1>6 DEF IsRead
<1>8. HTyped'
  <2>1. hReplies' \in 0 .. MaxReply
    BY <1>0, <1>1, ConversationAssumption
  <2>2. hTodo' \in Seq(Pairs)
    <3>1. \A r \in Nat : H!Calls(r) \in Seq(Pairs)
      <4> SUFFICES ASSUME NEW r \in Nat PROVE H!Calls(r) \in Seq(Pairs)
        OBVIOUS
      <4>1. <<<<r, 1>>>> \in Seq(Pairs) /\ <<<<r, 1>>, <<r, 2>>>> \in Seq(Pairs)
        BY DEF Pairs
      <4> QED
        BY <4>1, CallsIs
    <3> QED
      BY <1>0, <1>1, <3>1
  <2> QED
    BY <1>1, <1>4, <1>6, <1>7, <2>1, <2>2 DEF HInv, HTyped
<1>9. ReadsInv' /\ SortedInv'
  <2>1. Sorted(Read.ledger, Len(hEntries'))
    BY <1>4, InputTypes DEF HInv, HTyped, SortedInv, Sorted
  <2> QED
    BY <1>1, <1>7, <2>1 DEF HInv, ReadsInv, SortedInv
<1>10. WaitInv'
  <2>1. Waits(hEntries', hLedger, Read.ledger, hOrder, Waiting(hQueue, hAnswered))
    <3>1. hOrder \in Int /\ Len(hQueue) \in Nat
      BY DEF HInv, HTyped
    <3>2. \A k \in DOMAIN Waiting(hQueue, hAnswered) : Waiting(hQueue, hAnswered)[k].entry.type \in {"amendment", "clarification"}
      BY <3>1, WaitingIs
    <3>3. \A p \in Len(hEntries) + 1 .. Len(hEntries') : \A k \in DOMAIN Waiting(hQueue, hAnswered) : hEntries'[p] # Waiting(hQueue, hAnswered)[k].entry
      BY <1>2, <1>4, <3>2
    <3> QED
      BY <1>4, <3>1, <3>3, WaitsOn DEF HInv, WaitInv
  <2> QED
    BY <1>1, <1>7, <2>1 DEF WaitInv
<1>11. FreshInv'
  <2>1. \A p \in Len(hEntries) + 1 .. Len(hEntries') : hEntries'[p].type \notin {"amendment", "clarification"}
    BY <1>2, <1>4
  <2>2. /\ \A p \in 1 .. Len(hEntries') : hEntries'[p].type = "amendment" => hEntries'[p].of[1] <= hAmends
        /\ \A p \in 1 .. Len(hEntries') : hEntries'[p].type = "clarification" => hEntries'[p].of[1] <= hReplies
    BY <1>4, <2>1, FreshOn
  <2>3. \A p \in 1 .. Len(hEntries') : hEntries'[p] \in FileEntries /\ hEntries'[p].of[1] \in Nat
    <3> SUFFICES ASSUME NEW p \in 1 .. Len(hEntries') PROVE hEntries'[p] \in FileEntries /\ hEntries'[p].of[1] \in Nat
      OBVIOUS
    <3>1. hEntries'[p] \in FileEntries
      BY <1>4
    <3> QED
      BY <3>1 DEF FileEntries, Pairs
  <2>4. \A i \in 1 .. Len(hTodo') : hTodo'[i][1] = hReplies + 1
    <3>1. hTodo' = <<<<hReplies + 1, 1>>>> \/ hTodo' = <<<<hReplies + 1, 1>>, <<hReplies + 1, 2>>>>
      BY <1>0, <1>1, CallsIs
    <3> QED
      BY <3>1
  <2>5. hAnswered = <<>>
    BY <1>1 DEF HInv, FreshInv
  <2>6. \A p \in 1 .. Len(hEntries') : hEntries'[p].type = "clarification" =>
          hEntries'[p].of[1] <= hReplies + 1 /\ \A i \in 1 .. Len(hTodo') : hTodo'[i] # hEntries'[p].of
    BY <1>0, <2>2, <2>3, <2>4
  <2> QED
    BY <1>1, <2>2, <2>5, <2>6 DEF HInv, FreshInv
<1>12. ShapeInv'
  <2>1. Shape(hHistory, <<>>, hReplies) /\ Kept(hHistory, hLedger) /\ hSummarized = HasHead(hHistory)
    BY <1>1 DEF HInv, ShapeInv
  <2>2. Shape(hHistory', H!Calls(hReplies + 1), hReplies + 1) /\ (HasHead(hHistory') <=> HasHead(hHistory))
    BY <1>0, <1>3, <1>6, <2>1, ReplyKeeps DEF m
  <2>3. Kept(hHistory', hLedger)
    BY <1>6, <2>1, KeptMore
  <2>4. hSummarized = HasHead(hHistory')
    BY <2>1, <2>2 DEF HasHead
  <2> QED
    BY <1>1, <2>2, <2>3, <2>4 DEF ShapeInv
<1> QED
  BY <1>8, <1>9, <1>10, <1>11, <1>12 DEF HInv

\* Where the one entry is.
LEMMA OrderIs ==
  ASSUME NEW es, NEW fs, Extends(fs, es), Len(es) \in Nat, NEW e, NEW p, Once(es, e, p), NEW n \in Nat, Len(es) <= n,
         \A i \in Len(es) + 1 .. n : fs[i] # e
  PROVE  H!OrderOf(fs, n, e) = p
<1> DEFINE S == {i \in 1 .. n : fs[i] = e}
<1>1. p \in Nat /\ p \in 1 .. Len(es) /\ p \in 1 .. n /\ fs[p] = e
  BY DEF Once, Extends
<1>2. \A i \in 1 .. n : fs[i] = e => i = p
  <2> SUFFICES ASSUME NEW i \in 1 .. n, fs[i] = e PROVE i = p
    OBVIOUS
  <2>1. i \in 1 .. Len(es)
    OBVIOUS
  <2>2. es[i] = e
    BY <2>1 DEF Extends
  <2> QED
    BY <2>1, <2>2 DEF Once
<1>3. S = {p}
  BY <1>1, <1>2
<1>4. {p} \subseteq Nat /\ {p} # {} /\ \A x \in {p} : x <= p
  BY <1>1
<1>5. H!Max({p}) \in {p}
  BY <1>1, <1>4, Greatest
<1>6. H!OrderOf(fs, n, e) = H!Max(S)
  BY DEF H!OrderOf
<1> HIDE DEF S
<1> QED
  BY <1>3, <1>5, <1>6

\* The answer on its way is the one its call's result finds in the file.
LEMMA GivenIs ==
  ASSUME HInv, hTodo # <<>>, NEW fs, Extends(fs, hEntries), NEW n, n = Len(hEntries) + 1, fs[n].type = "tool_result"
  PROVE  H!Given(fs, n, hTodo[1]) <=> hAnswered # <<>>
<1> DEFINE c == H!Entry("clarification", hTodo[1])
<1>1. Len(hEntries) \in Nat /\ 1 \in 1 .. Len(hTodo) /\ Len(hQueue) \in Nat /\ c.type = "clarification" /\ c.of = hTodo[1]
  BY DEF HInv, HTyped, H!Entry
<1>2. ASSUME H!Given(fs, n, hTodo[1]) PROVE hAnswered # <<>>
  <2>1. PICK i \in 1 .. n : fs[i] = c
    BY <1>2 DEF H!Given
  <2>2. i \in 1 .. Len(hEntries)
    <3>1. i # n
      BY <1>1, <2>1
    <3> QED
      BY <1>1, <3>1
  <2>3. hEntries[i] = c
    BY <2>1, <2>2 DEF Extends
  <2> HIDE DEF c
  <2> QED
    BY <1>1, <2>2, <2>3 DEF HInv, FreshInv
<1>3. ASSUME hAnswered # <<>> PROVE H!Given(fs, n, hTodo[1])
  <2> DEFINE w == Waiting(hQueue, hAnswered)
  <2>1. 0 \in DOMAIN w /\ w[0].entry = c
    <3>1. hAnswered[1].call = hTodo[1]
      BY <1>3 DEF HInv, FreshInv
    <3> QED
      BY <1>3, <3>1 DEF Waiting
  <2>2. \E p \in 1 .. Len(hEntries) : Once(hEntries, w[0].entry, p)
    <3> HIDE DEF w
    <3> QED
      BY <2>1 DEF w, HInv, WaitInv, Waits, Pending
  <2> HIDE DEF w
  <2>3. PICK p \in 1 .. Len(hEntries) : hEntries[p] = c
    BY <2>1, <2>2 DEF Once
  <2>4. p \in 1 .. n /\ fs[p] = c
    BY <1>1, <2>3 DEF Extends
  <2> QED
    BY <2>4 DEF H!Given
<1> QED
  BY <1>2, <1>3

LEMMA ResultStepKeeps == ASSUME HInv, H!Result PROVE HInv'
<1> DEFINE call == hTodo[1]
           m == H!Message("result", call)
           e == H!Entry("tool_result", call)
<1>0. hTodo \in Seq(Pairs) /\ hTodo # <<>> /\ call \in Pairs /\ call[1] = hReplies /\ hReplies \in Nat /\ Tail(hTodo) \in Seq(Pairs)
  <2>1. hTodo \in Seq(Pairs) /\ hTodo # <<>> /\ hReplies \in Nat /\ LastReply(hHistory, hTodo, hReplies)
    BY DEF H!Result, HInv, HTyped, ShapeInv, Shape
  <2> QED
    BY <2>1, TodoIs
<1>1. /\ hOpen /\ hTodo' = Tail(hTodo) /\ hAnswered' = <<>> /\ Adds(hEntries, e, hEntries') /\ hHistory' = hHistory \o <<m>>
      /\ hLedger' = IF hAnswered = <<>> THEN hLedger ELSE H!ToLedger(hLedger, m, hAnswered[1].at)
      /\ UNCHANGED <<hOrder, hQueue, hSummarized, hOpen, hRuns, hReplies, hAmends>>
  <2>1. Head(hTodo) = hTodo[1]
    BY <1>0
  <2> QED
    BY <2>1 DEF H!Result, H!Write, H!Add, H!counts, Adds
<1>2. e \in FileEntries /\ e.type = "tool_result" /\ e.of = call /\ m \in Plain /\ m \in Messages /\ m.kind = "result"
  BY <1>0, EntryIs, MessageIs DEF EntryTypes, MessageKinds
<1>3. hEntries \in Seq(FileEntries) /\ hHistory \in Seq(Messages) /\ IsRead(Read) /\ Read.history = hHistory
  BY DEF HInv, HTyped, ReadsInv
<1> HIDE DEF e
<1>4. /\ hEntries' \in Seq(FileEntries) /\ Len(hEntries) \in Nat /\ Len(hEntries') = Len(hEntries) + 1 /\ Extends(hEntries', hEntries)
      /\ \A p \in Len(hEntries) + 1 .. Len(hEntries') : hEntries'[p] = e
  BY <1>1, <1>2, <1>3, Grown
<1> DEFINE fs == hEntries'
           n == Len(hEntries) + 1
           clar == H!Entry("clarification", call)
<1>5. H!Rebuilt(fs) = H!ReadBack(Read, fs, n) /\ fs[n] = e /\ n \in Nat /\ n = Len(hEntries) + 1 /\ Extends(fs, hEntries)
  BY <1>1, <1>2, <1>3, Grown DEF Read
<1> HIDE DEF fs, n
<1>6. fs[n].type = "tool_result" /\ fs[n].of = call
  BY <1>2, <1>5
<1>7. H!Given(fs, n, call) <=> hAnswered # <<>>
  BY <1>0, <1>5, <1>6, GivenIs
<1>8. /\ hHistory' \in Seq(Messages) /\ Extends(hHistory', hHistory) /\ Len(hHistory') = Len(hHistory) + 1 /\ hHistory'[Len(hHistory')] = m
      /\ Append(hHistory, m) = hHistory' /\ Len(hHistory) \in Nat
  <2> HIDE DEF m
  <2> QED
    BY <1>1, <1>2, <1>3 DEF Extends
<1>9. /\ hLedger \in Seq(Inputs) /\ Read.ledger \in Seq(Inputs) /\ Same(hLedger, Read.ledger) /\ hOrder \in Nat
      /\ Sorted(hLedger, hOrder - 1) /\ Sorted(Read.ledger, Len(hEntries)) /\ Len(hQueue) \in Nat
      /\ Waits(hEntries, hLedger, Read.ledger, hOrder, Waiting(hQueue, hAnswered))
  BY DEF HInv, HTyped, ReadsInv, SortedInv, WaitInv
<1>10. Kept(hHistory', hLedger)
  BY <1>8, KeptMore DEF HInv, ShapeInv
\* The ledger has the answer, where there is one, in both alike.
<1>11. /\ Read' = [history |-> Append(Read.history, m), ledger |-> Read'.ledger, summarized |-> Read.summarized]
       /\ hLedger' \in Seq(Inputs) /\ Read'.ledger \in Seq(Inputs) /\ Same(hLedger', Read'.ledger)
       /\ Sorted(hLedger', hOrder - 1) /\ Sorted(Read'.ledger, Len(hEntries))
       /\ Waits(hEntries, hLedger', Read'.ledger, hOrder, Waiting(hQueue, <<>>))
       /\ Kept(hHistory', hLedger')
  <2>1. CASE hAnswered = <<>>
    <3>1. H!ReadBack(Read, fs, n) = [history |-> Append(Read.history, H!Message("result", fs[n].of)), ledger |-> Read.ledger, summarized |-> Read.summarized]
      BY <1>3, <1>6, <1>7, <2>1, ReadResult
    <3>2. Read' = [history |-> Append(Read.history, m), ledger |-> Read.ledger, summarized |-> Read.summarized]
      BY <1>5, <1>6, <3>1 DEF Read, fs
    <3> HIDE DEF m
    <3>3. Read'.ledger = Read.ledger /\ hLedger' = hLedger
      BY <1>1, <2>1, <3>2
    <3> QED
      BY <1>9, <1>10, <2>1, <3>2, <3>3
  <2>2. CASE hAnswered # <<>>
    <3> DEFINE w == Waiting(hQueue, hAnswered)
               less == Waiting(hQueue, <<>>)
    <3>1. /\ 0 \in DOMAIN w /\ w[0].entry = clar /\ w[0].at = hAnswered[1].at
          /\ DOMAIN less = DOMAIN w \ {0} /\ \A k \in DOMAIN less : less[k] = w[k]
      <4>1. hAnswered[1].call = hTodo[1]
        BY <2>2 DEF HInv, FreshInv
      <4>2. DOMAIN w = {0} \cup (1 .. Len(hQueue)) /\ DOMAIN less = {} \cup (1 .. Len(hQueue)) /\ 0 \notin 1 .. Len(hQueue)
        BY <2>2 DEF Waiting
      <4>3. w[0] = [entry |-> clar, at |-> hAnswered[1].at]
        BY <2>2, <4>1 DEF Waiting
      <4>4. \A k \in 1 .. Len(hQueue) : less[k] = w[k]
        BY DEF Waiting
      <4> HIDE DEF w, less, clar
      <4> QED
        BY <4>2, <4>3, <4>4
    <3> HIDE DEF w, less
    <3>2. PICK p \in 1 .. Len(hEntries) : Once(hEntries, clar, p)
      BY <1>9, <3>1 DEF Waits, Pending, w
    <3>3. H!OrderOf(fs, n, clar) = p
      <4>1. clar.type = "clarification"
        BY DEF H!Entry
      <4>2. \A i \in Len(hEntries) + 1 .. n : fs[i] # clar
        <5>1. \A i \in Len(hEntries) + 1 .. n : i = n
          BY <1>4, <1>5
        <5> HIDE DEF clar
        <5> QED
          BY <1>6, <4>1, <5>1
      <4>3. Len(hEntries) <= n
        BY <1>4, <1>5
      <4> HIDE DEF clar
      <4> QED
        BY <1>4, <1>5, <3>2, <4>2, <4>3, OrderIs
    <3>4. H!ReadBack(Read, fs, n) =
            [history |-> Append(Read.history, m), ledger |-> H!ToLedger(Read.ledger, m, H!OrderOf(fs, n, clar)), summarized |-> Read.summarized]
      BY <1>6, <1>7, <2>2, ReadAnswer
    <3>5. Read' = [history |-> Append(Read.history, m), ledger |-> H!ToLedger(Read.ledger, m, p), summarized |-> Read.summarized]
      BY <1>5, <3>3, <3>4 DEF Read, fs
    <3> HIDE DEF m, clar
    <3>6. Read'.ledger = H!ToLedger(Read.ledger, m, p) /\ hLedger' = H!ToLedger(hLedger, m, w[0].at)
      BY <1>1, <2>2, <3>1, <3>5
    <3>7. /\ hLedger' \in Seq(Inputs) /\ Read'.ledger \in Seq(Inputs) /\ Same(hLedger', Read'.ledger)
          /\ Sorted(hLedger', hOrder - 1) /\ Sorted(Read'.ledger, Len(hEntries))
          /\ Waits(hEntries, hLedger', Read'.ledger, hOrder, less)
      <4> DEFINE T == H!ToLedger(hLedger, m, w[0].at)
                 U == H!ToLedger(Read.ledger, m, p)
      <4>1. /\ T \in Seq(Inputs) /\ U \in Seq(Inputs) /\ Same(T, U) /\ Sorted(T, hOrder - 1) /\ Sorted(U, Len(hEntries))
            /\ Waits(hEntries, T, U, hOrder, less)
        <5>1. Once(hEntries, w[0].entry, p)
          BY <3>1, <3>2
        <5>2. Waits(hEntries, hLedger, Read.ledger, hOrder, w)
          BY <1>9 DEF w
        <5> QED
          BY <1>2, <1>4, <1>9, <3>1, <5>1, <5>2, WaitsLess
      <4> HIDE DEF T, U
      <4> QED
        BY <3>6, <4>1 DEF T, U
    <3>8. Kept(hHistory', hLedger')
      <4>1. w[0].at \in Nat /\ w[0].at <= hOrder - 1 /\ hOrder - 1 \in Int
        BY <1>9, <3>1 DEF Waits, Pending, w
      <4>2. \E j \in 1 .. Len(hHistory') : hHistory'[j] = m
        <5>1. Len(hHistory') \in 1 .. Len(hHistory')
          BY <1>8
        <5> QED
          BY <1>8, <5>1
      <4>3. Kept(hHistory', H!ToLedger(hLedger, m, w[0].at))
        <5> DEFINE last == hOrder - 1
                   g == hHistory'
        <5>1. Sorted(hLedger, last) /\ last \in Int /\ w[0].at <= last /\ Kept(g, hLedger) /\ \E j \in 1 .. Len(g) : g[j] = m
          BY <1>9, <1>10, <4>1, <4>2
        <5> HIDE DEF last, g
        <5>2. Kept(g, H!ToLedger(hLedger, m, w[0].at))
          BY <1>2, <1>9, <4>1, <5>1, KeptJoins
        <5> QED
          BY <5>2 DEF g
      <4> QED
        BY <3>6, <4>3
    <3>9. Read' = [history |-> Append(Read.history, m), ledger |-> Read'.ledger, summarized |-> Read.summarized]
      BY <3>5, <3>6
    <3> QED
      BY <3>7, <3>8, <3>9 DEF less
  <2> QED
    BY <2>1, <2>2
<1> HIDE DEF m
<1>12. Read'.history = hHistory' /\ Read'.summarized = Read.summarized /\ IsRead(Read)'
  BY <1>3, <1>8, <1>11 DEF IsRead
<1>13. HTyped'
  <2>1. hAnswered' \in Seq([call : Pairs, at : Nat])
    BY <1>1
  <2> QED
    BY <1>0, <1>1, <1>4, <1>8, <1>11, <1>12, <2>1 DEF HInv, HTyped
<1>14. ReadsInv' /\ SortedInv'
  <2>1. Sorted(Read'.ledger, Len(hEntries'))
    <3> DEFINE U == Read'.ledger
    <3>1. U \in Seq(Inputs) /\ Sorted(U, Len(hEntries))
      BY <1>11
    <3> HIDE DEF U
    <3>2. Sorted(U, Len(hEntries'))
      BY <1>4, <3>1, InputTypes DEF Sorted
    <3> QED
      BY <3>2 DEF U
  <2> QED
    BY <1>1, <1>11, <1>12, <2>1 DEF HInv, ReadsInv, SortedInv
<1>15. WaitInv'
  <2>1. Waits(hEntries', hLedger', Read'.ledger, hOrder, Waiting(hQueue, <<>>))
    <3> DEFINE w == Waiting(hQueue, <<>>)
               T == hLedger'
               U == Read'.ledger
               gs == hEntries'
    <3>1. hOrder \in Int
      BY <1>9
    <3>2. \A k \in DOMAIN w : w[k].entry.type \in {"amendment", "clarification"}
      BY <1>9, WaitingIs
    <3>3. \A p \in Len(hEntries) + 1 .. Len(gs) : \A k \in DOMAIN w : gs[p] # w[k].entry
      <4> HIDE DEF w
      <4> QED
        BY <1>2, <1>4, <3>2
    <3>4. Extends(gs, hEntries) /\ Waits(hEntries, T, U, hOrder, w)
      BY <1>4, <1>11
    <3> HIDE DEF w, T, U, gs
    <3>5. Waits(gs, T, U, hOrder, w)
      BY <1>4, <3>1, <3>3, <3>4, WaitsOn
    <3> QED
      BY <3>5 DEF w, T, U, gs
  <2> QED
    BY <1>1, <2>1 DEF WaitInv
<1>16. FreshInv'
  <2>1. \A p \in Len(hEntries) + 1 .. Len(hEntries') : hEntries'[p].type \notin {"amendment", "clarification"}
    BY <1>2, <1>4
  <2>2. /\ \A p \in 1 .. Len(hEntries') : hEntries'[p].type = "amendment" => hEntries'[p].of[1] <= hAmends
        /\ \A p \in 1 .. Len(hEntries') : hEntries'[p].type = "clarification" =>
             /\ hEntries'[p].of[1] <= hReplies
             /\ \A i \in 1 .. Len(hTodo) : hTodo[i] = hEntries'[p].of => i = 1 /\ hAnswered # <<>>
    BY <1>4, <2>1, FreshOn
  <2>3. \A i \in 1 .. Len(hTodo') : i + 1 \in 1 .. Len(hTodo) /\ hTodo'[i] = hTodo[i + 1]
    BY <1>0, <1>1
  <2>4. \A p \in 1 .. Len(hEntries') : hEntries'[p].type = "clarification" => \A i \in 1 .. Len(hTodo') : hTodo'[i] # hEntries'[p].of
    <3> SUFFICES ASSUME NEW p \in 1 .. Len(hEntries'), hEntries'[p].type = "clarification", NEW i \in 1 .. Len(hTodo'), hTodo'[i] = hEntries'[p].of PROVE FALSE
      OBVIOUS
    <3>1. i + 1 \in 1 .. Len(hTodo) /\ hTodo[i + 1] = hEntries'[p].of
      BY <2>3
    <3>2. i + 1 = 1
      BY <2>2, <3>1
    <3>3. i \in Nat /\ i # 0
      BY <1>0, <1>1
    <3> QED
      BY <3>2, <3>3
  <2>5. Len(hAnswered') = 0
    BY <1>1
  <2> QED
    BY <1>1, <2>2, <2>4, <2>5 DEF HInv, FreshInv
<1>17. ShapeInv'
  <2>1. Shape(hHistory, hTodo, hReplies) /\ hSummarized = HasHead(hHistory)
    BY <1>1 DEF HInv, ShapeInv
  <2>2. Shape(hHistory', Tail(hTodo), hReplies) /\ (HasHead(hHistory') <=> HasHead(hHistory))
    BY <1>0, <1>3, <1>8, <2>1, ResultKeeps DEF m
  <2>3. hSummarized = HasHead(hHistory')
    BY <2>1, <2>2 DEF HasHead
  <2> QED
    BY <1>1, <1>11, <2>2, <2>3 DEF ShapeInv
<1> QED
  BY <1>13, <1>14, <1>15, <1>16, <1>17 DEF HInv

\* A cut is at a message of the conversation, and no result comes first after it.
LEMMA CutIs ==
  ASSUME NEW h \in Seq(Messages), NEW from \in Nat, NEW cut, cut = H!CutAt(h, from), cut > from
  PROVE  cut \in 1 .. Len(h) /\ (cut < Len(h) => h[cut + 1].kind # "result")
<1> DEFINE S == {k \in from + 1 .. Len(h) : k > 1 /\ Len(h) - k + 1 >= Keep /\ h[k].kind # "result"}
<1>1. cut = IF S = {} THEN 0 ELSE H!Max(S) - 1
  BY DEF H!CutAt
<1>2. S \subseteq Nat /\ Len(h) \in Nat /\ \A k \in S : k <= Len(h) /\ h[k].kind # "result"
  OBVIOUS
<1> HIDE DEF S
<1>3. S # {}
  BY <1>1
<1>4. H!Max(S) \in S
  BY <1>2, <1>3, Greatest
<1> DEFINE m == H!Max(S)
<1>5. m \in Nat /\ m <= Len(h) /\ h[m].kind # "result" /\ cut = m - 1
  BY <1>1, <1>2, <1>3, <1>4
<1> HIDE DEF m
<1>6. cut + 1 = m /\ cut \in 1 .. Len(h)
  BY <1>2, <1>5
<1> QED
  BY <1>5, <1>6

\* What a compaction makes of two ledgers that say the same is the same.
LEMMA CompactedSame ==
  ASSUME NEW h, NEW in \in Seq(Inputs), NEW read \in Seq(Inputs), Same(in, read), NEW cut
  PROVE  H!Compacted(h, read, cut) = H!Compacted(h, in, cut)
<1>1. H!Said(read) = H!Said(in)
  BY DEF Same, H!Said
<1> QED
  BY <1>1 DEF H!Compacted, H!Head0

LEMMA CompactStepKeeps == ASSUME HInv, H!Compact PROVE HInv'
<1> DEFINE from == IF hSummarized THEN 1 ELSE 0
           cut == H!CutAt(hHistory, from)
           left == Len(hHistory) - cut
           e == H!Entry("compaction", H!Of(left))
<1>1. /\ hTodo = <<>> /\ cut > from /\ hHistory' = H!Compacted(hHistory, hLedger, cut) /\ hSummarized' = TRUE /\ Adds(hEntries, e, hEntries')
      /\ UNCHANGED <<hLedger, hOrder, hQueue, hTodo, hAnswered, hOpen, hRuns, hReplies, hAmends>>
  BY DEF H!Compact, H!Write, H!Summarized, H!Kept, Adds
<1>2. hEntries \in Seq(FileEntries) /\ hHistory \in Seq(Messages) /\ Read.history = hHistory /\ Len(hHistory) \in Nat /\ hReplies \in Nat /\ Len(hQueue) \in Nat
  BY DEF HInv, HTyped, ReadsInv
<1>3. cut \in 1 .. Len(hHistory) /\ (cut < Len(hHistory) => hHistory[cut + 1].kind # "result")
  <2>1. from \in Nat
    OBVIOUS
  <2> HIDE DEF from
  <2> QED
    BY <1>1, <1>2, <2>1, CutIs
<1> HIDE DEF from, cut
<1>4. left \in Nat /\ Len(hHistory) > left /\ Len(hHistory) - left = cut
  BY <1>2, <1>3
<1>5. e \in FileEntries /\ e.type = "compaction" /\ e.of[1] = left
  <2> HIDE DEF left
  <2>1. H!Of(left) \in Pairs /\ H!Of(left)[1] = left
    BY <1>4, OfIs
  <2> QED
    BY <2>1, EntryIs DEF EntryTypes
<1> HIDE DEF left, e
<1>6. /\ hEntries' \in Seq(FileEntries) /\ Len(hEntries) \in Nat /\ Len(hEntries') = Len(hEntries) + 1 /\ Extends(hEntries', hEntries)
      /\ \A p \in Len(hEntries) + 1 .. Len(hEntries') : hEntries'[p] = e
  BY <1>1, <1>2, <1>5, Grown
<1>7. hLedger \in Seq(Inputs) /\ Read.ledger \in Seq(Inputs) /\ Same(hLedger, Read.ledger)
  BY DEF HInv, HTyped, ReadsInv
<1>8. Read' = [history |-> hHistory', ledger |-> Read.ledger, summarized |-> TRUE]
  <2> DEFINE fs == hEntries'
             n == Len(hEntries) + 1
  <2>1. H!Rebuilt(fs) = H!ReadBack(Read, fs, n) /\ fs[n] = e
    BY <1>1, <1>2, <1>5, Grown DEF Read
  <2> HIDE DEF fs, n
  <2>2. fs[n].type = "compaction" /\ fs[n].of[1] = left
    BY <1>5, <2>1
  <2>3. H!ReadBack(Read, fs, n) =
          [history |-> H!Compacted(Read.history, Read.ledger, IF Len(Read.history) > fs[n].of[1] THEN Len(Read.history) - fs[n].of[1] ELSE 0),
           ledger |-> Read.ledger, summarized |-> TRUE]
    BY <2>2, ReadCompaction
  <2>4. H!ReadBack(Read, fs, n) = [history |-> H!Compacted(hHistory, Read.ledger, cut), ledger |-> Read.ledger, summarized |-> TRUE]
    BY <1>2, <1>4, <2>2, <2>3
  <2>5. H!Compacted(hHistory, Read.ledger, cut) = hHistory'
    BY <1>1, <1>7, CompactedSame
  <2> QED
    BY <2>1, <2>4, <2>5 DEF Read, fs
<1>9. Read'.history = hHistory' /\ Read'.ledger = Read.ledger /\ Read'.summarized = TRUE /\ IsRead(Read)'
  BY <1>8 DEF IsRead
<1>10. hHistory' \in Seq(Messages) /\ Shape(hHistory', <<>>, hReplies) /\ Kept(hHistory', hLedger) /\ HasHead(hHistory')
  <2>1. Shape(hHistory, <<>>, hReplies) /\ Kept(hHistory, hLedger)
    BY <1>1 DEF HInv, ShapeInv
  <2> DEFINE g == H!Compacted(hHistory, hLedger, cut)
  <2>2. g \in Seq(Messages) /\ Shape(g, <<>>, hReplies) /\ Kept(g, hLedger) /\ HasHead(g)
    BY <1>2, <1>3, <1>7, <2>1, CompactKeeps
  <2>3. hHistory' = g
    BY <1>1
  <2> HIDE DEF g
  <2> QED
    BY <2>2, <2>3
<1>11. HTyped'
  BY <1>1, <1>6, <1>9, <1>10 DEF HInv, HTyped
<1>12. ReadsInv' /\ SortedInv'
  <2>1. Sorted(Read.ledger, Len(hEntries'))
    BY <1>6, InputTypes DEF HInv, HTyped, SortedInv, Sorted
  <2> QED
    BY <1>1, <1>9, <2>1 DEF HInv, ReadsInv, SortedInv
<1>13. WaitInv'
  <2>1. Waits(hEntries', hLedger, Read.ledger, hOrder, Waiting(hQueue, hAnswered))
    <3>1. hOrder \in Int
      BY DEF HInv, HTyped
    <3>2. \A k \in DOMAIN Waiting(hQueue, hAnswered) : Waiting(hQueue, hAnswered)[k].entry.type \in {"amendment", "clarification"}
      BY <1>2, WaitingIs
    <3>3. \A p \in Len(hEntries) + 1 .. Len(hEntries') : \A k \in DOMAIN Waiting(hQueue, hAnswered) : hEntries'[p] # Waiting(hQueue, hAnswered)[k].entry
      BY <1>5, <1>6, <3>2
    <3> QED
      BY <1>6, <3>1, <3>3, WaitsOn DEF HInv, WaitInv
  <2> QED
    BY <1>1, <1>9, <2>1 DEF WaitInv
<1>14. FreshInv'
  <2>1. \A p \in Len(hEntries) + 1 .. Len(hEntries') : hEntries'[p].type \notin {"amendment", "clarification"}
    BY <1>5, <1>6
  <2> QED
    BY <1>1, <1>6, <2>1, FreshOn DEF HInv, FreshInv
<1>15. ShapeInv'
  BY <1>1, <1>10 DEF ShapeInv, HasHead
<1> QED
  BY <1>11, <1>12, <1>13, <1>14, <1>15 DEF HInv

\* Input that came after the only one joins the ledger after it.
LEMMA JoinsOne ==
  ASSUME NEW in \in Seq(Inputs), Len(in) = 1, NEW at \in Nat, in[1].at <= at, NEW message \in Plain, NEW x, x = [message |-> message, at |-> at]
  PROVE  H!ToLedger(in, message, at) = <<in[1], x>>
<1> DEFINE T == H!ToLedger(in, message, at)
           last == in[1].at
<1>1. Sorted(in, last)
  <2>1. in[1].at \in Nat
    BY InputTypes
  <2> QED
    BY <2>1 DEF Sorted
<1> HIDE DEF last
<1>2. 1 \in 1 .. Len(in) /\ H!Place(in, at) \in 0 .. 1 /\ \A i \in 1 .. Len(in) : in[i].at <= at <=> i <= H!Place(in, at)
  BY <1>1, PlaceOf
<1>3. H!Place(in, at) = 1
  BY <1>2
<1> DEFINE k == H!Place(in, at)
<1>4. T \in Seq(Inputs) /\ Len(T) = 2 /\ \A i \in 1 .. 2 : T[i] = IF i <= k THEN in[i] ELSE IF i = k + 1 THEN [message |-> message, at |-> at] ELSE in[i - 1]
  <2>1. /\ T \in Seq(Inputs) /\ Len(T) = Len(in) + 1
        /\ \A i \in 1 .. Len(in) + 1 : T[i] = IF i <= k THEN in[i] ELSE IF i = k + 1 THEN [message |-> message, at |-> at] ELSE in[i - 1]
    BY <1>1, ToLedgerIs
  <2> HIDE DEF T, k
  <2> QED
    BY <2>1
<1> HIDE DEF T
<1>5. T[1] = in[1] /\ T[2] = x
  BY <1>3, <1>4
<1>6. T = <<in[1], x>>
  BY <1>4, <1>5
<1> QED
  BY <1>6 DEF T

LEMMA Pasted ==
  ASSUME NEW T, NEW a \in T, NEW b \in T
  PROVE  <<a>> \o <<>> = <<a>> /\ <<a>> \o <<b>> = <<a, b>> /\ <<a, b>> \o <<>> = <<a, b>>
<1>1. <<a>> \in Seq(T) /\ <<b>> \in Seq(T) /\ <<a, b>> \in Seq(T)
  OBVIOUS
<1>2. <<a>> \o <<>> = <<a>>
  BY <1>1
<1>3. <<a, b>> \o <<>> = <<a, b>>
  BY <1>1
<1>4. <<a>> \o <<b>> = <<a, b>>
  <2> DEFINE x == <<a>>
             y == <<b>>
             z == x \o y
  <2>1. x \in Seq(T) /\ y \in Seq(T) /\ Len(x) = 1 /\ Len(y) = 1 /\ x[1] = a /\ y[1] = b
    OBVIOUS
  <2> HIDE DEF x, y
  <2>2. /\ z \in Seq(T) /\ Extends(z, x) /\ Len(z) = Len(x) + Len(y) /\ \A i \in 1 .. Len(y) : z[Len(x) + i] = y[i]
    BY <2>1, Appended
  <2> HIDE DEF z
  <2>4. z \in Seq(T) /\ Len(z) = 2 /\ z[1] = a /\ z[2] = b
    BY <2>1, <2>2 DEF Extends
  <2>3. z = <<a, b>>
    BY <2>4
  <2> QED
    BY <2>3 DEF x, y, z
<1> QED
  BY <1>2, <1>3, <1>4

\* A run's request, its references and its checks, as the file gives them.
Opens(es, run, fs) == fs = es \o (<<H!Entry("request", H!Of(run))>> \o IF Referenced THEN <<H!Entry("references", H!Of(run))>> ELSE <<>>)
Opened(s, op, t, n) ==
  /\ t = [history |-> s.history \o op, ledger |-> t.ledger, summarized |-> s.summarized]
  /\ Len(t.ledger) = Len(op) /\ t.ledger \in Seq(Inputs) /\ Sorted(t.ledger, n)
  /\ \A i \in 1 .. Len(op) : t.ledger[i].message = op[i]
LEMMA OpeningReads ==
  ASSUME ~ (Referenced /\ Checked), NEW es \in Seq(FileEntries), NEW s, s = H!Rebuilt(es), IsRead(s), s.history \in Seq(Messages),
         NEW run \in Nat, NEW fs, Opens(es, run, fs)
  PROVE  Opened(s, H!Opening(run), H!Rebuilt(fs), Len(fs))
<1> DEFINE e == H!Entry("request", H!Of(run))
           f == H!Entry("references", H!Of(run))
           a == H!Message("asked", H!Of(run))
           b == H!Message("referenced", H!Of(run))
           c == H!Message("checking", H!Of(run))
           asked == <<a>> \o IF Checked THEN <<c>> ELSE <<>>
           mid == es \o <<e>>
           n == Len(es) + 1
           first == [i \in 1 .. Len(asked) |-> [message |-> asked[i], at |-> n]]
<1>1. e \in FileEntries /\ e.type = "request" /\ e.of = H!Of(run) /\ f \in FileEntries /\ f.type = "references" /\ f.of = H!Of(run)
  BY OfIs, EntryIs DEF EntryTypes
<1>2. a \in Plain /\ b \in Plain /\ c \in Plain
  BY OfIs, MessageIs DEF MessageKinds
<1>3. Adds(es, e, mid) /\ n \in Nat
  BY DEF Adds
<1>4. H!Rebuilt(mid) = [history |-> s.history \o asked, ledger |-> first, summarized |-> s.summarized] /\ mid \in Seq(FileEntries) /\ Len(mid) = n
  <2> HIDE DEF e, mid
  <2>1. H!Rebuilt(mid) = H!ReadBack(s, mid, n) /\ mid[n] = e /\ mid \in Seq(FileEntries) /\ Len(mid) = n
    BY <1>1, <1>3, Grown
  <2>2. mid[n].type = "request" /\ mid[n].of = H!Of(run)
    BY <1>1, <2>1
  <2> HIDE DEF n
  <2>3. H!ReadBack(s, mid, n) = [history |-> s.history \o asked, ledger |-> first, summarized |-> s.summarized]
    BY <2>2 DEF H!ReadBack
  <2> QED
    BY <2>1, <2>3
<1>e. <<a>> \o <<>> = <<a>> /\ <<a>> \o <<c>> = <<a, c>> /\ <<a>> \o <<b>> = <<a, b>> /\ <<a, b>> \o <<>> = <<a, b>>
  <2> HIDE DEF a, b, c
  <2> QED
    BY <1>2, Pasted
<1>5. CASE ~ Referenced
  <2>1. fs = mid
    BY <1>5 DEF Opens
  <2>2. asked = H!Opening(run) /\ (asked = <<a>> \/ asked = <<a, c>>)
    <3>1. H!Opening(run) = <<a>> \o <<>> \o (IF Checked THEN <<c>> ELSE <<>>)
      BY <1>5 DEF H!Opening
    <3> HIDE DEF a, b, c
    <3> QED
      BY <1>e, <3>1
  <2>3. Len(first) = Len(asked) /\ Len(asked) \in Nat /\ \A i \in 1 .. Len(asked) : asked[i] \in Plain /\ first[i] = [message |-> asked[i], at |-> n]
    <3> HIDE DEF a, b, c, asked
    <3>1. Len(asked) \in Nat /\ \A i \in 1 .. Len(asked) : asked[i] \in Plain
      BY <1>2, <2>2
    <3> QED
      BY <3>1
  <2>4. first \in Seq(Inputs) /\ \A i \in 1 .. Len(asked) : first[i].at = n /\ first[i].message = asked[i]
    <3> HIDE DEF asked
    <3> QED
      BY <1>3, <2>3 DEF Inputs
  <2> HIDE DEF first, asked, mid
  <2>5. Sorted(first, n)
    BY <1>3, <2>3, <2>4 DEF Sorted
  <2>6. H!Rebuilt(fs) = [history |-> s.history \o H!Opening(run), ledger |-> first, summarized |-> s.summarized] /\ Len(fs) = n
    BY <1>4, <2>1, <2>2
  <2>7. H!Rebuilt(fs).ledger = first
    BY <2>6
  <2> QED
    BY <2>2, <2>3, <2>4, <2>5, <2>6, <2>7 DEF Opened
<1>6. CASE Referenced
  <2>1. Adds(mid, f, fs)
    BY <1>1, <1>6 DEF Opens, Adds
  <2>2. asked = <<a>> /\ H!Opening(run) = <<a, b>>
    <3>1. H!Opening(run) = <<a>> \o <<b>> \o <<>> /\ ~Checked
      BY <1>6 DEF H!Opening
    <3> HIDE DEF a, b, c
    <3> QED
      BY <1>e, <3>1
  <2>3. Len(first) = 1 /\ first[1] = [message |-> a, at |-> n]
    <3> HIDE DEF a, asked
    <3> QED
      BY <2>2
  <2>4. first \in Seq(Inputs) /\ first[1].at = n /\ first[1].message = a
    <3> HIDE DEF a
    <3> QED
      BY <1>2, <1>3, <2>2 DEF Inputs
  <2> DEFINE m == n + 1
             x == [message |-> b, at |-> m]
             h1 == s.history \o asked
             s1 == [history |-> h1, ledger |-> first, summarized |-> s.summarized]
  <2>5. m \in Nat /\ n <= m /\ x \in Inputs /\ x.at = m /\ x.message = b
    <3> HIDE DEF b
    <3> QED
      BY <1>2, <1>3 DEF Inputs
  <2>6. H!ToLedger(first, b, m) = <<first[1], x>>
    <3> HIDE DEF b, m, n
    <3> HIDE DEF first
    <3> QED
      BY <1>2, <2>3, <2>4, <2>5, JoinsOne
  <2>7. H!Rebuilt(fs) = H!ReadBack(s1, fs, m) /\ fs[m] = f /\ Len(fs) = m
    <3> HIDE DEF f, mid, s1
    <3>1. H!Rebuilt(mid) = s1 /\ Len(mid) = n /\ mid \in Seq(FileEntries)
      BY <1>4 DEF s1
    <3> QED
      BY <1>1, <2>1, <3>1, Grown
  <2>8. fs[m].type = "references" /\ fs[m].of = H!Of(run)
    BY <1>1, <2>7
  <2>9. H!ReadBack(s1, fs, m) = [history |-> Append(h1, b), ledger |-> H!ToLedger(first, b, m), summarized |-> s.summarized]
    <3> HIDE DEF m, first, h1
    <3>1. s1.history = h1 /\ s1.ledger = first /\ s1.summarized = s.summarized
      OBVIOUS
    <3> HIDE DEF s1
    <3> QED
      BY <2>8, <3>1, ReadReferences
  <2>10. Append(h1, b) = s.history \o H!Opening(run)
    <3> HIDE DEF a, b
    <3>1. s.history \in Seq(Messages)
      OBVIOUS
    <3>2. a \in Messages /\ b \in Messages
      BY OfIs, MessageIs DEF MessageKinds, a, b
    <3>3. Append(s.history \o <<a>>, b) = s.history \o <<a, b>>
      BY <3>1, <3>2
    <3> QED
      BY <2>2, <3>3
  <2> DEFINE L == <<first[1], x>>
  <2>11. H!Rebuilt(fs) = [history |-> s.history \o H!Opening(run), ledger |-> L, summarized |-> s.summarized]
    BY <2>6, <2>7, <2>9, <2>10
  <2>12. H!Rebuilt(fs).ledger = L
    BY <2>11
  <2>13. L \in Seq(Inputs) /\ Len(L) = 2 /\ L[1] = first[1] /\ L[2] = x
    <3> HIDE DEF x, first
    <3>1. first[1] \in Inputs
      <4>1. 1 \in 1 .. Len(first)
        BY <2>3
      <4> QED
        BY <2>4, <4>1, InputTypes
    <3> QED
      BY <2>5, <3>1
  <2> HIDE DEF first, x
  <2>14. Sorted(L, m)
    <3>1. L[1].at = n /\ L[2].at = m
      BY <2>4, <2>5, <2>13
    <3> HIDE DEF L
    <3> QED
      BY <1>3, <2>5, <2>13, <3>1 DEF Sorted
  <2>15. Len(H!Opening(run)) = 2 /\ \A i \in 1 .. 2 : L[i].message = H!Opening(run)[i]
    <3>1. L[1].message = a /\ L[2].message = b
      BY <2>4, <2>5, <2>13
    <3> HIDE DEF L, a, b
    <3> QED
      BY <2>2, <3>1
  <2> HIDE DEF L
  <2> QED
    BY <2>7, <2>11, <2>12, <2>13, <2>14, <2>15 DEF Opened
<1> QED
  BY <1>5, <1>6

LEMMA OneOrTwo ==
  ASSUME NEW T, NEW a \in T, NEW b \in T, NEW ms, ms = <<a>> \/ ms = <<a, b>>
  PROVE  ms \in Seq(T) /\ Len(ms) \in Nat /\ \A i \in 1 .. Len(ms) : ms[i] = a \/ ms[i] = b
<1>1. CASE ms = <<a>>
  <2>1. ms \in Seq(T) /\ Len(ms) = 1 /\ ms[1] = a
    BY <1>1
  <2> QED
    BY <2>1
<1>2. CASE ms = <<a, b>>
  <2>1. ms \in Seq(T) /\ Len(ms) = 2 /\ ms[1] = a /\ ms[2] = b
    BY <1>2
  <2>2. \A i \in 1 .. Len(ms) : i = 1 \/ i = 2
    BY <2>1
  <2> QED
    BY <2>1, <2>2
<1> QED
  BY <1>1, <1>2

LEMMA OpeningIs ==
  ASSUME ~ (Referenced /\ Checked), NEW run \in Nat
  PROVE  /\ H!Opening(run) \in Seq(Messages) /\ Len(H!Opening(run)) \in Nat
         /\ \A i \in 1 .. Len(H!Opening(run)) : H!Opening(run)[i] \in Plain /\ H!Opening(run)[i].kind \notin {"reply", "result", "head"}
<1> DEFINE a == H!Message("asked", H!Of(run))
           b == H!Message("referenced", H!Of(run))
           c == H!Message("checking", H!Of(run))
<1>1. /\ a \in Plain /\ b \in Plain /\ c \in Plain /\ a \in Messages /\ b \in Messages /\ c \in Messages
      /\ a.kind = "asked" /\ b.kind = "referenced" /\ c.kind = "checking"
  BY OfIs, MessageIs DEF MessageKinds
<1>2. H!Opening(run) = <<a>> \o (IF Referenced THEN <<b>> ELSE <<>>) \o IF Checked THEN <<c>> ELSE <<>>
  BY DEF H!Opening
<1> HIDE DEF a, b, c
<1>3. H!Opening(run) = <<a>> \/ H!Opening(run) = <<a, b>> \/ H!Opening(run) = <<a, c>>
  BY <1>1, <1>2, Pasted
<1> DEFINE o == H!Opening(run)
<1>5. o = <<a>> \/ o = <<a, b>> \/ o = <<a, c>>
  BY <1>3
<1> HIDE DEF o
<1>6. o \in Seq(Messages) /\ Len(o) \in Nat /\ \A i \in 1 .. Len(o) : o[i] = a \/ o[i] = b \/ o[i] = c
  BY <1>1, <1>5, OneOrTwo
<1>7. o \in Seq(Messages) /\ Len(o) \in Nat /\ \A i \in 1 .. Len(o) : o[i] \in Plain /\ o[i].kind \notin {"reply", "result", "head"}
  BY <1>1, <1>6
<1> QED
  BY <1>7 DEF o

LEMMA StartKeeps == ASSUME ~ (Referenced /\ Checked), HInv, H!Start PROVE HInv'
<1> DEFINE run == hRuns + 1
           op == H!Opening(run)
<1>0. run \in Nat /\ hRuns \in Nat
  BY DEF HInv, HTyped
<1>1. /\ ~hOpen /\ hRuns < MaxRun /\ hRuns' = run /\ hOpen' = TRUE /\ hQueue' = <<>> /\ hAnswered' = <<>> /\ Opens(hEntries, run, hEntries')
      /\ hHistory' = hHistory \o op /\ hOrder' = Len(op) /\ hLedger' = [i \in 1 .. Len(op) |-> [message |-> op[i], at |-> i - 1]]
      /\ UNCHANGED <<hTodo, hSummarized, hReplies, hAmends>>
  BY DEF H!Start, H!Write, H!Add, Opens
<1>2. hEntries \in Seq(FileEntries) /\ hHistory \in Seq(Messages) /\ IsRead(Read) /\ Read.history = hHistory
  BY DEF HInv, HTyped, ReadsInv
<1>3. hTodo = <<>>
  BY <1>1 DEF HInv, ShapeInv
<1>4. op \in Seq(Messages) /\ Len(op) \in Nat /\ \A i \in 1 .. Len(op) : op[i] \in Plain /\ op[i].kind \notin {"reply", "result", "head"}
  BY <1>0, OpeningIs
<1> HIDE DEF run
<1>5. /\ Read' = [history |-> Read.history \o op, ledger |-> Read'.ledger, summarized |-> Read.summarized]
      /\ Len(Read'.ledger) = Len(op) /\ Read'.ledger \in Seq(Inputs) /\ Sorted(Read'.ledger, Len(hEntries'))
      /\ \A i \in 1 .. Len(op) : Read'.ledger[i].message = op[i]
  <2> DEFINE fs == hEntries'
             s == Read
             L == H!Rebuilt(fs).ledger
  <2>1. s = H!Rebuilt(hEntries) /\ Opens(hEntries, run, fs) /\ s.history \in Seq(Messages) /\ IsRead(s)
    BY <1>1, <1>2 DEF Read
  <2>2. Read' = H!Rebuilt(fs)
    BY DEF Read
  <2> HIDE DEF fs, s
  <2>3. /\ H!Rebuilt(fs) = [history |-> s.history \o op, ledger |-> L, summarized |-> s.summarized]
        /\ Len(L) = Len(op) /\ L \in Seq(Inputs) /\ Sorted(L, Len(fs))
        /\ \A i \in 1 .. Len(op) : L[i].message = op[i]
    <3>1. Opened(s, op, H!Rebuilt(fs), Len(fs))
      BY <1>0, <1>2, <2>1, OpeningReads
    <3> HIDE DEF op
    <3> QED
      BY <3>1 DEF Opened
  <2> HIDE DEF op
  <2> QED
    BY <2>2, <2>3 DEF fs, s
<1> HIDE DEF op
<1>6. /\ hHistory' \in Seq(Messages) /\ Extends(hHistory', hHistory) /\ Len(hHistory') = Len(hHistory) + Len(op)
      /\ \A i \in 1 .. Len(op) : hHistory'[Len(hHistory) + i] = op[i]
      /\ \A i \in Len(hHistory) + 1 .. Len(hHistory) + Len(op) : \E j \in 1 .. Len(op) : hHistory'[i] = op[j]
  <2> DEFINE g == hHistory \o op
  <2>1. /\ g \in Seq(Messages) /\ Extends(g, hHistory) /\ Len(g) = Len(hHistory) + Len(op)
        /\ \A i \in 1 .. Len(op) : g[Len(hHistory) + i] = op[i]
        /\ \A i \in Len(hHistory) + 1 .. Len(hHistory) + Len(op) : \E j \in 1 .. Len(op) : g[i] = op[j]
    BY <1>2, <1>4, Appended
  <2>2. hHistory' = g
    BY <1>1
  <2> HIDE DEF g
  <2> QED
    BY <2>1, <2>2
<1>7. hLedger' \in Seq(Inputs) /\ Len(hLedger') = Len(op) /\ \A i \in 1 .. Len(op) : hLedger'[i].message = op[i] /\ hLedger'[i].at = i - 1
  <2>1. \A i \in 1 .. Len(op) : [message |-> op[i], at |-> i - 1] \in Inputs
    BY <1>4 DEF Inputs
  <2> QED
    BY <1>1, <1>4, <2>1
<1>8. /\ hEntries' \in Seq(FileEntries) /\ Extends(hEntries', hEntries)
      /\ \A p \in Len(hEntries) + 1 .. Len(hEntries') : hEntries'[p].type \notin {"amendment", "clarification"}
  <2> DEFINE e == H!Entry("request", H!Of(run))
             f == H!Entry("references", H!Of(run))
             more == <<e>> \o IF Referenced THEN <<f>> ELSE <<>>
  <2>1. e \in FileEntries /\ e.type = "request" /\ f \in FileEntries /\ f.type = "references"
    BY <1>0, OfIs, EntryIs DEF EntryTypes
  <2>2. hEntries' = hEntries \o more
    BY <1>1 DEF Opens
  <2>3. more = <<e>> \/ more = <<e, f>>
    <3> HIDE DEF e, f
    <3> QED
      BY <2>1, Pasted
  <2> HIDE DEF e, f, more
  <2>4. more \in Seq(FileEntries) /\ \A i \in 1 .. Len(more) : more[i].type \notin {"amendment", "clarification"}
    <3>2. more \in Seq(FileEntries) /\ \A i \in 1 .. Len(more) : more[i] = e \/ more[i] = f
      BY <2>1, <2>3, OneOrTwo
    <3> QED
      BY <2>1, <3>2
  <2> DEFINE g == hEntries \o more
  <2>5. /\ g \in Seq(FileEntries) /\ Extends(g, hEntries) /\ Len(g) = Len(hEntries) + Len(more)
        /\ \A i \in Len(hEntries) + 1 .. Len(hEntries) + Len(more) : \E j \in 1 .. Len(more) : g[i] = more[j]
    BY <1>2, <2>4, Appended
  <2> HIDE DEF g
  <2>6. \A p \in Len(hEntries) + 1 .. Len(g) : g[p].type \notin {"amendment", "clarification"}
    BY <2>4, <2>5
  <2> QED
    BY <2>2, <2>5, <2>6 DEF g
<1>9. Read'.history = hHistory' /\ Read'.summarized = Read.summarized /\ IsRead(Read)'
  <2> HIDE DEF Read
  <2> QED
    BY <1>1, <1>2, <1>5 DEF IsRead
<1>10. HTyped'
  <2>1. hRuns' \in 0 .. MaxRun
    BY <1>0, <1>1, ConversationAssumption DEF run
  <2>2. hQueue' \in Seq([id : Pairs, at : Nat]) /\ hAnswered' \in Seq([call : Pairs, at : Nat])
    BY <1>1
  <2>3. hTodo' \in Seq(Pairs) /\ hOrder' \in Nat /\ hSummarized' \in BOOLEAN /\ hOpen' \in BOOLEAN /\ hReplies' \in 0 .. MaxReply /\ hAmends' \in 0 .. MaxAmend
    BY <1>1, <1>4 DEF HInv, HTyped
  <2> QED
    BY <1>5, <1>6, <1>7, <1>8, <1>9, <2>1, <2>2, <2>3 DEF HTyped
<1>11. ReadsInv' /\ SortedInv'
  <2>1. Same(hLedger', Read'.ledger)
    <3> DEFINE T == hLedger'
               U == Read'.ledger
    <3>1. Len(T) = Len(op) /\ Len(U) = Len(op) /\ \A i \in 1 .. Len(op) : T[i].message = op[i] /\ U[i].message = op[i]
      BY <1>5, <1>7
    <3> HIDE DEF T, U
    <3>2. Same(T, U)
      BY <3>1 DEF Same
    <3> QED
      BY <3>2 DEF T, U
  <2>2. Sorted(hLedger', hOrder' - 1)
    <3> DEFINE T == hLedger'
               last == hOrder' - 1
    <3>1. Len(T) = Len(op) /\ (\A i \in 1 .. Len(op) : T[i].at = i - 1) /\ last = Len(op) - 1
      BY <1>1, <1>7
    <3> HIDE DEF T, last
    <3>2. Sorted(T, last)
      BY <1>4, <3>1 DEF Sorted
    <3> QED
      BY <3>2 DEF T, last
  <2>3. hSummarized' = hSummarized /\ Read.summarized = hSummarized
    BY <1>1 DEF HInv, ReadsInv
  <2> QED
    BY <1>5, <1>9, <2>1, <2>2, <2>3 DEF ReadsInv, SortedInv
<1>12. WaitInv'
  <2> DEFINE fs == hEntries'
             T == hLedger'
             U == Read'.ledger
             o == hOrder'
  <2>1. Waits(fs, T, U, o, Waiting(<<>>, <<>>))
    <3> HIDE DEF fs, T, U, o
    <3> QED
      BY NothingWaits
  <2> QED
    BY <1>1, <2>1 DEF WaitInv
<1>13. FreshInv'
  <2>1. /\ \A p \in 1 .. Len(hEntries') : hEntries'[p].type = "amendment" => hEntries'[p].of[1] <= hAmends
        /\ \A p \in 1 .. Len(hEntries') : hEntries'[p].type = "clarification" => hEntries'[p].of[1] <= hReplies
    BY <1>8, FreshOn
  <2>2. Len(hAnswered') = 0 /\ Len(hTodo') = 0
    BY <1>1, <1>3
  <2> QED
    BY <1>1, <1>3, <2>1, <2>2 DEF FreshInv
<1>14. ShapeInv'
  <2> DEFINE g == hHistory'
             T == hLedger'
  <2>1. Shape(hHistory, <<>>, hReplies) /\ hSummarized = HasHead(hHistory)
    BY <1>3 DEF HInv, ShapeInv
  <2>2. g \in Seq(Messages) /\ Extends(g, hHistory) /\ \A i \in Len(hHistory) + 1 .. Len(g) : g[i].kind \notin {"reply", "result", "head"}
    BY <1>4, <1>6
  <2>3. Len(T) = Len(op) /\ \A i \in 1 .. Len(op) : Len(hHistory) + i \in 1 .. Len(g) /\ g[Len(hHistory) + i] = T[i].message
    BY <1>2, <1>4, <1>6, <1>7
  <2> HIDE DEF g, T
  <2>4. Shape(g, <<>>, hReplies) /\ (HasHead(g) <=> HasHead(hHistory))
    BY <1>2, <2>1, <2>2, ToldKeeps
  <2>5. Kept(g, T)
    BY <2>3 DEF Kept
  <2>6. hSummarized = HasHead(g)
    BY <2>1, <2>4 DEF HasHead
  <2> QED
    BY <1>1, <1>3, <2>4, <2>5, <2>6 DEF ShapeInv, g, T
<1> QED
  BY <1>10, <1>11, <1>12, <1>13, <1>14 DEF HInv

\* What the file gave up to an entry, s, goes along with the conversation: it is
\* the first l messages of g, and a ledger like in.
Along(s, g, l, in, last, n, sum) ==
  /\ IsRead(s) /\ s.summarized = sum
  /\ s.history \in Seq(Messages) /\ Len(s.history) = l /\ \A i \in 1 .. l : s.history[i] = g[i]
  /\ in \in Seq(Inputs) /\ s.ledger \in Seq(Inputs) /\ Same(in, s.ledger) /\ Sorted(in, last) /\ Sorted(s.ledger, n)
  /\ Kept(g, in)

\* An amendment told keeps both along.
Stay(in, read, at, p, more, after) ==
  \A b, c \in Nat : Between(in, read, b, c) /\ Before(at, p, b, c) => Between(more, after, b, c)
LEMMA ToldAlong ==
  ASSUME NEW s, NEW g \in Seq(Messages), NEW l \in Nat, NEW in, NEW last \in Int, NEW n \in Nat, NEW sum, Along(s, g, l, in, last, n, sum),
         l + 1 <= Len(g), NEW m \in Plain, m \in Messages, g[l + 1] = m, NEW at \in Nat, at <= last, NEW p \in Nat, p <= n,
         Between(in, s.ledger, at, p),
         NEW t, t = [history |-> Append(s.history, m), ledger |-> H!ToLedger(s.ledger, m, p), summarized |-> s.summarized],
         NEW more, more = H!ToLedger(in, m, at), NEW k, k = l + 1
  PROVE  /\ Along(t, g, k, more, last, n, sum)
         /\ Stay(in, s.ledger, at, p, more, t.ledger)
<1>0. /\ s.history \in Seq(Messages) /\ Len(s.history) = l /\ (\A i \in 1 .. l : s.history[i] = g[i]) /\ s.summarized = sum
      /\ in \in Seq(Inputs) /\ s.ledger \in Seq(Inputs) /\ Same(in, s.ledger) /\ Sorted(in, last) /\ Sorted(s.ledger, n) /\ Kept(g, in)
  BY DEF Along
<1>1. t.history = Append(s.history, m) /\ t.ledger = H!ToLedger(s.ledger, m, p) /\ t.summarized = sum /\ IsRead(t)
  BY <1>0 DEF IsRead
<1>2. t.history \in Seq(Messages) /\ Len(t.history) = k /\ \A i \in 1 .. k : t.history[i] = g[i]
  <2> DEFINE h == s.history
             f == t.history
  <2>1. h \in Seq(Messages) /\ Len(h) = l /\ (\A i \in 1 .. l : h[i] = g[i]) /\ f = Append(h, m)
    BY <1>0, <1>1
  <2> HIDE DEF h, f
  <2>2. f \in Seq(Messages) /\ Len(f) = k /\ \A i \in 1 .. k : f[i] = g[i]
    BY <2>1
  <2> QED
    BY <2>2 DEF f
<1> DEFINE read == s.ledger
           after == t.ledger
<1>3. /\ more \in Seq(Inputs) /\ after \in Seq(Inputs) /\ Same(more, after) /\ Sorted(more, last) /\ Sorted(after, n)
      /\ \A b, c \in Nat : Between(in, read, b, c) /\ Before(at, p, b, c) => Between(more, after, b, c)
  <2>1. read \in Seq(Inputs) /\ Same(in, read) /\ Sorted(read, n) /\ Between(in, read, at, p) /\ after = H!ToLedger(read, m, p)
    BY <1>0, <1>1
  <2> HIDE DEF read, after
  <2> DEFINE T == H!ToLedger(in, m, at)
             U == H!ToLedger(read, m, p)
  <2>2. /\ T \in Seq(Inputs) /\ U \in Seq(Inputs) /\ Same(T, U) /\ Sorted(T, last) /\ Sorted(U, n)
        /\ \A b, c \in Nat : Between(in, read, b, c) /\ Before(at, p, b, c) => Between(T, U, b, c)
    <3>1. n \in Int /\ last \in Int
      OBVIOUS
    <3>2. in \in Seq(Inputs) /\ Sorted(in, last) /\ at <= last /\ p <= n
      BY <1>0
    <3> QED
      BY <2>1, <3>1, <3>2, BothLedgers
  <2>3. T = more /\ U = after
    BY <2>1
  <2> HIDE DEF T, U
  <2> QED
    BY <2>2, <2>3
<1>4. Kept(g, more)
  <2>1. l + 1 \in 1 .. Len(g)
    OBVIOUS
  <2>2. \E j \in 1 .. Len(g) : g[j] = m
    BY <2>1
  <2>3. Kept(g, H!ToLedger(in, m, at))
    BY <1>0, <2>2, KeptJoins
  <2> QED
    BY <2>3
<1>5. Along(t, g, k, more, last, n, sum)
  BY <1>1, <1>2, <1>3, <1>4 DEF Along
<1> QED
  BY <1>3, <1>5 DEF Stay

LEMMA OnceIs == ASSUME NEW es, NEW e, NEW p, NEW q, Once(es, e, p), Once(es, e, q) PROVE p = q
BY DEF Once

LEMMA DeliverKeeps == ASSUME HInv, H!Deliver PROVE HInv'
<1> DEFINE q == hQueue
           K == Len(q)
           es == hEntries
           n == Len(es)
           fs == hEntries'
           h == hHistory
           g == hHistory'
           last == hOrder - 1
           J == H!Joins(hLedger, q)
           R == H!Reads(fs)
           En(j) == H!Entry("amendment", q[j].id)
           De(j) == H!Entry("delivered", q[j].id)
           Me(j) == H!Message("amended", q[j].id)
<1>1. /\ hTodo = <<>> /\ hQueue' = <<>> /\ fs = es \o [i \in 1 .. K |-> De(i)] /\ g = h \o [i \in 1 .. K |-> Me(i)] /\ hLedger' = J[K]
      /\ UNCHANGED <<hOrder, hTodo, hAnswered, hSummarized, hOpen, hRuns, hReplies, hAmends>>
  BY DEF H!Deliver, H!Write, H!Add, H!Joined, H!counts
<1>2. /\ q \in Seq([id : Pairs, at : Nat]) /\ K \in Nat /\ es \in Seq(FileEntries) /\ n \in Nat /\ h \in Seq(Messages) /\ last \in Int /\ hOrder \in Nat
      /\ hLedger \in Seq(Inputs) /\ Read.ledger \in Seq(Inputs) /\ IsRead(Read) /\ Read.history = h /\ Read.summarized = hSummarized
      /\ Same(hLedger, Read.ledger) /\ Sorted(hLedger, last) /\ Sorted(Read.ledger, n)
  BY DEF HInv, HTyped, ReadsInv, SortedInv
<1>3. hAnswered = <<>>
  BY <1>1 DEF HInv, FreshInv
<1>4. \A j \in 1 .. K : q[j].id \in Pairs /\ q[j].at \in Nat
  <2> SUFFICES ASSUME NEW j \in 1 .. K PROVE q[j].id \in Pairs /\ q[j].at \in Nat
    OBVIOUS
  <2> DEFINE X == [id : Pairs, at : Nat]
  <2>0. q \in Seq(X) /\ j \in 1 .. Len(q)
    BY <1>2
  <2> HIDE DEF q, X
  <2>1. q[j] \in X
    BY <2>0
  <2> QED
    BY <2>1 DEF X
<1>5. \A j \in 1 .. K : /\ De(j) \in FileEntries /\ De(j).type = "delivered" /\ De(j).of = q[j].id /\ En(j).type = "amendment"
                       /\ Me(j) \in Plain /\ Me(j) \in Messages /\ Me(j).kind = "amended"
  <2> SUFFICES ASSUME NEW j \in 1 .. K
               PROVE  /\ De(j) \in FileEntries /\ De(j).type = "delivered" /\ De(j).of = q[j].id /\ En(j).type = "amendment"
                      /\ Me(j) \in Plain /\ Me(j) \in Messages /\ Me(j).kind = "amended"
    OBVIOUS
  <2> DEFINE id == q[j].id
  <2>1. id \in Pairs
    BY <1>4
  <2> HIDE DEF id
  <2>2. /\ H!Entry("delivered", id) \in FileEntries /\ H!Entry("delivered", id).type = "delivered" /\ H!Entry("delivered", id).of = id
        /\ H!Entry("amendment", id).type = "amendment"
    BY <2>1, EntryIs DEF EntryTypes
  <2>3. H!Message("amended", id) \in Plain /\ H!Message("amended", id) \in Messages /\ H!Message("amended", id).kind = "amended"
    BY <2>1, MessageIs DEF MessageKinds
  <2> QED
    BY <2>2, <2>3 DEF id
<1>6. \A j \in 1 .. K : q[j].at <= last /\ \E p \in 1 .. n : Once(es, En(j), p) /\ Between(hLedger, Read.ledger, q[j].at, p)
  <2> SUFFICES ASSUME NEW j \in 1 .. K PROVE q[j].at <= last /\ \E p \in 1 .. n : Once(es, En(j), p) /\ Between(hLedger, Read.ledger, q[j].at, p)
    OBVIOUS
  <2> DEFINE w == Waiting(hQueue, hAnswered)
  <2>1. j \in DOMAIN w /\ w[j] = [entry |-> En(j), at |-> q[j].at]
    BY <1>2, WaitingIs, ZenonT(30)
  <2> HIDE DEF w, En
  <2>2. w[j].entry = En(j) /\ w[j].at = q[j].at
    BY <2>1
  <2>3. Pending(es, hLedger, Read.ledger, hOrder, w[j].entry, w[j].at)
    BY <2>1 DEF HInv, WaitInv, Waits, w
  <2>4. Pending(es, hLedger, Read.ledger, hOrder, En(j), q[j].at)
    BY <2>2, <2>3
  <2> HIDE DEF q
  <2> QED
    BY <1>2, <2>4 DEF Pending
<1>7. \A j, k \in 1 .. K : j # k => Agree(es, En(j), q[j].at, En(k), q[k].at)
  <2> SUFFICES ASSUME NEW j \in 1 .. K, NEW k \in 1 .. K, j # k PROVE Agree(es, En(j), q[j].at, En(k), q[k].at)
    OBVIOUS
  <2> DEFINE w == Waiting(hQueue, hAnswered)
  <2>1. \A i \in 1 .. K : i \in DOMAIN w /\ w[i] = [entry |-> En(i), at |-> q[i].at]
    BY <1>2, WaitingIs, ZenonT(30)
  <2> HIDE DEF w, En, q
  <2>4. ASSUME NEW i \in 1 .. K PROVE i \in DOMAIN w /\ w[i].entry = En(i) /\ w[i].at = q[i].at
    <3>1. i \in DOMAIN w /\ w[i] = [entry |-> En(i), at |-> q[i].at]
      BY <2>1
    <3> QED
      BY <3>1
  <2>2. w[j].entry = En(j) /\ w[j].at = q[j].at /\ w[k].entry = En(k) /\ w[k].at = q[k].at /\ j \in DOMAIN w /\ k \in DOMAIN w
    BY <2>4
  <2>3. Agree(es, w[j].entry, w[j].at, w[k].entry, w[k].at)
    BY <2>2 DEF HInv, WaitInv, Waits, w
  <2> QED
    BY <2>2, <2>3
<1> HIDE DEF De, Me, En
<1>8. /\ fs \in Seq(FileEntries) /\ Extends(fs, es) /\ Len(fs) = n + K /\ \A i \in 1 .. K : fs[n + i] = De(i)
      /\ \A i \in n + 1 .. n + K : \E j \in 1 .. K : fs[i] = De(j)
  <2> DEFINE new == [i \in 1 .. K |-> De(i)]
             f == es \o new
  <2>1. new \in Seq(FileEntries) /\ Len(new) = K /\ \A i \in 1 .. K : new[i] = De(i)
    BY <1>2, <1>5
  <2>4. es \in Seq(FileEntries) /\ new \in Seq(FileEntries)
    BY <1>2, <2>1
  <2> HIDE DEF new, es, q
  <2>2. Lengthened(f, es, new, FileEntries)
    BY <2>4, AppendedTo
  <2>3. fs = f
    BY <1>1 DEF new
  <2> HIDE DEF f, fs
  <2> QED
    BY <2>1, <2>2, <2>3 DEF Lengthened
<1>9. /\ g \in Seq(Messages) /\ Extends(g, h) /\ Len(g) = Len(h) + K /\ (\A i \in 1 .. K : g[Len(h) + i] = Me(i))
      /\ \A i \in Len(h) + 1 .. Len(h) + K : \E j \in 1 .. K : g[i] = Me(j)
  <2> DEFINE new == [i \in 1 .. K |-> Me(i)]
             f == h \o new
  <2>1. new \in Seq(Messages) /\ Len(new) = K /\ \A i \in 1 .. K : new[i] = Me(i)
    BY <1>2, <1>5
  <2>4. h \in Seq(Messages) /\ new \in Seq(Messages)
    BY <1>2, <2>1
  <2> HIDE DEF new, h, q
  <2>2. Lengthened(f, h, new, Messages)
    BY <2>4, AppendedTo
  <2>3. g = f
    BY <1>1 DEF new
  <2> HIDE DEF f, g
  <2> QED
    BY <2>1, <2>2, <2>3 DEF Lengthened
<1>10. Kept(g, hLedger) /\ Shape(g, <<>>, hReplies) /\ (HasHead(g) <=> HasHead(h))
  <2>1. Shape(h, <<>>, hReplies) /\ Kept(h, hLedger) /\ Len(h) \in Nat
    BY <1>1, <1>2 DEF HInv, ShapeInv
  <2>2. \A i \in Len(h) + 1 .. Len(g) : g[i].kind \notin {"reply", "result", "head"}
    <3> HIDE DEF h, g
    <3> QED
      BY <1>5, <1>9
  <2> HIDE DEF h, g
  <2> QED
    BY <1>2, <1>9, <2>1, <2>2, ToldKeeps, KeptMore
<1> DEFINE l == Len(h)
           Good(k) == /\ Along(R[n + k], g, l + k, J[k], last, n, hSummarized)
                      /\ \A j \in k + 1 .. K : \A p \in 1 .. n : Once(es, En(j), p) => Between(J[k], R[n + k].ledger, q[j].at, p)
           S == {k \in 0 .. K : Good(k)}
<1>11. R[n] = Read /\ (\A x \in 1 .. Len(fs) : R[x] = H!ReadBack(R[x - 1], fs, x)) /\ R[Len(fs)] = Read'
  <2>1. R[n] = H!Rebuilt(es) /\ Read' = R[Len(fs)]
    <3>1. Read' = R[Len(fs)]
      BY DEF Read, H!Rebuilt
    <3>2. Len(fs) \in Nat /\ n <= Len(fs) /\ \A i \in 1 .. n : fs[i] = es[i]
      BY <1>2, <1>8 DEF Extends
    <3> HIDE DEF es, fs
    <3>3. H!Reads(fs)[n] = H!Rebuilt(es)
      BY <1>2, <3>2, ReadsPrefix
    <3> QED
      BY <3>1, <3>3 DEF es, fs
  <2>2. \A x \in 1 .. Len(fs) : R[x] = H!ReadBack(R[x - 1], fs, x)
    <3>1. Len(fs) \in Nat
      BY <1>2, <1>8
    <3> HIDE DEF fs
    <3> QED
      BY <3>1, ReadsStep
  <2> QED
    BY <2>1, <2>2 DEF Read
<1>12. J[0] = hLedger /\ \A x \in 1 .. K : J[x] = H!ToLedger(J[x - 1], Me(x), q[x].at)
  <2>1. J[0] = hLedger /\ \A x \in 1 .. K : J[x] = Added(J[x - 1], q, x)
    BY <1>2, JoinsStep
  <2> QED
    BY <2>1 DEF Added, Me
<1> HIDE DEF J, R, h, g, fs, es, q, last
<1>13. 0 \in S
  <2>1. Along(Read, g, l, hLedger, last, n, hSummarized)
    <3>1. Len(Read.history) = l /\ Read.history \in Seq(Messages) /\ \A i \in 1 .. l : Read.history[i] = g[i]
      BY <1>2, <1>9 DEF Extends
    <3> QED
      BY <1>2, <1>10, <3>1 DEF Along
  <2>2. n + 0 = n /\ l + 0 = l /\ l \in Nat
    BY <1>2
  <2>3. Along(R[n + 0], g, l + 0, J[0], last, n, hSummarized)
    BY <1>11, <1>12, <2>1, <2>2
  <2>4. \A j \in 0 + 1 .. K : \A p \in 1 .. n : Once(es, En(j), p) => Between(J[0], R[n + 0].ledger, q[j].at, p)
    <3> SUFFICES ASSUME NEW j \in 1 .. K, NEW p \in 1 .. n, Once(es, En(j), p) PROVE Between(hLedger, Read.ledger, q[j].at, p)
      BY <1>11, <1>12, <2>2
    <3>1. PICK x \in 1 .. n : Once(es, En(j), x) /\ Between(hLedger, Read.ledger, q[j].at, x)
      BY <1>6
    <3>2. x = p
      BY <3>1, OnceIs
    <3> QED
      BY <3>1, <3>2
  <2>5. Good(0) /\ 0 \in 0 .. K
    BY <1>2, <2>3, <2>4
  <2> HIDE DEF Good
  <2> QED
    BY <2>5
<1>14. \A k \in 0 .. K - 1 : k \in S => k + 1 \in S
  <2> SUFFICES ASSUME NEW k \in 0 .. K - 1, Good(k) PROVE k + 1 \in 0 .. K /\ Good(k + 1)
    OBVIOUS
  <2> DEFINE j == k + 1
             x == n + j
             s == R[n + k]
             t == R[x]
             in == J[k]
             more == J[j]
             m == Me(j)
             at == q[j].at
             e == En(j)
             lk == l + k
             lj == l + j
  <2>1. /\ k \in Nat /\ j \in 1 .. K /\ j \in Nat /\ x \in 1 .. Len(fs) /\ x - 1 = n + k /\ x \in Nat /\ x > n /\ l \in Nat
        /\ lk \in Nat /\ lk + 1 = lj /\ lj <= Len(g) /\ g[lj] = m
    <3>1. k \in Nat /\ j \in 1 .. K /\ j \in Nat /\ x = n + j /\ x - 1 = n + k /\ x \in Nat /\ x > n /\ x <= n + K
      BY <1>2
    <3>2. l \in Nat
      BY <1>2
    <3> HIDE DEF l, n, K
    <3>3. lk \in Nat /\ lk + 1 = lj /\ lj <= l + K /\ lj = l + j
      BY <1>2, <3>1, <3>2
    <3>4. g[l + j] = Me(j) /\ Len(g) = l + K /\ Len(fs) = n + K
      BY <1>8, <1>9, <3>1 DEF l, n
    <3> QED
      BY <1>2, <3>1, <3>2, <3>3, <3>4
  <2>2. fs[x].type = "delivered" /\ fs[x].of = q[j].id
    BY <1>5, <1>8, <2>1
  <2>3. m \in Plain /\ m \in Messages /\ at \in Nat /\ at <= last
    BY <1>4, <1>5, <1>6, <2>1
  <2>4. PICK p \in 1 .. n : Once(es, e, p)
    BY <1>6, <2>1
  <2>5. Between(in, s.ledger, at, p) /\ Along(s, g, lk, in, last, n, hSummarized)
    BY <2>1, <2>4
  <2>6. H!OrderOf(fs, x, e) = p
    <3>1. \A i \in n + 1 .. x : fs[i] # e
      <4> SUFFICES ASSUME NEW i \in n + 1 .. x PROVE fs[i].type = "delivered" /\ e.type = "amendment"
        OBVIOUS
      <4>1. i \in n + 1 .. n + K
        BY <1>2, <2>1
      <4> QED
        BY <1>5, <1>8, <2>1, <4>1
    <3>2. Extends(fs, es) /\ Len(es) \in Nat /\ Once(es, e, p) /\ x \in Nat /\ Len(es) <= x /\ \A i \in Len(es) + 1 .. x : fs[i] # e
      BY <1>2, <1>8, <2>1, <2>4, <3>1
    <3> HIDE DEF x, e
    <3> QED
      BY <3>2, OrderIs
  <2>7. t = [history |-> Append(s.history, m), ledger |-> H!ToLedger(s.ledger, m, p), summarized |-> s.summarized]
    <3>1. t = H!ReadBack(s, fs, x)
      BY <1>11, <2>1
    <3> HIDE DEF s, t, x
    <3>2. H!ReadBack(s, fs, x) =
           [history |-> Append(s.history, H!Message("amended", fs[x].of)),
            ledger |-> H!ToLedger(s.ledger, H!Message("amended", fs[x].of), H!OrderOf(fs, x, H!Entry("amendment", fs[x].of))),
            summarized |-> s.summarized]
      BY <2>2, ReadDelivered
    <3> QED
      BY <2>2, <2>6, <3>1, <3>2 DEF En, Me
  <2>8. more = H!ToLedger(in, m, at)
    <3>1. j - 1 = k
      BY <2>1
    <3> QED
      BY <1>12, <2>1, <3>1
  <2> HIDE DEF s, t, in, more, m, at, e, lk, lj, x
  <2>9. /\ Along(t, g, lj, more, last, n, hSummarized)
        /\ Stay(in, s.ledger, at, p, more, t.ledger)
    <3>1. lk + 1 <= Len(g) /\ g[lk + 1] = m /\ lj = lk + 1 /\ p \in Nat /\ p <= n
      BY <1>2, <2>1
    <3>2. g \in Seq(Messages) /\ lk \in Nat /\ last \in Int /\ n \in Nat
      BY <1>2, <1>9, <2>1
    <3> HIDE DEF l, n
    <3> QED
      BY <2>3, <2>5, <2>7, <2>8, <3>1, <3>2, ToldAlong
  <2>10. \A y \in j + 1 .. K : \A c \in 1 .. n : Once(es, En(y), c) => Between(more, t.ledger, q[y].at, c)
    <3> SUFFICES ASSUME NEW y \in j + 1 .. K, NEW c \in 1 .. n, Once(es, En(y), c) PROVE Between(more, t.ledger, q[y].at, c)
      OBVIOUS
    <3>1. y \in k + 1 .. K /\ y \in 1 .. K /\ y # j /\ c \in Nat /\ p \in Nat
      BY <1>2, <2>1
    <3>2. Between(in, s.ledger, q[y].at, c)
      BY <3>1 DEF in, s
    <3>3. Before(at, p, q[y].at, c)
      <4>1. Agree(es, e, at, En(y), q[y].at)
        BY <1>7, <2>1, <3>1 DEF e, at
      <4>2. es[p] = e /\ es[c] = En(y) /\ p \in 1 .. Len(es) /\ c \in 1 .. Len(es)
        BY <2>4 DEF Once
      <4> QED
        BY <4>1, <4>2 DEF Agree
    <3>4. q[y].at \in Nat
      BY <1>4, <3>1
    <3> QED
      BY <2>9, <3>1, <3>2, <3>3, <3>4 DEF Stay
  <2> QED
    BY <2>1, <2>9, <2>10 DEF t, x, lj, more
<1>15. Good(K)
  <2> HIDE DEF S
  <2>1. \A k \in 0 .. K : k \in S
    BY <1>2, <1>13, <1>14, Induction
  <2>2. K \in 0 .. K
    BY <1>2
  <2> HIDE DEF Good
  <2> QED
    BY <2>1, <2>2 DEF S
<1>16. Along(Read', g, Len(g), hLedger', last, n, hSummarized)
  <2>1. Along(R[n + K], g, l + K, J[K], last, n, hSummarized)
    BY <1>15
  <2>2. R[n + K] = Read' /\ l + K = Len(g) /\ J[K] = hLedger'
    BY <1>1, <1>8, <1>9, <1>11
  <2> QED
    BY <2>1, <2>2
<1> DEFINE U == Read'.ledger
           T == hLedger'
<1>17. /\ IsRead(Read') /\ Read'.summarized = hSummarized /\ Read'.history = g
       /\ T \in Seq(Inputs) /\ U \in Seq(Inputs) /\ Same(T, U) /\ Sorted(T, last) /\ Sorted(U, n) /\ Kept(g, T)
  <2>1. /\ IsRead(Read') /\ Read'.summarized = hSummarized
        /\ Read'.history \in Seq(Messages) /\ Len(Read'.history) = Len(g) /\ \A i \in 1 .. Len(g) : Read'.history[i] = g[i]
        /\ T \in Seq(Inputs) /\ U \in Seq(Inputs) /\ Same(T, U) /\ Sorted(T, last) /\ Sorted(U, n) /\ Kept(g, T)
    BY <1>16 DEF Along
  <2> DEFINE f == Read'.history
  <2>2. f = g
    <3>1. f \in Seq(Messages) /\ Len(f) = Len(g) /\ \A i \in 1 .. Len(g) : f[i] = g[i]
      BY <2>1
    <3> HIDE DEF f
    <3> QED
      BY <1>9, <3>1
  <2> QED
    BY <2>1, <2>2
<1> HIDE DEF T, U
<1>18. HTyped'
  <2>1. hQueue' \in Seq([id : Pairs, at : Nat])
    BY <1>1
  <2>2. IsRead(Read)'
    BY <1>17 DEF IsRead
  <2> QED
    BY <1>1, <1>8, <1>9, <1>17, <2>1, <2>2 DEF HInv, HTyped, T, U, fs, g
<1>19. ReadsInv' /\ SortedInv'
  <2>1. Sorted(U, Len(fs))
    <3>1. \A i \in 1 .. Len(U) : U[i].at \in Nat
      BY <1>17, InputTypes
    <3>2. n <= Len(fs) /\ Len(fs) \in Nat
      BY <1>2, <1>8
    <3> QED
      BY <1>2, <1>17, <3>1, <3>2 DEF Sorted
  <2> QED
    BY <1>1, <1>17, <2>1 DEF ReadsInv, SortedInv, T, U, fs, g, last
<1>20. WaitInv'
  <2>1. Waits(fs, T, U, hOrder, Waiting(<<>>, <<>>))
    BY NothingWaits
  <2> QED
    BY <1>1, <1>3, <2>1 DEF WaitInv, T, U, fs
<1>21. FreshInv'
  <2>1. \A p \in n + 1 .. Len(fs) : fs[p].type \notin {"amendment", "clarification"}
    BY <1>5, <1>8
  <2> QED
    BY <1>1, <1>8, <2>1, FreshOn DEF HInv, FreshInv, es, fs
<1>22. ShapeInv'
  <2>1. hSummarized = HasHead(g)
    BY <1>10 DEF HInv, ShapeInv, HasHead, h
  <2> QED
    BY <1>1, <1>10, <1>17, <2>1 DEF HInv, ShapeInv, T, g
<1> QED
  BY <1>18, <1>19, <1>20, <1>21, <1>22 DEF HInv

\* What a file gives that ended with the calls t to come: everything of the
\* invariant that needs no more than the file.
Mended(s, n, t, r) ==
  /\ IsRead(s) /\ s.history \in Seq(Messages) /\ s.ledger \in Seq(Inputs) /\ Sorted(s.ledger, n)
  /\ Shape(s.history, t, r) /\ Kept(s.history, s.ledger) /\ s.summarized = HasHead(s.history)
Restored(es, fs, t, r) ==
  /\ fs \in Seq(FileEntries) /\ Extends(fs, es) /\ Mended(H!Rebuilt(fs), Len(fs), t, r)
  /\ \A p \in Len(es) + 1 .. Len(fs) : fs[p].type \in {"tool_result", "reconciliation", "run_end"}

\* A result or a repair of the next call mends it.
LEMMA ResultMends ==
  ASSUME NEW s, NEW n \in Nat, NEW r \in Nat, NEW t \in Seq(Pairs), t # <<>>, Mended(s, n, t, r), NEW k, k = n + 1,
         NEW in \in Seq(Inputs), Sorted(in, k), Kept(s.history, in) \/ \E p \in Nat : p <= k /\ in = H!ToLedger(s.ledger, H!Message("result", t[1]), p),
         NEW u, u = [history |-> Append(s.history, H!Message("result", t[1])), ledger |-> in, summarized |-> s.summarized]
  PROVE  Mended(u, k, Tail(t), r)
<1> DEFINE m == H!Message("result", t[1])
           h == s.history
           g == u.history
<1>0. /\ IsRead(s) /\ h \in Seq(Messages) /\ s.ledger \in Seq(Inputs) /\ Sorted(s.ledger, n)
      /\ Shape(h, t, r) /\ Kept(h, s.ledger) /\ s.summarized = HasHead(h)
  BY DEF Mended
<1>1. t[1] \in Pairs
  BY <1>0, TodoIs DEF Shape
<1>2. m \in Plain /\ m \in Messages
  BY <1>1, MessageIs DEF MessageKinds
<1> HIDE DEF m, h
<1>3. u.history = Append(h, m) /\ u.ledger = in /\ u.summarized = s.summarized /\ IsRead(u)
  BY DEF IsRead, m, h
<1>4. g \in Seq(Messages) /\ Extends(g, h) /\ Len(g) = Len(h) + 1 /\ g[Len(g)] = m /\ Len(h) \in Nat
  <2>1. h \in Seq(Messages) /\ m \in Messages /\ g = Append(h, m)
    BY <1>0, <1>2, <1>3
  <2> HIDE DEF g
  <2> QED
    BY <2>1 DEF Extends
<1> HIDE DEF g
<1>5. Shape(g, Tail(t), r) /\ (HasHead(g) <=> HasHead(h))
  BY <1>0, <1>4, ResultKeeps DEF m
<1>6. Kept(g, s.ledger)
  BY <1>0, <1>4, KeptMore
<1>7. Kept(g, in)
  <2>1. CASE Kept(h, in)
    BY <1>4, <2>1, KeptMore
  <2>2. CASE \E p \in Nat : p <= k /\ in = H!ToLedger(s.ledger, m, p)
    <3>1. PICK p \in Nat : p <= k /\ in = H!ToLedger(s.ledger, m, p)
      BY <2>2
    <3>2. Sorted(s.ledger, k) /\ k \in Int
      BY <1>0, InputTypes DEF Sorted
    <3>3. \E j \in 1 .. Len(g) : g[j] = m
      <4>1. Len(g) \in 1 .. Len(g)
        BY <1>4
      <4> QED
        BY <1>4, <4>1
    <3> DEFINE read == s.ledger
    <3>4. read \in Seq(Inputs) /\ Sorted(read, k) /\ Kept(g, read)
      BY <1>0, <1>6, <3>2
    <3> HIDE DEF read
    <3>5. Kept(g, H!ToLedger(read, m, p))
      BY <1>2, <3>1, <3>2, <3>3, <3>4, KeptJoins
    <3> QED
      BY <3>1, <3>5 DEF read
  <2> QED
    BY <2>1, <2>2 DEF m, h
<1>8. s.summarized = HasHead(g)
  BY <1>0, <1>5 DEF HasHead
<1> QED
  BY <1>3, <1>4, <1>5, <1>7, <1>8 DEF Mended, g

\* What opening a file adds for the next call: the answer that was saved, or a repair.
LEMMA CallMends ==
  ASSUME NEW es, Len(es) \in Nat, NEW fs, NEW r \in Nat, NEW t \in Seq(Pairs), t # <<>>, Restored(es, fs, t, r),
         NEW kind \in {"tool_result", "reconciliation"}, kind = "tool_result" => H!Given(fs, Len(fs), t[1]),
         NEW e, e = H!Entry(kind, t[1]), NEW gs, Adds(fs, e, gs)
  PROVE  Restored(es, gs, Tail(t), r)
<1> DEFINE s == H!Rebuilt(fs)
           n == Len(fs)
           k == n + 1
           m == H!Message("result", t[1])
           clar == H!Entry("clarification", t[1])
<1>0. /\ fs \in Seq(FileEntries) /\ n \in Nat /\ Extends(fs, es) /\ \A p \in Len(es) + 1 .. n : fs[p].type \in {"tool_result", "reconciliation", "run_end"}
      /\ Mended(s, n, t, r)
  BY DEF Restored, Extends
<1>1. /\ IsRead(s) /\ s.history \in Seq(Messages) /\ s.ledger \in Seq(Inputs) /\ Sorted(s.ledger, n)
      /\ Shape(s.history, t, r) /\ Kept(s.history, s.ledger)
  BY <1>0 DEF Mended
<1>2. t[1] \in Pairs /\ t[1][1] = r
  BY <1>1, TodoIs DEF Shape
<1>3. e \in FileEntries /\ e.type = kind /\ e.of = t[1] /\ m \in Plain /\ m \in Messages
  BY <1>2, EntryIs, MessageIs DEF EntryTypes, MessageKinds
<1>4. /\ gs \in Seq(FileEntries) /\ Len(gs) = k /\ Extends(gs, fs) /\ gs[k] = e /\ H!Rebuilt(gs) = H!ReadBack(s, gs, k)
  BY <1>0, <1>3, Grown
<1> HIDE DEF s, n, m, clar
<1>5. gs[k].type = kind /\ gs[k].of = t[1] /\ k \in Nat /\ k = n + 1
  BY <1>0, <1>3, <1>4
<1> HIDE DEF k
<1> DEFINE u == H!Rebuilt(gs)
<1>6. Sorted(s.ledger, k)
  BY <1>0, <1>1, <1>5, InputTypes DEF Sorted
<1>7. Mended(u, k, Tail(t), r)
  <2>1. CASE kind = "reconciliation"
    <3> DEFINE in == s.ledger
               h == s.history
    <3>1. H!ReadBack(s, gs, k) = [history |-> H!Repaired(h, gs[k].of), ledger |-> in, summarized |-> s.summarized]
      BY <1>1, <1>5, <2>1, ReadRepair
    <3>2. H!Repaired(h, t[1]) = h \o <<m>>
      <4>1. Replies(h, r) /\ \E j \in 1 .. Len(h) : h[j] = H!Message("reply", H!Of(r)) /\ \A i \in j + 1 .. Len(h) : h[i].kind = "result"
        BY <1>1 DEF Shape, LastReply
      <4>2. h \in Seq(Messages)
        BY <1>1
      <4> HIDE DEF h
      <4> QED
        BY <1>2, <4>1, <4>2, RepairedAtEnd DEF m
    <3>3. h \o <<m>> = Append(h, m)
      BY <1>1, <1>3
    <3>4. u = [history |-> Append(h, m), ledger |-> in, summarized |-> s.summarized]
      BY <1>4, <1>5, <3>1, <3>2, <3>3
    <3>5. in \in Seq(Inputs) /\ Sorted(in, k) /\ Kept(h, in)
      BY <1>1, <1>6
    <3> HIDE DEF in, u
    <3> QED
      BY <1>0, <1>5, <3>4, <3>5, ResultMends DEF m
  <2>2. CASE kind = "tool_result"
    <3> DEFINE h == s.history
               p == H!OrderOf(gs, k, clar)
               in == H!ToLedger(s.ledger, m, p)
    <3>1. H!Given(gs, k, t[1])
      <4>1. PICK i \in 1 .. n : fs[i] = clar
        BY <2>2 DEF H!Given, n, clar
      <4>2. i \in 1 .. k /\ gs[i] = clar
        BY <1>0, <1>4, <1>5, <4>1 DEF Extends, n
      <4> QED
        BY <4>2 DEF H!Given, clar
    <3>2. p \in Nat /\ p <= k
      <4> DEFINE S == {i \in 1 .. k : gs[i] = clar}
      <4>1. S \subseteq Nat /\ (\A x \in S : x <= k) /\ p = H!Max(S)
        BY <1>5 DEF H!OrderOf
      <4>2. S # {}
        BY <3>1 DEF H!Given, clar
      <4> HIDE DEF S
      <4>3. H!Max(S) \in S
        BY <1>5, <4>1, <4>2, Greatest
      <4> HIDE DEF p
      <4> QED
        BY <4>1, <4>3
    <3>3. H!ReadBack(s, gs, k) = [history |-> Append(h, m), ledger |-> in, summarized |-> s.summarized]
      <4>1. gs[k].type = "tool_result" /\ gs[k].of = t[1] /\ H!Given(gs, k, gs[k].of)
        BY <1>5, <2>2, <3>1
      <4>2. H!ReadBack(s, gs, k) =
              [history |-> Append(s.history, H!Message("result", gs[k].of)),
               ledger |-> H!ToLedger(s.ledger, H!Message("result", gs[k].of), H!OrderOf(gs, k, H!Entry("clarification", gs[k].of))),
               summarized |-> s.summarized]
        BY <4>1, ReadAnswer, Zenon
      <4> QED
        BY <4>1, <4>2, Zenon DEF m, clar
    <3> HIDE DEF p
    <3>4. in \in Seq(Inputs) /\ Sorted(in, k)
      <4> DEFINE read == s.ledger
      <4>1. read \in Seq(Inputs) /\ Sorted(read, k) /\ k \in Int
        BY <1>1, <1>5, <1>6
      <4> HIDE DEF read
      <4>2. H!ToLedger(read, m, p) \in Seq(Inputs)
        BY <1>3, <3>2, <4>1, ToLedgerIs
      <4>3. Sorted(H!ToLedger(read, m, p), k)
        BY <1>3, <3>2, <4>1, ToLedgerKeeps
      <4> QED
        BY <4>2, <4>3 DEF read
    <3>5. u = [history |-> Append(h, m), ledger |-> in, summarized |-> s.summarized]
      BY <1>4, <3>3
    <3>6. \E x \in Nat : x <= k /\ in = H!ToLedger(s.ledger, m, x)
      BY <3>2
    <3> HIDE DEF in, u
    <3> QED
      BY <1>0, <1>5, <3>4, <3>5, <3>6, ResultMends DEF m
  <2> QED
    BY <2>1, <2>2
<1>8. Extends(gs, es)
  BY <1>0, <1>4, SMTT(30) DEF Extends
<1>9. \A p \in Len(es) + 1 .. Len(gs) : gs[p].type \in {"tool_result", "reconciliation", "run_end"}
  <2> SUFFICES ASSUME NEW p \in Len(es) + 1 .. Len(gs) PROVE gs[p].type \in {"tool_result", "reconciliation", "run_end"}
    OBVIOUS
  <2>1. CASE p = k
    BY <1>5, <2>1
  <2>2. CASE p # k
    <3>1. p \in Len(es) + 1 .. n /\ gs[p] = fs[p]
      BY <1>0, <1>4, <1>5, <2>2 DEF Extends, n
    <3> QED
      BY <1>0, <3>1
  <2> QED
    BY <2>1, <2>2
<1> QED
  BY <1>4, <1>7, <1>8, <1>9 DEF Restored

\* The end of the run changes nothing of what the file gives.
LEMMA EndMends ==
  ASSUME NEW es, Len(es) \in Nat, NEW fs, NEW t, NEW r, Restored(es, fs, t, r), NEW of \in Pairs, NEW e, e = H!Entry("run_end", of),
         NEW gs, Adds(fs, e, gs)
  PROVE  Restored(es, gs, t, r)
<1> DEFINE s == H!Rebuilt(fs)
           n == Len(fs)
           k == n + 1
<1>0. /\ fs \in Seq(FileEntries) /\ n \in Nat /\ Extends(fs, es) /\ \A p \in Len(es) + 1 .. n : fs[p].type \in {"tool_result", "reconciliation", "run_end"}
      /\ Mended(s, n, t, r)
  BY DEF Restored, Extends
<1>1. e \in FileEntries /\ e.type = "run_end"
  BY EntryIs DEF EntryTypes
<1>2. /\ gs \in Seq(FileEntries) /\ Len(gs) = k /\ Extends(gs, fs) /\ gs[k] = e /\ \A p \in n + 1 .. Len(gs) : gs[p] = e
  BY <1>0, <1>1, Grown
<1>3. H!Rebuilt(gs) = s
  BY <1>0, <1>1, GrownUnread
<1> HIDE DEF s
<1>4. Sorted(s.ledger, k)
  BY <1>0, InputTypes DEF Mended, Sorted
<1>5. Mended(s, k, t, r)
  BY <1>0, <1>4 DEF Mended
<1>6. Extends(gs, es)
  BY <1>0, <1>2 DEF Extends
<1>7. \A p \in Len(es) + 1 .. Len(gs) : gs[p].type \in {"tool_result", "reconciliation", "run_end"}
  <2> SUFFICES ASSUME NEW p \in Len(es) + 1 .. Len(gs) PROVE gs[p].type \in {"tool_result", "reconciliation", "run_end"}
    OBVIOUS
  <2>1. CASE p = k
    BY <1>1, <1>2, <2>1
  <2>2. CASE p # k
    <3>1. p \in Len(es) + 1 .. n /\ gs[p] = fs[p]
      BY <1>0, <1>2, <2>2 DEF Extends
    <3> QED
      BY <1>0, <3>1
  <2> QED
    BY <2>1, <2>2
<1> QED
  BY <1>2, <1>3, <1>5, <1>6, <1>7 DEF Restored

LEMMA OneIs == ASSUME NEW T, NEW t \in Seq(T), Len(t) = 1 PROVE t = <<t[1]>> /\ Tail(t) = <<>>
<1>1. t = <<t[1]>>
  OBVIOUS
<1>2. Tail(t) = <<>>
  <2> DEFINE rest == Tail(t)
  <2>1. rest \in Seq(T) /\ Len(rest) = 0
    OBVIOUS
  <2> HIDE DEF rest
  <2>2. rest = <<>>
    BY <2>1, EmptySeq
  <2> QED
    BY <2>2 DEF rest
<1> QED
  BY <1>1, <1>2

LEMMA TwoIs ==
  ASSUME NEW T, NEW t \in Seq(T), Len(t) = 2
  PROVE  /\ t = <<t[1], t[2]>> /\ t[1] \in T /\ t[2] \in T
         /\ Tail(t) = <<t[2]>> /\ Tail(t) \in Seq(T) /\ Tail(t) # <<>> /\ Tail(t)[1] = t[2] /\ Tail(Tail(t)) = <<>>
<1>1. t = <<t[1], t[2]>> /\ t[1] \in T /\ t[2] \in T
  OBVIOUS
<1> DEFINE rest == Tail(t)
<1>2. rest \in Seq(T) /\ Len(rest) = 1 /\ rest[1] = t[2]
  OBVIOUS
<1> HIDE DEF rest
<1>3. rest = <<rest[1]>> /\ Tail(rest) = <<>> /\ rest # <<>>
  BY <1>2, OneIs
<1> QED
  BY <1>1, <1>2, <1>3 DEF rest

LEMMA Apart ==
  ASSUME NEW T, NEW s \in Seq(T), NEW a \in T, NEW b \in T
  PROVE  (s \o <<a>>) \o <<b>> = s \o <<a, b>>
<1>1. (s \o <<a>>) \o <<b>> = s \o (<<a>> \o <<b>>)
  OBVIOUS
<1>2. <<a>> \o <<b>> = <<a, b>>
  BY Pasted
<1> QED
  BY <1>1, <1>2

\* What opening a file adds mends the conversation of every call that had no result.
LEMMA RecoveryMends ==
  ASSUME HInv, NEW fs, fs = hEntries \o H!Recovery
  PROVE  Restored(hEntries, fs, <<>>, hReplies)
<1> DEFINE es == hEntries
           t == hTodo
           r == hReplies
           kind(i) == IF i <= H!Saved THEN "tool_result" ELSE "reconciliation"
           mends == [i \in 1 .. Len(t) |-> H!Entry(kind(i), t[i])]
           e == H!Entry("run_end", H!Of(hRuns))
           ends == IF hOpen THEN <<e>> ELSE <<>>
<1>1. /\ es \in Seq(FileEntries) /\ Len(es) \in Nat /\ t \in Seq(Pairs) /\ r \in Nat /\ H!Of(hRuns) \in Pairs
      /\ Shape(hHistory, t, r) /\ (t # <<>> => hOpen)
  <2>1. hRuns \in Nat
    BY DEF HInv, HTyped
  <2> QED
    BY <2>1, OfIs DEF HInv, HTyped, ShapeInv
<1>2. fs = es \o (mends \o ends) /\ H!Saved = IF t # <<>> /\ H!Given(es, Len(es), Head(t)) THEN 1 ELSE 0
  BY DEF H!Recovery, H!Saved
<1>3. Restored(es, es, t, r)
  <2> DEFINE s == Read
  <2>1. /\ IsRead(s) /\ s.history = hHistory /\ hHistory \in Seq(Messages) /\ s.ledger \in Seq(Inputs) /\ Sorted(s.ledger, Len(es))
        /\ Shape(s.history, t, r) /\ s.summarized = HasHead(s.history)
    BY DEF HInv, HTyped, ReadsInv, SortedInv, ShapeInv, HasHead
  <2>2. Kept(s.history, s.ledger)
    <3> DEFINE read == s.ledger
    <3>1. Kept(hHistory, hLedger) /\ Same(hLedger, read)
      BY DEF HInv, ShapeInv, ReadsInv
    <3> HIDE DEF read
    <3>2. Kept(hHistory, read)
      BY <3>1 DEF Kept, Same
    <3> QED
      BY <2>1, <3>2 DEF read
  <2> HIDE DEF s
  <2>3. Mended(s, Len(es), t, r)
    BY <2>1, <2>2 DEF Mended
  <2>4. Extends(es, es) /\ Len(es) + 1 .. Len(es) = {}
    BY <1>1 DEF Extends
  <2> QED
    BY <1>1, <2>3, <2>4 DEF Restored, s, Read
<1>4. /\ t = <<>> => kind(1) \in {"tool_result", "reconciliation"}
      /\ t # <<>> /\ kind(1) = "tool_result" => H!Given(es, Len(es), t[1])
      /\ kind(2) = "reconciliation" /\ kind(1) \in {"tool_result", "reconciliation"}
  <2>1. t # <<>> => Head(t) = t[1]
    BY <1>1
  <2> QED
    BY <1>2, <2>1
<1> HIDE DEF kind
<1>6. mends \in Seq(FileEntries) /\ Len(mends) = Len(t) /\ \A i \in 1 .. Len(t) : mends[i] = H!Entry(kind(i), t[i])
  <2>1. \A i \in 1 .. Len(t) : H!Entry(kind(i), t[i]) \in FileEntries
    <3> SUFFICES ASSUME NEW i \in 1 .. Len(t) PROVE H!Entry(kind(i), t[i]) \in FileEntries
      OBVIOUS
    <3>1. t[i] \in Pairs
      BY <1>1
    <3>2. kind(i) \in EntryTypes
      BY DEF kind, EntryTypes
    <3> QED
      BY <3>1, <3>2, EntryIs
  <2> QED
    BY <1>1, <2>1
<1>5. Restored(es, es \o mends, <<>>, r)
  <2> DEFINE x1 == H!Entry(kind(1), t[1])
             x2 == H!Entry(kind(2), t[2])
             mid == es \o <<x1>>
             end == mid \o <<x2>>
  <2>1. t = <<>> \/ (t # <<>> /\ Len(t) = 1) \/ (t # <<>> /\ Len(t) = 2)
    <3>1. t # <<>> => t = <<<<r, 1>>>> \/ t = <<<<r, 2>>>> \/ t = <<<<r, 1>>, <<r, 2>>>>
      BY <1>1, TodoIs DEF Shape
    <3> QED
      BY <3>1
  <2>2. CASE t = <<>>
    <3>1. mends = <<>>
      BY <2>2
    <3> HIDE DEF mends
    <3>2. es \o mends = es
      BY <1>1, <3>1
    <3> QED
      BY <1>3, <2>2, <3>2
  <2>3. ASSUME t # <<>> PROVE Restored(es, mid, Tail(t), r)
    <3>1. Adds(es, x1, mid)
      BY DEF Adds
    <3> DEFINE k1 == kind(1)
    <3>2. k1 \in {"tool_result", "reconciliation"} /\ (k1 = "tool_result" => H!Given(es, Len(es), t[1])) /\ x1 = H!Entry(k1, t[1])
      BY <1>4, <2>3
    <3> HIDE DEF x1, mid, k1, es, t, r
    <3> QED
      BY <1>1, <1>3, <2>3, <3>1, <3>2, CallMends
  <2>4. CASE t # <<>> /\ Len(t) = 1
    <3>1. mends = <<x1>> /\ Tail(t) = <<>>
      <4>1. mends \in Seq(FileEntries) /\ Len(mends) = 1 /\ mends[1] = x1 /\ t \in Seq(Pairs) /\ Len(t) = 1
        BY <1>1, <1>6, <2>4
      <4> HIDE DEF x1, mends, t
      <4> QED
        BY <4>1, OneIs
    <3> HIDE DEF mends, x1
    <3> QED
      BY <2>3, <2>4, <3>1
  <2>5. CASE t # <<>> /\ Len(t) = 2
    <3>1. mends = <<x1, x2>> /\ Tail(t) = <<t[2]>>
      <4>1. mends \in Seq(FileEntries) /\ Len(mends) = 2 /\ mends[1] = x1 /\ mends[2] = x2 /\ t \in Seq(Pairs) /\ Len(t) = 2
        BY <1>1, <1>6, <2>5
      <4> HIDE DEF x1, x2, mends, t
      <4> QED
        BY <4>1, TwoIs
    <3>2. x1 \in FileEntries /\ x2 \in FileEntries
      <4>1. mends[1] = x1 /\ mends[2] = x2 /\ mends \in Seq(FileEntries) /\ Len(mends) = 2
        BY <1>6, <2>5
      <4> HIDE DEF x1, x2, mends
      <4> QED
        BY <4>1, TwoIs
    <3> DEFINE rest == Tail(t)
               k2 == kind(2)
    <3>3. rest \in Seq(Pairs) /\ rest # <<>> /\ rest[1] = t[2] /\ Tail(rest) = <<>>
      <4>1. t \in Seq(Pairs) /\ Len(t) = 2
        BY <1>1, <2>5
      <4> HIDE DEF t
      <4> QED
        BY <4>1, TwoIs
    <3>4. Restored(es, mid, rest, r) /\ Adds(mid, x2, end) /\ k2 = "reconciliation"
      BY <1>4, <2>3, <2>5 DEF Adds
    <3>5. x2 = H!Entry(k2, rest[1])
      BY <3>3
    <3> HIDE DEF x2, k2, rest, mid, end, es, r
    <3>6. Restored(es, end, Tail(rest), r)
      BY <1>1, <3>3, <3>4, <3>5, CallMends
    <3>7. end = es \o mends
      <4>1. es \in Seq(FileEntries)
        BY <1>1 DEF es
      <4> HIDE DEF x1, mends
      <4> QED
        BY <3>1, <3>2, <4>1, Apart DEF end, mid
    <3> HIDE DEF mends
    <3> QED
      BY <3>3, <3>6, <3>7
  <2> QED
    BY <2>1, <2>2, <2>4, <2>5
<1> HIDE DEF mends
<1>7. CASE ~hOpen
  <2>1. fs = es \o mends
    BY <1>1, <1>2, <1>6, <1>7
  <2> QED
    BY <1>5, <2>1
<1>8. CASE hOpen
  <2> DEFINE mid == es \o mends
  <2>1. e \in FileEntries
    BY <1>1, EntryIs DEF EntryTypes
  <2>2. fs = mid \o <<e>>
    <3> HIDE DEF e
    <3> QED
      BY <1>1, <1>2, <1>6, <1>8, <2>1
  <2>3. Adds(mid, e, fs) /\ Restored(es, mid, <<>>, r)
    BY <1>5, <2>2 DEF Adds
  <2> HIDE DEF mid
  <2> QED
    BY <1>1, <2>3, EndMends
<1> QED
  BY <1>7, <1>8

LEMMA ReopenKeeps == ASSUME HInv, H!Reopen PROVE HInv'
<1> DEFINE fs == hEntries'
           s == H!Rebuilt(fs)
           read == s.ledger
           T == hLedger'
<1>1. /\ fs = hEntries \o H!Recovery /\ hHistory' = s.history /\ hSummarized' = s.summarized
      /\ T = [i \in 1 .. Len(read) |-> [message |-> read[i].message, at |-> i - 1]]
      /\ hOrder' = Len(T) /\ hOpen' = FALSE /\ hTodo' = <<>> /\ hQueue' = <<>> /\ hAnswered' = <<>>
      /\ UNCHANGED <<hRuns, hReplies, hAmends>>
  BY DEF H!Reopen, H!Write
<1>2. Restored(hEntries, fs, <<>>, hReplies)
  <2> HIDE DEF fs
  <2> QED
    BY <1>1, RecoveryMends
<1>3. Read' = s
  BY DEF Read
<1> HIDE DEF fs, s
<1>4. /\ fs \in Seq(FileEntries) /\ Extends(fs, hEntries) /\ \A p \in Len(hEntries) + 1 .. Len(fs) : fs[p].type \notin {"amendment", "clarification"}
      /\ IsRead(s) /\ s.history \in Seq(Messages) /\ read \in Seq(Inputs) /\ Sorted(read, Len(fs))
      /\ Shape(s.history, <<>>, hReplies) /\ Kept(s.history, read) /\ s.summarized = HasHead(s.history)
  BY <1>2 DEF Restored, Mended, s
<1> HIDE DEF read
<1>5. T \in Seq(Inputs) /\ Len(T) = Len(read) /\ Len(read) \in Nat /\ \A i \in 1 .. Len(read) : T[i].message = read[i].message /\ T[i].at = i - 1
  <2>1. Len(read) \in Nat /\ \A i \in 1 .. Len(read) : [message |-> read[i].message, at |-> i - 1] \in Inputs
    <3>1. Len(read) \in Nat /\ \A i \in 1 .. Len(read) : read[i].message \in Plain
      BY <1>4, InputTypes
    <3> QED
      BY <3>1 DEF Inputs
  <2> QED
    BY <1>1, <2>1
<1> HIDE DEF T
<1>6. Same(T, read) /\ Sorted(T, Len(T) - 1) /\ Kept(s.history, T)
  <2>1. Same(T, read)
    BY <1>5 DEF Same
  <2>2. Sorted(T, Len(T) - 1)
    BY <1>5 DEF Sorted
  <2>3. Kept(s.history, T)
    BY <1>4, <1>5 DEF Kept
  <2> QED
    BY <2>1, <2>2, <2>3
<1>7. HTyped'
  <2>1. hQueue' \in Seq([id : Pairs, at : Nat]) /\ hAnswered' \in Seq([call : Pairs, at : Nat]) /\ hTodo' \in Seq(Pairs)
    BY <1>1
  <2>2. s.summarized \in BOOLEAN
    BY <1>4 DEF HasHead
  <2>3. hRuns' \in 0 .. MaxRun /\ hReplies' \in 0 .. MaxReply /\ hAmends' \in 0 .. MaxAmend
    BY <1>1 DEF HInv, HTyped
  <2>4. IsRead(Read)' /\ Read'.ledger = read
    BY <1>3, <1>4 DEF IsRead, read
  <2> QED
    BY <1>1, <1>3, <1>4, <1>5, <2>1, <2>2, <2>3, <2>4 DEF HTyped, T, fs
<1>8. ReadsInv' /\ SortedInv'
  BY <1>1, <1>3, <1>4, <1>6 DEF ReadsInv, SortedInv, T, fs, read
<1>9. WaitInv'
  <2>1. Waits(fs, T, read, hOrder', Waiting(<<>>, <<>>))
    <3> DEFINE o == hOrder'
    <3> HIDE DEF o
    <3> QED
      BY NothingWaits
  <2> QED
    BY <1>1, <1>3, <2>1 DEF WaitInv, T, fs, read
<1>10. FreshInv'
  <2>1. /\ \A p \in 1 .. Len(fs) : fs[p].type = "amendment" => fs[p].of[1] <= hAmends
        /\ \A p \in 1 .. Len(fs) : fs[p].type = "clarification" => fs[p].of[1] <= hReplies
    BY <1>4, FreshOn DEF fs
  <2>2. Len(hAnswered') = 0 /\ Len(hTodo') = 0
    BY <1>1
  <2> QED
    BY <1>1, <2>1, <2>2 DEF FreshInv, fs
<1>11. ShapeInv'
  BY <1>1, <1>4, <1>6 DEF ShapeInv, HasHead, T
<1> QED
  BY <1>7, <1>8, <1>9, <1>10, <1>11 DEF HInv

LEMMA HInit == ASSUME H!Init PROVE HInv
<1>1. /\ hHistory = <<>> /\ hLedger = <<>> /\ hEntries = <<>> /\ hOrder = 0 /\ hQueue = <<>> /\ hTodo = <<>> /\ hAnswered = <<>>
      /\ hSummarized = FALSE /\ hOpen = FALSE /\ hRuns = 0 /\ hReplies = 0 /\ hAmends = 0
  BY DEF H!Init
<1>2. Read = H!Blank
  <2> DEFINE es == hEntries
  <2>1. Len(es) = 0
    BY <1>1
  <2> HIDE DEF es
  <2>2. H!Reads(es)[0] = H!Blank
    BY <2>1, ReadsStep
  <2> QED
    BY <2>1, <2>2 DEF Read, H!Rebuilt, es
<1>3. Read.history = <<>> /\ Read.ledger = <<>> /\ Read.summarized = FALSE /\ IsRead(Read)
  BY <1>2 DEF H!Blank, IsRead
<1>4. Len(<<>>) = 0 /\ 1 .. 0 = {}
  OBVIOUS
<1>5. HTyped
  <2>1. hHistory \in Seq(Messages) /\ hLedger \in Seq(Inputs) /\ hEntries \in Seq(FileEntries) /\ Read.ledger \in Seq(Inputs)
    BY <1>1, <1>3
  <2>2. hQueue \in Seq([id : Pairs, at : Nat]) /\ hAnswered \in Seq([call : Pairs, at : Nat]) /\ hTodo \in Seq(Pairs)
    BY <1>1
  <2>3. hOrder \in Nat /\ hSummarized \in BOOLEAN /\ hOpen \in BOOLEAN /\ hRuns \in 0 .. MaxRun /\ hReplies \in 0 .. MaxReply /\ hAmends \in 0 .. MaxAmend
    <3>1. 0 \in 0 .. MaxRun /\ 0 \in 0 .. MaxReply /\ 0 \in 0 .. MaxAmend
      BY ConversationAssumption
    <3> QED
      BY <1>1, <3>1
  <2> QED
    BY <1>3, <2>1, <2>2, <2>3 DEF HTyped
<1>6. ReadsInv /\ SortedInv
  BY <1>1, <1>3, <1>4 DEF ReadsInv, SortedInv, Same, Sorted
<1>7. WaitInv
  <2>1. Waits(hEntries, hLedger, Read.ledger, hOrder, Waiting(<<>>, <<>>))
    BY NothingWaits
  <2> QED
    BY <1>1, <2>1 DEF WaitInv
<1>8. FreshInv
  BY <1>1, <1>4 DEF FreshInv
<1>9. ShapeInv
  BY <1>1, <1>4 DEF ShapeInv, Shape, LastReply, Replies, Results, Settled, OfReply, Kept, HasHead
<1> QED
  BY <1>5, <1>6, <1>7, <1>8, <1>9 DEF HInv

\* Every step of the conversation keeps it.
LEMMA HStep == ASSUME ~ (Referenced /\ Checked), HInv, [H!Next]_HVars PROVE HInv'
<1>1. CASE UNCHANGED HVars
  <2>1. /\ UNCHANGED <<hHistory, hLedger, hEntries, hOrder, hQueue, hTodo, hAnswered, hSummarized, hOpen, hRuns, hReplies, hAmends>> /\ Read' = Read
    BY <1>1 DEF HVars, Read
  <2>2. HTyped' /\ ReadsInv' /\ SortedInv'
    BY <2>1 DEF HInv, HTyped, ReadsInv, SortedInv
  <2>3. WaitInv' /\ FreshInv' /\ ShapeInv'
    BY <2>1 DEF HInv, WaitInv, FreshInv, ShapeInv
  <2> QED
    BY <2>2, <2>3 DEF HInv
<1>2. CASE H!Next
  BY <1>2, StartKeeps, AmendKeeps, DeliverKeeps, ReplyStepKeeps, SaveKeeps, ResultStepKeeps, CompactStepKeeps, EndKeeps, ReopenKeeps DEF H!Next
<1> QED
  BY <1>1, <1>2

\* What a conversation with the invariant promises.
LEMMA HSafe == ASSUME HInv PROVE H!Safety
<1>1. H!ReadsBackAsItWas
  BY DEF HInv, ReadsInv, Read, H!ReadsBackAsItWas
<1>2. H!LedgerReadsBack
  BY DEF HInv, ReadsInv, Same, Read, H!LedgerReadsBack, H!Said
<1>3. H!InputIsKeptAsGiven
  <2> SUFFICES ASSUME NEW i \in 1 .. Len(hLedger)
               PROVE  H!Contains(hHistory, hLedger[i].message) \/ \E j \in 1 .. Len(hHistory) : H!Contains(hHistory[j].given, <<hLedger[i].message>>)
    BY DEF H!InputIsKeptAsGiven
  <2>1. \/ \E j \in 1 .. Len(hHistory) : hHistory[j] = hLedger[i].message
        \/ \E j \in 1 .. Len(hHistory) : \E k \in 1 .. Len(hHistory[j].given) : hHistory[j].given[k] = <<hLedger[i].message>>
    BY DEF HInv, ShapeInv, Kept
  <2> QED
    BY <2>1 DEF H!Contains
<1>4. H!CallsKeepTheirResults
  <2>0. hHistory \in Seq(Messages) /\ Len(hHistory) \in Nat /\ Shape(hHistory, hTodo, hReplies)
    BY DEF HInv, HTyped, ShapeInv
  <2>1. \A i \in 1 .. Len(hHistory) : hHistory[i].kind = "result" =>
       \E j \in 1 .. i - 1 : hHistory[j] = H!Message("reply", H!Of(hHistory[i].of[1])) /\ \A k \in j + 1 .. i : hHistory[k].kind = "result"
    BY <2>0 DEF Shape, Results, Follows
  <2>2. ASSUME hTodo = <<>>, NEW i \in 1 .. Len(hHistory), hHistory[i].kind = "reply", NEW c \in 1 .. Len(H!Calls(hHistory[i].of[1]))
        PROVE  \E j \in 1 .. Len(hHistory) : \A k \in 1 .. Len(hHistory) : hHistory[k] = H!Message("result", H!Calls(hHistory[i].of[1])[c]) <=> k = j
    <3> DEFINE call == H!Calls(hHistory[i].of[1])[c]
    <3>1. OfReply(hHistory, call)
      BY <2>2 DEF OfReply
    <3> HIDE DEF call
    <3>2. OneResult(hHistory, call) /\ HasResult(hHistory, call)
      <4>1. OneResult(hHistory, call) /\ (Listed(hTodo, call) <=> ~HasResult(hHistory, call))
        BY <2>0, <3>1 DEF Shape, Settled
      <4>2. ~Listed(hTodo, call)
        BY <2>2 DEF Listed
      <4> QED
        BY <4>1, <4>2
    <3>3. \E j \in 1 .. Len(hHistory) : \A k \in 1 .. Len(hHistory) : hHistory[k] = H!Message("result", call) <=> k = j
      BY <3>2 DEF OneResult, HasResult
    <3> QED
      BY <3>3 DEF call
  <2> QED
    BY <2>1, <2>2 DEF H!CallsKeepTheirResults
<1> QED
  BY <1>1, <1>2, <1>3, <1>4 DEF H!Safety

-----------------------------------------------------------------------------
(* What the file promises.                                                 *)

\* A step of the session is one of the conversation's or leaves it alone.
LEMMA ConversationMoves == [Next]_vars => [H!Next]_HVars
BY DEF Next, vars, HVars

\* What a session's file gives back is the conversation and the ledger as they
\* were, whatever amendments, answers, compactions and crashes came between; a
\* summary loses none of the operator's words, and every call has its result in
\* its place.  Only where a request has both references and a check plan does the
\* file give them in another order than they were told.  (session.ts: conversation,
\* recovery; loop.ts: start, deliver, compact.)
THEOREM TheFileGivesTheConversationBack == ASSUME ~ (Referenced /\ Checked) PROVE Spec => []ConversationIsSafe
<1>1. Init => HInv
  BY HInit DEF Init
<1>2. HInv /\ [Next]_vars => HInv'
  BY HStep, ConversationMoves
<1>3. HInv => ConversationIsSafe
  BY HSafe DEF ConversationIsSafe
<1> QED
  BY <1>1, <1>2, <1>3, PTL DEF Spec

-----------------------------------------------------------------------------
(* The conversation's types, whatever requests come with: they need of the  *)
(* file only that what was delivered had come.                              *)

\* Each entry of a delivery has its amendment before it, and so has what is queued.
Came(es) == \A p \in 1 .. Len(es) : es[p].type = "delivered" => \E q \in 1 .. p : es[q] = H!Entry("amendment", es[p].of)
Queued(es, queue) == \A i \in 1 .. Len(queue) : \E p \in 1 .. Len(es) : es[p] = H!Entry("amendment", queue[i].id)
WellRead(s) == IsRead(s) /\ s.history \in Seq(Messages) /\ s.ledger \in Seq(Inputs) /\ s.summarized = HasHead(s.history)

HTypesInv ==
  /\ hHistory \in Seq(Messages) /\ hLedger \in Seq(Inputs) /\ hEntries \in Seq(FileEntries)
  /\ hQueue \in Seq([id : Pairs, at : Nat]) /\ hAnswered \in Seq([call : Pairs, at : Nat]) /\ hTodo \in Seq(Pairs)
  /\ hOrder \in Nat /\ hRuns \in 0 .. MaxRun /\ hReplies \in 0 .. MaxReply /\ hAmends \in 0 .. MaxAmend
  /\ hSummarized = HasHead(hHistory) /\ Len(hAnswered) <= 1
  /\ Came(hEntries) /\ Queued(hEntries, hQueue)

\* Messages that are no head leave a conversation with or without one.
LEMMA HeadStays ==
  ASSUME NEW h \in Seq(Messages), NEW ms \in Seq(Messages), \A i \in 1 .. Len(ms) : ms[i].kind # "head"
  PROVE  h \o ms \in Seq(Messages) /\ HasHead(h \o ms) = HasHead(h)
<1> DEFINE g == h \o ms
<1>1. /\ g \in Seq(Messages) /\ Extends(g, h) /\ Len(g) = Len(h) + Len(ms) /\ Len(h) \in Nat /\ Len(ms) \in Nat
      /\ \A i \in Len(h) + 1 .. Len(h) + Len(ms) : \E j \in 1 .. Len(ms) : g[i] = ms[j]
  BY Appended
<1> HIDE DEF g
<1>2. ASSUME NEW i \in 1 .. Len(g), g[i].kind = "head" PROVE \E j \in 1 .. Len(h) : h[j].kind = "head"
  <2>1. i \in 1 .. Len(h) \/ i \in Len(h) + 1 .. Len(h) + Len(ms)
    BY <1>1
  <2>2. i \in 1 .. Len(h)
    BY <1>1, <1>2, <2>1
  <2> QED
    BY <1>1, <1>2, <2>2 DEF Extends
<1>3. ASSUME NEW i \in 1 .. Len(h), h[i].kind = "head" PROVE \E j \in 1 .. Len(g) : g[j].kind = "head"
  <2>1. i \in 1 .. Len(g) /\ g[i] = h[i]
    BY <1>1 DEF Extends
  <2> QED
    BY <1>3, <2>1
<1>4. HasHead(g) = HasHead(h)
  BY <1>2, <1>3 DEF HasHead
<1> QED
  BY <1>1, <1>4 DEF g

LEMMA OneStays ==
  ASSUME NEW h \in Seq(Messages), NEW m \in Messages, m.kind # "head"
  PROVE  /\ h \o <<m>> \in Seq(Messages) /\ HasHead(h \o <<m>>) = HasHead(h)
         /\ Append(h, m) \in Seq(Messages) /\ HasHead(Append(h, m)) = HasHead(h)
<1>1. <<m>> \in Seq(Messages) /\ \A i \in 1 .. Len(<<m>>) : <<m>>[i].kind # "head"
  OBVIOUS
<1>2. h \o <<m>> \in Seq(Messages) /\ HasHead(h \o <<m>>) = HasHead(h)
  BY <1>1, HeadStays
<1>3. Append(h, m) = h \o <<m>>
  OBVIOUS
<1> QED
  BY <1>2, <1>3

\* A place is in the ledger or at an end of it, sorted or not.
LEMMA ToLedgerTyped ==
  ASSUME NEW in \in Seq(Inputs), NEW at \in Nat, NEW message \in Plain
  PROVE  H!ToLedger(in, message, at) \in Seq(Inputs)
<1> DEFINE S == {0} \cup {i \in 1 .. Len(in) : in[i].at <= at}
           P == H!Place(in, at)
           new == [message |-> message, at |-> at]
<1>1. S \subseteq Nat /\ S # {} /\ Len(in) \in Nat /\ (\A x \in S : x <= Len(in)) /\ S \subseteq 0 .. Len(in)
  OBVIOUS
<1>2. H!Max(S) \in S
  <2> HIDE DEF S
  <2> QED
    BY <1>1, Greatest
<1>3. P = H!Max(S)
  BY DEF H!Place
<1>4. P \in 0 .. Len(in)
  <2> HIDE DEF S, P
  <2> QED
    BY <1>1, <1>2, <1>3, Zenon
<1>5. new \in Inputs
  BY DEF Inputs
<1>6. H!ToLedger(in, message, at) = SubSeq(in, 1, P) \o <<new>> \o SubSeq(in, P + 1, Len(in))
  BY DEF H!ToLedger
<1> HIDE DEF P, new
<1> DEFINE a == SubSeq(in, 1, P)
           b == SubSeq(in, P + 1, Len(in))
<1>7. a \in Seq(Inputs) /\ b \in Seq(Inputs) /\ <<new>> \in Seq(Inputs)
  BY <1>4, <1>5
<1> HIDE DEF a, b
<1>8. a \o <<new>> \o b \in Seq(Inputs)
  BY <1>7
<1> QED
  BY <1>6, <1>8 DEF a, b

LEMMA JoinedTyped ==
  ASSUME NEW in \in Seq(Inputs), NEW due \in Seq([id : Pairs, at : Nat])
  PROVE  H!Joined(in, due) \in Seq(Inputs)
<1> DEFINE J == H!Joins(in, due)
           S == {k \in 0 .. Len(due) : J[k] \in Seq(Inputs)}
<1>1. Len(due) \in Nat /\ J[0] = in /\ \A n \in 1 .. Len(due) : J[n] = Added(J[n - 1], due, n)
  BY JoinsStep
<1>2. \A n \in 1 .. Len(due) : due[n].id \in Pairs /\ due[n].at \in Nat
  <2> SUFFICES ASSUME NEW n \in 1 .. Len(due) PROVE due[n].id \in Pairs /\ due[n].at \in Nat
    OBVIOUS
  <2> DEFINE X == [id : Pairs, at : Nat]
  <2>1. due \in Seq(X)
    OBVIOUS
  <2> HIDE DEF X
  <2>2. due[n] \in X
    BY <2>1
  <2> QED
    BY <2>2 DEF X
<1> HIDE DEF J
<1>3. 0 \in S
  BY <1>1
<1>4. \A k \in 0 .. Len(due) - 1 : k \in S => k + 1 \in S
  <2> SUFFICES ASSUME NEW k \in 0 .. Len(due) - 1, J[k] \in Seq(Inputs) PROVE J[k + 1] \in Seq(Inputs)
    BY <1>1
  <2> DEFINE n == k + 1
  <2>1. n \in 1 .. Len(due) /\ n - 1 = k
    BY <1>1
  <2> HIDE DEF n
  <2>2. H!Message("amended", due[n].id) \in Plain
    BY <1>2, <2>1, MessageIs DEF MessageKinds
  <2>3. J[n] = H!ToLedger(J[k], H!Message("amended", due[n].id), due[n].at)
    BY <1>1, <2>1 DEF Added
  <2>4. J[n] \in Seq(Inputs)
    BY <1>2, <2>1, <2>2, <2>3, ToLedgerTyped
  <2> QED
    BY <2>4 DEF n
<1>5. Len(due) \in S
  <2> HIDE DEF S
  <2>1. \A k \in 0 .. Len(due) : k \in S
    BY <1>1, <1>3, <1>4, Induction, Zenon
  <2> QED
    BY <1>1, <2>1
<1> QED
  BY <1>5 DEF H!Joined, J

\* A repair puts one result somewhere, or nothing.
LEMMA RepairedTyped ==
  ASSUME NEW h \in Seq(Messages), NEW call \in Pairs
  PROVE  H!Repaired(h, call) \in Seq(Messages) /\ HasHead(H!Repaired(h, call)) = HasHead(h)
<1> DEFINE at == {i \in 1 .. Len(h) : h[i] = H!Message("reply", H!Of(call[1]))}
           ends == {n \in H!Max(at) .. Len(h) : \A i \in H!Max(at) + 1 .. n : h[i].kind = "result"}
           after == H!Max(ends)
           m == H!Message("result", call)
<1>1. H!Repaired(h, call) = IF at = {} THEN h ELSE SubSeq(h, 1, after) \o <<m>> \o SubSeq(h, after + 1, Len(h))
  BY DEF H!Repaired
<1>2. CASE at = {}
  BY <1>1, <1>2
<1>3. CASE at # {}
  <2>1. Len(h) \in Nat /\ at \subseteq Nat /\ (\A x \in at : x <= Len(h)) /\ at \subseteq 1 .. Len(h)
    OBVIOUS
  <2>2. H!Max(at) \in at
    <3> HIDE DEF at
    <3> QED
      BY <1>3, <2>1, Greatest
  <2> DEFINE from == H!Max(at)
  <2>3. from \in 1 .. Len(h)
    <3> HIDE DEF at
    <3> QED
      BY <2>1, <2>2, Zenon
  <2> HIDE DEF from
  <2> DEFINE outs == {n \in from .. Len(h) : \A i \in from + 1 .. n : h[i].kind = "result"}
  <2>4. outs \subseteq Nat /\ from \in outs /\ (\A x \in outs : x <= Len(h)) /\ outs \subseteq 1 .. Len(h)
    BY <2>1, <2>3
  <2>5. outs = ends
    BY DEF from
  <2> HIDE DEF outs, ends
  <2>6. H!Max(outs) \in outs
    <3>1. outs # {}
      BY <2>4
    <3> QED
      BY <2>1, <2>4, <3>1, Greatest
  <2>7. after \in 1 .. Len(h)
    BY <2>4, <2>5, <2>6, Zenon
  <2> HIDE DEF after, at
  <2>8. m \in Messages /\ m.kind = "result"
    BY MessageIs DEF MessageKinds
  <2> HIDE DEF m
  <2> DEFINE a == SubSeq(h, 1, after)
             b == SubSeq(h, after + 1, Len(h))
  <2>9. /\ a \in Seq(Messages) /\ Len(a) = after /\ \A i \in 1 .. after : a[i] = h[i]
        /\ b \in Seq(Messages) /\ Len(b) = Len(h) - after /\ \A i \in 1 .. Len(h) - after : b[i] = h[after + i]
    BY <2>1, <2>7
  <2> HIDE DEF a, b
  <2>10. a \o <<m>> \in Seq(Messages) /\ HasHead(a \o <<m>>) = HasHead(a)
    BY <2>8, <2>9, OneStays
  <2> DEFINE c == a \o <<m>>
             g == c \o b
  <2>11. /\ g \in Seq(Messages) /\ Extends(g, c) /\ Len(g) = Len(c) + Len(b) /\ Len(c) \in Nat
         /\ \A i \in 1 .. Len(b) : g[Len(c) + i] = b[i]
         /\ \A i \in Len(c) + 1 .. Len(c) + Len(b) : \E j \in 1 .. Len(b) : g[i] = b[j]
    <3>1. c \in Seq(Messages) /\ b \in Seq(Messages)
      BY <2>9, <2>10
    <3> HIDE DEF c
    <3>2. Len(c) \in Nat
      BY <3>1
    <3> QED
      BY <3>1, <3>2, Appended
  <2>12. HasHead(c) = HasHead(a)
    BY <2>10
  <2> HIDE DEF c, g
  <2>13. ASSUME HasHead(g) PROVE HasHead(h)
    <3>1. PICK i \in 1 .. Len(g) : g[i].kind = "head"
      BY <2>13 DEF HasHead
    <3>2. CASE i \in 1 .. Len(c)
      <4>1. HasHead(a)
        BY <2>11, <2>12, <3>1, <3>2 DEF HasHead, Extends
      <4> QED
        BY <2>1, <2>7, <2>9, <4>1 DEF HasHead
    <3>3. CASE i \in Len(c) + 1 .. Len(c) + Len(b)
      <4>1. PICK j \in 1 .. Len(b) : b[j].kind = "head"
        BY <2>11, <3>1, <3>3
      <4>2. j \in 1 .. Len(h) - after /\ b[j] = h[after + j]
        BY <2>9, <4>1
      <4>3. after \in Nat /\ Len(h) \in Nat
        BY <2>1, <2>7
      <4>4. after + j \in 1 .. Len(h) /\ h[after + j].kind = "head"
        BY <4>1, <4>2, <4>3
      <4> QED
        BY <4>4 DEF HasHead
    <3> QED
      BY <2>9, <2>11, <3>1, <3>2, <3>3
  <2>14. ASSUME HasHead(h) PROVE HasHead(g)
    <3>1. PICK i \in 1 .. Len(h) : h[i].kind = "head"
      BY <2>14 DEF HasHead
    <3>2. CASE i <= after
      <4>1. HasHead(a)
        BY <2>9, <2>7, <3>1, <3>2 DEF HasHead
      <4>2. PICK j \in 1 .. Len(c) : c[j].kind = "head"
        BY <2>12, <4>1 DEF HasHead
      <4>3. j \in 1 .. Len(g) /\ g[j].kind = "head"
        BY <2>9, <2>11, <4>2 DEF Extends
      <4> QED
        BY <4>3 DEF HasHead
    <3>3. CASE i > after
      <4> DEFINE j == i - after
      <4>1. j \in 1 .. Len(b) /\ after + j = i
        BY <2>1, <2>7, <2>9, <3>1, <3>3
      <4> HIDE DEF j
      <4>2. b[j] = h[i]
        BY <2>9, <4>1
      <4>3. g[Len(c) + j] = b[j] /\ Len(c) + j \in 1 .. Len(g)
        BY <2>9, <2>11, <4>1
      <4> QED
        BY <3>1, <4>2, <4>3 DEF HasHead
    <3> QED
      BY <2>7, <3>2, <3>3
  <2>15. HasHead(g) = HasHead(h)
    BY <2>13, <2>14 DEF HasHead
  <2> QED
    BY <1>1, <1>3, <2>11, <2>15 DEF g, c, a, b
<1> QED
  BY <1>2, <1>3

\* A summary is a conversation with a head.
LEMMA CompactedTyped ==
  ASSUME NEW h \in Seq(Messages), NEW in \in Seq(Inputs), NEW cut \in 0 .. Len(h)
  PROVE  H!Compacted(h, in, cut) \in Seq(Messages) /\ HasHead(H!Compacted(h, in, cut))
<1> DEFINE g == H!Compacted(h, in, cut)
<1>1. g \in Seq(Messages) /\ Len(g) = Len(h) - cut + 1 /\ g[1].kind = "head"
  BY CompactedIs
<1> HIDE DEF g
<1>2. 1 \in 1 .. Len(g)
  BY <1>1
<1> QED
  BY <1>1, <1>2 DEF HasHead, g

\* An entry that is there has its order.
LEMMA OrderTyped ==
  ASSUME NEW es, NEW n \in Nat, NEW e, \E q \in 1 .. n : es[q] = e
  PROVE  H!OrderOf(es, n, e) \in Nat
<1> DEFINE S == {i \in 1 .. n : es[i] = e}
<1>1. S \subseteq Nat /\ S # {} /\ \A x \in S : x <= n
  OBVIOUS
<1>2. H!OrderOf(es, n, e) = H!Max(S)
  BY DEF H!OrderOf
<1> HIDE DEF S
<1>3. H!Max(S) \in S
  BY <1>1, Greatest
<1> QED
  BY <1>1, <1>2, <1>3

\* A message that is no head, with or without a place in the ledger.
LEMMA OneRead ==
  ASSUME NEW s, WellRead(s), NEW m \in Messages, m.kind # "head", NEW in \in Seq(Inputs),
         NEW t, t = [history |-> Append(s.history, m), ledger |-> in, summarized |-> s.summarized]
  PROVE  WellRead(t)
<1>1. t.history = Append(s.history, m) /\ t.ledger = in /\ t.summarized = s.summarized /\ IsRead(t)
  BY DEF IsRead
<1> DEFINE h == s.history
           g == t.history
<1>2. h \in Seq(Messages) /\ s.summarized = HasHead(h) /\ g = Append(h, m)
  BY <1>1 DEF WellRead, HasHead
<1> HIDE DEF h, g
<1>3. g \in Seq(Messages) /\ HasHead(g) = HasHead(h)
  BY <1>2, OneStays
<1>4. t.summarized = HasHead(g)
  BY <1>1, <1>2, <1>3
<1> QED
  BY <1>1, <1>3, <1>4 DEF WellRead, HasHead, g

\* Whatever the entry, it makes a conversation of a conversation.
LEMMA EntryReads ==
  ASSUME NEW es \in Seq(FileEntries), Came(es), NEW n \in 1 .. Len(es), NEW s, WellRead(s)
  PROVE  WellRead(H!ReadBack(s, es, n))
<1> DEFINE t == H!ReadBack(s, es, n)
           of == es[n].of
<1>1. es[n] \in FileEntries /\ n \in Nat /\ n <= Len(es)
  OBVIOUS
<1>2. es[n].type \in EntryTypes /\ of \in Pairs
  BY <1>1 DEF FileEntries
<1>3. IsRead(s) /\ s.history \in Seq(Messages) /\ s.ledger \in Seq(Inputs) /\ s.summarized = HasHead(s.history)
  BY DEF WellRead, HasHead
<1> HIDE DEF t, of
<1>4. CASE es[n].type \in {"amendment", "clarification", "run_end"}
  BY <1>4, ReadNothing DEF t
<1>5. CASE es[n].type = "assistant"
  <2> DEFINE m == H!Message("reply", of)
  <2>1. m \in Messages /\ m.kind # "head"
    BY <1>2, MessageIs DEF MessageKinds
  <2>2. t = [history |-> Append(s.history, m), ledger |-> s.ledger, summarized |-> s.summarized]
    BY <1>3, <1>5, ReadAssistant DEF t, of
  <2> HIDE DEF m
  <2>3. WellRead(t)
    BY <1>3, <2>1, <2>2, OneRead
  <2> QED
    BY <2>3 DEF t
<1>6. CASE es[n].type = "tool_result"
  <2> DEFINE m == H!Message("result", of)
             in == t.ledger
  <2>1. m \in Messages /\ m \in Plain /\ m.kind # "head"
    BY <1>2, MessageIs DEF MessageKinds
  <2>2. in \in Seq(Inputs) /\ t = [history |-> Append(s.history, m), ledger |-> in, summarized |-> s.summarized]
    <3>1. CASE H!Given(es, n, of)
      <4> DEFINE at == H!OrderOf(es, n, H!Entry("clarification", of))
      <4>1. at \in Nat
        BY <1>1, <3>1, OrderTyped DEF H!Given
      <4>2. t = [history |-> Append(s.history, m), ledger |-> H!ToLedger(s.ledger, m, at), summarized |-> s.summarized]
        BY <1>6, <3>1, ReadAnswer DEF t, of
      <4> HIDE DEF at, m
      <4>3. H!ToLedger(s.ledger, m, at) \in Seq(Inputs)
        BY <1>3, <2>1, <4>1, ToLedgerTyped
      <4> QED
        BY <4>2, <4>3
    <3>2. CASE ~H!Given(es, n, of)
      <4>1. t = [history |-> Append(s.history, m), ledger |-> s.ledger, summarized |-> s.summarized]
        BY <1>3, <1>6, <3>2, ReadResult DEF t, of
      <4> HIDE DEF m
      <4> QED
        BY <1>3, <4>1
    <3> QED
      BY <3>1, <3>2
  <2> HIDE DEF m, in
  <2>3. WellRead(t)
    BY <2>1, <2>2, OneRead
  <2> QED
    BY <2>3 DEF t
<1>7. CASE es[n].type = "delivered"
  <2> DEFINE m == H!Message("amended", of)
             at == H!OrderOf(es, n, H!Entry("amendment", of))
             in == H!ToLedger(s.ledger, m, at)
  <2>1. m \in Messages /\ m \in Plain /\ m.kind # "head"
    BY <1>2, MessageIs DEF MessageKinds
  <2>2. at \in Nat
    <3>1. \E q \in 1 .. n : es[q] = H!Entry("amendment", of)
      BY <1>7 DEF Came, of
    <3> QED
      BY <1>1, <3>1, OrderTyped
  <2>3. t = [history |-> Append(s.history, m), ledger |-> in, summarized |-> s.summarized]
    BY <1>7, ReadDelivered DEF t, of
  <2>4. in \in Seq(Inputs)
    <3> HIDE DEF m, at
    <3> QED
      BY <1>3, <2>1, <2>2, ToLedgerTyped
  <2> HIDE DEF m, at, in
  <2>5. WellRead(t)
    BY <2>1, <2>3, <2>4, OneRead
  <2> QED
    BY <2>5 DEF t
<1>8. CASE es[n].type = "references"
  <2> DEFINE m == H!Message("referenced", of)
             in == H!ToLedger(s.ledger, m, n)
  <2>1. m \in Messages /\ m \in Plain /\ m.kind # "head"
    BY <1>2, MessageIs DEF MessageKinds
  <2>2. t = [history |-> Append(s.history, m), ledger |-> in, summarized |-> s.summarized]
    BY <1>8, ReadReferences DEF t, of
  <2>3. in \in Seq(Inputs)
    <3> HIDE DEF m
    <3> QED
      BY <1>1, <1>3, <2>1, ToLedgerTyped
  <2> HIDE DEF m, in
  <2>4. WellRead(t)
    BY <2>1, <2>2, <2>3, OneRead
  <2> QED
    BY <2>4 DEF t
<1>9. CASE es[n].type = "request"
  <2> DEFINE a == H!Message("asked", of)
             c == H!Message("checking", of)
             asked == <<a>> \o IF Checked THEN <<c>> ELSE <<>>
             in == [i \in 1 .. Len(asked) |-> [message |-> asked[i], at |-> n]]
  <2>1. a \in Messages /\ a \in Plain /\ a.kind # "head" /\ c \in Messages /\ c \in Plain /\ c.kind # "head"
    BY <1>2, MessageIs DEF MessageKinds
  <2>2. t = [history |-> s.history \o asked, ledger |-> in, summarized |-> s.summarized]
    BY <1>9, ReadRequest DEF t, of
  <2> HIDE DEF a, c
  <2>3. asked = <<a>> \/ asked = <<a, c>>
    BY <2>1, Pasted
  <2> HIDE DEF asked
  <2>4. asked \in Seq(Messages) /\ Len(asked) \in Nat /\ \A i \in 1 .. Len(asked) : asked[i] = a \/ asked[i] = c
    BY <2>1, <2>3, OneOrTwo
  <2>5. \A i \in 1 .. Len(asked) : [message |-> asked[i], at |-> n] \in Inputs /\ asked[i].kind # "head"
    BY <1>1, <2>1, <2>4 DEF Inputs
  <2>6. in \in Seq(Inputs)
    BY <2>4, <2>5
  <2> HIDE DEF in
  <2> DEFINE h == s.history
             g == h \o asked
  <2>7. h \in Seq(Messages)
    BY <1>3
  <2> HIDE DEF h
  <2>8. g \in Seq(Messages) /\ HasHead(g) = HasHead(h)
    BY <2>4, <2>5, <2>7, HeadStays
  <2>9. t.history = g /\ t.ledger = in /\ t.summarized = s.summarized /\ IsRead(t)
    BY <2>2 DEF h, IsRead
  <2> HIDE DEF g
  <2>10. t.summarized = HasHead(t.history)
    BY <1>3, <2>8, <2>9 DEF h
  <2> QED
    BY <2>6, <2>8, <2>9, <2>10 DEF WellRead, HasHead, t
<1>10. CASE es[n].type = "reconciliation"
  <2> DEFINE h == s.history
             g == H!Repaired(h, of)
  <2>1. t = [history |-> g, ledger |-> s.ledger, summarized |-> s.summarized]
    BY <1>3, <1>10, ReadRepair DEF t, of
  <2>2. h \in Seq(Messages)
    BY <1>3
  <2> HIDE DEF h
  <2>3. g \in Seq(Messages) /\ HasHead(g) = HasHead(h)
    BY <1>2, <2>2, RepairedTyped
  <2> HIDE DEF g
  <2>4. t.history = g /\ t.ledger = s.ledger /\ t.summarized = s.summarized /\ IsRead(t)
    BY <2>1 DEF IsRead
  <2>5. t.summarized = HasHead(t.history)
    BY <1>3, <2>3, <2>4 DEF h
  <2> QED
    BY <1>3, <2>3, <2>4, <2>5 DEF WellRead, HasHead, t
<1>11. CASE es[n].type = "compaction"
  <2> DEFINE h == s.history
             cut == IF Len(h) > of[1] THEN Len(h) - of[1] ELSE 0
             g == H!Compacted(h, s.ledger, cut)
  <2>1. t = [history |-> g, ledger |-> s.ledger, summarized |-> TRUE]
    BY <1>11, ReadCompaction DEF t, of
  <2>2. h \in Seq(Messages) /\ Len(h) \in Nat
    BY <1>3
  <2> HIDE DEF h
  <2>3. cut \in 0 .. Len(h)
    <3>1. of[1] \in Nat
      BY <1>2 DEF Pairs
    <3> QED
      BY <2>2, <3>1
  <2> HIDE DEF cut
  <2>4. g \in Seq(Messages) /\ HasHead(g)
    BY <1>3, <2>2, <2>3, CompactedTyped
  <2> HIDE DEF g
  <2>5. t.history = g /\ t.ledger = s.ledger /\ t.summarized = TRUE /\ IsRead(t)
    BY <2>1 DEF IsRead
  <2>6. t.summarized = HasHead(t.history)
    BY <2>4, <2>5 DEF HasHead
  <2> QED
    BY <1>3, <2>4, <2>5, <2>6 DEF WellRead, HasHead, t
<1> QED
  BY <1>2, <1>4, <1>5, <1>6, <1>7, <1>8, <1>9, <1>10, <1>11 DEF EntryTypes

\* So does the whole file.
LEMMA FileReads ==
  ASSUME NEW es \in Seq(FileEntries), Came(es)
  PROVE  WellRead(H!Rebuilt(es))
<1> DEFINE S == {k \in 0 .. Len(es) : WellRead(H!Reads(es)[k])}
<1>1. Len(es) \in Nat
  OBVIOUS
<1>2. 0 \in S
  <2>1. H!Reads(es)[0] = H!Blank
    BY <1>1, ReadsStep
  <2> DEFINE s == H!Blank
  <2>2. s.history = <<>> /\ s.ledger = <<>> /\ s.summarized = FALSE /\ IsRead(s)
    BY DEF H!Blank, IsRead
  <2> HIDE DEF s
  <2>3. s.history \in Seq(Messages) /\ s.ledger \in Seq(Inputs) /\ ~HasHead(s.history)
    BY <2>2 DEF HasHead
  <2>4. s.summarized = HasHead(s.history)
    BY <2>2, <2>3 DEF HasHead
  <2>5. WellRead(s)
    BY <2>2, <2>3, <2>4 DEF WellRead, HasHead
  <2> QED
    BY <1>1, <2>1, <2>5 DEF s
<1>3. \A k \in 0 .. Len(es) - 1 : k \in S => k + 1 \in S
  <2> SUFFICES ASSUME NEW k \in 0 .. Len(es) - 1, WellRead(H!Reads(es)[k]) PROVE WellRead(H!Reads(es)[k + 1])
    BY <1>1
  <2> DEFINE n == k + 1
             s == H!Reads(es)[k]
  <2>1. n \in 1 .. Len(es) /\ n - 1 = k
    BY <1>1
  <2> HIDE DEF n
  <2>2. H!Reads(es)[n] = H!ReadBack(s, es, n)
    BY <1>1, <2>1, ReadsStep
  <2> HIDE DEF S
  <2>3. WellRead(s)
    OBVIOUS
  <2> HIDE DEF s
  <2>4. WellRead(H!ReadBack(s, es, n))
    BY <2>1, <2>3, EntryReads
  <2> QED
    BY <2>2, <2>4 DEF n
<1>4. Len(es) \in S
  <2> HIDE DEF S
  <2>1. \A k \in 0 .. Len(es) : k \in S
    BY <1>1, <1>2, <1>3, Induction, Zenon
  <2> QED
    BY <1>1, <2>1
<1> QED
  BY <1>4 DEF H!Rebuilt


\* A file that grows by entries whose amendments it has.
LEMMA FileGrows ==
  ASSUME NEW es \in Seq(FileEntries), Came(es), NEW queue, Queued(es, queue), NEW ms \in Seq(FileEntries),
         \A i \in 1 .. Len(ms) : ms[i].type = "delivered" => \E p \in 1 .. Len(es) : es[p] = H!Entry("amendment", ms[i].of),
         NEW fs, fs = es \o ms
  PROVE  fs \in Seq(FileEntries) /\ Came(fs) /\ Queued(fs, queue) /\ Len(fs) = Len(es) + Len(ms) /\ Extends(fs, es)
<1>1. /\ fs \in Seq(FileEntries) /\ Extends(fs, es) /\ Len(fs) = Len(es) + Len(ms) /\ Len(es) \in Nat /\ Len(ms) \in Nat
      /\ \A i \in Len(es) + 1 .. Len(es) + Len(ms) : \E j \in 1 .. Len(ms) : fs[i] = ms[j]
  BY Appended
<1>2. \A i \in 1 .. Len(es) : fs[i] = es[i] /\ i \in 1 .. Len(fs)
  BY <1>1 DEF Extends
<1>3. Came(fs)
  <2> SUFFICES ASSUME NEW p \in 1 .. Len(fs), fs[p].type = "delivered"
               PROVE  \E q \in 1 .. p : fs[q] = H!Entry("amendment", fs[p].of)
    BY DEF Came
  <2>1. CASE p \in 1 .. Len(es)
    <3>1. PICK q \in 1 .. p : es[q] = H!Entry("amendment", es[p].of)
      BY <1>2, <2>1 DEF Came
    <3>2. q \in 1 .. Len(es)
      BY <1>1, <2>1
    <3> QED
      BY <1>2, <2>1, <3>1, <3>2
  <2>2. CASE p \in Len(es) + 1 .. Len(es) + Len(ms)
    <3>1. PICK q \in 1 .. Len(es) : es[q] = H!Entry("amendment", fs[p].of)
      BY <1>1, <2>2
    <3>2. q \in 1 .. p
      BY <1>1, <2>2
    <3> QED
      BY <1>2, <3>1, <3>2
  <2> QED
    BY <1>1, <2>1, <2>2
<1>4. Queued(fs, queue)
  BY <1>2 DEF Queued
<1> QED
  BY <1>1, <1>3, <1>4

LEMMA FileAdds ==
  ASSUME NEW es \in Seq(FileEntries), Came(es), NEW queue, Queued(es, queue), NEW e \in FileEntries, e.type # "delivered",
         NEW fs, Adds(es, e, fs)
  PROVE  fs \in Seq(FileEntries) /\ Came(fs) /\ Queued(fs, queue)
<1> DEFINE ms == <<e>>
<1>1. ms \in Seq(FileEntries) /\ fs = es \o ms /\ \A i \in 1 .. Len(ms) : ms[i].type # "delivered"
  BY DEF Adds
<1> HIDE DEF ms
<1> QED
  BY <1>1, FileGrows

\* What a run opens with is plain and no head.
Told == {m \in Plain : m.kind # "head"}
LEMMA ToldAre == ASSUME NEW s \in Seq(Told) PROVE s \in Seq(Messages) /\ Len(s) \in Nat /\ \A i \in 1 .. Len(s) : s[i] \in Plain /\ s[i].kind # "head"
<1>1. \A m \in Plain : m \in Messages
  <2>1. <<>> \in Seq(Seq(Plain))
    OBVIOUS
  <2> QED
    BY <2>1 DEF Plain, Messages
<1>2. \A m \in Told : m \in Messages /\ m \in Plain /\ m.kind # "head"
  BY <1>1 DEF Told
<1> HIDE DEF Told
<1>3. Len(s) \in Nat /\ \A i \in 1 .. Len(s) : s[i] \in Told
  OBVIOUS
<1>4. s \in Seq(Messages)
  BY <1>2, <1>3
<1> QED
  BY <1>2, <1>3, <1>4

LEMMA OpeningTyped == ASSUME NEW run \in Nat PROVE H!Opening(run) \in Seq(Told)
<1> DEFINE a == H!Message("asked", H!Of(run))
           b == H!Message("referenced", H!Of(run))
           c == H!Message("checking", H!Of(run))
<1>1. a \in Told /\ b \in Told /\ c \in Told
  BY OfIs, MessageIs DEF MessageKinds, Told
<1> DEFINE x == <<a>>
           y == IF Referenced THEN <<b>> ELSE <<>>
           z == IF Checked THEN <<c>> ELSE <<>>
<1>2. x \in Seq(Told) /\ y \in Seq(Told) /\ z \in Seq(Told)
  BY <1>1
<1>3. H!Opening(run) = x \o y \o z
  BY DEF H!Opening
<1> HIDE DEF x, y, z
<1>4. x \o y \o z \in Seq(Told)
  BY <1>2
<1> QED
  BY <1>3, <1>4

-----------------------------------------------------------------------------
LEMMA HTypesInit == ASSUME H!Init PROVE HTypesInv
<1>1. /\ hHistory = <<>> /\ hLedger = <<>> /\ hEntries = <<>> /\ hOrder = 0 /\ hQueue = <<>> /\ hTodo = <<>> /\ hAnswered = <<>>
      /\ hSummarized = FALSE /\ hRuns = 0 /\ hReplies = 0 /\ hAmends = 0
  BY DEF H!Init
<1>2. Len(<<>>) = 0 /\ 1 .. 0 = {}
  OBVIOUS
<1>3. hHistory \in Seq(Messages) /\ hLedger \in Seq(Inputs) /\ hEntries \in Seq(FileEntries)
  BY <1>1
<1>4. hQueue \in Seq([id : Pairs, at : Nat]) /\ hAnswered \in Seq([call : Pairs, at : Nat]) /\ hTodo \in Seq(Pairs)
  BY <1>1
<1>5. hOrder \in Nat /\ hRuns \in 0 .. MaxRun /\ hReplies \in 0 .. MaxReply /\ hAmends \in 0 .. MaxAmend
  BY <1>1, ConversationAssumption
<1>6. hSummarized = HasHead(hHistory) /\ Len(hAnswered) <= 1 /\ Came(hEntries) /\ Queued(hEntries, hQueue)
  <2>1. ~HasHead(hHistory)
    BY <1>1, <1>2 DEF HasHead
  <2>2. hSummarized = HasHead(hHistory)
    BY <1>1, <2>1 DEF HasHead
  <2> QED
    BY <1>1, <1>2, <2>2 DEF Came, Queued
<1> QED
  BY <1>3, <1>4, <1>5, <1>6 DEF HTypesInv, HasHead

\* A run opens with what it is told, in the file and in the conversation.
LEMMA StartTypes == ASSUME HTypesInv, H!Start PROVE HTypesInv'
<1> DEFINE run == hRuns + 1
           op == H!Opening(run)
           e == H!Entry("request", H!Of(run))
           f == H!Entry("references", H!Of(run))
           ms == <<e>> \o IF Referenced THEN <<f>> ELSE <<>>
<1>1. /\ hRuns < MaxRun /\ hRuns' = run /\ hQueue' = <<>> /\ hAnswered' = <<>> /\ hEntries' = hEntries \o ms
      /\ hHistory' = hHistory \o op /\ hOrder' = Len(op) /\ hLedger' = [i \in 1 .. Len(op) |-> [message |-> op[i], at |-> i - 1]]
      /\ UNCHANGED <<hTodo, hSummarized, hReplies, hAmends>>
  BY DEF H!Start, H!Write, H!Add
<1>2. run \in Nat /\ run \in 0 .. MaxRun
  BY <1>1, ConversationAssumption DEF HTypesInv
<1>3. op \in Seq(Told)
  <2> HIDE DEF run
  <2> QED
    BY <1>2, OpeningTyped
<1>4. e \in FileEntries /\ f \in FileEntries /\ e.type = "request" /\ f.type = "references"
  <2> HIDE DEF run
  <2>1. H!Of(run) \in Pairs
    BY <1>2, OfIs
  <2> QED
    BY <2>1, EntryIs DEF EntryTypes
<1> HIDE DEF run, e, f, op
<1>5. ms \in Seq(FileEntries) /\ \A i \in 1 .. Len(ms) : ms[i].type # "delivered"
  <2>1. ms = <<e>> \/ ms = <<e, f>>
    BY <1>4, Pasted
  <2> HIDE DEF ms
  <2>2. ms \in Seq(FileEntries) /\ \A i \in 1 .. Len(ms) : ms[i] = e \/ ms[i] = f
    BY <1>4, <2>1, OneOrTwo
  <2> QED
    BY <1>4, <2>2
<1> HIDE DEF ms
<1>6. hEntries' \in Seq(FileEntries) /\ Came(hEntries')
  <2>1. hEntries \in Seq(FileEntries) /\ Came(hEntries) /\ Queued(hEntries, hQueue)
    BY DEF HTypesInv
  <2> DEFINE fs == hEntries \o ms
  <2>2. fs \in Seq(FileEntries) /\ Came(fs)
    BY <1>5, <2>1, FileGrows
  <2> HIDE DEF fs
  <2>3. hEntries' = fs
    BY <1>1 DEF fs
  <2> QED
    BY <2>2, <2>3
<1>7. op \in Seq(Messages) /\ Len(op) \in Nat /\ \A i \in 1 .. Len(op) : op[i] \in Plain /\ op[i].kind # "head"
  BY <1>3, ToldAre
<1>8. hHistory' \in Seq(Messages) /\ HasHead(hHistory') = HasHead(hHistory)
  <2>1. hHistory \in Seq(Messages)
    BY DEF HTypesInv
  <2> QED
    BY <1>1, <1>7, <2>1, HeadStays
<1>9. hLedger' \in Seq(Inputs)
  <2>1. \A i \in 1 .. Len(op) : [message |-> op[i], at |-> i - 1] \in Inputs
    BY <1>7 DEF Inputs
  <2> QED
    BY <1>1, <1>7, <2>1
<1>10. hSummarized' = HasHead(hHistory')
  BY <1>1, <1>8 DEF HTypesInv
<1>11. Queued(hEntries', hQueue') /\ Len(hAnswered') <= 1
  <2>1. Len(<<>>) = 0 /\ 1 .. 0 = {}
    OBVIOUS
  <2> QED
    BY <1>1, <2>1 DEF Queued
<1>12. hQueue' \in Seq([id : Pairs, at : Nat]) /\ hAnswered' \in Seq([call : Pairs, at : Nat]) /\ hTodo' \in Seq(Pairs)
  BY <1>1 DEF HTypesInv
<1>13. hOrder' \in Nat /\ hRuns' \in 0 .. MaxRun /\ hReplies' \in 0 .. MaxReply /\ hAmends' \in 0 .. MaxAmend
  BY <1>1, <1>2, <1>7 DEF HTypesInv
<1> QED
  BY <1>6, <1>8, <1>9, <1>10, <1>11, <1>12, <1>13 DEF HTypesInv, HasHead

\* What the operator adds is in the file before it is queued.
LEMMA AmendTypes == ASSUME HTypesInv, H!Amend PROVE HTypesInv'
<1> DEFINE of == H!Of(hAmends + 1)
           e == H!Entry("amendment", of)
           x == [id |-> of, at |-> hOrder]
<1>1. /\ hAmends < MaxAmend /\ hAmends' = hAmends + 1 /\ hOrder' = hOrder + 1 /\ Adds(hEntries, e, hEntries') /\ hQueue' = Append(hQueue, x)
      /\ UNCHANGED <<hHistory, hLedger, hTodo, hAnswered, hSummarized, hRuns, hReplies>>
  BY DEF H!Amend, H!Write, Adds
<1>2. of \in Pairs /\ hAmends + 1 \in 0 .. MaxAmend
  <2>1. hAmends \in Nat /\ hAmends + 1 \in Nat
    BY DEF HTypesInv
  <2> QED
    BY <1>1, <2>1, ConversationAssumption, OfIs
<1>3. e \in FileEntries /\ e.type = "amendment"
  BY <1>2, EntryIs DEF EntryTypes
<1> DEFINE X == [id : Pairs, at : Nat]
<1>4. x \in X /\ x.id = of
  BY <1>2 DEF HTypesInv
<1> DEFINE es == hEntries
           fs == hEntries'
           q == hQueue
           q1 == Append(q, x)
<1>5. es \in Seq(FileEntries) /\ Came(es) /\ Queued(es, q) /\ q \in Seq(X) /\ Adds(es, e, fs) /\ hQueue' = q1
  BY <1>1 DEF HTypesInv
<1> HIDE DEF es, fs, q, x, e, X
<1>6. fs \in Seq(FileEntries) /\ Came(fs) /\ Queued(fs, q)
  BY <1>3, <1>5, FileAdds
<1>7. Len(es) + 1 \in 1 .. Len(fs) /\ fs[Len(es) + 1] = e
  BY <1>3, <1>5, Grown
<1>8. q1 \in Seq(X) /\ Len(q1) = Len(q) + 1 /\ Len(q) \in Nat /\ q1[Len(q) + 1] = x /\ \A i \in 1 .. Len(q) : q1[i] = q[i]
  BY <1>4, <1>5
<1> HIDE DEF q1
<1>9. Queued(fs, q1)
  <2> SUFFICES ASSUME NEW i \in 1 .. Len(q1) PROVE \E p \in 1 .. Len(fs) : fs[p] = H!Entry("amendment", q1[i].id)
    BY DEF Queued
  <2>1. CASE i \in 1 .. Len(q)
    BY <1>6, <1>8, <2>1 DEF Queued
  <2>2. CASE i = Len(q) + 1
    BY <1>4, <1>7, <1>8, <2>2 DEF e
  <2> QED
    BY <1>8, <2>1, <2>2
<1>10. hOrder' \in Nat /\ hRuns' \in 0 .. MaxRun /\ hReplies' \in 0 .. MaxReply /\ hAmends' \in 0 .. MaxAmend
  BY <1>1, <1>2 DEF HTypesInv
<1> QED
  BY <1>1, <1>5, <1>6, <1>8, <1>9, <1>10 DEF HTypesInv, HasHead, fs, X


\* What was queued is delivered, each at its own place.
LEMMA DeliverTypes == ASSUME HTypesInv, H!Deliver PROVE HTypesInv'
<1> DEFINE q == hQueue
           K == Len(q)
           X == [id : Pairs, at : Nat]
           De(j) == H!Entry("delivered", q[j].id)
           Me(j) == H!Message("amended", q[j].id)
           des == [i \in 1 .. K |-> De(i)]
           ms == [i \in 1 .. K |-> Me(i)]
<1>1. /\ hQueue' = <<>> /\ hEntries' = hEntries \o des /\ hHistory' = hHistory \o ms /\ hLedger' = H!Joined(hLedger, q)
      /\ UNCHANGED <<hOrder, hTodo, hAnswered, hSummarized, hRuns, hReplies, hAmends>>
  BY DEF H!Deliver, H!Write, H!Add, H!counts
<1>2. q \in Seq(X) /\ K \in Nat /\ hLedger \in Seq(Inputs) /\ hEntries \in Seq(FileEntries) /\ hHistory \in Seq(Messages) /\ Came(hEntries) /\ Queued(hEntries, q)
  BY DEF HTypesInv
<1>3. hLedger' \in Seq(Inputs)
  BY <1>1, <1>2, JoinedTyped
<1>4. ASSUME NEW j \in 1 .. K
      PROVE  /\ De(j) \in FileEntries /\ De(j).of = q[j].id
             /\ Me(j) \in Messages /\ Me(j).kind # "head"
  <2> DEFINE id == q[j].id
  <2>1. id \in Pairs
    <3>1. q \in Seq(X) /\ j \in 1 .. Len(q)
      BY <1>2
    <3> HIDE DEF q, X
    <3>2. q[j] \in X
      BY <3>1
    <3> QED
      BY <3>2 DEF X
  <2> HIDE DEF id
  <2>2. H!Entry("delivered", id) \in FileEntries /\ H!Entry("delivered", id).of = id
    BY <2>1, EntryIs DEF EntryTypes
  <2>3. H!Message("amended", id) \in Messages /\ H!Message("amended", id).kind # "head"
    BY <2>1, MessageIs DEF MessageKinds
  <2> QED
    BY <2>2, <2>3 DEF id
<1> HIDE DEF De, Me
<1>5. des \in Seq(FileEntries) /\ \A i \in 1 .. Len(des) : des[i].type = "delivered" => \E p \in 1 .. Len(hEntries) : hEntries[p] = H!Entry("amendment", des[i].of)
  <2>1. des \in Seq(FileEntries) /\ Len(des) = K /\ \A i \in 1 .. K : des[i] = De(i)
    BY <1>2, <1>4
  <2> HIDE DEF des
  <2>2. \A i \in 1 .. K : des[i].of = q[i].id
    BY <1>4, <2>1
  <2> QED
    BY <1>2, <2>1, <2>2 DEF Queued
<1>6. ms \in Seq(Messages) /\ \A i \in 1 .. Len(ms) : ms[i].kind # "head"
  <2>1. ms \in Seq(Messages) /\ Len(ms) = K /\ \A i \in 1 .. K : ms[i] = Me(i)
    BY <1>2, <1>4
  <2> HIDE DEF ms
  <2> QED
    BY <1>4, <2>1
<1> HIDE DEF des, ms
<1>7. hEntries' \in Seq(FileEntries) /\ Came(hEntries')
  <2> DEFINE fs == hEntries \o des
  <2> HIDE DEF q
  <2>1. fs \in Seq(FileEntries) /\ Came(fs)
    BY <1>2, <1>5, FileGrows
  <2> HIDE DEF fs
  <2>2. hEntries' = fs
    BY <1>1 DEF fs
  <2> QED
    BY <2>1, <2>2
<1>8. hHistory' \in Seq(Messages) /\ HasHead(hHistory') = HasHead(hHistory)
  BY <1>1, <1>2, <1>6, HeadStays
<1>9. hSummarized' = HasHead(hHistory')
  BY <1>1, <1>8 DEF HTypesInv
<1>10. Queued(hEntries', hQueue') /\ hQueue' \in Seq([id : Pairs, at : Nat])
  <2>1. Len(<<>>) = 0 /\ 1 .. 0 = {}
    OBVIOUS
  <2> QED
    BY <1>1, <2>1 DEF Queued
<1>11. /\ hAnswered' \in Seq([call : Pairs, at : Nat]) /\ hTodo' \in Seq(Pairs) /\ Len(hAnswered') <= 1
       /\ hOrder' \in Nat /\ hRuns' \in 0 .. MaxRun /\ hReplies' \in 0 .. MaxReply /\ hAmends' \in 0 .. MaxAmend
  BY <1>1 DEF HTypesInv
<1> QED
  BY <1>3, <1>7, <1>8, <1>9, <1>10, <1>11 DEF HTypesInv, HasHead

\* A reply with its calls, and a call's result, are one message each.
LEMMA ReplyTypes == ASSUME HTypesInv, H!Reply PROVE HTypesInv'
<1> DEFINE r == hReplies + 1
           e == H!Entry("assistant", H!Of(r))
           m == H!Message("reply", H!Of(r))
<1>1. /\ hReplies < MaxReply /\ hReplies' = r /\ Adds(hEntries, e, hEntries') /\ hHistory' = hHistory \o <<m>> /\ hTodo' = H!Calls(r)
      /\ UNCHANGED <<hLedger, hOrder, hQueue, hAnswered, hSummarized, hRuns, hAmends>>
  BY DEF H!Reply, H!Write, H!Add, Adds
<1>2. r \in Nat /\ r \in 0 .. MaxReply
  BY <1>1, ConversationAssumption DEF HTypesInv
<1> HIDE DEF r
<1>3. e \in FileEntries /\ e.type = "assistant" /\ m \in Messages /\ m.kind # "head"
  BY <1>2, OfIs, EntryIs, MessageIs DEF EntryTypes, MessageKinds
<1>4. hTodo' \in Seq(Pairs)
  <2>1. <<r, 1>> \in Pairs /\ <<r, 2>> \in Pairs
    BY <1>2 DEF Pairs
  <2>2. H!Calls(r) = <<<<r, 1>>>> \/ H!Calls(r) = <<<<r, 1>>, <<r, 2>>>>
    BY <1>2, CallsIs
  <2> DEFINE a == <<r, 1>>
             b == <<r, 2>>
  <2> HIDE DEF a, b
  <2> DEFINE t == H!Calls(r)
  <2>3. a \in Pairs /\ b \in Pairs /\ (t = <<a>> \/ t = <<a, b>>) /\ hTodo' = t
    BY <1>1, <2>1, <2>2 DEF a, b
  <2> HIDE DEF t
  <2>4. t \in Seq(Pairs)
    BY <2>3, OneOrTwo
  <2> QED
    BY <2>3, <2>4
<1> HIDE DEF e, m
<1>5. hEntries' \in Seq(FileEntries) /\ Came(hEntries') /\ Queued(hEntries', hQueue)
  BY <1>1, <1>3, FileAdds DEF HTypesInv
<1>6. hHistory' \in Seq(Messages) /\ HasHead(hHistory') = HasHead(hHistory)
  <2>1. hHistory \in Seq(Messages)
    BY DEF HTypesInv
  <2> QED
    BY <1>1, <1>3, <2>1, OneStays
<1>7. hSummarized' = HasHead(hHistory')
  BY <1>1, <1>6 DEF HTypesInv
<1> QED
  BY <1>1, <1>2, <1>4, <1>5, <1>6, <1>7 DEF HTypesInv, HasHead

LEMMA SaveTypes == ASSUME HTypesInv, H!Save PROVE HTypesInv'
<1> DEFINE call == Head(hTodo)
           e == H!Entry("clarification", call)
           x == [call |-> call, at |-> hOrder]
<1>1. /\ hTodo # <<>> /\ hOrder' = hOrder + 1 /\ Adds(hEntries, e, hEntries') /\ hAnswered' = <<x>>
      /\ UNCHANGED <<hHistory, hLedger, hQueue, hTodo, hSummarized, hRuns, hReplies, hAmends>>
  BY DEF H!Save, H!Write, H!counts, Adds
<1>2. call \in Pairs
  BY <1>1 DEF HTypesInv
<1> HIDE DEF call
<1>3. e \in FileEntries /\ e.type = "clarification" /\ x \in [call : Pairs, at : Nat]
  BY <1>2, EntryIs DEF EntryTypes, HTypesInv
<1> HIDE DEF e, x
<1>4. hEntries' \in Seq(FileEntries) /\ Came(hEntries') /\ Queued(hEntries', hQueue)
  BY <1>1, <1>3, FileAdds DEF HTypesInv
<1>5. hAnswered' \in Seq([call : Pairs, at : Nat]) /\ Len(hAnswered') <= 1 /\ hOrder' \in Nat
  BY <1>1, <1>3 DEF HTypesInv
<1> QED
  BY <1>1, <1>4, <1>5 DEF HTypesInv, HasHead

LEMMA ResultTypes == ASSUME HTypesInv, H!Result PROVE HTypesInv'
<1> DEFINE call == Head(hTodo)
           e == H!Entry("tool_result", call)
           m == H!Message("result", call)
<1>1. /\ hTodo # <<>> /\ hTodo' = Tail(hTodo) /\ hAnswered' = <<>> /\ Adds(hEntries, e, hEntries') /\ hHistory' = hHistory \o <<m>>
      /\ hLedger' = IF hAnswered = <<>> THEN hLedger ELSE H!ToLedger(hLedger, m, hAnswered[1].at)
      /\ UNCHANGED <<hOrder, hQueue, hSummarized, hRuns, hReplies, hAmends>>
  BY DEF H!Result, H!Write, H!Add, H!counts, Adds
<1>2. call \in Pairs /\ hTodo' \in Seq(Pairs)
  BY <1>1 DEF HTypesInv
<1> HIDE DEF call
<1>3. e \in FileEntries /\ e.type = "tool_result" /\ m \in Messages /\ m \in Plain /\ m.kind # "head"
  BY <1>2, EntryIs, MessageIs DEF EntryTypes, MessageKinds
<1> HIDE DEF e, m
<1>4. hEntries' \in Seq(FileEntries) /\ Came(hEntries') /\ Queued(hEntries', hQueue)
  BY <1>1, <1>3, FileAdds DEF HTypesInv
<1>5. hHistory' \in Seq(Messages) /\ HasHead(hHistory') = HasHead(hHistory)
  <2>1. hHistory \in Seq(Messages)
    BY DEF HTypesInv
  <2> QED
    BY <1>1, <1>3, <2>1, OneStays
<1>6. hSummarized' = HasHead(hHistory')
  BY <1>1, <1>5 DEF HTypesInv
<1>7. hLedger' \in Seq(Inputs)
  <2>1. CASE hAnswered = <<>>
    BY <1>1, <2>1 DEF HTypesInv
  <2>2. CASE hAnswered # <<>>
    <3> DEFINE at == hAnswered[1].at
               Y == [call : Pairs, at : Nat]
    <3>1. hAnswered \in Seq(Y)
      BY DEF HTypesInv
    <3> HIDE DEF Y
    <3>2. hAnswered[1] \in Y
      BY <2>2, <3>1
    <3>3. at \in Nat
      BY <3>2 DEF Y
    <3>4. hLedger' = H!ToLedger(hLedger, m, at) /\ hLedger \in Seq(Inputs)
      BY <1>1, <2>2 DEF HTypesInv
    <3> HIDE DEF at
    <3> QED
      BY <1>3, <3>3, <3>4, ToLedgerTyped
  <2> QED
    BY <2>1, <2>2
<1>8. hAnswered' \in Seq([call : Pairs, at : Nat]) /\ Len(hAnswered') <= 1
  BY <1>1
<1> QED
  BY <1>1, <1>2, <1>4, <1>5, <1>6, <1>7, <1>8 DEF HTypesInv, HasHead

LEMMA CompactTypes == ASSUME HTypesInv, H!Compact PROVE HTypesInv'
<1> DEFINE from == IF hSummarized THEN 1 ELSE 0
           cut == H!CutAt(hHistory, from)
           left == Len(hHistory) - cut
           e == H!Entry("compaction", H!Of(left))
<1>1. /\ cut > from /\ hHistory' = H!Compacted(hHistory, hLedger, cut) /\ hSummarized' = TRUE /\ Adds(hEntries, e, hEntries')
      /\ UNCHANGED <<hLedger, hOrder, hQueue, hTodo, hAnswered, hRuns, hReplies, hAmends>>
  BY DEF H!Compact, H!Write, H!Summarized, H!Kept, Adds
<1>2. hHistory \in Seq(Messages) /\ Len(hHistory) \in Nat /\ hLedger \in Seq(Inputs)
  BY DEF HTypesInv
<1>3. cut \in 1 .. Len(hHistory)
  <2>1. from \in Nat
    OBVIOUS
  <2> HIDE DEF from
  <2> QED
    BY <1>1, <1>2, <2>1, CutIs
<1> HIDE DEF cut
<1>4. left \in Nat
  BY <1>2, <1>3
<1> HIDE DEF left
<1>5. e \in FileEntries /\ e.type = "compaction"
  BY <1>4, OfIs, EntryIs DEF EntryTypes
<1> HIDE DEF e
<1>6. hEntries' \in Seq(FileEntries) /\ Came(hEntries') /\ Queued(hEntries', hQueue)
  BY <1>1, <1>5, FileAdds DEF HTypesInv
<1>7. hHistory' \in Seq(Messages) /\ HasHead(hHistory')
  <2>1. cut \in 0 .. Len(hHistory)
    BY <1>3
  <2> DEFINE g == H!Compacted(hHistory, hLedger, cut)
  <2>2. g \in Seq(Messages) /\ HasHead(g)
    BY <1>2, <2>1, CompactedTyped
  <2> HIDE DEF g
  <2>3. hHistory' = g
    BY <1>1 DEF g
  <2> QED
    BY <2>2, <2>3
<1>8. hSummarized' = HasHead(hHistory')
  BY <1>1, <1>7 DEF HasHead
<1> QED
  BY <1>1, <1>6, <1>7, <1>8 DEF HTypesInv, HasHead

LEMMA EndTypes == ASSUME HTypesInv, H!End PROVE HTypesInv'
<1> DEFINE e == H!Entry("run_end", H!Of(hRuns))
<1>1. Adds(hEntries, e, hEntries') /\ UNCHANGED <<hHistory, hLedger, hOrder, hQueue, hTodo, hAnswered, hSummarized, hRuns, hReplies, hAmends>>
  BY DEF H!End, H!Write, H!counts, Adds
<1>2. e \in FileEntries /\ e.type = "run_end"
  <2>1. hRuns \in Nat
    BY DEF HTypesInv
  <2> QED
    BY <2>1, OfIs, EntryIs DEF EntryTypes
<1> HIDE DEF e
<1>3. hEntries' \in Seq(FileEntries) /\ Came(hEntries') /\ Queued(hEntries', hQueue)
  BY <1>1, <1>2, FileAdds DEF HTypesInv
<1> QED
  BY <1>1, <1>3 DEF HTypesInv, HasHead

\* What opening the file gives is a conversation, whatever was lost.
LEMMA ReopenTypes == ASSUME HTypesInv, H!Reopen PROVE HTypesInv'
<1> DEFINE t == hTodo
           kind(i) == IF i <= H!Saved THEN "tool_result" ELSE "reconciliation"
           mends == [i \in 1 .. Len(t) |-> H!Entry(kind(i), t[i])]
           e == H!Entry("run_end", H!Of(hRuns))
           ends == IF hOpen THEN <<e>> ELSE <<>>
           ms == mends \o ends
           fs == hEntries'
           s == H!Rebuilt(fs)
           read == s.ledger
<1>1. /\ fs = hEntries \o ms /\ hHistory' = s.history /\ hSummarized' = s.summarized
      /\ hLedger' = [i \in 1 .. Len(read) |-> [message |-> read[i].message, at |-> i - 1]]
      /\ hOrder' = Len(hLedger') /\ hTodo' = <<>> /\ hQueue' = <<>> /\ hAnswered' = <<>>
      /\ UNCHANGED <<hRuns, hReplies, hAmends>>
  BY DEF H!Reopen, H!Write, H!Recovery
<1>2. hEntries \in Seq(FileEntries) /\ Came(hEntries) /\ Queued(hEntries, hQueue) /\ t \in Seq(Pairs) /\ Len(t) \in Nat
  BY DEF HTypesInv
<1>3. mends \in Seq(FileEntries) /\ \A i \in 1 .. Len(mends) : mends[i].type # "delivered"
  <2>1. ASSUME NEW i \in 1 .. Len(t) PROVE H!Entry(kind(i), t[i]) \in FileEntries /\ H!Entry(kind(i), t[i]).type # "delivered"
    <3> DEFINE k == kind(i)
               c == t[i]
    <3>1. k \in {"tool_result", "reconciliation"} /\ c \in Pairs
      BY <1>2
    <3> HIDE DEF k, c
    <3>2. H!Entry(k, c) \in FileEntries /\ H!Entry(k, c).type = k
      BY <3>1, EntryIs DEF EntryTypes
    <3>3. H!Entry(k, c) \in FileEntries /\ H!Entry(k, c).type # "delivered"
      BY <3>1, <3>2
    <3> QED
      BY <3>3 DEF k, c
  <2> HIDE DEF kind, t
  <2> QED
    BY <1>2, <2>1
<1>4. ends \in Seq(FileEntries) /\ \A i \in 1 .. Len(ends) : ends[i].type # "delivered"
  <2>1. hRuns \in Nat
    BY DEF HTypesInv
  <2>2. e \in FileEntries /\ e.type = "run_end"
    BY <2>1, OfIs, EntryIs DEF EntryTypes
  <2> HIDE DEF e
  <2> QED
    BY <2>2
<1> HIDE DEF mends, ends
<1>5. ms \in Seq(FileEntries) /\ \A i \in 1 .. Len(ms) : ms[i].type # "delivered"
  <2>1. /\ ms \in Seq(FileEntries) /\ Extends(ms, mends) /\ Len(ms) = Len(mends) + Len(ends) /\ Len(mends) \in Nat /\ Len(ends) \in Nat
        /\ \A i \in Len(mends) + 1 .. Len(mends) + Len(ends) : \E j \in 1 .. Len(ends) : ms[i] = ends[j]
    BY <1>3, <1>4, Appended
  <2> HIDE DEF ms
  <2>2. ASSUME NEW i \in 1 .. Len(ms) PROVE ms[i].type # "delivered"
    <3>1. CASE i \in 1 .. Len(mends)
      BY <1>3, <2>1, <3>1 DEF Extends
    <3>2. CASE i \in Len(mends) + 1 .. Len(mends) + Len(ends)
      BY <1>4, <2>1, <3>2
    <3> QED
      BY <2>1, <3>1, <3>2
  <2> QED
    BY <2>1, <2>2
<1> HIDE DEF ms, fs, t
<1>6. fs \in Seq(FileEntries) /\ Came(fs)
  BY <1>1, <1>2, <1>5, FileGrows
<1>7. WellRead(s)
  BY <1>6, FileReads
<1> HIDE DEF s
<1>8. s.history \in Seq(Messages) /\ read \in Seq(Inputs) /\ s.summarized = HasHead(s.history)
  BY <1>7 DEF WellRead, HasHead
<1> HIDE DEF read
<1>9. hLedger' \in Seq(Inputs) /\ hOrder' \in Nat
  <2>1. Len(read) \in Nat /\ \A i \in 1 .. Len(read) : [message |-> read[i].message, at |-> i - 1] \in Inputs
    <3>1. Len(read) \in Nat /\ \A i \in 1 .. Len(read) : read[i].message \in Plain
      BY <1>8, InputTypes
    <3> QED
      BY <3>1 DEF Inputs
  <2>2. hLedger' \in Seq(Inputs)
    BY <1>1, <2>1
  <2> QED
    BY <1>1, <2>2
<1>10. hSummarized' = HasHead(hHistory')
  BY <1>1, <1>8
<1>11. Queued(hEntries', hQueue') /\ Len(hAnswered') <= 1
  <2>1. Len(<<>>) = 0 /\ 1 .. 0 = {}
    OBVIOUS
  <2> QED
    BY <1>1, <2>1 DEF Queued
<1>12. hQueue' \in Seq([id : Pairs, at : Nat]) /\ hAnswered' \in Seq([call : Pairs, at : Nat]) /\ hTodo' \in Seq(Pairs)
  BY <1>1
<1>13. hRuns' \in 0 .. MaxRun /\ hReplies' \in 0 .. MaxReply /\ hAmends' \in 0 .. MaxAmend
  BY <1>1 DEF HTypesInv
<1> QED
  BY <1>1, <1>6, <1>8, <1>9, <1>10, <1>11, <1>12, <1>13 DEF HTypesInv, HasHead, fs

LEMMA HTypesStep == ASSUME HTypesInv, [Next]_vars PROVE HTypesInv'
<1>1. CASE UNCHANGED HVars
  <2>1. UNCHANGED <<hHistory, hLedger, hEntries, hOrder, hQueue, hTodo, hAnswered, hSummarized, hOpen, hRuns, hReplies, hAmends>>
    BY <1>1 DEF HVars
  <2> QED
    BY <2>1 DEF HTypesInv
<1>2. CASE H!Next
  BY <1>2, StartTypes, AmendTypes, DeliverTypes, ReplyTypes, SaveTypes, ResultTypes, CompactTypes, EndTypes, ReopenTypes DEF H!Next
<1> QED
  BY <1>1, <1>2, ConversationMoves

LEMMA HTypes == ASSUME HTypesInv PROVE H!TypeOK
<1>1. \A i \in 1 .. Len(hHistory) : hHistory[i].kind \in MessageKinds
  <2> SUFFICES ASSUME NEW i \in 1 .. Len(hHistory) PROVE hHistory[i].kind \in MessageKinds
    OBVIOUS
  <2>1. hHistory[i] \in Messages
    BY DEF HTypesInv
  <2> QED
    BY <2>1 DEF Messages
<1> QED
  BY <1>1 DEF HTypesInv, HasHead, MessageKinds, H!TypeOK

-----------------------------------------------------------------------------
(* The session's types.                                                    *)

\* Whatever crosses what, each part of a session keeps its types and what ties
\* them to its state: a run has its prompt and a compaction its call, a call that
\* ended gave something, a saved answer is one of a form that was shown, and a
\* conversation is marked as summarized exactly when it begins with a head.
THEOREM SessionIsTyped == Spec => []TypeOK
<1> DEFINE Inv == CInv /\ CTypes /\ QInv /\ QTypes /\ QFlags /\ HTypesInv
<1>1. Init => Inv
  BY CallsInit, CallTypesInit, QuestionsInit, QuestionTypesInit, HTypesInit DEF Init
<1>2. Inv /\ [Next]_vars => Inv'
  <2> SUFFICES ASSUME Inv, [Next]_vars PROVE Inv'
    OBVIOUS
  <2>1. CInv' /\ CTypes'
    BY CallsStep, CallsMove, CallTypesStep
  <2>2. QInv' /\ QTypes' /\ QFlags'
    BY QuestionsStep, QuestionsMove, QuestionTypesStep, QuestionFlagsStep
  <2>3. HTypesInv'
    BY HTypesStep
  <2> QED
    BY <2>1, <2>2, <2>3
<1>3. Inv => C!TypeOK /\ Q!TypeOK /\ H!TypeOK
  BY CallTypes, QuestionTypes, HTypes
<1>4. AInv => A!TypeOK
  BY DEF AInv
<1> QED
  BY <1>1, <1>2, <1>3, <1>4, AdmissionAlways, PTL DEF Spec, TypeOK
=============================================================================
