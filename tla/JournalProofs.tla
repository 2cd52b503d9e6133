---------------------------- MODULE JournalProofs -----------------------------
(***************************************************************************)
(* Proofs about Journal, for any calls of the two sessions and any number  *)
(* of runs and crashes: what is durable only grows, nothing follows a torn *)
(* line, a call that ran is never told as one that did not, and what       *)
(* recovery leaves reads back, complete.                                   *)
(***************************************************************************)
EXTENDS Journal, FiniteSetTheorems, SequenceTheorems, TLAPS

Types == {"request", "reply", "intent", "answer", "result", "repair", "receipt", "settled", "runEnd",
          "jobStart", "jobEnd", "jobUnknown"}
Words == {"none", "notRun", "noEffect", "outcomeUnknown", "verified", "not", "completed",
          "incomplete", "interrupted"}
Of == Words \cup {0, Kid} \cup Calls \cup (SUBSET Calls) \cup (Calls \X Words)
Entries == [type : Types, run : Nat, of : Of]

TypeInv ==
  /\ file \in [Files -> Seq(Entries)]
  /\ tail \in [Files -> {"whole", "torn", "unterminated"}]
  /\ synced \in [Files -> Nat]
  /\ \A f \in Files : synced[f] <= Len(file[f])
  /\ stage \in [Files -> Stage] /\ next \in [Files -> Stage]
  /\ call \in [Files -> Calls \cup {0}]
  /\ poisoned \in [Files -> BOOLEAN]
  /\ todo \in [Files -> Seq(Entries)]
  /\ by \in [Files -> {"operator", "job", "recovery"}]
  /\ orphans \in [Files -> SUBSET {Kid}]
  /\ crashes \in 0 .. MaxCrash

\* What a last line cut short leaves open: the file is closed, or takes no more.
TearInv ==
  \A f \in Files : tail[f] # "whole" =>
    stage[f] = "closed" \/ (poisoned[f] /\ stage[f] \notin {"missing", "opening", "children"})

Has(s, type) == \E i \in DOMAIN s : s[i].type = type

\* A repair says nothing false of a call: not that it did not run where its
\* intent is, nor that it only read where it may have changed files.
RepairOK(f, s, e) ==
  \E c \in CallsOf[f], o \in Words :
    /\ e.of = <<c, o>>
    /\ o = "notRun" => ~About(s, "intent", c)
    /\ o = "noEffect" => ~MayChangeFiles(c)

\* A file begins with a request, calls are made in the first run, and its
\* repairs say nothing false.
EntryOK(f, s, i) ==
  /\ s[i].run \in 1 .. MaxRun
  /\ s[i].type # "request" => \E j \in 1 .. i - 1 : s[j].type = "request"
  /\ s[i].type = "reply" => s[i].of \subseteq CallsOf[f] /\ (s[i].of # {} => s[i].run = 1)
  /\ s[i].type = "repair" => RepairOK(f, s, s[i])
FileOK(f, s) == RunsOf(s) <= MaxRun /\ \A i \in 1 .. Len(s) : EntryOK(f, s, i)
FilesInv == \A f \in Files : FileOK(f, file[f])

\* What recovery is still to append, which is while it opens the file.
ToAdd(f, s, e) ==
  /\ e.type \in {"result", "repair", "jobUnknown", "receipt", "runEnd"}
  /\ e.run \in 1 .. RunsOf(s) /\ Has(s, "request")
  /\ e.type = "repair" => RepairOK(f, s, e)
  /\ e.type = "jobUnknown" => e.of = Kid
  /\ e.type = "runEnd" => e.of = "interrupted"
TodoInv ==
  \A f \in Files : /\ stage[f] # "opening" => todo[f] = << >>
                   /\ \A i \in 1 .. Len(todo[f]) : ToAdd(f, file[f], todo[f][i])

\* A run at work has its request in the file, and no repair is of its calls.
Active == {"asked", "replied", "calling", "answered", "settling", "settled"}
Working(f) == stage[f] \in Active \/ (stage[f] = "syncing" /\ next[f] \in Active)
WorkInv ==
  \A f \in Files : Working(f) =>
    Has(file[f], "request") /\ (Has(file[f], "repair") => RunsOf(file[f]) # 1)

\* The call that runs, or will once the file is synced, has its intent there.
Calling(f) == stage[f] = "calling" \/ (stage[f] = "syncing" /\ next[f] = "calling")
Answering(f) == stage[f] = "answered" \/ (stage[f] = "syncing" /\ next[f] = "answered")
CallInv ==
  \A f \in Files : /\ Calling(f) => call[f] \in CallsOf[f] /\ About(file[f], "intent", call[f])
                   /\ Answering(f) => call[f] \in CallsOf[f]

\* A call that ran has its intent in what is durable.
RanInv ==
  \A c \in ran : \E f \in Files :
    c \in CallsOf[f] /\ \E i \in 1 .. synced[f] : file[f][i].type = "intent" /\ file[f][i].of = c

CallsInv == \A f \in Files : call[f] \in CallsOf[f] \cup {0}
SavedInv == saved \subseteq Calls

Inv == TypeInv /\ TearInv /\ FilesInv /\ TodoInv /\ WorkInv /\ CallInv /\ RanInv /\ CallsInv /\ SavedInv

-----------------------------------------------------------------------------
(* Sequences of entries. *)

LEMMA AnEntry ==
  ASSUME NEW type \in Types, NEW run \in Nat, NEW of \in Of
  PROVE  /\ Entry(type, run, of) \in Entries
         /\ Entry(type, run, of).type = type /\ Entry(type, run, of).run = run /\ Entry(type, run, of).of = of
BY DEF Entry, Entries

LEMMA Domains ==
  ASSUME NEW s \in Seq(Entries)
  PROVE  Len(s) \in Nat /\ DOMAIN s = 1 .. Len(s) /\ \A i \in 1 .. Len(s) : s[i] \in Entries
OBVIOUS

LEMMA Appended ==
  ASSUME NEW s \in Seq(Entries), NEW e \in Entries
  PROVE  /\ Append(s, e) \in Seq(Entries)
         /\ Len(Append(s, e)) = Len(s) + 1
         /\ DOMAIN Append(s, e) = 1 .. Len(s) + 1
         /\ \A i \in 1 .. Len(s) : Append(s, e)[i] = s[i]
         /\ Append(s, e)[Len(s) + 1] = e
OBVIOUS

LEMMA Prefix ==
  ASSUME NEW s \in Seq(Entries), NEW n \in 0 .. Len(s)
  PROVE  /\ SubSeq(s, 1, n) \in Seq(Entries)
         /\ Len(SubSeq(s, 1, n)) = n
         /\ DOMAIN SubSeq(s, 1, n) = 1 .. n
         /\ \A i \in 1 .. n : SubSeq(s, 1, n)[i] = s[i]
<1>1. n \in Nat /\ n <= Len(s) /\ Len(s) \in Nat
  OBVIOUS
<1>2. \A i \in 1 .. n : s[i] \in Entries
  BY <1>1, Domains
<1>3. /\ SubSeq(s, 1, n) \in Seq(Entries)
      /\ Len(SubSeq(s, 1, n)) = IF 1 <= n THEN n - 1 + 1 ELSE 0
      /\ \A i \in 1 .. n - 1 + 1 : SubSeq(s, 1, n)[i] = s[1 + i - 1]
  BY <1>1, <1>2, SubSeqProperties
<1> QED
  BY <1>1, <1>3, Domains

\* The runs of a file are counted by its requests.
LEMMA RunsAreCounted ==
  ASSUME NEW s \in Seq(Entries)
  PROVE  RunsOf(s) \in Nat /\ (Has(s, "request") => RunsOf(s) >= 1)
<1> DEFINE R == {i \in DOMAIN s : s[i].type = "request"}
<1>1. IsFiniteSet(DOMAIN s)
  BY Domains, FS_Interval
<1>2. IsFiniteSet(R)
  BY <1>1, FS_Subset
<1>3. Cardinality(R) \in Nat
  BY <1>2, FS_CardinalityType
<1>4. Has(s, "request") => R # {}
  BY DEF Has
<1>5. R # {} => Cardinality(R) # 0
  BY <1>2, FS_EmptySet
<1> QED
  BY <1>3, <1>4, <1>5 DEF RunsOf

LEMMA RunsAfterAppend ==
  ASSUME NEW s \in Seq(Entries), NEW e \in Entries
  PROVE  RunsOf(Append(s, e)) = IF e.type = "request" THEN RunsOf(s) + 1 ELSE RunsOf(s)
<1> DEFINE t == Append(s, e)
           R == {i \in DOMAIN s : s[i].type = "request"}
           S == {i \in DOMAIN t : t[i].type = "request"}
<1>1. IsFiniteSet(R)
  BY Domains, FS_Interval, FS_Subset
<1>2. Len(s) \in Nat /\ Len(s) + 1 \notin R
  BY Domains
<1>3. S = IF e.type = "request" THEN R \cup {Len(s) + 1} ELSE R
  <2>1. DOMAIN s = 1 .. Len(s) /\ DOMAIN t = 1 .. Len(s) + 1
    BY Domains, Appended
  <2>2. (\A i \in 1 .. Len(s) : t[i] = s[i]) /\ t[Len(s) + 1] = e
    BY Appended
  <2> HIDE DEF t
  <2> QED
    BY <1>2, <2>1, <2>2
<1>4. Cardinality(R \cup {Len(s) + 1}) = Cardinality(R) + 1
  BY <1>1, <1>2, FS_AddElement
<1> QED
  BY <1>3, <1>4 DEF RunsOf

LEMMA RunsOfAPrefix ==
  ASSUME NEW s \in Seq(Entries), NEW n \in 0 .. Len(s)
  PROVE  RunsOf(SubSeq(s, 1, n)) <= RunsOf(s)
<1> DEFINE t == SubSeq(s, 1, n)
           R == {i \in DOMAIN s : s[i].type = "request"}
           S == {i \in DOMAIN t : t[i].type = "request"}
<1>1. IsFiniteSet(R)
  BY Domains, FS_Interval, FS_Subset
<1>2. S \subseteq R
  <2>1. DOMAIN s = 1 .. Len(s) /\ DOMAIN t = 1 .. n /\ \A i \in 1 .. n : t[i] = s[i]
    BY Domains, Prefix
  <2>2. n \in Nat /\ Len(s) \in Nat /\ n <= Len(s)
    BY Domains
  <2> HIDE DEF t
  <2> QED
    BY <2>1, <2>2
<1> QED
  BY <1>1, <1>2, FS_Subset DEF RunsOf

\* A sequence that has each element of a set once, and nothing else.
Lists(q, S) ==
  /\ q \in Seq(S)
  /\ \A e \in S : \E i \in 1 .. Len(q) : q[i] = e
  /\ \A i, j \in 1 .. Len(q) : q[i] = q[j] => i = j

LEMMA ASetIsListed ==
  ASSUME NEW S, IsFiniteSet(S)
  PROVE  Lists(SetToSeq(S), S)
<1> DEFINE n == Cardinality(S)
           q == SetToSeq(S)
<1>1. n \in Nat /\ ExistsBijection(1 .. n, S)
  BY FS_CardinalityType
<1>2. \E f \in [1 .. n -> S] : IsInjective(f)
  BY <1>1 DEF ExistsBijection, Bijection, Injection, IsInjective
<1>3. q \in [1 .. n -> S] /\ IsInjective(q)
  BY <1>2 DEF SetToSeq
<1>4. q \in Seq(S) /\ Len(q) = n
  BY <1>1, <1>3
<1>5. \A i, j \in 1 .. n : q[i] = q[j] => i = j
  BY <1>3 DEF IsInjective
<1>6. q \in Surjection(1 .. n, S)
  <2>1. q \in Injection(1 .. n, S)
    BY <1>3, <1>5 DEF Injection, IsInjective
  <2>2. Cardinality(1 .. n) = n
    <3>1. Cardinality(1 .. n) = IF 1 > n THEN 0 ELSE n - 1 + 1
      BY <1>1, FS_Interval
    <3> QED
      BY <1>1, <3>1
  <2> QED
    BY <2>1, <2>2, FS_Injection
<1>7. \A e \in S : \E i \in 1 .. n : q[i] = e
  BY <1>6 DEF Surjection
<1> QED
  BY <1>4, <1>5, <1>7 DEF Lists

LEMMA NothingIsListed == Lists(<< >>, {})
BY DEF Lists

LEMMA OneIsListed == ASSUME NEW e PROVE Lists(<<e>>, {e})
BY DEF Lists

LEMMA ListsJoin ==
  ASSUME NEW A, NEW B, NEW a, NEW b, Lists(a, A), Lists(b, B), A \cap B = {}
  PROVE  Lists(a \o b, A \cup B)
<1> DEFINE p == a \o b
<1>1. a \in Seq(A \cup B) /\ b \in Seq(A \cup B) /\ Len(a) \in Nat /\ Len(b) \in Nat
  BY SeqMonotonic DEF Lists
<1>2. p \in Seq(A \cup B) /\ Len(p) = Len(a) + Len(b)
  BY <1>1, ConcatProperties
<1>3. \A i \in 1 .. Len(a) + Len(b) : p[i] = IF i <= Len(a) THEN a[i] ELSE b[i - Len(a)]
  BY <1>1, ConcatProperties
<1> HIDE DEF p
<1>4. (\A i \in 1 .. Len(a) : a[i] \in A) /\ (\A i \in 1 .. Len(b) : b[i] \in B)
  BY DEF Lists
<1>5. ASSUME NEW e \in A PROVE \E i \in 1 .. Len(p) : p[i] = e
  <2>1. PICK i \in 1 .. Len(a) : a[i] = e
    BY DEF Lists
  <2>2. i \in 1 .. Len(p) /\ p[i] = e
    BY <1>1, <1>2, <1>3, <2>1
  <2> QED
    BY <2>2
<1>6. ASSUME NEW e \in B PROVE \E i \in 1 .. Len(p) : p[i] = e
  <2>1. PICK i \in 1 .. Len(b) : b[i] = e
    BY DEF Lists
  <2>2. Len(a) + i \in 1 .. Len(a) + Len(b) /\ ~ (Len(a) + i <= Len(a)) /\ Len(a) + i - Len(a) = i
    BY <1>1
  <2>3. Len(a) + i \in 1 .. Len(p) /\ p[Len(a) + i] = e
    BY <1>2, <1>3, <2>1, <2>2
  <2> QED
    BY <2>3
<1>7. ASSUME NEW i \in 1 .. Len(p), NEW j \in 1 .. Len(p), p[i] = p[j] PROVE i = j
  <2>1. CASE i <= Len(a) /\ j <= Len(a)
    <3>1. i \in 1 .. Len(a) /\ j \in 1 .. Len(a) /\ a[i] = a[j]
      BY <1>1, <1>2, <1>3, <1>7, <2>1
    <3> QED
      BY <3>1 DEF Lists
  <2>2. CASE i > Len(a) /\ j > Len(a)
    <3>1. i - Len(a) \in 1 .. Len(b) /\ j - Len(a) \in 1 .. Len(b) /\ b[i - Len(a)] = b[j - Len(a)]
      BY <1>1, <1>2, <1>3, <1>7, <2>2
    <3>2. i - Len(a) = j - Len(a)
      BY <3>1 DEF Lists
    <3> QED
      BY <1>1, <1>2, <3>2
  <2>3. CASE i <= Len(a) /\ j > Len(a)
    <3>1. /\ i \in 1 .. Len(a) /\ p[i] = a[i]
          /\ j - Len(a) \in 1 .. Len(b) /\ p[j] = b[j - Len(a)]
      BY <1>1, <1>2, <1>3, <2>3
    <3>2. p[i] \in A /\ p[j] \in B
      BY <1>4, <3>1
    <3> QED
      BY <1>7, <3>2
  <2>4. CASE i > Len(a) /\ j <= Len(a)
    <3>1. /\ j \in 1 .. Len(a) /\ p[j] = a[j]
          /\ i - Len(a) \in 1 .. Len(b) /\ p[i] = b[i - Len(a)]
      BY <1>1, <1>2, <1>3, <2>4
    <3>2. p[j] \in A /\ p[i] \in B
      BY <1>4, <3>1
    <3> QED
      BY <1>7, <3>2
  <2> QED
    BY <1>1, <1>2, <2>1, <2>2, <2>3, <2>4
<1> QED
  BY <1>2, <1>5, <1>6, <1>7 DEF Lists, p

LEMMA AfterAppend ==
  ASSUME NEW s \in Seq(Entries), NEW e \in Entries
  PROVE  /\ \A type, of : About(Append(s, e), type, of) <=> About(s, type, of) \/ (e.type = type /\ e.of = of)
         /\ \A type : Has(Append(s, e), type) <=> Has(s, type) \/ e.type = type
<1> DEFINE t == Append(s, e)
<1>1. DOMAIN s = 1 .. Len(s) /\ DOMAIN t = 1 .. Len(s) + 1 /\ Len(s) \in Nat
  BY Domains, Appended
<1>2. (\A i \in 1 .. Len(s) : t[i] = s[i]) /\ t[Len(s) + 1] = e
  BY Appended
<1>3. \A i \in 1 .. Len(s) + 1 : i \in 1 .. Len(s) \/ i = Len(s) + 1
  BY <1>1
<1>4. 1 .. Len(s) \subseteq 1 .. Len(s) + 1 /\ Len(s) + 1 \in 1 .. Len(s) + 1
  BY <1>1
<1> HIDE DEF t
<1>5. \A type, of : About(t, type, of) <=> About(s, type, of) \/ (e.type = type /\ e.of = of)
  BY <1>1, <1>2, <1>3, <1>4 DEF About
<1>6. \A type : Has(t, type) <=> Has(s, type) \/ e.type = type
  BY <1>1, <1>2, <1>3, <1>4 DEF Has
<1> QED
  BY <1>5, <1>6 DEF t

\* What a prefix says of a call the whole says too.
LEMMA OfAPrefix ==
  ASSUME NEW s \in Seq(Entries), NEW n \in 0 .. Len(s)
  PROVE  \A type, of : About(SubSeq(s, 1, n), type, of) => About(s, type, of)
<1>1. n \in Nat /\ Len(s) \in Nat /\ n <= Len(s)
  BY Domains
<1>2. 1 .. n \subseteq 1 .. Len(s)
  BY <1>1
<1> QED
  BY <1>2, Domains, Prefix DEF About

-----------------------------------------------------------------------------
(* A file that is in order stays so: with an entry more, cut short, recovered. *)

\* An entry that may follow: of a run there is, and not an intent after a repair.
MayFollow(f, s, e) ==
  /\ e.run \in 1 .. MaxRun
  /\ e.type = "request" => RunsOf(s) + 1 <= MaxRun
  /\ e.type # "request" => Has(s, "request")
  /\ e.type = "reply" => e.of \subseteq CallsOf[f] /\ (e.of # {} => e.run = 1)
  /\ e.type = "repair" => RepairOK(f, s, e)
  /\ e.type = "intent" => ~Has(s, "repair")

LEMMA FileGrows ==
  ASSUME NEW f \in Files, NEW s \in Seq(Entries), FileOK(f, s),
         NEW e \in Entries, MayFollow(f, s, e)
  PROVE  FileOK(f, Append(s, e))
<1> DEFINE t == Append(s, e)
<1>1. Len(s) \in Nat /\ Len(t) = Len(s) + 1 /\ DOMAIN s = 1 .. Len(s)
  BY Domains, Appended
<1>2. (\A i \in 1 .. Len(s) : t[i] = s[i]) /\ t[Len(s) + 1] = e
  BY Appended
<1>3. RunsOf(t) <= MaxRun
  BY RunsAfterAppend DEF FileOK, MayFollow
<1>4. ASSUME NEW x, RepairOK(f, s, x), e.type = "intent" => ~Has(s, "repair"), Has(s, "repair") \/ e.type # "intent"
      PROVE  RepairOK(f, t, x)
  BY <1>4, AfterAppend DEF RepairOK
<1> HIDE DEF t
<1>5. ASSUME NEW i \in 1 .. Len(s) PROVE EntryOK(f, t, i)
  <2>1. EntryOK(f, s, i) /\ t[i] = s[i] /\ i \in Nat
    BY <1>1, <1>2 DEF FileOK
  <2>2. \A j \in 1 .. i - 1 : t[j] = s[j]
    BY <1>1, <1>2
  <2>3. s[i].type = "repair" => RepairOK(f, t, s[i])
    BY <1>1, <1>4, <2>1 DEF EntryOK, Has, MayFollow
  <2> QED
    BY <2>1, <2>2, <2>3 DEF EntryOK
<1>6. EntryOK(f, t, Len(s) + 1)
  <2>1. e.type # "request" => \E j \in 1 .. Len(s) : t[j].type = "request"
    BY <1>1, <1>2 DEF MayFollow, Has
  <2>2. e.type = "repair" => RepairOK(f, t, e)
    BY <1>4 DEF MayFollow
  <2>3. Len(s) + 1 - 1 = Len(s)
    BY <1>1
  <2> QED
    BY <1>2, <2>1, <2>2, <2>3 DEF EntryOK, MayFollow
<1>7. \A i \in 1 .. Len(t) : i \in 1 .. Len(s) \/ i = Len(s) + 1
  BY <1>1
<1> QED
  BY <1>3, <1>5, <1>6, <1>7 DEF FileOK, t

LEMMA FileIsCut ==
  ASSUME NEW f \in Files, MaxRun \in Nat, NEW s \in Seq(Entries), FileOK(f, s), NEW n \in 0 .. Len(s)
  PROVE  FileOK(f, SubSeq(s, 1, n))
<1> DEFINE t == SubSeq(s, 1, n)
<1>1. t \in Seq(Entries) /\ Len(t) = n /\ (\A i \in 1 .. n : t[i] = s[i])
  BY Prefix
<1>2. n \in Nat /\ Len(s) \in Nat /\ n <= Len(s)
  BY Domains
<1>3. RunsOf(t) <= MaxRun
  <2>1. RunsOf(s) \in Nat /\ RunsOf(t) \in Nat /\ RunsOf(t) <= RunsOf(s)
    BY <1>1, RunsAreCounted, RunsOfAPrefix
  <2> QED
    BY <2>1 DEF FileOK
<1>4. ASSUME NEW x, RepairOK(f, s, x) PROVE RepairOK(f, t, x)
  BY <1>4, OfAPrefix DEF RepairOK
<1> HIDE DEF t
<1>5. ASSUME NEW i \in 1 .. n PROVE EntryOK(f, t, i)
  <2>1. EntryOK(f, s, i) /\ t[i] = s[i] /\ i \in Nat
    BY <1>1, <1>2 DEF FileOK
  <2>2. \A j \in 1 .. i - 1 : t[j] = s[j]
    BY <1>1, <1>2
  <2> QED
    BY <1>4, <2>1, <2>2 DEF EntryOK
<1> QED
  BY <1>1, <1>3, <1>5 DEF FileOK, t

\* What recovery() adds, as a set.
Results(s) == {Entry("result", 1, c) : c \in Answered(s)}
RepairsOf(s) == {Entry("repair", 1, <<c, RepairOf(s, c)>>) : c \in Repaired(s)}
JobsLost(s) == {Entry("jobUnknown", 1, j) : j \in JobsGoing(s)}
ReceiptLost(s) ==
  IF Interrupted(s) /\ LacksReceipt(s, RunsOf(s)) THEN {Entry("receipt", RunsOf(s), "none")} ELSE {}
EndLost(s) == IF Interrupted(s) THEN {Entry("runEnd", RunsOf(s), "interrupted")} ELSE {}
Recovered(s) == Results(s) \cup RepairsOf(s) \cup JobsLost(s) \cup ReceiptLost(s) \cup EndLost(s)

LEMMA RecoveryIsListed ==
  ASSUME NEW s, IsFiniteSet(AskedIn(s))
  PROVE  Lists(Recovery(s), Recovered(s))
<1> DEFINE r == RunsOf(s)
           S1 == EachOf(Answered(s), LAMBDA c : Entry("result", 1, c))
           S2 == EachOf(Repaired(s), LAMBDA c : Entry("repair", 1, <<c, RepairOf(s, c)>>))
           S3 == EachOf(JobsGoing(s), LAMBDA j : Entry("jobUnknown", 1, j))
           S4 == IF Interrupted(s) /\ LacksReceipt(s, r) THEN <<Entry("receipt", r, "none")>> ELSE << >>
           S5 == IF Interrupted(s) THEN <<Entry("runEnd", r, "interrupted")>> ELSE << >>
<1>1. IsFiniteSet(Answered(s)) /\ IsFiniteSet(Repaired(s)) /\ IsFiniteSet(JobsGoing(s))
  <2>1. Answered(s) \subseteq AskedIn(s) /\ Repaired(s) \subseteq AskedIn(s) /\ JobsGoing(s) \subseteq {Kid}
    BY DEF Answered, Repaired, JobsGoing
  <2> QED
    BY <2>1, FS_Subset, FS_Singleton
<1>2. Lists(S1, Results(s))
  <2> DEFINE q == SetToSeq(Answered(s))
             t == [i \in 1 .. Len(q) |-> Entry("result", 1, q[i])]
  <2>1. Lists(q, Answered(s)) /\ Len(q) \in Nat
    BY <1>1, ASetIsListed DEF Lists
  <2> HIDE DEF q
  <2>2. t \in Seq(Results(s)) /\ Len(t) = Len(q)
    BY <2>1 DEF Lists, Results
  <2>3. \A i, j \in 1 .. Len(q) : t[i] = t[j] => q[i] = q[j]
    BY DEF Entry
  <2>4. \A e \in Results(s) : \E i \in 1 .. Len(q) : t[i] = e
    BY <2>1 DEF Lists, Results
  <2>5. Lists(t, Results(s))
    BY <2>1, <2>2, <2>3, <2>4 DEF Lists
  <2> QED
    BY <2>5 DEF EachOf, q
<1>3. Lists(S2, RepairsOf(s))
  <2> DEFINE q == SetToSeq(Repaired(s))
             t == [i \in 1 .. Len(q) |-> Entry("repair", 1, <<q[i], RepairOf(s, q[i])>>)]
  <2>1. Lists(q, Repaired(s)) /\ Len(q) \in Nat
    BY <1>1, ASetIsListed DEF Lists
  <2> HIDE DEF q
  <2> DEFINE R(c) == Entry("repair", 1, <<c, RepairOf(s, c)>>)
  <2>6. \A i \in 1 .. Len(q) : q[i] \in Repaired(s)
    BY <2>1 DEF Lists
  <2>7. \A c \in Repaired(s) : R(c) \in RepairsOf(s)
    BY DEF RepairsOf
  <2>8. \A c, d : R(c) = R(d) => c = d
    <3>1. ASSUME NEW c, NEW d, R(c) = R(d) PROVE c = d
      <4>1. R(c).of = <<c, RepairOf(s, c)>> /\ R(d).of = <<d, RepairOf(s, d)>>
        BY DEF Entry
      <4>2. <<c, RepairOf(s, c)>> = <<d, RepairOf(s, d)>>
        BY <3>1, <4>1
      <4> QED
        BY <4>2
    <3> QED
      BY <3>1
  <2>9. RepairsOf(s) = {R(c) : c \in Repaired(s)}
    BY DEF RepairsOf
  <2>10. t = [i \in 1 .. Len(q) |-> R(q[i])]
    OBVIOUS
  <2> HIDE DEF R, t
  <2>2. t \in Seq(RepairsOf(s)) /\ Len(t) = Len(q)
    BY <2>1, <2>6, <2>7, <2>10
  <2>3. \A i, j \in 1 .. Len(q) : t[i] = t[j] => q[i] = q[j]
    BY <2>8, <2>10
  <2>4. \A e \in RepairsOf(s) : \E i \in 1 .. Len(q) : t[i] = e
    BY <2>1, <2>9, <2>10 DEF Lists
  <2>5. Lists(t, RepairsOf(s))
    BY <2>1, <2>2, <2>3, <2>4 DEF Lists
  <2> QED
    BY <2>5 DEF EachOf, q, R, t
<1>4. Lists(S3, JobsLost(s))
  <2> DEFINE q == SetToSeq(JobsGoing(s))
             t == [i \in 1 .. Len(q) |-> Entry("jobUnknown", 1, q[i])]
  <2>1. Lists(q, JobsGoing(s)) /\ Len(q) \in Nat
    BY <1>1, ASetIsListed DEF Lists
  <2> HIDE DEF q
  <2>2. t \in Seq(JobsLost(s)) /\ Len(t) = Len(q)
    BY <2>1 DEF Lists, JobsLost
  <2>3. \A i, j \in 1 .. Len(q) : t[i] = t[j] => q[i] = q[j]
    BY DEF Entry
  <2>4. \A e \in JobsLost(s) : \E i \in 1 .. Len(q) : t[i] = e
    BY <2>1 DEF Lists, JobsLost
  <2>5. Lists(t, JobsLost(s))
    BY <2>1, <2>2, <2>3, <2>4 DEF Lists
  <2> QED
    BY <2>5 DEF EachOf, q
<1>5. Lists(S4, ReceiptLost(s)) /\ Lists(S5, EndLost(s))
  BY NothingIsListed, OneIsListed DEF ReceiptLost, EndLost
<1>6. Recovery(s) = S1 \o S2 \o S3 \o S4 \o S5
  BY DEF Recovery
<1> HIDE DEF S1, S2, S3, S4, S5
<1>7. /\ \A e \in Results(s) : e.type = "result"
      /\ \A e \in RepairsOf(s) : e.type = "repair"
      /\ \A e \in JobsLost(s) : e.type = "jobUnknown"
      /\ \A e \in ReceiptLost(s) : e.type = "receipt"
      /\ \A e \in EndLost(s) : e.type = "runEnd"
  BY DEF Results, RepairsOf, JobsLost, ReceiptLost, EndLost, Entry
<1>8. Lists(S1 \o S2, Results(s) \cup RepairsOf(s))
  BY <1>2, <1>3, <1>7, ListsJoin
<1>9. Lists(S1 \o S2 \o S3, Results(s) \cup RepairsOf(s) \cup JobsLost(s))
  <2>1. (Results(s) \cup RepairsOf(s)) \cap JobsLost(s) = {}
    BY <1>7
  <2> QED
    BY <1>4, <1>8, <2>1, ListsJoin
<1>10. Lists(S1 \o S2 \o S3 \o S4, Results(s) \cup RepairsOf(s) \cup JobsLost(s) \cup ReceiptLost(s))
  <2>1. (Results(s) \cup RepairsOf(s) \cup JobsLost(s)) \cap ReceiptLost(s) = {}
    BY <1>7
  <2> QED
    BY <1>5, <1>9, <2>1, ListsJoin
<1>11. Lists(S1 \o S2 \o S3 \o S4 \o S5, Recovered(s))
  <2>1. (Results(s) \cup RepairsOf(s) \cup JobsLost(s) \cup ReceiptLost(s)) \cap EndLost(s) = {}
    BY <1>7
  <2>2. Recovered(s) = (Results(s) \cup RepairsOf(s) \cup JobsLost(s) \cup ReceiptLost(s)) \cup EndLost(s)
    BY DEF Recovered
  <2> QED
    BY <1>5, <1>10, <2>1, <2>2, ListsJoin
<1> QED
  BY <1>6, <1>11

\* What is asked of a file in order is of its own calls, and finitely much.
LEMMA AskedInAFile ==
  ASSUME NEW f \in Files, NEW s \in Seq(Entries), FileOK(f, s)
  PROVE  /\ AskedIn(s) \subseteq CallsOf[f] /\ CallsOf[f] \subseteq Calls
         /\ IsFiniteSet(AskedIn(s))
         /\ (AskedIn(s) # {} => Has(s, "request")) /\ (JobsGoing(s) # {} => Has(s, "request"))
<1>1. IsFiniteSet(CallsOf[f]) /\ CallsOf[f] \subseteq Calls
  <2>1. CallsOf[f] \subseteq Calls
    BY DEF Calls, Files
  <2> QED
    BY <2>1, JournalAssumption, FS_Subset
<1>2. DOMAIN s = 1 .. Len(s)
  BY Domains
<1>3. \A i \in 1 .. Len(s) : s[i].type = "reply" => s[i].of \subseteq CallsOf[f]
  BY DEF FileOK, EntryOK
<1>4. \A i \in 1 .. Len(s) : s[i].type # "request" => Has(s, "request")
  <2>1. ASSUME NEW i \in 1 .. Len(s), s[i].type # "request" PROVE Has(s, "request")
    <3>1. PICK j \in 1 .. i - 1 : s[j].type = "request"
      BY <2>1 DEF FileOK, EntryOK
    <3>2. j \in 1 .. Len(s)
      BY Domains
    <3> QED
      BY <3>1, <3>2, Domains DEF Has
  <2> QED
    BY <2>1
<1>5. AskedIn(s) \subseteq CallsOf[f]
  BY <1>2, <1>3 DEF AskedIn
<1>6. IsFiniteSet(AskedIn(s))
  BY <1>1, <1>5, FS_Subset
<1>7. AskedIn(s) # {} => Has(s, "request")
  BY <1>2, <1>4 DEF AskedIn
<1>8. JobsGoing(s) # {} => Has(s, "request")
  BY <1>2, <1>4 DEF JobsGoing, About
<1> QED
  BY <1>1, <1>5, <1>6, <1>7, <1>8

\* recovery() adds entries that may follow, and no repair that says something
\* false of a call.
LEMMA RecoveryAdds ==
  ASSUME NEW f \in Files, NEW s \in Seq(Entries), FileOK(f, s)
  PROVE  /\ Recovery(s) \in Seq(Entries)
         /\ \A i \in 1 .. Len(Recovery(s)) : ToAdd(f, s, Recovery(s)[i])
<1> DEFINE r == RunsOf(s)
<1>1. r \in Nat /\ (Has(s, "request") => r >= 1 /\ r \in 1 .. r /\ 1 \in 1 .. r)
  BY RunsAreCounted
<1>2. r > 0 => Has(s, "request")
  <2> DEFINE Q == {i \in DOMAIN s : s[i].type = "request"}
  <2>1. Q = {} => Cardinality(Q) = 0
    BY FS_EmptySet
  <2>2. Q = {} => r = 0
    BY <2>1 DEF RunsOf
  <2>3. Q # {} => Has(s, "request")
    BY DEF Has
  <2> QED
    BY <2>2, <2>3
<1>3. ASSUME NEW c \in Answered(s)
      PROVE  Entry("result", 1, c) \in Entries /\ ToAdd(f, s, Entry("result", 1, c))
  <2>1. c \in Of /\ "result" \in Types /\ Has(s, "request")
    BY AskedInAFile DEF Answered, Of, Types
  <2> QED
    BY <1>1, <2>1, AnEntry DEF ToAdd
<1>4. ASSUME NEW c \in Repaired(s)
      PROVE  LET e == Entry("repair", 1, <<c, RepairOf(s, c)>>) IN e \in Entries /\ ToAdd(f, s, e)
  <2> DEFINE o == RepairOf(s, c)
  <2>1. o \in Words
    BY DEF RepairOf, Repairs, Words
  <2>2. (o = "notRun" => ~About(s, "intent", c)) /\ (o = "noEffect" => ~MayChangeFiles(c))
    BY DEF RepairOf, Repairs
  <2>3. c \in CallsOf[f] /\ c \in Calls /\ Has(s, "request")
    BY AskedInAFile DEF Repaired
  <2> HIDE DEF o
  <2>4. <<c, o>> \in Of /\ "repair" \in Types
    <3>1. <<c, o>> \in Calls \X Words
      BY <2>1, <2>3
    <3> QED
      BY <3>1 DEF Of, Types
  <2>5. LET e == Entry("repair", 1, <<c, o>>) IN
          e \in Entries /\ e.type = "repair" /\ e.run = 1 /\ e.of = <<c, o>>
    BY <2>4, AnEntry
  <2>6. RepairOK(f, s, Entry("repair", 1, <<c, o>>))
    BY <2>1, <2>2, <2>3, <2>5 DEF RepairOK
  <2>7. ToAdd(f, s, Entry("repair", 1, <<c, o>>))
    BY <1>1, <2>3, <2>5, <2>6 DEF ToAdd
  <2> QED
    BY <2>5, <2>7 DEF o
<1>5. ASSUME NEW j \in JobsGoing(s)
      PROVE  Entry("jobUnknown", 1, j) \in Entries /\ ToAdd(f, s, Entry("jobUnknown", 1, j))
  <2>1. j = Kid /\ j \in Of /\ "jobUnknown" \in Types /\ Has(s, "request")
    BY AskedInAFile DEF JobsGoing, Of, Types
  <2> QED
    BY <1>1, <2>1, AnEntry DEF ToAdd
<1>6. ASSUME Interrupted(s)
      PROVE  /\ Entry("receipt", r, "none") \in Entries /\ ToAdd(f, s, Entry("receipt", r, "none"))
             /\ Entry("runEnd", r, "interrupted") \in Entries /\ ToAdd(f, s, Entry("runEnd", r, "interrupted"))
  <2>1. "none" \in Of /\ "interrupted" \in Of /\ "receipt" \in Types /\ "runEnd" \in Types
    BY DEF Of, Words, Types
  <2>2. r \in Nat /\ r \in 1 .. r /\ Has(s, "request")
    BY <1>1, <1>2, <1>6 DEF Interrupted
  <2> QED
    BY <2>1, <2>2, AnEntry DEF ToAdd
<1>7. \A e \in Recovered(s) : e \in Entries /\ ToAdd(f, s, e)
  BY <1>3, <1>4, <1>5, <1>6 DEF Recovered, Results, RepairsOf, JobsLost, ReceiptLost, EndLost
<1>8. Recovery(s) \in Seq(Recovered(s))
  BY AskedInAFile, RecoveryIsListed DEF Lists
<1> QED
  BY <1>7, <1>8, SeqMonotonic, ElementOfSeq

-----------------------------------------------------------------------------
(* The invariant holds at first. *)

LEMMA Constants ==
  /\ Top \in Files /\ Kid \in Files /\ Top # Kid
  /\ MaxRun \in Nat
  /\ \A f \in Files : CallsOf[f] \subseteq Calls /\ \A S \in Replies[f] : S \subseteq CallsOf[f]
  /\ \A f \in Files : f = Top \/ f = Kid
  /\ MaxCrash \in Nat
<1>1. \A f \in Files : CallsOf[f] = UNION Replies[f]
  BY DEF CallsOf
<1> QED
  BY <1>1, JournalAssumption DEF Files, Calls

LEMMA InitInv == Init => Inv
<1> SUFFICES ASSUME Init PROVE Inv
  OBVIOUS
<1>1. << >> \in Seq(Entries) /\ Len(<< >>) = 0
  OBVIOUS
<1>2. TypeInv
  BY <1>1, Constants DEF Init, TypeInv, Stage
<1>3. TearInv /\ TodoInv
  BY <1>1 DEF Init, TearInv, TodoInv
<1>4. FilesInv
  <2>1. RunsOf(<< >>) = 0
    <3>1. {i \in DOMAIN << >> : << >>[i].type = "request"} = {}
      OBVIOUS
    <3> QED
      BY <3>1, FS_EmptySet DEF RunsOf
  <2>2. \A f \in Files : FileOK(f, << >>)
    BY <1>1, <2>1, Constants DEF FileOK
  <2> QED
    BY <2>2 DEF Init, FilesInv
<1>5. WorkInv /\ CallInv
  BY DEF Init, WorkInv, CallInv, Calling, Answering, Working, Active
<1>6. RanInv /\ CallsInv /\ SavedInv
  BY DEF Init, RanInv, CallsInv, SavedInv
<1> QED
  BY <1>2, <1>3, <1>4, <1>5, <1>6 DEF Inv

-----------------------------------------------------------------------------
(* A run that is at work appends an entry. *)

AtRest == {"missing", "closed", "opening", "children"}

LEMMA RunAtWork ==
  ASSUME Inv, NEW f \in Files, Working(f)
  PROVE  /\ Has(file[f], "request") /\ Run(f) \in 1 .. MaxRun /\ Run(f) \in Nat
         /\ (Run(f) = 1 => ~Has(file[f], "repair"))
         /\ stage[f] \notin AtRest /\ stage[f] # "idle"
<1>1. file[f] \in Seq(Entries)
  BY DEF Inv, TypeInv
<1>2. Has(file[f], "request") /\ (Has(file[f], "repair") => RunsOf(file[f]) # 1)
  BY DEF Inv, WorkInv
<1>3. RunsOf(file[f]) <= MaxRun /\ MaxRun \in Nat
  BY Constants DEF Inv, FilesInv, FileOK
<1>4. RunsOf(file[f]) \in Nat /\ RunsOf(file[f]) >= 1
  BY <1>1, <1>2, RunsAreCounted
<1> QED
  BY <1>2, <1>3, <1>4 DEF Run, Working, Active, AtRest

\* What an entry appended to an open file keeps of every file.
LEMMA AppendKeeps ==
  ASSUME Inv, NEW f \in Files, NEW e \in Entries, MayFollow(f, file[f], e),
         ~poisoned[f], stage[f] \notin AtRest, stage' \in [Files -> Stage], stage'[f] \notin AtRest,
         \A g \in Files \ {f} : stage'[g] = stage[g] \/ (stage[g] = "missing" /\ stage'[g] = "idle"),
         file' = [file EXCEPT ![f] = Append(@, e)],
         UNCHANGED <<tail, synced, poisoned, todo, ran>>
  PROVE  /\ file' \in [Files -> Seq(Entries)]
         /\ \A g \in Files : synced'[g] <= Len(file'[g])
         /\ TearInv' /\ FilesInv' /\ TodoInv' /\ RanInv'
<1>1. file \in [Files -> Seq(Entries)] /\ synced \in [Files -> Nat]
  BY DEF Inv, TypeInv
<1>2. /\ file'[f] = Append(file[f], e) /\ file[f] \in Seq(Entries)
      /\ \A g \in Files \ {f} : file'[g] = file[g]
  BY <1>1
<1>3. /\ file'[f] \in Seq(Entries) /\ Len(file'[f]) = Len(file[f]) + 1 /\ Len(file[f]) \in Nat
      /\ \A i \in 1 .. Len(file[f]) : file'[f][i] = file[f][i]
  BY <1>2, Appended, Domains
<1>4. file' \in [Files -> Seq(Entries)]
  BY <1>1, <1>2, <1>3
<1>5. \A g \in Files : synced'[g] <= Len(file'[g])
  BY <1>1, <1>2, <1>3 DEF Inv, TypeInv
<1>6. TearInv'
  BY DEF Inv, TearInv, AtRest
<1>7. FilesInv'
  BY <1>2, FileGrows DEF Inv, FilesInv
<1>8. TodoInv'
  <2>1. todo[f] = << >> /\ todo' = todo
    BY DEF Inv, TodoInv, AtRest
  <2>2. ASSUME NEW g \in Files \ {f}
        PROVE  /\ stage'[g] # "opening" => todo'[g] = << >>
               /\ \A i \in 1 .. Len(todo'[g]) : ToAdd(g, file'[g], todo'[g][i])
    BY <1>2, <2>1 DEF Inv, TodoInv
  <2>3. Len(<< >>) = 0
    OBVIOUS
  <2> QED
    BY <2>1, <2>2, <2>3 DEF TodoInv
<1>9. RanInv'
  <2>1. ASSUME NEW c \in ran PROVE \E g \in Files : c \in CallsOf[g] /\ \E i \in 1 .. synced'[g] :
                                     file'[g][i].type = "intent" /\ file'[g][i].of = c
    <3>1. PICK g \in Files : c \in CallsOf[g] /\ \E i \in 1 .. synced[g] :
                               file[g][i].type = "intent" /\ file[g][i].of = c
      BY DEF Inv, RanInv
    <3>2. PICK i \in 1 .. synced[g] : file[g][i].type = "intent" /\ file[g][i].of = c
      BY <3>1
    <3>3. synced[g] <= Len(file[g]) /\ synced[g] \in Nat
      BY <1>1 DEF Inv, TypeInv
    <3>4. file'[g][i] = file[g][i]
      <4>1. CASE g = f
        BY <4>1, <1>3, <3>3
      <4>2. CASE g # f
        BY <4>2, <1>2
      <4> QED
        BY <4>1, <4>2
    <3> QED
      BY <3>1, <3>2, <3>4
  <2> QED
    BY <2>1 DEF RanInv
<1> QED
  BY <1>4, <1>5, <1>6, <1>7, <1>8, <1>9

\* A run at work appends an entry that is no request and no repair.
LEMMA RunAppends ==
  ASSUME Inv, NEW f \in Files, Working(f), NEW e \in Entries, MayFollow(f, file[f], e),
         e.type \notin {"request", "repair"},
         ~poisoned[f], stage' \in [Files -> Stage], next' \in [Files -> Stage], stage'[f] \notin AtRest,
         \A g \in Files \ {f} : /\ stage'[g] = stage[g] \/ (stage[g] = "missing" /\ stage'[g] = "idle")
                                /\ next'[g] = next[g] /\ call'[g] = call[g],
         file' = [file EXCEPT ![f] = Append(@, e)],
         call' \in [Files -> Calls \cup {0}], call'[f] \in CallsOf[f] \cup {0},
         by' \in [Files -> {"operator", "job", "recovery"}],
         UNCHANGED <<tail, synced, poisoned, todo, orphans, ran, saved, crashes>>,
         Calling(f)' => call'[f] \in CallsOf[f] /\ About(file'[f], "intent", call'[f]),
         Answering(f)' => call'[f] \in CallsOf[f]
  PROVE  Inv'
<1>1. /\ file' \in [Files -> Seq(Entries)]
      /\ \A g \in Files : synced'[g] <= Len(file'[g])
      /\ TearInv' /\ FilesInv' /\ TodoInv' /\ RanInv'
  BY RunAtWork, AppendKeeps
<1>2. TypeInv'
  BY <1>1 DEF Inv, TypeInv
<1>3. file[f] \in Seq(Entries) /\ file'[f] = Append(file[f], e) /\ \A g \in Files \ {f} : file'[g] = file[g]
  BY DEF Inv, TypeInv
<1>4. WorkInv'
  <2>1. Has(file'[f], "request") /\ (Has(file'[f], "repair") => RunsOf(file'[f]) # 1)
    BY <1>3, RunAtWork, AfterAppend, RunsAfterAppend DEF Run
  <2>2. ASSUME NEW g \in Files \ {f}, Working(g)'
        PROVE  Has(file'[g], "request") /\ (Has(file'[g], "repair") => RunsOf(file'[g]) # 1)
    <3>1. Working(g)
      BY <2>2 DEF Working, Active
    <3> QED
      BY <1>3, <3>1 DEF Inv, WorkInv
  <2> QED
    BY <2>1, <2>2 DEF WorkInv
<1>5. CallInv'
  <2>1. ASSUME NEW g \in Files \ {f}, Calling(g)'
        PROVE  call'[g] \in CallsOf[g] /\ About(file'[g], "intent", call'[g])
    <3>1. Calling(g)
      BY <2>1 DEF Calling
    <3> QED
      BY <1>3, <3>1 DEF Inv, CallInv
  <2>2. ASSUME NEW g \in Files \ {f}, Answering(g)' PROVE call'[g] \in CallsOf[g]
    <3>1. Answering(g)
      BY <2>2 DEF Answering
    <3> QED
      BY <3>1 DEF Inv, CallInv
  <2> QED
    BY <2>1, <2>2 DEF CallInv
<1>6. CallsInv' /\ SavedInv'
  BY DEF Inv, CallsInv, SavedInv
<1> QED
  BY <1>1, <1>2, <1>4, <1>5, <1>6 DEF Inv

-----------------------------------------------------------------------------
(* The steps of a run. *)

LEMMA Asked ==
  ASSUME Inv, NEW f \in Files, NEW c \in AskedIn(file[f])
  PROVE  c \in CallsOf[f] /\ c \in Calls
<1>1. DOMAIN file[f] = 1 .. Len(file[f])
  BY Domains DEF Inv, TypeInv
<1>2. PICK i \in 1 .. Len(file[f]) : file[f][i].type = "reply" /\ c \in file[f][i].of
  BY <1>1 DEF AskedIn
<1>3. file[f][i].of \subseteq CallsOf[f]
  BY <1>2 DEF Inv, FilesInv, FileOK, EntryOK
<1> QED
  BY <1>2, <1>3, Constants

LEMMA RequestStep == ASSUME Inv, NEW f \in Files, Request(f) PROVE Inv'
<1> DEFINE e == Entry("request", Run(f) + 1, "none")
<1>1. file[f] \in Seq(Entries) /\ Run(f) \in Nat /\ Run(f) + 1 <= MaxRun /\ MaxRun \in Nat
  <2>1. file[f] \in Seq(Entries)
    BY DEF Inv, TypeInv
  <2>2. Run(f) \in Nat /\ Run(f) < MaxRun
    <3>1. Run(Top) \in Nat /\ Run(Kid) \in Nat
      BY RunsAreCounted, Constants DEF Run, Inv, TypeInv
    <3> QED
      BY <3>1, Constants DEF Request
  <2> QED
    BY <2>1, <2>2, Constants
<1>2. e \in Entries /\ e.type = "request" /\ e.run = Run(f) + 1
  BY <1>1, AnEntry DEF Types, Of, Words
<1> HIDE DEF e
<1>3. MayFollow(f, file[f], e)
  BY <1>1, <1>2 DEF MayFollow, Run
<1>4. /\ ~poisoned[f] /\ stage[f] = "idle" /\ file' = [file EXCEPT ![f] = Append(@, e)]
      /\ stage' = [stage EXCEPT ![f] = "syncing"] /\ next' = [next EXCEPT ![f] = "asked"]
      /\ UNCHANGED <<tail, synced, poisoned, todo, by, orphans, crashes, call, ran, saved>>
  BY DEF Request, AppendSynced, unrecovered, e
<1>5. /\ stage' \in [Files -> Stage] /\ stage'[f] = "syncing" /\ next' \in [Files -> Stage]
      /\ \A g \in Files \ {f} : stage'[g] = stage[g] /\ next'[g] = next[g]
  BY <1>4 DEF Inv, TypeInv, Stage
<1>6. /\ file' \in [Files -> Seq(Entries)]
      /\ \A g \in Files : synced'[g] <= Len(file'[g])
      /\ TearInv' /\ FilesInv' /\ TodoInv' /\ RanInv'
  BY <1>2, <1>3, <1>4, <1>5, AppendKeeps DEF AtRest
<1>7. TypeInv'
  BY <1>4, <1>5, <1>6 DEF Inv, TypeInv
<1>8. file'[f] = Append(file[f], e) /\ \A g \in Files \ {f} : file'[g] = file[g]
  BY <1>4 DEF Inv, TypeInv
<1>9. WorkInv'
  <2>1. Has(file'[f], "request") /\ RunsOf(file'[f]) = RunsOf(file[f]) + 1
    BY <1>1, <1>2, <1>8, AfterAppend, RunsAfterAppend
  <2>2. Has(file'[f], "repair") => RunsOf(file'[f]) # 1
    <3>1. Has(file'[f], "repair") => Has(file[f], "repair")
      BY <1>1, <1>2, <1>8, AfterAppend
    <3>2. ASSUME Has(file[f], "repair") PROVE Has(file[f], "request")
      <4>1. DOMAIN file[f] = 1 .. Len(file[f]) /\ Len(file[f]) \in Nat
        BY <1>1, Domains
      <4>2. PICK i \in 1 .. Len(file[f]) : file[f][i].type = "repair"
        BY <3>2, <4>1 DEF Has
      <4>3. PICK j \in 1 .. i - 1 : file[f][j].type = "request"
        BY <4>2 DEF Inv, FilesInv, FileOK, EntryOK
      <4>4. j \in 1 .. Len(file[f])
        BY <4>1
      <4> QED
        BY <4>1, <4>3, <4>4 DEF Has
    <3>3. Has(file[f], "request") => RunsOf(file[f]) >= 1
      BY <1>1, RunsAreCounted
    <3> QED
      BY <1>1, <2>1, <3>1, <3>2, <3>3 DEF Run
  <2>3. ASSUME NEW g \in Files \ {f}, Working(g)'
        PROVE  Has(file'[g], "request") /\ (Has(file'[g], "repair") => RunsOf(file'[g]) # 1)
    BY <1>5, <1>8, <2>3 DEF Working, Inv, WorkInv
  <2> QED
    BY <2>1, <2>2, <2>3 DEF WorkInv
<1>10. CallInv'
  <2>1. ~Calling(f)' /\ ~Answering(f)'
    BY <1>4, <1>5 DEF Calling, Answering, Inv, TypeInv
  <2>2. ASSUME NEW g \in Files \ {f}, Calling(g)'
        PROVE  call'[g] \in CallsOf[g] /\ About(file'[g], "intent", call'[g])
    BY <1>4, <1>5, <1>8, <2>2 DEF Calling, Inv, CallInv
  <2>3. ASSUME NEW g \in Files \ {f}, Answering(g)' PROVE call'[g] \in CallsOf[g]
    BY <1>4, <1>5, <2>3 DEF Answering, Inv, CallInv
  <2> QED
    BY <2>1, <2>2, <2>3 DEF CallInv
<1>11. CallsInv' /\ SavedInv'
  BY <1>4 DEF Inv, CallsInv, SavedInv
<1> QED
  BY <1>6, <1>7, <1>9, <1>10, <1>11 DEF Inv

LEMMA ReplyStep == ASSUME Inv, NEW f \in Files, Reply(f) PROVE Inv'
<1>0. PICK S \in Replies[f] : AppendTo(f, Entry("reply", Run(f), IF Run(f) = 1 THEN S ELSE {}), "replied")
  BY DEF Reply
<1> DEFINE of == IF Run(f) = 1 THEN S ELSE {}
           e == Entry("reply", Run(f), of)
<1>1. Working(f)
  BY DEF Reply, Working, Active
<1>2. Run(f) \in 1 .. MaxRun /\ Run(f) \in Nat /\ Has(file[f], "request")
  BY <1>1, RunAtWork
<1>3. of \subseteq CallsOf[f] /\ (of # {} => Run(f) = 1) /\ of \in Of
  <2>1. of \subseteq CallsOf[f] /\ of \subseteq Calls
    BY Constants
  <2> QED
    BY <2>1 DEF Of
<1> HIDE DEF of
<1>4. e \in Entries /\ e.type = "reply" /\ e.run = Run(f) /\ e.of = of
  BY <1>2, <1>3, AnEntry DEF Types
<1> HIDE DEF e
<1>5. MayFollow(f, file[f], e)
  BY <1>2, <1>3, <1>4 DEF MayFollow
<1>6. /\ ~poisoned[f] /\ file' = [file EXCEPT ![f] = Append(@, e)]
      /\ stage' = [stage EXCEPT ![f] = "replied"]
      /\ UNCHANGED <<next, tail, synced, poisoned, todo, by, orphans, crashes, call, ran, saved>>
  BY <1>0 DEF Reply, AppendTo, unrecovered, e, of
<1>7. /\ stage' \in [Files -> Stage] /\ stage'[f] = "replied"
      /\ \A g \in Files \ {f} : stage'[g] = stage[g]
  BY <1>6 DEF Inv, TypeInv, Stage
<1>8. ~Calling(f)' /\ ~Answering(f)'
  BY <1>7 DEF Calling, Answering
<1> QED
  BY <1>1, <1>4, <1>5, <1>6, <1>7, <1>8, RunAppends DEF AtRest, Inv, TypeInv, CallsInv

LEMMA IntentStep == ASSUME Inv, NEW f \in Files, Intent(f) PROVE Inv'
<1>1. PICK c \in Calls : /\ IsNext(f, c)
                         /\ call' = [call EXCEPT ![f] = c]
                         /\ AppendSynced(f, Entry("intent", Run(f), c), "calling")
  BY DEF Intent
<1> DEFINE e == Entry("intent", Run(f), c)
<1>2. Working(f)
  BY DEF Intent, Working, Active
<1>3. Run(f) \in 1 .. MaxRun /\ Run(f) \in Nat /\ Has(file[f], "request") /\ (Run(f) = 1 => ~Has(file[f], "repair"))
  BY <1>2, RunAtWork
<1>4. c \in AskedIn(file[f]) /\ c \in CallsOf[f]
  BY <1>1, Asked DEF IsNext, Unanswered
<1>5. Run(f) = 1
  <2>1. PICK i \in DOMAIN file[f] : file[f][i].type = "reply" /\ file[f][i].run = Run(f) /\ c \in file[f][i].of
    BY <1>1 DEF IsNext, Unanswered
  <2>2. i \in 1 .. Len(file[f])
    BY <2>1, Domains DEF Inv, TypeInv
  <2> QED
    BY <2>1, <2>2 DEF Inv, FilesInv, FileOK, EntryOK
<1>6. e \in Entries /\ e.type = "intent" /\ e.run = Run(f) /\ e.of = c
  BY <1>3, <1>4, AnEntry DEF Types, Of
<1> HIDE DEF e
<1>7. MayFollow(f, file[f], e)
  BY <1>3, <1>5, <1>6 DEF MayFollow
<1>8. /\ ~poisoned[f] /\ file' = [file EXCEPT ![f] = Append(@, e)]
      /\ stage' = [stage EXCEPT ![f] = "syncing"] /\ next' = [next EXCEPT ![f] = "calling"]
      /\ UNCHANGED <<tail, synced, poisoned, todo, by, orphans, crashes, ran, saved>>
  BY <1>1 DEF Intent, AppendSynced, unrecovered, e
<1>9. /\ stage' \in [Files -> Stage] /\ stage'[f] = "syncing" /\ next' \in [Files -> Stage]
      /\ call' \in [Files -> Calls \cup {0}] /\ call'[f] = c
      /\ \A g \in Files \ {f} : stage'[g] = stage[g] /\ next'[g] = next[g] /\ call'[g] = call[g]
  BY <1>1, <1>8 DEF Inv, TypeInv, Stage
<1>10. About(file'[f], "intent", c)
  <2>1. file[f] \in Seq(Entries) /\ file'[f] = Append(file[f], e)
    BY <1>8 DEF Inv, TypeInv
  <2> QED
    BY <1>6, <2>1, AfterAppend
<1> QED
  <2>1. by' \in [Files -> {"operator", "job", "recovery"}] /\ stage'[f] \notin AtRest
    BY <1>8, <1>9 DEF Inv, TypeInv, AtRest
  <2>2. e.type \notin {"request", "repair"} /\ call'[f] \in CallsOf[f] \cup {0}
    BY <1>4, <1>6, <1>9
  <2> QED
    BY <1>2, <1>4, <1>6, <1>7, <1>8, <1>9, <1>10, <2>1, <2>2, RunAppends

LEMMA AnswerStep == ASSUME Inv, NEW f \in Files, Answer(f) PROVE Inv'
<1> DEFINE e == Entry("answer", Run(f), call[f])
<1>1. Working(f)
  BY DEF Answer, Working, Active
<1>2. Run(f) \in 1 .. MaxRun /\ Run(f) \in Nat /\ Has(file[f], "request")
  BY <1>1, RunAtWork
<1>3. call[f] \in Of /\ call[f] \in CallsOf[f] \cup {0}
  BY DEF Inv, TypeInv, CallsInv, Of
<1>4. e \in Entries /\ e.type = "answer" /\ e.run = Run(f)
  BY <1>2, <1>3, AnEntry DEF Types
<1> HIDE DEF e
<1>5. MayFollow(f, file[f], e)
  BY <1>2, <1>4 DEF MayFollow
<1>6. /\ ~poisoned[f] /\ file' = [file EXCEPT ![f] = Append(@, e)]
      /\ stage' = [stage EXCEPT ![f] = "syncing"] /\ next' = [next EXCEPT ![f] = "answered"]
      /\ UNCHANGED <<tail, synced, poisoned, todo, by, orphans, crashes, call, ran, saved>>
  BY DEF Answer, AppendSynced, unrecovered, e
<1>7. /\ stage' \in [Files -> Stage] /\ stage'[f] = "syncing" /\ stage'[f] \notin AtRest
      /\ next' \in [Files -> Stage] /\ next'[f] = "answered"
      /\ \A g \in Files \ {f} : stage'[g] = stage[g] /\ next'[g] = next[g]
  BY <1>6 DEF Inv, TypeInv, Stage, AtRest
<1>8. call' \in [Files -> Calls \cup {0}] /\ by' \in [Files -> {"operator", "job", "recovery"}]
  BY <1>6 DEF Inv, TypeInv
<1>9. ~Calling(f)' /\ call'[f] \in CallsOf[f]
  <2>1. Calling(f)
    BY DEF Answer, Calling
  <2> QED
    BY <1>6, <1>7, <2>1 DEF Calling, Inv, CallInv
<1> QED
  BY <1>1, <1>3, <1>4, <1>5, <1>6, <1>7, <1>8, <1>9, RunAppends

LEMMA JobStartStep == ASSUME Inv, NEW f \in Files, JobStart(f) PROVE Inv'
<1> DEFINE e == Entry("jobStart", Run(f), Kid)
<1>1. Working(f) /\ Calling(f)
  BY DEF JobStart, Working, Active, Calling
<1>2. Run(f) \in 1 .. MaxRun /\ Run(f) \in Nat /\ Has(file[f], "request")
  BY <1>1, RunAtWork
<1>3. e \in Entries /\ e.type = "jobStart" /\ e.run = Run(f)
  BY <1>2, AnEntry DEF Types, Of
<1> HIDE DEF e
<1>4. MayFollow(f, file[f], e)
  BY <1>2, <1>3 DEF MayFollow
<1>5. /\ f = Top /\ stage[Kid] = "missing" /\ ~poisoned[f] /\ file' = [file EXCEPT ![f] = Append(@, e)]
      /\ stage' = [stage EXCEPT ![f] = "syncing", ![Kid] = "idle"]
      /\ next' = [next EXCEPT ![f] = "calling"] /\ by' = [by EXCEPT ![Kid] = "job"]
      /\ UNCHANGED <<tail, synced, poisoned, todo, orphans, crashes, call, ran, saved>>
  BY DEF JobStart, e
<1>6. /\ stage' \in [Files -> Stage] /\ stage'[f] = "syncing" /\ stage'[f] \notin AtRest
      /\ next' \in [Files -> Stage]
      /\ \A g \in Files \ {f} : /\ stage'[g] = stage[g] \/ (stage[g] = "missing" /\ stage'[g] = "idle")
                               /\ next'[g] = next[g]
  BY <1>5, Constants DEF Inv, TypeInv, Stage, AtRest
<1>7. /\ call' \in [Files -> Calls \cup {0}] /\ call'[f] \in CallsOf[f] \cup {0}
      /\ by' \in [Files -> {"operator", "job", "recovery"}]
  BY <1>5 DEF Inv, TypeInv, CallsInv
<1>8. call'[f] \in CallsOf[f] /\ About(file'[f], "intent", call'[f])
  <2>1. call[f] \in CallsOf[f] /\ About(file[f], "intent", call[f])
    BY <1>1 DEF Inv, CallInv
  <2>2. file[f] \in Seq(Entries) /\ file'[f] = Append(file[f], e)
    BY <1>5 DEF Inv, TypeInv
  <2> QED
    BY <1>3, <1>5, <2>1, <2>2, AfterAppend
<1> QED
  BY <1>1, <1>3, <1>4, <1>5, <1>6, <1>7, <1>8, RunAppends

LEMMA JobEndStep == ASSUME Inv, NEW f \in Files, JobEnd(f) PROVE Inv'
<1> DEFINE e == Entry("jobEnd", Run(f), Kid)
<1>1. Working(f) /\ stage[f] \in Stage
  BY DEF JobEnd, Working, Active, Inv, TypeInv
<1>2. Run(f) \in 1 .. MaxRun /\ Run(f) \in Nat /\ Has(file[f], "request")
  BY <1>1, RunAtWork
<1>3. e \in Entries /\ e.type = "jobEnd" /\ e.run = Run(f)
  BY <1>2, AnEntry DEF Types, Of
<1> HIDE DEF e
<1>4. MayFollow(f, file[f], e)
  BY <1>2, <1>3 DEF MayFollow
<1>5. /\ ~poisoned[f] /\ file' = [file EXCEPT ![f] = Append(@, e)]
      /\ stage' = [stage EXCEPT ![f] = "syncing"] /\ next' = [next EXCEPT ![f] = stage[f]]
      /\ UNCHANGED <<tail, synced, poisoned, todo, by, orphans, crashes, call, ran, saved>>
  BY DEF JobEnd, AppendSynced, unrecovered, e
<1>6. /\ stage' \in [Files -> Stage] /\ stage'[f] = "syncing" /\ stage'[f] \notin AtRest
      /\ next' \in [Files -> Stage] /\ next'[f] = stage[f]
      /\ \A g \in Files \ {f} : stage'[g] = stage[g] /\ next'[g] = next[g]
  BY <1>1, <1>5 DEF Inv, TypeInv, Stage, AtRest
<1>7. /\ call' \in [Files -> Calls \cup {0}] /\ call'[f] \in CallsOf[f] \cup {0}
      /\ by' \in [Files -> {"operator", "job", "recovery"}]
  BY <1>5 DEF Inv, TypeInv, CallsInv
<1>8. ASSUME Calling(f)' PROVE call'[f] \in CallsOf[f] /\ About(file'[f], "intent", call'[f])
  <2>1. Calling(f)
    BY <1>6, <1>8 DEF Calling
  <2>2. call[f] \in CallsOf[f] /\ About(file[f], "intent", call[f])
    BY <2>1 DEF Inv, CallInv
  <2>3. file[f] \in Seq(Entries) /\ file'[f] = Append(file[f], e)
    BY <1>5 DEF Inv, TypeInv
  <2> QED
    BY <1>3, <1>5, <2>2, <2>3, AfterAppend
<1>9. ASSUME Answering(f)' PROVE call'[f] \in CallsOf[f]
  <2>1. Answering(f)
    BY <1>6, <1>9 DEF Answering
  <2> QED
    BY <1>5, <2>1 DEF Inv, CallInv
<1> QED
  BY <1>1, <1>3, <1>4, <1>5, <1>6, <1>7, <1>8, <1>9, RunAppends

LEMMA ResultStep == ASSUME Inv, NEW f \in Files, Result(f) PROVE Inv'
<1> DEFINE e == Entry("result", Run(f), call[f])
<1>1. Working(f)
  BY DEF Result, Working, Active
<1>2. Run(f) \in 1 .. MaxRun /\ Run(f) \in Nat /\ Has(file[f], "request")
  BY <1>1, RunAtWork
<1>3. call[f] \in Of
  BY DEF Inv, TypeInv, Of
<1>4. e \in Entries /\ e.type = "result" /\ e.run = Run(f)
  BY <1>2, <1>3, AnEntry DEF Types
<1> HIDE DEF e
<1>5. MayFollow(f, file[f], e)
  BY <1>2, <1>4 DEF MayFollow
<1>6. /\ ~poisoned[f] /\ file' = [file EXCEPT ![f] = Append(@, e)]
      /\ stage' = [stage EXCEPT ![f] = "replied"] /\ call' = [call EXCEPT ![f] = 0]
      /\ UNCHANGED <<next, tail, synced, poisoned, todo, by, orphans, crashes, ran, saved>>
  BY DEF Result, AppendTo, unrecovered, e
<1>7. /\ stage' \in [Files -> Stage] /\ stage'[f] = "replied" /\ stage'[f] \notin AtRest
      /\ next' \in [Files -> Stage]
      /\ \A g \in Files \ {f} : stage'[g] = stage[g] /\ next'[g] = next[g] /\ call'[g] = call[g]
  BY <1>6 DEF Inv, TypeInv, Stage, AtRest
<1>8. /\ call' \in [Files -> Calls \cup {0}] /\ call'[f] \in CallsOf[f] \cup {0}
      /\ by' \in [Files -> {"operator", "job", "recovery"}]
  BY <1>6 DEF Inv, TypeInv
<1>9. ~Calling(f)' /\ ~Answering(f)'
  BY <1>7 DEF Calling, Answering
<1> QED
  BY <1>1, <1>4, <1>5, <1>6, <1>7, <1>8, <1>9, RunAppends

LEMMA ReceiptStep == ASSUME Inv, NEW f \in Files, Receipt(f) PROVE Inv'
<1> DEFINE e == Entry("receipt", Run(f), "none")
<1>1. Working(f)
  BY DEF Receipt, Working, Active
<1>2. Run(f) \in 1 .. MaxRun /\ Run(f) \in Nat /\ Has(file[f], "request")
  BY <1>1, RunAtWork
<1>3. e \in Entries /\ e.type = "receipt" /\ e.run = Run(f)
  BY <1>2, AnEntry DEF Types, Of, Words
<1> HIDE DEF e
<1>4. MayFollow(f, file[f], e)
  BY <1>2, <1>3 DEF MayFollow
<1>5. /\ ~poisoned[f] /\ stage' = [stage EXCEPT ![f] = "settling"]
      /\ UNCHANGED <<next, tail, synced, poisoned, todo, by, orphans, crashes, call, ran, saved>>
      /\ file' = [file EXCEPT ![f] = Append(@, e)] \/ file' = file
  BY DEF Receipt, AppendTo, unrecovered, e
<1>6. /\ stage' \in [Files -> Stage] /\ stage'[f] = "settling" /\ stage'[f] \notin AtRest
      /\ next' \in [Files -> Stage]
      /\ \A g \in Files \ {f} : stage'[g] = stage[g]
  BY <1>5 DEF Inv, TypeInv, Stage, AtRest
<1>7. /\ call' \in [Files -> Calls \cup {0}] /\ call'[f] \in CallsOf[f] \cup {0}
      /\ by' \in [Files -> {"operator", "job", "recovery"}]
  BY <1>5 DEF Inv, TypeInv, CallsInv
<1>8. ~Calling(f)' /\ ~Answering(f)'
  BY <1>6 DEF Calling, Answering
<1>9. CASE file' = [file EXCEPT ![f] = Append(@, e)]
  BY <1>1, <1>3, <1>4, <1>5, <1>6, <1>7, <1>8, <1>9, RunAppends
<1>10. CASE file' = file
  <2>1. TypeInv' /\ CallsInv' /\ SavedInv' /\ FilesInv' /\ RanInv'
    BY <1>5, <1>6, <1>10 DEF Inv, TypeInv, CallsInv, SavedInv, FilesInv, RanInv
  <2>2. TearInv' /\ TodoInv'
    BY <1>1, <1>5, <1>6, <1>10 DEF Inv, TearInv, TodoInv, AtRest, Working, Active
  <2>3. WorkInv'
    BY <1>1, <1>5, <1>6, <1>10 DEF Inv, WorkInv, Working
  <2>4. CallInv'
    BY <1>5, <1>6, <1>8, <1>10 DEF Inv, CallInv, Calling, Answering
  <2> QED
    BY <2>1, <2>2, <2>3, <2>4 DEF Inv
<1> QED
  BY <1>5, <1>9, <1>10

LEMMA SettledStep == ASSUME Inv, NEW f \in Files, Settled(f) PROVE Inv'
<1>1. PICK of \in {"verified", "not"} : AppendSynced(f, Entry("settled", Run(f), of), "settled")
  BY DEF Settled
<1> DEFINE e == Entry("settled", Run(f), of)
<1>2. Working(f)
  BY DEF Settled, Working, Active
<1>3. Run(f) \in 1 .. MaxRun /\ Run(f) \in Nat /\ Has(file[f], "request")
  BY <1>2, RunAtWork
<1>4. e \in Entries /\ e.type = "settled" /\ e.run = Run(f)
  BY <1>3, AnEntry DEF Types, Of, Words
<1> HIDE DEF e
<1>5. MayFollow(f, file[f], e)
  BY <1>3, <1>4 DEF MayFollow
<1>6. /\ ~poisoned[f] /\ file' = [file EXCEPT ![f] = Append(@, e)]
      /\ stage' = [stage EXCEPT ![f] = "syncing"] /\ next' = [next EXCEPT ![f] = "settled"]
      /\ UNCHANGED <<tail, synced, poisoned, todo, by, orphans, crashes, call, ran, saved>>
  BY <1>1 DEF Settled, AppendSynced, unrecovered, e
<1>7. /\ stage' \in [Files -> Stage] /\ stage'[f] = "syncing" /\ stage'[f] \notin AtRest
      /\ next' \in [Files -> Stage] /\ next'[f] = "settled"
      /\ \A g \in Files \ {f} : stage'[g] = stage[g] /\ next'[g] = next[g]
  BY <1>6 DEF Inv, TypeInv, Stage, AtRest
<1>8. /\ call' \in [Files -> Calls \cup {0}] /\ call'[f] \in CallsOf[f] \cup {0}
      /\ by' \in [Files -> {"operator", "job", "recovery"}]
  BY <1>6 DEF Inv, TypeInv, CallsInv
<1>9. ~Calling(f)' /\ ~Answering(f)'
  BY <1>7 DEF Calling, Answering
<1> QED
  BY <1>2, <1>4, <1>5, <1>6, <1>7, <1>8, <1>9, RunAppends

LEMMA RunEndStep == ASSUME Inv, NEW f \in Files, RunEnd(f) PROVE Inv'
<1> DEFINE of == IF Last(file[f]) = Entry("settled", Run(f), "verified") THEN "completed" ELSE "incomplete"
           e == Entry("runEnd", Run(f), of)
<1>1. Working(f)
  BY DEF RunEnd, Working, Active
<1>2. Run(f) \in 1 .. MaxRun /\ Run(f) \in Nat /\ Has(file[f], "request")
  BY <1>1, RunAtWork
<1>3. of \in Of
  BY DEF Of, Words
<1> HIDE DEF of
<1>4. e \in Entries /\ e.type = "runEnd" /\ e.run = Run(f)
  BY <1>2, <1>3, AnEntry DEF Types
<1> HIDE DEF e
<1>5. MayFollow(f, file[f], e)
  BY <1>2, <1>4 DEF MayFollow
<1>6. /\ ~poisoned[f] /\ file' = [file EXCEPT ![f] = Append(@, e)]
      /\ stage' = [stage EXCEPT ![f] = "syncing"] /\ next' = [next EXCEPT ![f] = "idle"]
      /\ UNCHANGED <<tail, synced, poisoned, todo, by, orphans, crashes, call, ran, saved>>
  BY DEF RunEnd, AppendSynced, unrecovered, e, of
<1>7. /\ stage' \in [Files -> Stage] /\ stage'[f] = "syncing" /\ stage'[f] \notin AtRest
      /\ next' \in [Files -> Stage] /\ next'[f] = "idle"
      /\ \A g \in Files \ {f} : stage'[g] = stage[g] /\ next'[g] = next[g]
  BY <1>6 DEF Inv, TypeInv, Stage, AtRest
<1>8. /\ call' \in [Files -> Calls \cup {0}] /\ call'[f] \in CallsOf[f] \cup {0}
      /\ by' \in [Files -> {"operator", "job", "recovery"}]
  BY <1>6 DEF Inv, TypeInv, CallsInv
<1>9. ~Calling(f)' /\ ~Answering(f)'
  BY <1>7 DEF Calling, Answering
<1> QED
  BY <1>1, <1>4, <1>5, <1>6, <1>7, <1>8, <1>9, RunAppends

-----------------------------------------------------------------------------
(* The steps that append nothing. *)

LEMMA FilesAreKept ==
  ASSUME Inv, file' = file, synced' \in [Files -> Nat], \A g \in Files : synced[g] <= synced'[g], ran' = ran
  PROVE  FilesInv' /\ RanInv'
<1>1. FilesInv'
  BY DEF Inv, FilesInv
<1>2. ASSUME NEW c \in ran PROVE \E g \in Files : c \in CallsOf[g] /\ \E i \in 1 .. synced'[g] :
                                   file'[g][i].type = "intent" /\ file'[g][i].of = c
  <2>1. PICK g \in Files : c \in CallsOf[g] /\ \E i \in 1 .. synced[g] :
                             file[g][i].type = "intent" /\ file[g][i].of = c
    BY DEF Inv, RanInv
  <2>2. synced[g] \in Nat /\ synced'[g] \in Nat
    BY DEF Inv, TypeInv
  <2>3. \A i \in 1 .. synced[g] : i \in 1 .. synced'[g]
    BY <2>2
  <2> QED
    BY <2>1, <2>3
<1> QED
  BY <1>1, <1>2 DEF RanInv

LEMMA SyncedStep == ASSUME Inv, NEW f \in Files, Synced(f) PROVE Inv'
<1>1. /\ stage[f] = "syncing" /\ ~poisoned[f] /\ file' = file /\ synced' = [synced EXCEPT ![f] = Len(file[f])]
      /\ stage' = [stage EXCEPT ![f] = next[f]]
      /\ UNCHANGED <<tail, next, call, poisoned, todo, by, orphans, crashes>>
      /\ ran' = ran \/ (Calling(f) /\ ran' = ran \cup {call[f]})
      /\ saved' = saved \/ (Answering(f) /\ saved' = saved \cup {call[f]})
  BY DEF Synced, Calling, Answering
<1>2. \A g \in Files : file[g] \in Seq(Entries) /\ Len(file[g]) \in Nat /\ DOMAIN file[g] = 1 .. Len(file[g])
  BY Domains DEF Inv, TypeInv
<1>3. /\ synced' \in [Files -> Nat] /\ synced'[f] = Len(file[f])
      /\ \A g \in Files : synced[g] <= synced'[g] /\ synced'[g] <= Len(file[g])
      /\ stage' \in [Files -> Stage] /\ stage'[f] = next[f] /\ next' = next
      /\ \A g \in Files \ {f} : stage'[g] = stage[g]
  BY <1>1, <1>2 DEF Inv, TypeInv
<1>4. TypeInv' /\ CallsInv'
  BY <1>1, <1>3 DEF Inv, TypeInv, CallsInv
<1>5. TearInv'
  BY <1>1, <1>3 DEF Inv, TearInv
<1>6. TodoInv'
  BY <1>1, <1>3 DEF Inv, TodoInv
<1>7. WorkInv'
  <2>1. \A g \in Files : Working(g)' => Working(g)
    BY <1>1, <1>3 DEF Working, Active
  <2> QED
    BY <1>1, <2>1 DEF Inv, WorkInv
<1>8. CallInv'
  <2>1. \A g \in Files : (Calling(g)' => Calling(g)) /\ (Answering(g)' => Answering(g))
    BY <1>1, <1>3 DEF Calling, Answering
  <2> QED
    BY <1>1, <2>1 DEF Inv, CallInv
<1>9. FilesInv'
  BY <1>1 DEF Inv, FilesInv
<1>10. RanInv'
  <2>1. ASSUME NEW c \in ran PROVE \E g \in Files : c \in CallsOf[g] /\ \E i \in 1 .. synced'[g] :
                                     file'[g][i].type = "intent" /\ file'[g][i].of = c
    <3>1. PICK g \in Files : c \in CallsOf[g] /\ \E i \in 1 .. synced[g] :
                               file[g][i].type = "intent" /\ file[g][i].of = c
      BY DEF Inv, RanInv
    <3>2. synced[g] \in Nat /\ synced'[g] \in Nat /\ synced[g] <= synced'[g]
      BY <1>3 DEF Inv, TypeInv
    <3>3. \A i \in 1 .. synced[g] : i \in 1 .. synced'[g]
      BY <3>2
    <3> QED
      BY <1>1, <3>1, <3>3
  <2>2. ASSUME Calling(f) PROVE \E i \in 1 .. synced'[f] : file'[f][i].type = "intent" /\ file'[f][i].of = call[f]
    BY <1>1, <1>2, <1>3, <2>2 DEF Inv, CallInv, About
  <2>3. Calling(f) => call[f] \in CallsOf[f]
    BY DEF Inv, CallInv
  <2> QED
    BY <1>1, <2>1, <2>2, <2>3 DEF RanInv
<1>11. SavedInv'
  BY <1>1, Constants DEF Inv, SavedInv, CallInv
<1> QED
  BY <1>4, <1>5, <1>6, <1>7, <1>8, <1>9, <1>10, <1>11 DEF Inv

\* What is so of sessions that go on as they were, with no file changed but by
\* a sync: those in F come to rest.
LEMMA SessionsRest ==
  ASSUME Inv, NEW F \in SUBSET Files,
         file' = file, synced' \in [Files -> Nat], \A g \in Files : synced[g] <= synced'[g], ran' = ran, saved' = saved,
         \A g \in F : stage'[g] \in AtRest \cup {"idle"} /\ call'[g] \in CallsOf[g] \cup {0},
         \A g \in Files \ F : stage'[g] = stage[g] /\ next'[g] = next[g] /\ call'[g] = call[g]
  PROVE  FilesInv' /\ RanInv' /\ WorkInv' /\ CallInv' /\ CallsInv' /\ SavedInv'
<1>1. FilesInv' /\ RanInv'
  BY FilesAreKept
<1>2. \A g \in Files : (Working(g)' => Working(g)) /\ (Calling(g)' => Calling(g)) /\ (Answering(g)' => Answering(g))
  BY DEF Working, Active, Calling, Answering, AtRest
<1>3. \A g \in Files : Calling(g)' \/ Answering(g)' => call'[g] = call[g]
  BY DEF Calling, Answering, AtRest
<1>4. WorkInv'
  BY <1>2 DEF Inv, WorkInv
<1>5. CallInv'
  BY <1>2, <1>3 DEF Inv, CallInv
<1>6. CallsInv' /\ SavedInv'
  BY DEF Inv, CallsInv, SavedInv
<1> QED
  BY <1>1, <1>4, <1>5, <1>6

LEMMA WriteFailsStep == ASSUME Inv, NEW f \in Files, WriteFails(f) PROVE Inv'
<1>1. PICK t \in {"whole", "torn"} : tail' = [tail EXCEPT ![f] = t]
  BY DEF WriteFails
<1>2. /\ stage[f] \notin AtRest /\ crashes < MaxCrash /\ crashes' = crashes + 1
      /\ poisoned' = [poisoned EXCEPT ![f] = TRUE]
      /\ UNCHANGED <<file, synced, stage, next, call, todo, by, orphans, ran, saved>>
  BY DEF WriteFails, Open, AtRest
<1>3. synced' \in [Files -> Nat] /\ \A g \in Files : synced[g] <= synced'[g]
  BY <1>2 DEF Inv, TypeInv
<1>4. FilesInv' /\ RanInv' /\ WorkInv' /\ CallInv' /\ CallsInv' /\ SavedInv'
  <2>1. /\ {} \in SUBSET Files
        /\ \A g \in {} : stage'[g] \in AtRest \cup {"idle"} /\ call'[g] \in CallsOf[g] \cup {0}
        /\ \A g \in Files \ {} : stage'[g] = stage[g] /\ next'[g] = next[g] /\ call'[g] = call[g]
    BY <1>2
  <2> QED
    BY <1>2, <1>3, <2>1, SessionsRest
<1>5. TypeInv'
  <2>1. crashes' \in 0 .. MaxCrash
    BY <1>2, Constants DEF Inv, TypeInv
  <2> QED
    BY <1>1, <1>2, <2>1 DEF Inv, TypeInv
<1>6. TearInv'
  BY <1>1, <1>2 DEF Inv, TypeInv, TearInv, AtRest
<1>7. TodoInv'
  BY <1>2 DEF Inv, TodoInv
<1> QED
  BY <1>4, <1>5, <1>6, <1>7 DEF Inv

LEMMA DisposeStep == ASSUME Inv, NEW f \in Files, Dispose(f) PROVE Inv'
<1>1. /\ stage' = [stage EXCEPT ![f] = "closed"] /\ call' = [call EXCEPT ![f] = 0]
      /\ poisoned' = [poisoned EXCEPT ![f] = FALSE] /\ todo' = [todo EXCEPT ![f] = << >>]
      /\ orphans' = [orphans EXCEPT ![f] = {}]
      /\ UNCHANGED <<file, tail, synced, next, by, ran, saved, crashes>>
  BY DEF Dispose, Closed
<1>2. synced' \in [Files -> Nat] /\ \A g \in Files : synced[g] <= synced'[g]
  BY <1>1 DEF Inv, TypeInv
<1>3. /\ stage'[f] = "closed" /\ call'[f] = 0 /\ todo'[f] = << >> /\ Len(<< >>) = 0
      /\ \A g \in Files \ {f} : /\ stage'[g] = stage[g] /\ next'[g] = next[g] /\ call'[g] = call[g]
                               /\ poisoned'[g] = poisoned[g] /\ todo'[g] = todo[g]
  BY <1>1 DEF Inv, TypeInv
<1>4. FilesInv' /\ RanInv' /\ WorkInv' /\ CallInv' /\ CallsInv' /\ SavedInv'
  <2>1. {f} \in SUBSET Files /\ \A g \in {f} : stage'[g] \in AtRest \cup {"idle"} /\ call'[g] \in CallsOf[g] \cup {0}
    BY <1>3 DEF AtRest
  <2> QED
    BY <1>1, <1>2, <1>3, <2>1, SessionsRest
<1>5. TypeInv'
  <2>1. << >> \in Seq(Entries) /\ "closed" \in Stage
    BY DEF Stage
  <2> QED
    BY <1>1, <2>1 DEF Inv, TypeInv
<1>6. TearInv'
  BY <1>1, <1>3 DEF Inv, TearInv
<1>7. TodoInv'
  BY <1>1, <1>3 DEF Inv, TodoInv
<1> QED
  BY <1>4, <1>5, <1>6, <1>7 DEF Inv

LEMMA RecoveryFailsStep == ASSUME Inv, NEW f \in Files, RecoveryFails(f) PROVE Inv'
<1>1. PICK t \in {"whole", "torn"} : tail' = [tail EXCEPT ![f] = t]
  BY DEF RecoveryFails
<1>2. /\ stage' = [stage EXCEPT ![f] = "closed"] /\ call' = [call EXCEPT ![f] = 0]
      /\ poisoned' = [poisoned EXCEPT ![f] = FALSE] /\ todo' = [todo EXCEPT ![f] = << >>]
      /\ orphans' = [orphans EXCEPT ![f] = {}] /\ crashes < MaxCrash /\ crashes' = crashes + 1
      /\ UNCHANGED <<file, synced, next, by, ran, saved>>
  BY DEF RecoveryFails, Closed
<1>3. synced' \in [Files -> Nat] /\ \A g \in Files : synced[g] <= synced'[g]
  BY <1>2 DEF Inv, TypeInv
<1>4. /\ stage'[f] = "closed" /\ call'[f] = 0 /\ todo'[f] = << >> /\ Len(<< >>) = 0
      /\ \A g \in Files \ {f} : /\ stage'[g] = stage[g] /\ next'[g] = next[g] /\ call'[g] = call[g]
                               /\ poisoned'[g] = poisoned[g] /\ todo'[g] = todo[g] /\ tail'[g] = tail[g]
  BY <1>1, <1>2 DEF Inv, TypeInv
<1>5. FilesInv' /\ RanInv' /\ WorkInv' /\ CallInv' /\ CallsInv' /\ SavedInv'
  <2> DEFINE F == {f}
  <2>1. F \in SUBSET Files /\ \A g \in F : stage'[g] \in AtRest \cup {"idle"} /\ call'[g] \in CallsOf[g] \cup {0}
    BY <1>4 DEF AtRest
  <2>2. \A g \in Files \ F : stage'[g] = stage[g] /\ next'[g] = next[g] /\ call'[g] = call[g]
    BY <1>4
  <2>3. file' = file /\ ran' = ran /\ saved' = saved
    BY <1>2
  <2> HIDE DEF F
  <2> QED
    BY <1>3, <2>1, <2>2, <2>3, SessionsRest
<1>6. TypeInv'
  <2>1. << >> \in Seq(Entries) /\ "closed" \in Stage
    BY DEF Stage
  <2>2. crashes' \in 0 .. MaxCrash
    BY <1>2, Constants DEF Inv, TypeInv
  <2> QED
    BY <1>1, <1>2, <2>1, <2>2 DEF Inv, TypeInv
<1>7. TearInv'
  BY <1>4 DEF Inv, TearInv
<1>8. TodoInv'
  BY <1>2, <1>4 DEF Inv, TodoInv
<1> QED
  BY <1>5, <1>6, <1>7, <1>8 DEF Inv

\* A file is read under its lock, and what it lacks is worked out.
LEMMA OpenedStep ==
  ASSUME Inv, NEW f \in Files, NEW who \in {"operator", "recovery"}, Opened(f, who),
         NEW rest \in {"idle", "closed"},
         stage' = [stage EXCEPT ![f] = IF todo'[f] = << >> THEN rest ELSE "opening"],
         orphans' \in [Files -> SUBSET {Kid}],
         UNCHANGED <<next, call, poisoned, ran, saved, crashes>>
  PROVE  Inv'
<1>1. /\ stage[f] = "closed" /\ file' = file
      /\ tail' = [tail EXCEPT ![f] = "whole"]
      /\ synced' = [synced EXCEPT ![f] = IF tail[f] = "whole" THEN @ ELSE Len(file[f])]
      /\ todo' = [todo EXCEPT ![f] = Recovery(file[f])]
      /\ by' = [by EXCEPT ![f] = who]
  BY DEF Opened, Read
<1>2. \A g \in Files : file[g] \in Seq(Entries) /\ Len(file[g]) \in Nat
  BY Domains DEF Inv, TypeInv
<1>3. /\ synced' \in [Files -> Nat]
      /\ \A g \in Files : synced[g] <= synced'[g] /\ synced'[g] <= Len(file[g])
  BY <1>1, <1>2 DEF Inv, TypeInv
<1>4. /\ Recovery(file[f]) \in Seq(Entries)
      /\ \A i \in 1 .. Len(Recovery(file[f])) : ToAdd(f, file[f], Recovery(file[f])[i])
  BY <1>2, RecoveryAdds DEF Inv, FilesInv
<1>5. /\ todo' \in [Files -> Seq(Entries)] /\ todo'[f] = Recovery(file[f])
      /\ \A g \in Files \ {f} : todo'[g] = todo[g]
  BY <1>1, <1>4 DEF Inv, TypeInv
<1>6. /\ stage' \in [Files -> Stage] /\ stage'[f] = IF todo'[f] = << >> THEN rest ELSE "opening"
      /\ \A g \in Files \ {f} : stage'[g] = stage[g]
  BY DEF Inv, TypeInv, Stage
<1>7. FilesInv' /\ RanInv' /\ WorkInv' /\ CallInv' /\ CallsInv' /\ SavedInv'
  <2>1. {f} \in SUBSET Files /\ \A g \in {f} : stage'[g] \in AtRest \cup {"idle"} /\ call'[g] \in CallsOf[g] \cup {0}
    BY <1>6 DEF AtRest, Inv, CallsInv
  <2> QED
    BY <1>1, <1>3, <1>6, <2>1, SessionsRest
<1>8. TypeInv'
  BY <1>1, <1>3, <1>5, <1>6 DEF Inv, TypeInv
<1>9. TearInv'
  BY <1>1, <1>6 DEF Inv, TypeInv, TearInv
<1>10. TodoInv'
  BY <1>1, <1>4, <1>5, <1>6 DEF Inv, TodoInv
<1> QED
  BY <1>7, <1>8, <1>9, <1>10 DEF Inv

LEMMA OpenSessionStep == ASSUME Inv, NEW f \in Files, OpenSession(f) PROVE Inv'
<1>1. orphans' \in [Files -> SUBSET {Kid}]
  <2>1. JobsGoing(file'[f]) \subseteq {Kid}
    BY DEF JobsGoing
  <2> QED
    BY <2>1 DEF OpenSession, Inv, TypeInv
<1>2. Opened(f, "operator") /\ stage' = [stage EXCEPT ![f] = IF todo'[f] = << >> THEN "idle" ELSE "opening"]
      /\ UNCHANGED <<next, call, poisoned, ran, saved, crashes>>
  BY DEF OpenSession
<1> QED
  BY <1>1, <1>2, OpenedStep

LEMMA RecoverChildStep == ASSUME Inv, NEW f \in Files, RecoverChild(f, Kid) PROVE Inv'
<1>1. orphans' \in [Files -> SUBSET {Kid}] /\ UNCHANGED <<next, call, poisoned, ran, saved, crashes>>
  BY DEF RecoverChild, Inv, TypeInv
<1>2. CASE stage[Kid] = "closed"
  <2>1. /\ Opened(Kid, "recovery")
        /\ stage' = [stage EXCEPT ![Kid] = IF todo'[Kid] = << >> THEN "closed" ELSE "opening"]
    BY <1>2 DEF RecoverChild
  <2> QED
    BY <1>1, <2>1, Constants, OpenedStep
<1>3. CASE stage[Kid] # "closed"
  <2>1. UNCHANGED <<file, tail, synced, todo, by, stage>>
    BY <1>3 DEF RecoverChild
  <2>2. synced' \in [Files -> Nat] /\ \A g \in Files : synced[g] <= synced'[g]
    BY <2>1 DEF Inv, TypeInv
  <2>3. FilesInv' /\ RanInv' /\ WorkInv' /\ CallInv' /\ CallsInv' /\ SavedInv'
    <3>1. /\ {} \in SUBSET Files
          /\ \A g \in {} : stage'[g] \in AtRest \cup {"idle"} /\ call'[g] \in CallsOf[g] \cup {0}
          /\ \A g \in Files \ {} : stage'[g] = stage[g] /\ next'[g] = next[g] /\ call'[g] = call[g]
      BY <1>1, <2>1
    <3> QED
      BY <1>1, <2>1, <2>2, <3>1, SessionsRest
  <2>4. TypeInv' /\ TearInv' /\ TodoInv'
    BY <1>1, <2>1 DEF Inv, TypeInv, TearInv, TodoInv
  <2> QED
    BY <2>3, <2>4 DEF Inv
<1> QED
  BY <1>2, <1>3

LEMMA RecoverySyncedStep == ASSUME Inv, NEW f \in Files, RecoverySynced(f) PROVE Inv'
<1>1. /\ stage[f] = "opening" /\ todo[f] = << >> /\ synced' = [synced EXCEPT ![f] = Len(file[f])]
      /\ stage' = [stage EXCEPT ![f] = IF by[f] = "recovery" THEN "closed" ELSE "children"]
      /\ UNCHANGED <<file, tail, next, call, poisoned, todo, by, orphans, ran, saved, crashes>>
  BY DEF RecoverySynced
<1>2. \A g \in Files : Len(file[g]) \in Nat
  BY Domains DEF Inv, TypeInv
<1>3. /\ synced' \in [Files -> Nat]
      /\ \A g \in Files : synced[g] <= synced'[g] /\ synced'[g] <= Len(file[g])
  BY <1>1, <1>2 DEF Inv, TypeInv
<1>4. /\ stage' \in [Files -> Stage] /\ stage'[f] \in {"closed", "children"}
      /\ \A g \in Files \ {f} : stage'[g] = stage[g]
  BY <1>1 DEF Inv, TypeInv, Stage
<1>5. FilesInv' /\ RanInv' /\ WorkInv' /\ CallInv' /\ CallsInv' /\ SavedInv'
  <2>1. {f} \in SUBSET Files /\ \A g \in {f} : stage'[g] \in AtRest \cup {"idle"} /\ call'[g] \in CallsOf[g] \cup {0}
    BY <1>1, <1>4 DEF AtRest, Inv, CallsInv
  <2> QED
    BY <1>1, <1>3, <1>4, <2>1, SessionsRest
<1>6. TypeInv'
  BY <1>1, <1>3, <1>4 DEF Inv, TypeInv
<1>7. TearInv'
  BY <1>1, <1>4 DEF Inv, TearInv
<1>8. TodoInv'
  BY <1>1, <1>4 DEF Inv, TodoInv
<1> QED
  BY <1>5, <1>6, <1>7, <1>8 DEF Inv

LEMMA ChildrenRecoveredStep == ASSUME Inv, NEW f \in Files, ChildrenRecovered(f) PROVE Inv'
<1>1. /\ stage[f] = "children" /\ stage' = [stage EXCEPT ![f] = "idle"]
      /\ UNCHANGED <<file, tail, synced, next, call, poisoned, todo, by, orphans, ran, saved, crashes>>
  BY DEF ChildrenRecovered
<1>2. synced' \in [Files -> Nat] /\ \A g \in Files : synced[g] <= synced'[g]
  BY <1>1 DEF Inv, TypeInv
<1>3. /\ stage' \in [Files -> Stage] /\ stage'[f] = "idle"
      /\ \A g \in Files \ {f} : stage'[g] = stage[g]
  BY <1>1 DEF Inv, TypeInv, Stage
<1>4. FilesInv' /\ RanInv' /\ WorkInv' /\ CallInv' /\ CallsInv' /\ SavedInv'
  <2>1. {f} \in SUBSET Files /\ \A g \in {f} : stage'[g] \in AtRest \cup {"idle"} /\ call'[g] \in CallsOf[g] \cup {0}
    BY <1>1, <1>3 DEF Inv, CallsInv
  <2> QED
    BY <1>1, <1>2, <1>3, <2>1, SessionsRest
<1>5. TypeInv' /\ TearInv' /\ TodoInv'
  BY <1>1, <1>3 DEF Inv, TypeInv, TearInv, TodoInv
<1> QED
  BY <1>4, <1>5 DEF Inv

\* Recovery appends what it worked out, one entry after the other.
LEMMA RecoveryAppendsStep == ASSUME Inv, NEW f \in Files, RecoveryAppends(f) PROVE Inv'
<1> DEFINE e == Head(todo[f])
           s == file[f]
<1>1. /\ stage[f] = "opening" /\ todo[f] # << >> /\ file' = [file EXCEPT ![f] = Append(@, e)]
      /\ todo' = [todo EXCEPT ![f] = Tail(@)]
      /\ UNCHANGED <<tail, synced, stage, next, call, poisoned, by, orphans, ran, saved, crashes>>
  BY DEF RecoveryAppends
<1>2. /\ s \in Seq(Entries) /\ todo[f] \in Seq(Entries) /\ Len(s) \in Nat /\ Len(todo[f]) \in Nat
      /\ FileOK(f, s)
  BY Domains DEF Inv, TypeInv, FilesInv
<1>3. Len(todo[f]) >= 1 /\ e = todo[f][1] /\ e \in Entries /\ Tail(todo[f]) \in Seq(Entries)
  BY <1>1, <1>2
<1>4. Len(Tail(todo[f])) = Len(todo[f]) - 1 /\ \A i \in 1 .. Len(Tail(todo[f])) : Tail(todo[f])[i] = todo[f][i + 1]
  BY <1>1, <1>2, HeadTailProperties
<1>5. ToAdd(f, s, e)
  BY <1>2, <1>3 DEF Inv, TodoInv
<1> HIDE DEF e
<1>6. MayFollow(f, s, e)
  <2>1. RunsOf(s) \in Nat /\ RunsOf(s) <= MaxRun /\ MaxRun \in Nat
    BY <1>2, RunsAreCounted, Constants DEF FileOK
  <2>2. e.run \in 1 .. MaxRun
    BY <1>5, <2>1 DEF ToAdd
  <2> QED
    BY <1>5, <2>2 DEF MayFollow, ToAdd
<1> HIDE DEF s
<1>7. /\ file'[f] = Append(s, e) /\ file[f] = s /\ \A g \in Files \ {f} : file'[g] = file[g]
      /\ todo'[f] = Tail(todo[f]) /\ \A g \in Files \ {f} : todo'[g] = todo[g]
  BY <1>1 DEF Inv, TypeInv, s
<1>8. /\ file'[f] \in Seq(Entries) /\ Len(file'[f]) = Len(s) + 1
      /\ \A i \in 1 .. Len(s) : file'[f][i] = s[i]
  BY <1>2, <1>3, <1>7, Appended
<1>9. TypeInv'
  BY <1>1, <1>2, <1>3, <1>7, <1>8 DEF Inv, TypeInv
<1>10. TearInv'
  BY <1>1 DEF Inv, TearInv
<1>11. FilesInv'
  BY <1>2, <1>3, <1>6, <1>7, FileGrows DEF Inv, FilesInv
<1>12. TodoInv'
  <2>1. ASSUME NEW x, ToAdd(f, s, x) PROVE ToAdd(f, Append(s, e), x)
    <3>1. Has(Append(s, e), "request")
      BY <1>2, <1>3, <2>1, AfterAppend DEF ToAdd
    <3>2. ASSUME RepairOK(f, s, x) PROVE RepairOK(f, Append(s, e), x)
      BY <1>2, <1>3, <1>5, <3>2, AfterAppend DEF RepairOK, ToAdd
    <3>3. RunsOf(Append(s, e)) = RunsOf(s)
      BY <1>2, <1>3, <1>5, RunsAfterAppend DEF ToAdd
    <3> QED
      BY <2>1, <3>1, <3>2, <3>3 DEF ToAdd
  <2>2. \A i \in 1 .. Len(todo'[f]) : ToAdd(f, file'[f], todo'[f][i])
    <3>1. ASSUME NEW i \in 1 .. Len(todo'[f]) PROVE ToAdd(f, s, todo'[f][i])
      <4>1. i + 1 \in 1 .. Len(todo[f])
        BY <1>2, <1>4, <1>7
      <4> QED
        BY <1>4, <1>7, <4>1 DEF Inv, TodoInv
    <3> QED
      BY <1>7, <2>1, <3>1
  <2> QED
    BY <1>1, <1>7, <2>2 DEF Inv, TodoInv
<1>13. WorkInv' /\ CallInv'
  BY <1>1, <1>7 DEF Inv, WorkInv, CallInv, Working, Active, Calling, Answering
<1>14. CallsInv' /\ SavedInv'
  BY <1>1 DEF Inv, CallsInv, SavedInv
<1>15. RanInv'
  <2>1. ASSUME NEW c \in ran PROVE \E g \in Files : c \in CallsOf[g] /\ \E i \in 1 .. synced[g] :
                                     file'[g][i].type = "intent" /\ file'[g][i].of = c
    <3>1. PICK g \in Files : c \in CallsOf[g] /\ \E i \in 1 .. synced[g] :
                               file[g][i].type = "intent" /\ file[g][i].of = c
      BY DEF Inv, RanInv
    <3>2. \A i \in 1 .. synced[g] : file'[g][i] = file[g][i]
      <4>1. synced[g] \in Nat /\ synced[g] <= Len(file[g])
        BY DEF Inv, TypeInv
      <4>2. CASE g = f
        BY <1>2, <1>7, <1>8, <4>1, <4>2
      <4>3. CASE g # f
        BY <1>7, <4>3
      <4> QED
        BY <4>2, <4>3
    <3> QED
      BY <3>1, <3>2
  <2> QED
    BY <1>1, <2>1 DEF RanInv
<1> QED
  BY <1>9, <1>10, <1>11, <1>12, <1>13, <1>14, <1>15 DEF Inv

-----------------------------------------------------------------------------
(* A process or the machine fails. *)

\* What a process held when it ended.
LEMMA EndsStep ==
  ASSUME Inv, NEW F \in SUBSET Files, Ends(F)
  PROVE  /\ stage' \in [Files -> Stage] /\ call' \in [Files -> Calls \cup {0}]
         /\ poisoned' \in [Files -> BOOLEAN] /\ todo' \in [Files -> Seq(Entries)]
         /\ orphans' \in [Files -> SUBSET {Kid}]
         /\ \A g \in F : /\ stage'[g] \in {"missing", "closed"} /\ (Open(g) => stage'[g] = "closed")
                        /\ (~Open(g) => stage'[g] = stage[g])
                        /\ call'[g] = 0 /\ todo'[g] = << >>
         /\ \A g \in Files \ F : /\ stage'[g] = stage[g] /\ call'[g] = call[g]
                                /\ poisoned'[g] = poisoned[g] /\ todo'[g] = todo[g]
<1>1. << >> \in Seq(Entries) /\ "closed" \in Stage
  BY DEF Stage
<1>2. \A g \in Files : poisoned[g] \in BOOLEAN
  BY DEF Inv, TypeInv
<1>3. /\ stage' \in [Files -> Stage] /\ call' \in [Files -> Calls \cup {0}]
      /\ todo' \in [Files -> Seq(Entries)] /\ orphans' \in [Files -> SUBSET {Kid}]
  BY <1>1 DEF Ends, Inv, TypeInv
<1>4. poisoned' \in [Files -> BOOLEAN]
  BY <1>2 DEF Ends
<1>5. \A g \in Files \ F : poisoned'[g] = poisoned[g]
  BY <1>2 DEF Ends
<1>6. \A g \in F : /\ stage'[g] \in {"missing", "closed"} /\ (Open(g) => stage'[g] = "closed")
                 /\ (~Open(g) => stage'[g] = stage[g])
                 /\ call'[g] = 0 /\ todo'[g] = << >>
  BY DEF Ends, Open
<1>7. \A g \in Files \ F : stage'[g] = stage[g] /\ call'[g] = call[g] /\ todo'[g] = todo[g]
  BY DEF Ends
<1> QED
  BY <1>3, <1>4, <1>5, <1>6, <1>7

LEMMA KillStep == ASSUME Inv, NEW f \in Files, Kill(f) PROVE Inv'
<1>1. PICK F \in SUBSET Files :
        /\ Ends(F)
        /\ tail' \in {t \in [Files -> {"whole", "torn", "unterminated"}] :
             \A g \in Files : IF g \in F /\ Open(g) THEN t[g] \in Tails(g, Len(file[g])) ELSE t[g] = tail[g]}
  <2> DEFINE F == {f} \cup (IF f = Top /\ by[Kid] # "operator" THEN {Kid} ELSE {})
  <2>1. F \in SUBSET Files
    BY Constants
  <2> QED
    BY <2>1 DEF Kill
<1>2. /\ crashes < MaxCrash /\ crashes' = crashes + 1
      /\ UNCHANGED <<file, synced, next, by, ran, saved>>
  BY DEF Kill
<1>3. /\ stage' \in [Files -> Stage] /\ call' \in [Files -> Calls \cup {0}]
      /\ poisoned' \in [Files -> BOOLEAN] /\ todo' \in [Files -> Seq(Entries)]
      /\ orphans' \in [Files -> SUBSET {Kid}]
      /\ \A g \in F : /\ stage'[g] \in {"missing", "closed"} /\ (Open(g) => stage'[g] = "closed")
                     /\ (~Open(g) => stage'[g] = stage[g])
                     /\ call'[g] = 0 /\ todo'[g] = << >>
      /\ \A g \in Files \ F : /\ stage'[g] = stage[g] /\ call'[g] = call[g]
                             /\ poisoned'[g] = poisoned[g] /\ todo'[g] = todo[g]
  BY <1>1, EndsStep
<1>4. synced' \in [Files -> Nat] /\ \A g \in Files : synced[g] <= synced'[g]
  BY <1>2 DEF Inv, TypeInv
<1>5. FilesInv' /\ RanInv' /\ WorkInv' /\ CallInv' /\ CallsInv' /\ SavedInv'
  <2>1. /\ \A g \in F : stage'[g] \in AtRest \cup {"idle"} /\ call'[g] \in CallsOf[g] \cup {0}
        /\ \A g \in Files \ F : stage'[g] = stage[g] /\ next'[g] = next[g] /\ call'[g] = call[g]
    BY <1>2, <1>3 DEF AtRest
  <2> QED
    BY <1>2, <1>4, <2>1, SessionsRest
<1>6. TypeInv'
  <2>1. crashes' \in 0 .. MaxCrash
    BY <1>2, Constants DEF Inv, TypeInv
  <2>2. tail' \in [Files -> {"whole", "torn", "unterminated"}]
    BY <1>1
  <2> QED
    BY <1>2, <1>3, <2>1, <2>2 DEF Inv, TypeInv
<1>7. TearInv'
  <2>1. ASSUME NEW g \in Files, tail'[g] # "whole"
        PROVE  stage'[g] = "closed" \/ (poisoned'[g] /\ stage'[g] \notin {"missing", "opening", "children"})
    <3>1. CASE g \in F /\ Open(g)
      BY <1>3, <3>1
    <3>2. CASE g \in F /\ ~Open(g)
      <4>1. tail'[g] = tail[g] /\ stage'[g] = stage[g] /\ stage[g] \in {"missing", "closed"}
        BY <1>1, <1>3, <3>2 DEF Open
      <4> QED
        BY <2>1, <4>1 DEF Inv, TearInv
    <3>3. CASE g \notin F
      <4>1. tail'[g] = tail[g] /\ stage'[g] = stage[g] /\ poisoned'[g] = poisoned[g]
        BY <1>1, <1>3, <3>3
      <4> QED
        BY <2>1, <4>1 DEF Inv, TearInv
    <3> QED
      BY <3>1, <3>2, <3>3
  <2> QED
    BY <2>1 DEF TearInv
<1>8. TodoInv'
  <2>1. Len(<< >>) = 0
    OBVIOUS
  <2> QED
    BY <1>2, <1>3, <2>1 DEF Inv, TodoInv
<1> QED
  BY <1>5, <1>6, <1>7, <1>8 DEF Inv

\* A loss of power leaves of each file what is durable and maybe more.
LEMMA PowerLossCuts ==
  ASSUME Inv, PowerLoss
  PROVE  \A g \in Files : \E n \in 0 .. Len(file[g]) :
           /\ synced[g] <= n /\ file'[g] = SubSeq(file[g], 1, n)
           /\ file'[g] \in Seq(Entries) /\ Len(file'[g]) = n
           /\ \A i \in 1 .. n : file'[g][i] = file[g][i]
<1>1. PICK keep \in [Files -> 0 .. Max({Len(file[f]) : f \in Files})] :
       /\ \A f \in Files : synced[f] <= keep[f] /\ keep[f] <= Len(file[f])
       /\ file' = [f \in Files |-> SubSeq(file[f], 1, keep[f])]
       /\ tail' \in {t \in [Files -> {"whole", "torn", "unterminated"}] :
                      \A f \in Files : t[f] \in IF stage[f] = "missing" THEN {"whole"} ELSE Tails(f, keep[f])}
  BY DEF PowerLoss
<1>2. \A g \in Files : file[g] \in Seq(Entries) /\ Len(file[g]) \in Nat /\ keep[g] \in 0 .. Len(file[g])
  <2> DEFINE L == {Len(file[g]) : g \in Files}
  <2>1. \A g \in Files : file[g] \in Seq(Entries) /\ Len(file[g]) \in Nat
    BY Domains DEF Inv, TypeInv
  <2>2. L = {Len(file[Top]), Len(file[Kid])} /\ Len(file[Top]) \in Nat /\ Len(file[Kid]) \in Nat
    BY <2>1, Constants
  <2>3. \E x \in L : \A y \in L : x >= y
    <3>1. CASE Len(file[Top]) >= Len(file[Kid])
      BY <2>2, <3>1
    <3>2. CASE ~(Len(file[Top]) >= Len(file[Kid]))
      BY <2>2, <3>2
    <3> QED
      BY <3>1, <3>2
  <2> HIDE DEF L
  <2>4. Max(L) \in L
    BY <2>3 DEF Max
  <2>5. Max(L) \in Nat
    BY <2>2, <2>4
  <2> QED
    BY <1>1, <2>1, <2>5 DEF L
<1>3. \A g \in Files : /\ file'[g] = SubSeq(file[g], 1, keep[g])
                     /\ file'[g] \in Seq(Entries) /\ Len(file'[g]) = keep[g]
                     /\ \A i \in 1 .. keep[g] : file'[g][i] = file[g][i]
  BY <1>1, <1>2, Prefix
<1> QED
  BY <1>1, <1>2, <1>3

LEMMA PowerLossStep == ASSUME Inv, PowerLoss PROVE Inv'
<1>1. PICK keep \in [Files -> 0 .. Max({Len(file[f]) : f \in Files})] :
       /\ \A f \in Files : synced[f] <= keep[f] /\ keep[f] <= Len(file[f])
       /\ file' = [f \in Files |-> SubSeq(file[f], 1, keep[f])]
       /\ tail' \in {t \in [Files -> {"whole", "torn", "unterminated"}] :
                      \A f \in Files : t[f] \in IF stage[f] = "missing" THEN {"whole"} ELSE Tails(f, keep[f])}
  BY DEF PowerLoss
<1>2. /\ crashes < MaxCrash /\ crashes' = crashes + 1 /\ Ends(Files)
      /\ UNCHANGED <<synced, next, by, ran, saved>>
  BY DEF PowerLoss
<1>3. /\ stage' \in [Files -> Stage] /\ call' \in [Files -> Calls \cup {0}]
      /\ poisoned' \in [Files -> BOOLEAN] /\ todo' \in [Files -> Seq(Entries)]
      /\ orphans' \in [Files -> SUBSET {Kid}]
      /\ \A g \in Files : /\ stage'[g] \in {"missing", "closed"} /\ (Open(g) => stage'[g] = "closed")
                         /\ (~Open(g) => stage'[g] = stage[g])
                         /\ call'[g] = 0 /\ todo'[g] = << >>
  BY <1>2, EndsStep
<1>4. \A g \in Files : \E n \in 0 .. Len(file[g]) :
        /\ synced[g] <= n /\ file'[g] = SubSeq(file[g], 1, n)
        /\ file'[g] \in Seq(Entries) /\ Len(file'[g]) = n
        /\ \A i \in 1 .. n : file'[g][i] = file[g][i]
  BY PowerLossCuts
<1>5. \A g \in Files : file[g] \in Seq(Entries) /\ FileOK(g, file[g]) /\ MaxRun \in Nat
  BY Constants DEF Inv, TypeInv, FilesInv
<1>6. TypeInv'
  <2>1. crashes' \in 0 .. MaxCrash
    BY <1>2, Constants DEF Inv, TypeInv
  <2>2. tail' \in [Files -> {"whole", "torn", "unterminated"}]
    BY <1>1
  <2>3. file' \in [Files -> Seq(Entries)] /\ \A g \in Files : synced'[g] <= Len(file'[g])
    BY <1>1, <1>2, <1>4
  <2> QED
    BY <1>2, <1>3, <2>1, <2>2, <2>3 DEF Inv, TypeInv
<1>7. TearInv'
  <2>1. \A g \in Files : stage'[g] = "missing" => stage[g] = "missing"
    BY <1>3
  <2>2. \A g \in Files : stage[g] = "missing" => tail'[g] = "whole"
    BY <1>1
  <2> QED
    BY <1>3, <2>1, <2>2 DEF TearInv
<1>8. FilesInv'
  BY <1>4, <1>5, FileIsCut DEF FilesInv
<1>9. TodoInv'
  <2>1. Len(<< >>) = 0
    OBVIOUS
  <2> QED
    BY <1>3, <2>1 DEF TodoInv
<1>10. WorkInv' /\ CallInv'
  BY <1>3 DEF WorkInv, CallInv, Working, Active, Calling, Answering
<1>11. CallsInv' /\ SavedInv'
  BY <1>2, <1>3 DEF Inv, CallsInv, SavedInv
<1>12. RanInv'
  <2>1. ASSUME NEW c \in ran PROVE \E g \in Files : c \in CallsOf[g] /\ \E i \in 1 .. synced[g] :
                                     file'[g][i].type = "intent" /\ file'[g][i].of = c
    <3>1. PICK g \in Files : c \in CallsOf[g] /\ \E i \in 1 .. synced[g] :
                               file[g][i].type = "intent" /\ file[g][i].of = c
      BY DEF Inv, RanInv
    <3>2. \A i \in 1 .. synced[g] : file'[g][i] = file[g][i]
      BY <1>4 DEF Inv, TypeInv
    <3> QED
      BY <3>1, <3>2
  <2> QED
    BY <1>2, <2>1 DEF RanInv
<1> QED
  BY <1>6, <1>7, <1>8, <1>9, <1>10, <1>11, <1>12 DEF Inv

-----------------------------------------------------------------------------
(* Every step keeps the invariant. *)

LEMMA NextInv == Inv /\ [Next]_vars => Inv'
<1> SUFFICES ASSUME Inv, [Next]_vars PROVE Inv'
  OBVIOUS
<1>1. CASE UNCHANGED vars
  <2>1. TypeInv' /\ TearInv' /\ FilesInv' /\ TodoInv'
    BY <1>1 DEF vars, Inv, TypeInv, TearInv, FilesInv, TodoInv
  <2>2. WorkInv' /\ CallInv' /\ RanInv' /\ CallsInv' /\ SavedInv'
    BY <1>1 DEF vars, Inv, WorkInv, CallInv, Working, Calling, Answering, RanInv, CallsInv, SavedInv
  <2> QED
    BY <2>1, <2>2 DEF Inv
<1>2. ASSUME NEW f \in Files,
             \/ Synced(f) \/ WriteFails(f) \/ Request(f) \/ Reply(f) \/ Intent(f) \/ Answer(f)
             \/ JobStart(f) \/ JobEnd(f) \/ Result(f) \/ Receipt(f) \/ Settled(f) \/ RunEnd(f)
             \/ Dispose(f) \/ OpenSession(f) \/ RecoveryAppends(f) \/ RecoverySynced(f)
             \/ RecoverChild(f, Kid) \/ ChildrenRecovered(f) \/ RecoveryFails(f) \/ Kill(f)
      PROVE  Inv'
  BY <1>2, SyncedStep, WriteFailsStep, RequestStep, ReplyStep, IntentStep, AnswerStep, JobStartStep,
     JobEndStep, ResultStep, ReceiptStep, SettledStep, RunEndStep, DisposeStep, OpenSessionStep,
     RecoveryAppendsStep, RecoverySyncedStep, RecoverChildStep, ChildrenRecoveredStep,
     RecoveryFailsStep, KillStep
<1>3. CASE PowerLoss
  BY <1>3, PowerLossStep
<1> QED
  BY <1>1, <1>2, <1>3 DEF Next

LEMMA Invariant == Spec => []Inv
<1> QED
  BY InitInv, NextInv, PTL DEF Spec

-----------------------------------------------------------------------------
(* What follows. *)

\* The types of the state (`file', `synced', `stage' and the rest).
THEOREM JournalTypeCorrect == Spec => []TypeOK
<1>1. Inv => TypeOK
  <2> SUFFICES ASSUME Inv PROVE TypeOK
    OBVIOUS
  <2>1. \A f \in Files : DOMAIN file[f] = 1 .. Len(file[f]) /\ Len(file[f]) \in Nat
    BY Domains DEF Inv, TypeInv
  <2>2. ASSUME NEW f \in Files
        PROVE  /\ \A i \in DOMAIN file[f] : file[f][i].run \in 1 .. MaxRun
               /\ synced[f] \in 0 .. Len(file[f])
               /\ stage[f] \in Stage /\ next[f] \in Stage
               /\ call[f] \in CallsOf[f] \cup {0}
    <3>1. \A i \in DOMAIN file[f] : file[f][i].run \in 1 .. MaxRun
      BY <2>1 DEF Inv, FilesInv, FileOK, EntryOK
    <3>2. synced[f] \in 0 .. Len(file[f])
      BY <2>1 DEF Inv, TypeInv
    <3> QED
      BY <3>1, <3>2 DEF Inv, TypeInv, CallsInv
  <2>3. ran \subseteq Calls
    BY Constants DEF Inv, RanInv
  <2> QED
    BY <2>2, <2>3 DEF Inv, TypeInv, SavedInv, TypeOK
<1> QED
  BY <1>1, Invariant, PTL

\* A call that ran is never told as one that did not, nor one that may have
\* changed files as one that only read (`runCall', `repairs').
THEOREM RanCallsStayKnown == Spec => []RanCallsAreKnown
<1>1. Inv => RanCallsAreKnown
  <2> SUFFICES ASSUME Inv, NEW c \in ran, NEW f \in Files
               PROVE  /\ ~About(file[f], "repair", <<c, "notRun">>)
                      /\ MayChangeFiles(c) => ~About(file[f], "repair", <<c, "noEffect">>)
    BY DEF RanCallsAreKnown
  <2>1. DOMAIN file[f] = 1 .. Len(file[f])
    BY Domains DEF Inv, TypeInv
  <2>2. ASSUME NEW o, About(file[f], "repair", <<c, o>>)
        PROVE  /\ c \in CallsOf[f] /\ (o = "notRun" => ~About(file[f], "intent", c))
               /\ (o = "noEffect" => ~MayChangeFiles(c))
    <3>1. PICK i \in 1 .. Len(file[f]) : file[f][i].type = "repair" /\ file[f][i].of = <<c, o>>
      BY <2>1, <2>2 DEF About
    <3>2. RepairOK(f, file[f], file[f][i])
      BY <3>1 DEF Inv, FilesInv, FileOK, EntryOK
    <3>3. PICK d \in CallsOf[f], p \in Words :
            /\ file[f][i].of = <<d, p>> /\ (p = "notRun" => ~About(file[f], "intent", d))
            /\ (p = "noEffect" => ~MayChangeFiles(d))
      BY <3>2 DEF RepairOK
    <3>4. c = d /\ o = p
      BY <3>1, <3>3
    <3> QED
      BY <3>3, <3>4
  <2>3. PICK g \in Files : c \in CallsOf[g] /\ \E i \in 1 .. synced[g] :
                             file[g][i].type = "intent" /\ file[g][i].of = c
    BY DEF Inv, RanInv
  <2>4. About(file[g], "intent", c)
    <3>1. synced[g] \in Nat /\ synced[g] <= Len(file[g]) /\ DOMAIN file[g] = 1 .. Len(file[g]) /\ Len(file[g]) \in Nat
      BY Domains DEF Inv, TypeInv
    <3> QED
      BY <2>3, <3>1 DEF About
  <2>5. c \in CallsOf[f] => f = g
    BY <2>3, JournalAssumption DEF Files
  <2> QED
    BY <2>2, <2>4, <2>5
<1> QED
  BY <1>1, Invariant, PTL

\* Nothing is appended after a line cut short (`recording').
THEOREM NothingEverFollowsATear == Spec => NothingFollowsATear
<1>1. Inv /\ [Next]_vars => [\A f \in Files : Len(file'[f]) > Len(file[f]) => tail[f] = "whole"]_vars
  <2> SUFFICES ASSUME Inv, Next, NEW f \in Files, Len(file'[f]) > Len(file[f]) PROVE tail[f] = "whole"
    OBVIOUS
  <2>1. \A g \in Files : file[g] \in Seq(Entries) /\ Len(file[g]) \in Nat
    BY Domains DEF Inv, TypeInv
  <2>2. ASSUME NEW g \in Files,
               \/ Request(g) \/ Reply(g) \/ Intent(g) \/ Answer(g) \/ JobStart(g) \/ JobEnd(g)
               \/ Result(g) \/ Receipt(g) \/ Settled(g) \/ RunEnd(g) \/ RecoveryAppends(g)
        PROVE  tail[f] = "whole"
    <3>1. stage[g] # "closed" /\ (~poisoned[g] \/ stage[g] = "opening")
      BY <2>2 DEF Request, Reply, Intent, Answer, JobStart, JobEnd, Result, Receipt, Settled, RunEnd,
                  RecoveryAppends, AppendTo, AppendSynced
    <3>2. tail[g] = "whole"
      BY <3>1 DEF Inv, TearInv
    <3>3. f # g => file'[f] = file[f]
      BY <2>2 DEF Request, Reply, Intent, Answer, JobStart, JobEnd, Result, Receipt, Settled, RunEnd,
                  RecoveryAppends, AppendTo, AppendSynced, Inv, TypeInv
    <3> QED
      BY <2>1, <3>2, <3>3
  <2>3. ASSUME NEW g \in Files,
               \/ Synced(g) \/ WriteFails(g) \/ Dispose(g) \/ OpenSession(g) \/ RecoverySynced(g)
               \/ RecoverChild(g, Kid) \/ ChildrenRecovered(g) \/ RecoveryFails(g) \/ Kill(g)
        PROVE  file' = file
    BY <2>3 DEF Synced, WriteFails, Dispose, OpenSession, RecoverySynced, RecoverChild,
                ChildrenRecovered, RecoveryFails, Kill, Opened, Read
  <2>4. ASSUME PowerLoss PROVE Len(file'[f]) <= Len(file[f])
    BY <2>4, PowerLossCuts
  <2> QED
    BY <2>1, <2>2, <2>3, <2>4 DEF Next
<1> QED
  BY <1>1, Invariant, PTL DEF Spec, NothingFollowsATear

LEMMA SamePrefix ==
  ASSUME NEW s \in Seq(Entries), NEW t \in Seq(Entries), NEW n \in Nat, n <= Len(s), n <= Len(t),
         \A i \in 1 .. n : s[i] = t[i]
  PROVE  SubSeq(s, 1, n) = SubSeq(t, 1, n)
<1>1. n \in 0 .. Len(s) /\ n \in 0 .. Len(t)
  BY Domains
<1>2. /\ SubSeq(s, 1, n) \in Seq(Entries) /\ Len(SubSeq(s, 1, n)) = n
      /\ SubSeq(t, 1, n) \in Seq(Entries) /\ Len(SubSeq(t, 1, n)) = n
      /\ \A i \in 1 .. n : SubSeq(s, 1, n)[i] = SubSeq(t, 1, n)[i]
  BY <1>1, Prefix
<1> QED
  BY <1>2, SeqEqual

DurableGrows == \A f \in Files : /\ synced'[f] >= synced[f]
                                 /\ SubSeq(file'[f], 1, synced[f]) = SubSeq(file[f], 1, synced[f])

\* What is durable is only appended to (`session-file.ts').
THEOREM WhatIsDurableOnlyGrows == Spec => DurableOnlyGrows
<1>1. Inv /\ [Next]_vars => [DurableGrows]_vars
  <2> SUFFICES ASSUME Inv, Next, NEW f \in Files
               PROVE  /\ synced'[f] >= synced[f]
                      /\ SubSeq(file'[f], 1, synced[f]) = SubSeq(file[f], 1, synced[f])
    BY DEF DurableGrows
  <2>1. \A g \in Files : /\ file[g] \in Seq(Entries) /\ Len(file[g]) \in Nat
                       /\ synced[g] \in Nat /\ synced[g] <= Len(file[g])
    BY Domains DEF Inv, TypeInv
  <2>2. ASSUME NEW g \in Files,
               \/ Request(g) \/ Reply(g) \/ Intent(g) \/ Answer(g) \/ JobStart(g) \/ JobEnd(g)
               \/ Result(g) \/ Receipt(g) \/ Settled(g) \/ RunEnd(g) \/ RecoveryAppends(g)
        PROVE  synced' = synced /\ (file'[f] = file[f] \/ \E e : file'[f] = Append(file[f], e))
    <3>1. synced' = synced
      BY <2>2 DEF Request, Reply, Intent, Answer, JobStart, JobEnd, Result, Receipt, Settled, RunEnd,
                  RecoveryAppends, unrecovered
    <3>2. file' = file \/ \E e : file' = [file EXCEPT ![g] = Append(@, e)]
      <4>1. CASE Request(g) \/ Reply(g) \/ Answer(g) \/ JobEnd(g) \/ Result(g) \/ RunEnd(g)
        BY <4>1 DEF Request, Reply, Answer, JobEnd, Result, RunEnd, AppendTo, AppendSynced
      <4>2. CASE Intent(g) \/ Settled(g)
        BY <4>2 DEF Intent, Settled, AppendSynced
      <4>3. CASE JobStart(g) \/ RecoveryAppends(g)
        BY <4>3 DEF JobStart, RecoveryAppends
      <4>4. CASE Receipt(g)
        BY <4>4 DEF Receipt, AppendTo
      <4> QED
        BY <2>2, <4>1, <4>2, <4>3, <4>4
    <3>3. file \in [Files -> Seq(Entries)]
      BY DEF Inv, TypeInv
    <3>4. ASSUME NEW e, file' = [file EXCEPT ![g] = Append(@, e)]
          PROVE  file'[f] = file[f] \/ file'[f] = Append(file[f], e)
      BY <3>3, <3>4
    <3> QED
      BY <3>1, <3>2, <3>4
  <2>3. ASSUME NEW g \in Files,
               \/ Synced(g) \/ WriteFails(g) \/ Dispose(g) \/ OpenSession(g) \/ RecoverySynced(g)
               \/ RecoverChild(g, Kid) \/ ChildrenRecovered(g) \/ RecoveryFails(g) \/ Kill(g)
        PROVE  file' = file /\ (synced'[f] = synced[f] \/ synced'[f] = Len(file[f]))
    BY <2>3 DEF Synced, WriteFails, Dispose, OpenSession, RecoverySynced, RecoverChild,
                ChildrenRecovered, RecoveryFails, Kill, Opened, Read, Inv, TypeInv
  <2>4. CASE PowerLoss
    <3>1. synced' = synced
      BY <2>4 DEF PowerLoss
    <3>2. file'[f] \in Seq(Entries) /\ synced[f] <= Len(file'[f]) /\ \A i \in 1 .. synced[f] : file'[f][i] = file[f][i]
      BY <2>1, <2>4, PowerLossCuts
    <3> QED
      BY <2>1, <3>1, <3>2, SamePrefix
  <2>5. ASSUME file'[f] \in Seq(Entries), NEW e, file'[f] = Append(file[f], e)
        PROVE  SubSeq(file'[f], 1, synced[f]) = SubSeq(file[f], 1, synced[f])
    <3>1. \A i \in 1 .. synced[f] : file'[f][i] = file[f][i]
      BY <2>1, <2>5
    <3>2. synced[f] <= Len(file'[f])
      BY <2>1, <2>5
    <3> QED
      BY <2>1, <2>5, <3>1, <3>2, SamePrefix
  <2>6. file'[f] \in Seq(Entries)
    BY NextInv DEF Inv, TypeInv
  <2>7. CASE \E g \in Files :
               \/ Request(g) \/ Reply(g) \/ Intent(g) \/ Answer(g) \/ JobStart(g) \/ JobEnd(g)
               \/ Result(g) \/ Receipt(g) \/ Settled(g) \/ RunEnd(g) \/ RecoveryAppends(g)
    <3>1. synced' = synced /\ (file'[f] = file[f] \/ \E e : file'[f] = Append(file[f], e))
      BY <2>2, <2>7
    <3>2. SubSeq(file'[f], 1, synced[f]) = SubSeq(file[f], 1, synced[f])
      <4>1. CASE file'[f] = file[f]
        BY <4>1
      <4>2. CASE \E e : file'[f] = Append(file[f], e)
        BY <2>5, <2>6, <4>2
      <4> QED
        BY <3>1, <4>1, <4>2
    <3> QED
      BY <2>1, <3>1, <3>2
  <2>8. CASE \E g \in Files :
               \/ Synced(g) \/ WriteFails(g) \/ Dispose(g) \/ OpenSession(g) \/ RecoverySynced(g)
               \/ RecoverChild(g, Kid) \/ ChildrenRecovered(g) \/ RecoveryFails(g) \/ Kill(g)
    <3>1. file' = file /\ (synced'[f] = synced[f] \/ synced'[f] = Len(file[f]))
      BY <2>3, <2>8
    <3> QED
      BY <2>1, <3>1
  <2> QED
    BY <2>4, <2>7, <2>8 DEF Next
<1> QED
  BY <1>1, Invariant, PTL DEF Spec, DurableOnlyGrows, DurableGrows

-----------------------------------------------------------------------------
(* What recovery leaves of a file: it reads back, has one outcome of each  *)
(* call, one end of each run and job, keeps what the operator was told is  *)
(* saved, and nothing is open once the session rests.                      *)

\* Two entries that may not both be in a file: two outcomes of a call, a repair
\* of one that was answered, two receipts or ends of a run, two ends of a job.
Outcome(e, c) == \/ e.type = "result" /\ e.of = c
                 \/ e.type = "repair" /\ e.of[1] = c
JobOver(e) == e.type \in {"jobEnd", "jobUnknown"}
Clash(d, e) ==
  \/ \E c \in Calls : Outcome(d, c) /\ Outcome(e, c)
  \/ d.type = "answer" /\ e.type = "repair" /\ e.of[1] = d.of
  \/ e.type = "answer" /\ d.type = "repair" /\ d.of[1] = e.of
  \/ d.type = e.type /\ d.type \in {"receipt", "runEnd"} /\ d.run = e.run
  \/ JobOver(d) /\ JobOver(e)
Told(s, c) == \E i \in DOMAIN s : Outcome(s[i], c)

\* What a file holds: each entry in its place, every run but the last ended,
\* and no two entries that clash.
Ended(s) == \A k \in 1 .. RunsOf(s) - 1 : InRun(s, "runEnd", k)
Ordered(s, i) ==
  /\ Placed(s, i)
  /\ Ended(SubSeq(s, 1, i))
  /\ JobOver(s[i]) => s[i].of = Kid
Shape(s) ==
  /\ \A i \in 1 .. Len(s) : Ordered(s, i)
  /\ \A i, j \in 1 .. Len(s) : i # j => ~Clash(s[i], s[j])

\* What recovery adds clashes with nothing.
Fresh(s, t) ==
  /\ \A i \in 1 .. Len(s), j \in 1 .. Len(t) : ~Clash(s[i], t[j])
  /\ \A i, j \in 1 .. Len(t) : i # j => ~Clash(t[i], t[j])

\* What the writer at w leaves open in the file s, with t still to be added:
\* only the run it is at, and only the calls of that.
Pre == {"asked", "replied", "calling", "answered"}
Down == {"missing", "closed"}
OpenRun(s, w, c) ==
  /\ w \in Active => ~InRun(s, "runEnd", RunsOf(s))
  /\ w \in Pre => ~InRun(s, "receipt", RunsOf(s))
  /\ w \in {"calling", "answered"} => RunsOf(s) = 1 /\ ~Told(s, c)
  /\ w = "answered" => About(s, "answer", c)
CallsTold(s, t, w) ==
  w \in Down \/ (w \in Pre /\ RunsOf(s) = 1) \/ \A c \in AskedIn(s) : Told(s, c) \/ Told(t, c)
RunsEnded(s, t, w) ==
  w \in Down \/ \A k \in 1 .. RunsOf(s) : \/ InRun(s, "runEnd", k) \/ InRun(t, "runEnd", k)
                                          \/ w \in Active /\ k = RunsOf(s)
JobsEnded(s, t, w) == w \in {"opening", "children"} => JobsGoing(s) = {} \/ About(t, "jobUnknown", Kid)
Whole(s, t, w, c) ==
  Shape(s) /\ Fresh(s, t) /\ OpenRun(s, w, c) /\ CallsTold(s, t, w) /\ RunsEnded(s, t, w) /\ JobsEnded(s, t, w)

\* Where the writer is, or will be once the file is synced.
At(f) == IF stage[f] = "syncing" THEN next[f] ELSE stage[f]
WholeInv == \A f \in Files : Whole(file[f], todo[f], At(f), call[f])
StageInv == \A f \in Files : /\ stage[f] = "syncing" => next[f] \in Active \cup {"idle"}
                             /\ stage[f] = "missing" => file[f] = << >>

\* An answer the operator was told is saved is in what is durable.
AnswersInv ==
  \A c \in saved : \E f \in Files :
    c \in CallsOf[f] /\ \E i \in 1 .. synced[f] : file[f][i].type = "answer" /\ file[f][i].of = c

RestInv == WholeInv /\ StageInv /\ AnswersInv

-----------------------------------------------------------------------------
(* What one entry more adds, and what the start of a file has. *)

LEMMA AskedMeans ==
  ASSUME NEW s, NEW c
  PROVE  c \in AskedIn(s) <=> \E i \in DOMAIN s : s[i].type = "reply" /\ c \in s[i].of
BY DEF AskedIn

LEMMA OneMore ==
  ASSUME NEW s \in Seq(Entries), NEW e \in Entries
  PROVE  /\ \A type, run : InRun(Append(s, e), type, run) <=> InRun(s, type, run) \/ (e.type = type /\ e.run = run)
         /\ \A c : Told(Append(s, e), c) <=> Told(s, c) \/ Outcome(e, c)
         /\ \A c : c \in AskedIn(Append(s, e)) <=> c \in AskedIn(s) \/ (e.type = "reply" /\ c \in e.of)
<1> DEFINE t == Append(s, e)
<1>1. DOMAIN s = 1 .. Len(s) /\ DOMAIN t = 1 .. Len(s) + 1 /\ Len(s) \in Nat
  BY Domains, Appended
<1>2. (\A i \in 1 .. Len(s) : t[i] = s[i]) /\ t[Len(s) + 1] = e
  BY Appended
<1>3. \A i \in 1 .. Len(s) + 1 : i \in 1 .. Len(s) \/ i = Len(s) + 1
  BY <1>1
<1>4. 1 .. Len(s) \subseteq 1 .. Len(s) + 1 /\ Len(s) + 1 \in 1 .. Len(s) + 1
  BY <1>1
<1> HIDE DEF t
<1>5. \A type, run : InRun(t, type, run) <=> InRun(s, type, run) \/ (e.type = type /\ e.run = run)
  BY <1>1, <1>2, <1>3, <1>4 DEF InRun
<1>6. \A c : Told(t, c) <=> Told(s, c) \/ Outcome(e, c)
  BY <1>1, <1>2, <1>3, <1>4 DEF Told
<1>7. \A c : c \in AskedIn(t) <=> c \in AskedIn(s) \/ (e.type = "reply" /\ c \in e.of)
  BY <1>1, <1>2, <1>3, <1>4, AskedMeans
<1> QED
  BY <1>5, <1>6, <1>7 DEF t

LEMMA ClashesBothWays == ASSUME NEW d, NEW e PROVE Clash(d, e) <=> Clash(e, d)
BY DEF Clash

LEMMA TheWholeStart ==
  ASSUME NEW s \in Seq(Entries), NEW e \in Entries
  PROVE  SubSeq(Append(s, e), 1, Len(s)) = s
<1>1. Len(s) \in Nat /\ Append(s, e) \in Seq(Entries) /\ Len(Append(s, e)) = Len(s) + 1
      /\ \A i \in 1 .. Len(s) : Append(s, e)[i] = s[i]
  BY Domains, Appended
<1>2. Len(s) \in 0 .. Len(s) + 1
  BY <1>1
<1>3. /\ SubSeq(Append(s, e), 1, Len(s)) \in Seq(Entries)
      /\ Len(SubSeq(Append(s, e), 1, Len(s))) = Len(s)
      /\ \A i \in 1 .. Len(s) : SubSeq(Append(s, e), 1, Len(s))[i] = Append(s, e)[i]
  BY <1>1, <1>2, Prefix
<1> QED
  BY <1>1, <1>3, SeqEqual

\* The place of an entry is a matter of what comes up to it.
LEMMA OrderIsOfTheStart ==
  ASSUME NEW s \in Seq(Entries), NEW t \in Seq(Entries), NEW i \in 1 .. Len(s), i <= Len(t),
         \A j \in 1 .. i : s[j] = t[j]
  PROVE  Ordered(s, i) <=> Ordered(t, i)
<1>1. Len(s) \in Nat /\ Len(t) \in Nat /\ i \in Nat /\ i - 1 \in Nat /\ i - 1 <= Len(s) /\ i - 1 <= Len(t)
  BY Domains
<1>2. SubSeq(s, 1, i - 1) = SubSeq(t, 1, i - 1) /\ SubSeq(s, 1, i) = SubSeq(t, 1, i)
  BY <1>1, SamePrefix
<1>3. s[i] = t[i] /\ (i > 1 => s[i - 1] = t[i - 1])
  BY <1>1
<1> QED
  BY <1>2, <1>3 DEF Ordered, Placed

LEMMA ShapeIsCut ==
  ASSUME NEW s \in Seq(Entries), Shape(s), NEW t \in Seq(Entries), Len(t) <= Len(s),
         \A i \in 1 .. Len(t) : t[i] = s[i]
  PROVE  Shape(t)
<1>1. Len(s) \in Nat /\ Len(t) \in Nat /\ \A i \in 1 .. Len(t) : i \in 1 .. Len(s) /\ i <= Len(s)
  BY Domains
<1>2. ASSUME NEW i \in 1 .. Len(t) PROVE Ordered(t, i)
  <2>1. Ordered(s, i)
    BY <1>1 DEF Shape
  <2>2. \A j \in 1 .. i : t[j] = s[j]
    BY <1>1
  <2> QED
    BY <1>1, <2>1, <2>2, OrderIsOfTheStart
<1>3. \A i, j \in 1 .. Len(t) : i # j => ~Clash(t[i], t[j])
  BY <1>1 DEF Shape
<1> QED
  BY <1>2, <1>3 DEF Shape

\* An entry that may come next.
Follows(s, e) ==
  /\ e.type # "request" => e.run \in 1 .. RunsOf(s)
  /\ e.type = "request" => e.run = RunsOf(s) + 1 /\ \A k \in 1 .. RunsOf(s) : InRun(s, "runEnd", k)
  /\ e.type = "runEnd" /\ e.of = "completed" =>
       Len(s) > 0 /\ s[Len(s)].type = "settled" /\ s[Len(s)].of = "verified" /\ s[Len(s)].run = e.run
  /\ e.type = "answer" => /\ About(s, "intent", e.of) /\ ~About(s, "result", e.of) /\ ~About(s, "answer", e.of)
                          /\ ~InRun(s, "runEnd", e.run)
  /\ JobOver(e) => e.of = Kid
  /\ \A i \in 1 .. Len(s) : ~Clash(s[i], e)

\* Every run but the last has ended.
LEMMA OthersEnded ==
  ASSUME NEW s \in Seq(Entries), Shape(s)
  PROVE  Ended(s)
<1>1. Len(s) \in Nat /\ RunsOf(s) \in Nat
  BY Domains, RunsAreCounted
<1>2. CASE Len(s) = 0
  <2>1. s = << >>
    BY <1>2
  <2>2. {i \in DOMAIN s : s[i].type = "request"} = {}
    BY <2>1
  <2>3. Cardinality({}) = 0
    BY FS_EmptySet
  <2>4. RunsOf(s) = 0
    BY <2>2, <2>3 DEF RunsOf
  <2> QED
    BY <2>4 DEF Ended
<1>3. CASE Len(s) > 0
  <2>1. Len(s) \in 1 .. Len(s) /\ Len(s) \in 0 .. Len(s)
    BY <1>1, <1>3
  <2>2. Ended(SubSeq(s, 1, Len(s)))
    BY <2>1 DEF Shape, Ordered
  <2>3. SubSeq(s, 1, Len(s)) = s
    <3>1. /\ SubSeq(s, 1, Len(s)) \in Seq(Entries) /\ Len(SubSeq(s, 1, Len(s))) = Len(s)
          /\ \A i \in 1 .. Len(s) : SubSeq(s, 1, Len(s))[i] = s[i]
      BY <2>1, Prefix
    <3> QED
      BY <3>1, SeqEqual
  <2> QED
    BY <2>2, <2>3
<1> QED
  BY <1>1, <1>2, <1>3

LEMMA ShapeGrows ==
  ASSUME NEW s \in Seq(Entries), Shape(s), NEW e \in Entries, Follows(s, e)
  PROVE  Shape(Append(s, e))
<1> DEFINE t == Append(s, e)
<1>1. /\ t \in Seq(Entries) /\ Len(s) \in Nat /\ Len(t) = Len(s) + 1
      /\ (\A i \in 1 .. Len(s) : t[i] = s[i]) /\ t[Len(s) + 1] = e
  BY Domains, Appended
<1>2. SubSeq(t, 1, Len(s)) = s
  BY TheWholeStart
<1>3. RunsOf(s) \in Nat
  BY RunsAreCounted
<1> HIDE DEF t
<1>4. ASSUME NEW i \in 1 .. Len(s) PROVE Ordered(t, i)
  <2>1. Ordered(s, i)
    BY DEF Shape
  <2>2. i \in 1 .. Len(t) /\ i <= Len(s) /\ \A j \in 1 .. i : t[j] = s[j]
    BY <1>1
  <2> QED
    BY <1>1, <2>1, <2>2, OrderIsOfTheStart
<1>5. Ordered(t, Len(s) + 1)
  <2>0. Len(s) + 1 - 1 = Len(s)
    BY <1>1
  <2>1. SubSeq(t, 1, Len(s) + 1 - 1) = s /\ t[Len(s) + 1 - 1] = t[Len(s)]
    BY <1>2, <2>0
  <2> DEFINE n == Len(s) + 1
  <2>5. t[n] = e /\ SubSeq(t, 1, n - 1) = s /\ t[n - 1] = t[Len(s)]
    BY <1>1, <2>1
  <2>2. Placed(t, n)
    <3>1. e.type = "runEnd" /\ e.of = "completed" =>
            /\ n > 1 /\ t[Len(s)].type = "settled" /\ t[Len(s)].of = "verified"
            /\ t[Len(s)].run = e.run
      BY <1>1 DEF Follows
    <3>2. IF e.type = "request" THEN e.run = RunsOf(s) + 1 ELSE e.run \in 1 .. RunsOf(s)
      BY DEF Follows
    <3>3. e.type = "answer" => /\ About(s, "intent", e.of) /\ ~About(s, "result", e.of) /\ ~About(s, "answer", e.of)
                               /\ ~InRun(s, "runEnd", e.run)
      BY DEF Follows
    <3> HIDE DEF n
    <3> QED
      BY <2>5, <3>1, <3>2, <3>3 DEF Placed
  <2>3. Ended(SubSeq(t, 1, n))
    <3>1. SubSeq(t, 1, n) = t
      <4>1. n \in 0 .. Len(t) /\ n = Len(t)
        BY <1>1
      <4>2. /\ SubSeq(t, 1, n) \in Seq(Entries) /\ Len(SubSeq(t, 1, n)) = n
            /\ \A i \in 1 .. n : SubSeq(t, 1, n)[i] = t[i]
        BY <1>1, <4>1, Prefix
      <4> QED
        BY <1>1, <4>1, <4>2, SeqEqual
    <3>2. \A k : InRun(s, "runEnd", k) => InRun(t, "runEnd", k)
      BY OneMore DEF t
    <3>3. RunsOf(t) = IF e.type = "request" THEN RunsOf(s) + 1 ELSE RunsOf(s)
      BY RunsAfterAppend DEF t
    <3>4. \A k \in 1 .. RunsOf(t) - 1 : InRun(s, "runEnd", k)
      BY <1>3, <3>3, OthersEnded DEF Ended, Follows
    <3> QED
      BY <3>1, <3>2, <3>4 DEF Ended
  <2>4. JobOver(e) => e.of = Kid
    BY DEF Follows
  <2> QED
    BY <2>2, <2>3, <2>4, <2>5 DEF Ordered
<1>6. ASSUME NEW i \in 1 .. Len(t), NEW j \in 1 .. Len(t), i # j PROVE ~Clash(t[i], t[j])
  <2>1. CASE i \in 1 .. Len(s) /\ j \in 1 .. Len(s)
    BY <1>1, <1>6, <2>1 DEF Shape
  <2>2. CASE i \in 1 .. Len(s) /\ j = Len(s) + 1
    BY <1>1, <2>2 DEF Follows
  <2>3. CASE i = Len(s) + 1 /\ j \in 1 .. Len(s)
    BY <1>1, <2>3, ClashesBothWays DEF Follows
  <2> QED
    BY <1>1, <1>6, <2>1, <2>2, <2>3
<1>7. \A i \in 1 .. Len(t) : Ordered(t, i)
  BY <1>1, <1>4, <1>5
<1> QED
  BY <1>6, <1>7 DEF Shape, t

\* The runs of a file's entries are runs it has.
LEMMA RunsThereAre ==
  ASSUME NEW s \in Seq(Entries), Shape(s)
  PROVE  \A i \in 1 .. Len(s) : s[i].type # "request" => s[i].run \in 1 .. RunsOf(s)
<1> SUFFICES ASSUME NEW i \in 1 .. Len(s), s[i].type # "request" PROVE s[i].run \in 1 .. RunsOf(s)
  OBVIOUS
<1>1. Len(s) \in Nat /\ i - 1 \in 0 .. Len(s)
  BY Domains
<1>2. s[i].run \in 1 .. RunsOf(SubSeq(s, 1, i - 1))
  BY DEF Shape, Ordered, Placed
<1>3. SubSeq(s, 1, i - 1) \in Seq(Entries)
  BY <1>1, Prefix
<1>4. RunsOf(SubSeq(s, 1, i - 1)) \in Nat /\ RunsOf(s) \in Nat /\ RunsOf(SubSeq(s, 1, i - 1)) <= RunsOf(s)
  BY <1>1, <1>3, RunsAreCounted, RunsOfAPrefix
<1> QED
  BY <1>2, <1>4

\* Two outcomes of a call, ends of a run or of a job are one.
LEMMA OneAtMost ==
  ASSUME NEW s \in Seq(Entries), NEW P \in SUBSET (1 .. Len(s)), \A i, j \in P : i = j
  PROVE  Cardinality(P) <= 1
<1>1. CASE P = {}
  <2>1. Cardinality({}) = 0
    BY FS_EmptySet
  <2> QED
    BY <1>1, <2>1
<1>2. CASE P # {}
  <2>1. PICK i \in P : P = {i}
    BY <1>2
  <2>2. Cardinality({i}) = 1
    BY FS_Singleton
  <2> QED
    BY <2>1, <2>2
<1> QED
  BY <1>1, <1>2

-----------------------------------------------------------------------------
(* What the writer leaves open, from one stage to the next. *)

Nothing == << >>

LEMMA NothingThere ==
  /\ Len(Nothing) = 0 /\ DOMAIN Nothing = {} /\ Nothing \in Seq(Entries)
  /\ RunsOf(Nothing) = 0 /\ AskedIn(Nothing) = {} /\ JobsGoing(Nothing) = {}
  /\ \A c : ~Told(Nothing, c)
  /\ \A type, k : ~InRun(Nothing, type, k) /\ ~About(Nothing, type, k)
<1>1. Len(Nothing) = 0 /\ DOMAIN Nothing = {} /\ Nothing \in Seq(Entries)
  BY DEF Nothing
<1>2. \A c : ~Told(Nothing, c)
  BY <1>1 DEF Told
<1>3. \A type, k : ~InRun(Nothing, type, k) /\ ~About(Nothing, type, k)
  BY <1>1 DEF InRun, About
<1>4. RunsOf(Nothing) = 0
  <2>1. {i \in DOMAIN Nothing : Nothing[i].type = "request"} = {}
    BY <1>1
  <2>2. Cardinality({}) = 0
    BY FS_EmptySet
  <2> QED
    BY <2>1, <2>2 DEF RunsOf
<1>5. AskedIn(Nothing) = {}
  BY <1>1 DEF AskedIn
<1>6. JobsGoing(Nothing) = {}
  BY <1>3 DEF JobsGoing
<1> QED
  BY <1>1, <1>2, <1>3, <1>4, <1>5, <1>6

LEMMA NothingIsOpenYet == ASSUME NEW c, NEW w \in {"idle", "missing"} PROVE Whole(Nothing, Nothing, w, c)
<1>1. Shape(Nothing) /\ Fresh(Nothing, Nothing)
  BY NothingThere DEF Shape, Fresh
<1>2. OpenRun(Nothing, w, c)
  BY DEF OpenRun, Active, Pre
<1>3. CallsTold(Nothing, Nothing, w) /\ RunsEnded(Nothing, Nothing, w) /\ JobsEnded(Nothing, Nothing, w)
  BY NothingThere DEF CallsTold, RunsEnded, JobsEnded
<1> QED
  BY <1>1, <1>2, <1>3 DEF Whole

LEMMA ClosedIsWhole ==
  ASSUME NEW s, Shape(s), NEW c, NEW w \in Down
  PROVE  Whole(s, Nothing, w, c)
<1>1. Fresh(s, Nothing)
  BY NothingThere DEF Fresh
<1>2. OpenRun(s, w, c) /\ CallsTold(s, Nothing, w) /\ RunsEnded(s, Nothing, w) /\ JobsEnded(s, Nothing, w)
  BY DEF OpenRun, CallsTold, RunsEnded, JobsEnded, Active, Pre, Down
<1> QED
  BY <1>1, <1>2 DEF Whole

\* A request, which finds nothing open.
LEMMA RequestIsWhole ==
  ASSUME NEW s \in Seq(Entries), NEW e \in Entries, NEW c, NEW d,
         Whole(s, Nothing, "idle", c), e.type = "request", e.run = RunsOf(s) + 1
  PROVE  Follows(s, e) /\ Whole(Append(s, e), Nothing, "asked", d)
<1> DEFINE t == Append(s, e)
<1>1. RunsOf(s) \in Nat /\ RunsOf(t) = RunsOf(s) + 1
  BY RunsAreCounted, RunsAfterAppend
<1>2. \A k \in 1 .. RunsOf(s) : InRun(s, "runEnd", k)
  BY NothingThere DEF Whole, RunsEnded, Active, Down
<1>3. \A c1 \in AskedIn(s) : Told(s, c1)
  BY NothingThere DEF Whole, CallsTold, Pre, Down
<1>4. \A i \in 1 .. Len(s) : ~Clash(s[i], e)
  BY DEF Clash, Outcome, JobOver
<1>5. Follows(s, e)
  BY <1>2, <1>4 DEF Follows, JobOver
<1>6. Shape(t)
  BY <1>5, ShapeGrows DEF Whole
<1>7. /\ ~InRun(t, "runEnd", RunsOf(t)) /\ ~InRun(t, "receipt", RunsOf(t))
  <2>1. \A i \in 1 .. Len(s) : s[i].type # "request" => s[i].run \in 1 .. RunsOf(s)
    BY RunsThereAre DEF Whole
  <2>2. ~InRun(s, "runEnd", RunsOf(s) + 1) /\ ~InRun(s, "receipt", RunsOf(s) + 1)
    BY <1>1, <2>1, Domains DEF InRun
  <2> QED
    BY <1>1, <2>2, OneMore
<1>8. \A k \in 1 .. RunsOf(t) : InRun(t, "runEnd", k) \/ k = RunsOf(t)
  <2>1. \A k \in 1 .. RunsOf(t) : k \in 1 .. RunsOf(s) \/ k = RunsOf(t)
    BY <1>1
  <2> QED
    BY <1>2, <2>1, OneMore
<1>9. \A c1 \in AskedIn(t) : Told(t, c1)
  BY <1>3, OneMore
<1> HIDE DEF t
<1>10. OpenRun(t, "asked", d)
  BY <1>7 DEF OpenRun
<1>11. CallsTold(t, Nothing, "asked") /\ RunsEnded(t, Nothing, "asked") /\ JobsEnded(t, Nothing, "asked")
  BY <1>8, <1>9 DEF CallsTold, RunsEnded, JobsEnded, Active
<1>12. Fresh(t, Nothing)
  BY NothingThere DEF Fresh
<1> QED
  BY <1>5, <1>6, <1>10, <1>11, <1>12 DEF Whole, t

\* Any other entry of a run, which takes the writer from w to v.
LEMMA EntryIsWhole ==
  ASSUME NEW s \in Seq(Entries), NEW e \in Entries, NEW w, NEW v, NEW c, NEW d,
         Whole(s, Nothing, w, c), Follows(s, e), e.type # "request",
         w \in Active, v \in Active \cup {"idle"},
         e.type = "reply" => e.of = {} \/ (v \in Pre /\ RunsOf(s) = 1),
         v \in Active => e.type # "runEnd",
         v \in Pre => w \in Pre /\ e.type # "receipt",
         v \in {"calling", "answered"} => RunsOf(s) = 1 /\ ~Told(s, d) /\ ~Outcome(e, d),
         v = "answered" => About(Append(s, e), "answer", d),
         v \notin Pre /\ w \in Pre /\ RunsOf(s) = 1 => \A x \in AskedIn(s) : Told(s, x),
         v \notin Active => e.type = "runEnd" /\ e.run = RunsOf(s)
  PROVE  Whole(Append(s, e), Nothing, v, d)
<1> DEFINE t == Append(s, e)
<1>1. RunsOf(s) \in Nat /\ RunsOf(t) = RunsOf(s)
  BY RunsAreCounted, RunsAfterAppend
<1>2. Shape(t)
  BY ShapeGrows DEF Whole
<1>3. Fresh(t, Nothing)
  BY NothingThere DEF Fresh
<1>4. /\ \A type, run : InRun(t, type, run) <=> InRun(s, type, run) \/ (e.type = type /\ e.run = run)
      /\ \A x : Told(t, x) <=> Told(s, x) \/ Outcome(e, x)
      /\ \A x : x \in AskedIn(t) <=> x \in AskedIn(s) \/ (e.type = "reply" /\ x \in e.of)
  BY OneMore
<1>5. OpenRun(s, w, c) /\ w \notin Down
  BY DEF Whole, Active, Down
<1> HIDE DEF t
<1>6. OpenRun(t, v, d)
  <2>1. v \in Active => ~InRun(t, "runEnd", RunsOf(t))
    BY <1>1, <1>4, <1>5 DEF OpenRun
  <2>2. v \in Pre => ~InRun(t, "receipt", RunsOf(t))
    BY <1>1, <1>4, <1>5 DEF OpenRun
  <2>3. v \in {"calling", "answered"} => RunsOf(t) = 1 /\ ~Told(t, d)
    BY <1>1, <1>4
  <2>4. v = "answered" => About(t, "answer", d)
    BY DEF t
  <2> QED
    BY <2>1, <2>2, <2>3, <2>4 DEF OpenRun
<1>7. CallsTold(t, Nothing, v)
  <2>1. CASE v \in Pre /\ RunsOf(s) = 1
    BY <1>1, <2>1 DEF CallsTold
  <2>2. CASE ~(v \in Pre /\ RunsOf(s) = 1)
    <3>1. \A x \in AskedIn(s) : Told(s, x)
      <4>1. CASE w \in Pre /\ RunsOf(s) = 1
        BY <2>2, <4>1
      <4>2. CASE ~(w \in Pre /\ RunsOf(s) = 1)
        BY <1>5, <4>2, NothingThere DEF Whole, CallsTold
      <4> QED
        BY <4>1, <4>2
    <3>2. \A x \in AskedIn(t) : x \in AskedIn(s)
      BY <1>4, <2>2
    <3> QED
      BY <1>4, <3>1, <3>2 DEF CallsTold
  <2> QED
    BY <2>1, <2>2
<1>8. RunsEnded(t, Nothing, v)
  <2>1. \A k \in 1 .. RunsOf(s) : InRun(s, "runEnd", k) \/ k = RunsOf(s)
    BY <1>5, NothingThere DEF Whole, RunsEnded
  <2>2. \A k \in 1 .. RunsOf(t) : InRun(t, "runEnd", k) \/ (v \in Active /\ k = RunsOf(t))
    BY <1>1, <1>4, <2>1
  <2> QED
    BY <2>2 DEF RunsEnded
<1>9. JobsEnded(t, Nothing, v)
  BY DEF JobsEnded, Active
<1> QED
  BY <1>2, <1>3, <1>6, <1>7, <1>8, <1>9 DEF Whole, t

-----------------------------------------------------------------------------
(* Recovery. *)

\* What recovery() adds clashes with nothing the file has, nor with itself.
LEMMA RecoveredIsNew ==
  ASSUME NEW s \in Seq(Entries), Shape(s), NEW e \in Recovered(s), NEW i \in 1 .. Len(s)
  PROVE  ~Clash(s[i], e)
<1>1. DOMAIN s = 1 .. Len(s)
  BY Domains
<1>2. CASE e \in Results(s)
  <2>1. PICK c \in Answered(s) : e = Entry("result", 1, c)
    BY <1>2 DEF Results
  <2>2. e.type = "result" /\ e.of = c
    BY <2>1 DEF Entry
  <2>3. PICK k \in 1 .. Len(s) : s[k].type = "answer" /\ s[k].of = c
    BY <1>1 DEF Answered, About
  <2>4. ~(s[i].type = "result" /\ s[i].of = c)
    BY <1>1 DEF Answered, About
  <2>5. ~(s[i].type = "repair" /\ s[i].of[1] = c)
    <3>1. i = k \/ ~Clash(s[i], s[k])
      BY DEF Shape
    <3> QED
      BY <2>3, <3>1 DEF Clash
  <2>6. ~\E x \in Calls : Outcome(s[i], x) /\ Outcome(e, x)
    BY <2>2, <2>4, <2>5 DEF Outcome
  <2> QED
    BY <2>2, <2>6 DEF Clash, JobOver
<1>3. CASE e \in RepairsOf(s)
  <2>1. PICK c \in Repaired(s) : e = Entry("repair", 1, <<c, RepairOf(s, c)>>)
    BY <1>3 DEF RepairsOf
  <2>2. e.type = "repair" /\ e.of[1] = c
    BY <2>1 DEF Entry
  <2>3. RepairOf(s, c) # "none" /\ c \in AskedIn(s) /\ c \notin Answered(s)
    BY DEF Repaired
  <2>4. ~About(s, "result", c) /\ ~\E k \in DOMAIN s : s[k].type = "repair" /\ s[k].of[1] = c
    BY <2>3 DEF RepairOf, Repairs
  <2>5. ~About(s, "answer", c)
    BY <2>3, <2>4 DEF Answered
  <2>6. ~\E x \in Calls : Outcome(s[i], x) /\ Outcome(e, x)
    BY <1>1, <2>2, <2>4 DEF Outcome, About
  <2>7. ~(s[i].type = "answer" /\ e.of[1] = s[i].of)
    BY <1>1, <2>2, <2>5 DEF About
  <2> QED
    BY <2>2, <2>6, <2>7 DEF Clash, JobOver
<1>4. CASE e \in JobsLost(s)
  <2>1. PICK j \in JobsGoing(s) : e = Entry("jobUnknown", 1, j)
    BY <1>4 DEF JobsLost
  <2>2. e.type = "jobUnknown"
    BY <2>1 DEF Entry
  <2>3. ~About(s, "jobEnd", Kid) /\ ~About(s, "jobUnknown", Kid)
    BY DEF JobsGoing
  <2>4. JobOver(s[i]) => s[i].of = Kid
    BY DEF Shape, Ordered
  <2>5. ~JobOver(s[i])
    BY <1>1, <2>3, <2>4 DEF About, JobOver
  <2> QED
    BY <2>2, <2>5 DEF Clash, Outcome
<1>5. CASE e \in ReceiptLost(s) \cup EndLost(s)
  <2>1. \/ e = Entry("receipt", RunsOf(s), "none") /\ ~InRun(s, "receipt", RunsOf(s))
        \/ e = Entry("runEnd", RunsOf(s), "interrupted") /\ ~InRun(s, "runEnd", RunsOf(s))
    BY <1>5 DEF ReceiptLost, EndLost, Interrupted, LacksReceipt
  <2>2. e.type \in {"receipt", "runEnd"} /\ e.run = RunsOf(s) /\ ~InRun(s, e.type, e.run)
    BY <2>1 DEF Entry
  <2>3. ~(s[i].type = e.type /\ s[i].run = e.run)
    BY <1>1, <2>2 DEF InRun
  <2> QED
    BY <2>2, <2>3 DEF Clash, Outcome, JobOver
<1> QED
  BY <1>2, <1>3, <1>4, <1>5 DEF Recovered

LEMMA RecoveredIsOneOfEach ==
  ASSUME NEW s \in Seq(Entries), NEW d \in Recovered(s), NEW e \in Recovered(s), d # e
  PROVE  ~Clash(d, e)
<1>1. /\ \A x \in Results(s) : x.type = "result" /\ x.of \in Answered(s) /\ x = Entry("result", 1, x.of)
      /\ \A x \in RepairsOf(s) : x.type = "repair" /\ x.of[1] \in Repaired(s)
                                 /\ x = Entry("repair", 1, <<x.of[1], RepairOf(s, x.of[1])>>)
      /\ \A x \in JobsLost(s) : x.type = "jobUnknown" /\ x = Entry("jobUnknown", 1, Kid)
      /\ \A x \in ReceiptLost(s) : x.type = "receipt" /\ x = Entry("receipt", RunsOf(s), "none")
      /\ \A x \in EndLost(s) : x.type = "runEnd" /\ x = Entry("runEnd", RunsOf(s), "interrupted")
  <2>1. \A x \in Results(s) : x.type = "result" /\ x.of \in Answered(s) /\ x = Entry("result", 1, x.of)
    BY DEF Results, Entry
  <2>2. ASSUME NEW x \in RepairsOf(s)
        PROVE  x.type = "repair" /\ x.of[1] \in Repaired(s) /\ x = Entry("repair", 1, <<x.of[1], RepairOf(s, x.of[1])>>)
    <3>1. PICK c \in Repaired(s) : x = Entry("repair", 1, <<c, RepairOf(s, c)>>)
      BY DEF RepairsOf
    <3>2. x.type = "repair" /\ x.of = <<c, RepairOf(s, c)>>
      BY <3>1 DEF Entry
    <3>3. x.of[1] = c
      BY <3>2
    <3> QED
      BY <3>1, <3>2, <3>3
  <2>3. \A x \in JobsLost(s) : x.type = "jobUnknown" /\ x = Entry("jobUnknown", 1, Kid)
    BY DEF JobsLost, JobsGoing, Entry
  <2>4. /\ \A x \in ReceiptLost(s) : x.type = "receipt" /\ x = Entry("receipt", RunsOf(s), "none")
        /\ \A x \in EndLost(s) : x.type = "runEnd" /\ x = Entry("runEnd", RunsOf(s), "interrupted")
    BY DEF ReceiptLost, EndLost, Entry
  <2> QED
    BY <2>1, <2>2, <2>3, <2>4
<1>2. \A x \in Recovered(s) :
        /\ x.type \in {"result", "repair", "jobUnknown", "receipt", "runEnd"}
        /\ x.type = "result" => x.of \in Answered(s) /\ x = Entry("result", 1, x.of)
        /\ x.type = "repair" => x.of[1] \in Repaired(s) /\ x = Entry("repair", 1, <<x.of[1], RepairOf(s, x.of[1])>>)
        /\ x.type = "jobUnknown" => x = Entry("jobUnknown", 1, Kid)
        /\ x.type = "receipt" => x = Entry("receipt", RunsOf(s), "none")
        /\ x.type = "runEnd" => x = Entry("runEnd", RunsOf(s), "interrupted")
  BY <1>1 DEF Recovered
<1>3. Answered(s) \cap Repaired(s) = {}
  BY DEF Repaired
<1>4. ~\E c \in Calls : Outcome(d, c) /\ Outcome(e, c)
  <2> SUFFICES ASSUME NEW c \in Calls, Outcome(d, c), Outcome(e, c) PROVE FALSE
    OBVIOUS
  <2>1. \/ d.type = "result" /\ d.of = c /\ c \in Answered(s)
        \/ d.type = "repair" /\ d.of[1] = c /\ c \in Repaired(s)
    BY <1>2 DEF Outcome
  <2>2. \/ e.type = "result" /\ e.of = c /\ c \in Answered(s)
        \/ e.type = "repair" /\ e.of[1] = c /\ c \in Repaired(s)
    BY <1>2 DEF Outcome
  <2>3. d.type = e.type
    BY <1>3, <2>1, <2>2
  <2> QED
    BY <1>2, <2>1, <2>2, <2>3
<1> QED
  BY <1>2, <1>4 DEF Clash, JobOver

\* What recovery() adds leaves no call, job or run open.
LEMMA RecoveryIsWhole ==
  ASSUME NEW f \in Files, NEW s \in Seq(Entries), FileOK(f, s), Shape(s), NEW c
  PROVE  Whole(s, Recovery(s), "opening", c)
<1> DEFINE t == Recovery(s)
<1>1. Lists(t, Recovered(s)) /\ t \in Seq(Entries)
  BY AskedInAFile, RecoveryIsListed, RecoveryAdds
<1> HIDE DEF t
<1>2. Len(t) \in Nat /\ DOMAIN t = 1 .. Len(t) /\ \A j \in 1 .. Len(t) : t[j] \in Recovered(s)
  BY <1>1, Domains DEF Lists
<1>3. \A e \in Recovered(s) : \E j \in DOMAIN t : t[j] = e
  BY <1>1, <1>2 DEF Lists
<1>4. Fresh(s, t)
  <2>1. \A i \in 1 .. Len(s), j \in 1 .. Len(t) : ~Clash(s[i], t[j])
    BY <1>2, RecoveredIsNew
  <2>2. \A i, j \in 1 .. Len(t) : i # j => ~Clash(t[i], t[j])
    BY <1>1, <1>2, RecoveredIsOneOfEach DEF Lists
  <2> QED
    BY <2>1, <2>2 DEF Fresh
<1>5. CallsTold(s, t, "opening")
  <2>1. ASSUME NEW x \in AskedIn(s), ~Told(s, x) PROVE Told(t, x)
    <3>1. ~About(s, "result", x) /\ ~\E i \in DOMAIN s : s[i].type = "repair" /\ s[i].of[1] = x
      BY <2>1 DEF Told, Outcome, About
    <3>2. CASE About(s, "answer", x)
      <4>1. Entry("result", 1, x) \in Recovered(s)
        BY <3>1, <3>2 DEF Answered, Recovered, Results
      <4>2. Outcome(Entry("result", 1, x), x)
        BY DEF Outcome, Entry
      <4> QED
        BY <1>3, <4>1, <4>2 DEF Told
    <3>3. CASE ~About(s, "answer", x)
      <4>1. RepairOf(s, x) # "none" /\ x \notin Answered(s)
        BY <3>1, <3>3 DEF RepairOf, Repairs, Answered
      <4>2. Entry("repair", 1, <<x, RepairOf(s, x)>>) \in Recovered(s)
        BY <4>1 DEF Repaired, Recovered, RepairsOf
      <4>3. Outcome(Entry("repair", 1, <<x, RepairOf(s, x)>>), x)
        BY DEF Outcome, Entry
      <4> QED
        BY <1>3, <4>2, <4>3 DEF Told
    <3> QED
      BY <3>2, <3>3
  <2> QED
    BY <2>1 DEF CallsTold
<1>6. RunsEnded(s, t, "opening")
  <2>1. RunsOf(s) \in Nat
    BY RunsAreCounted
  <2>2. ASSUME RunsOf(s) > 0, ~InRun(s, "runEnd", RunsOf(s)) PROVE InRun(t, "runEnd", RunsOf(s))
    <3>1. Entry("runEnd", RunsOf(s), "interrupted") \in Recovered(s)
      BY <2>2 DEF Recovered, EndLost, Interrupted
    <3> QED
      BY <1>3, <3>1 DEF InRun, Entry
  <2>3. \A k \in 1 .. RunsOf(s) - 1 : InRun(s, "runEnd", k)
    BY OthersEnded DEF Ended
  <2>4. \A k \in 1 .. RunsOf(s) : InRun(s, "runEnd", k) \/ InRun(t, "runEnd", k)
    BY <2>1, <2>2, <2>3
  <2> QED
    BY <2>4 DEF RunsEnded
<1>7. JobsEnded(s, t, "opening")
  <2>1. ASSUME JobsGoing(s) # {} PROVE About(t, "jobUnknown", Kid)
    <3>1. Entry("jobUnknown", 1, Kid) \in Recovered(s)
      BY <2>1 DEF Recovered, JobsLost, JobsGoing
    <3> QED
      BY <1>3, <3>1 DEF About, Entry
  <2> QED
    BY <2>1 DEF JobsEnded
<1>8. OpenRun(s, "opening", c)
  BY DEF OpenRun, Active, Pre
<1> QED
  BY <1>4, <1>5, <1>6, <1>7, <1>8 DEF Whole, t

\* Once it is all appended, the file is whole without it.
LEMMA RecoveredIsWhole ==
  ASSUME NEW s, NEW c, Whole(s, Nothing, "opening", c)
  PROVE  Whole(s, Nothing, "children", c)
BY DEF Whole, OpenRun, CallsTold, RunsEnded, JobsEnded, Active, Pre, Down

LEMMA OpenedIsWhole ==
  ASSUME NEW s, NEW c, NEW w \in {"opening", "children"}, Whole(s, Nothing, w, c)
  PROVE  Whole(s, Nothing, "idle", c) /\ JobsGoing(s) = {}
<1>1. JobsGoing(s) = {}
  BY NothingThere DEF Whole, JobsEnded
<1> QED
  BY <1>1 DEF Whole, OpenRun, CallsTold, RunsEnded, JobsEnded, Active, Pre, Down

\* One entry of it is appended.
LEMMA RecoveryGoesOn ==
  ASSUME NEW f \in Files, NEW s \in Seq(Entries), NEW t \in Seq(Entries), NEW c,
         Whole(s, t, "opening", c), t # << >>, ToAdd(f, s, Head(t))
  PROVE  Whole(Append(s, Head(t)), Tail(t), "opening", c)
<1> DEFINE e == Head(t)
           u == Tail(t)
           p == Append(s, e)
<1>1. /\ Len(t) \in Nat /\ Len(t) >= 1 /\ e = t[1] /\ e \in Entries /\ u \in Seq(Entries)
      /\ Len(u) = Len(t) - 1 /\ \A i \in 1 .. Len(u) : u[i] = t[i + 1]
  BY HeadTailProperties, Domains
<1>2. DOMAIN t = 1 .. Len(t) /\ DOMAIN u = 1 .. Len(u)
  BY <1>1, Domains
<1>3. /\ e.type \in {"result", "repair", "jobUnknown", "receipt", "runEnd"} /\ e.run \in 1 .. RunsOf(s)
      /\ (e.type = "jobUnknown" => e.of = Kid) /\ (e.type = "runEnd" => e.of = "interrupted")
  BY DEF ToAdd
<1> HIDE DEF e, u
<1>4. \A i \in 1 .. Len(t) : i = 1 \/ (i - 1 \in 1 .. Len(u) /\ t[i] = u[i - 1])
  BY <1>1
<1>5. /\ \A x : Told(t, x) => Outcome(e, x) \/ Told(u, x)
      /\ \A type, k : InRun(t, type, k) => (e.type = type /\ e.run = k) \/ InRun(u, type, k)
      /\ \A type, x : About(t, type, x) => (e.type = type /\ e.of = x) \/ About(u, type, x)
  <2>1. \A x : Told(t, x) => Outcome(e, x) \/ Told(u, x)
    BY <1>1, <1>2, <1>4 DEF Told
  <2>2. \A type, k : InRun(t, type, k) => (e.type = type /\ e.run = k) \/ InRun(u, type, k)
    <3> SUFFICES ASSUME NEW type, NEW k, InRun(t, type, k), ~ (e.type = type /\ e.run = k) PROVE InRun(u, type, k)
      OBVIOUS
    <3>1. PICK i \in 1 .. Len(t) : t[i].type = type /\ t[i].run = k
      BY <1>2 DEF InRun
    <3>2. i - 1 \in 1 .. Len(u) /\ t[i] = u[i - 1]
      BY <1>1, <1>4, <3>1
    <3> QED
      BY <1>2, <3>1, <3>2 DEF InRun
  <2>3. \A type, x : About(t, type, x) => (e.type = type /\ e.of = x) \/ About(u, type, x)
    <3> SUFFICES ASSUME NEW type, NEW x, About(t, type, x), ~ (e.type = type /\ e.of = x) PROVE About(u, type, x)
      OBVIOUS
    <3>1. PICK i \in 1 .. Len(t) : t[i].type = type /\ t[i].of = x
      BY <1>2 DEF About
    <3>2. i - 1 \in 1 .. Len(u) /\ t[i] = u[i - 1]
      BY <1>1, <1>4, <3>1
    <3> QED
      BY <1>2, <3>1, <3>2 DEF About
  <2> QED
    BY <2>1, <2>2, <2>3
<1>6. Follows(s, e)
  <2>1. \A i \in 1 .. Len(s) : ~Clash(s[i], e)
    BY <1>1 DEF Whole, Fresh
  <2> QED
    BY <1>3, <2>1 DEF Follows, JobOver
<1>7. Shape(p)
  BY <1>1, <1>6, ShapeGrows DEF Whole
<1>8. /\ \A x : Told(p, x) <=> Told(s, x) \/ Outcome(e, x)
      /\ \A type, k : InRun(p, type, k) <=> InRun(s, type, k) \/ (e.type = type /\ e.run = k)
      /\ \A type, x : About(p, type, x) <=> About(s, type, x) \/ (e.type = type /\ e.of = x)
      /\ \A x : x \in AskedIn(p) <=> x \in AskedIn(s)
      /\ RunsOf(p) = RunsOf(s)
  BY <1>1, <1>3, OneMore, AfterAppend, RunsAfterAppend
<1>9. Fresh(p, u)
  <2>1. Len(s) \in Nat /\ Len(p) = Len(s) + 1 /\ (\A i \in 1 .. Len(s) : p[i] = s[i]) /\ p[Len(s) + 1] = e
    BY <1>1, Domains, Appended
  <2> HIDE DEF p
  <2>2. \A j \in 1 .. Len(u) : j + 1 \in 1 .. Len(t) /\ u[j] = t[j + 1] /\ j + 1 # 1
    BY <1>1
  <2>3. ASSUME NEW i \in 1 .. Len(p), NEW j \in 1 .. Len(u) PROVE ~Clash(p[i], u[j])
    <3>1. CASE i \in 1 .. Len(s)
      BY <2>1, <2>2, <3>1 DEF Whole, Fresh
    <3>2. CASE i = Len(s) + 1
      <4>1. 1 \in 1 .. Len(t)
        BY <1>1
      <4>2. ~Clash(t[1], t[j + 1])
        BY <2>2, <4>1 DEF Whole, Fresh
      <4> QED
        BY <1>1, <2>1, <2>2, <3>2, <4>2
    <3> QED
      BY <2>1, <3>1, <3>2
  <2>4. ASSUME NEW i \in 1 .. Len(u), NEW j \in 1 .. Len(u), i # j PROVE ~Clash(u[i], u[j])
    <3>1. i + 1 # j + 1
      BY <1>1, <2>4
    <3> QED
      BY <2>2, <3>1 DEF Whole, Fresh
  <2> QED
    BY <2>3, <2>4 DEF Fresh
<1> HIDE DEF p
<1>10. CallsTold(p, u, "opening")
  BY <1>5, <1>8 DEF Whole, CallsTold, Pre, Down
<1>11. RunsEnded(p, u, "opening")
  BY <1>5, <1>8 DEF Whole, RunsEnded, Active, Down
<1>12. JobsEnded(p, u, "opening")
  <2>1. JobsGoing(s) = {} => JobsGoing(p) = {}
    BY <1>3, <1>8 DEF JobsGoing
  <2>2. About(p, "jobUnknown", Kid) => JobsGoing(p) = {}
    BY DEF JobsGoing
  <2> QED
    BY <1>5, <1>8, <2>1, <2>2 DEF Whole, JobsEnded
<1>13. OpenRun(p, "opening", c)
  BY DEF OpenRun, Active, Pre
<1> QED
  BY <1>7, <1>9, <1>10, <1>11, <1>12, <1>13 DEF Whole, p, u, e

-----------------------------------------------------------------------------
(* The steps that append an entry. *)

LEMMA AtFirst == Init => RestInv
<1> SUFFICES ASSUME Init PROVE RestInv
  OBVIOUS
<1>1. \A f \in Files : file[f] = Nothing /\ todo[f] = Nothing /\ stage[f] \in {"idle", "missing"}
  BY DEF Init, Nothing
<1>2. \A f \in Files : At(f) \in {"idle", "missing"}
  BY <1>1 DEF At
<1>3. WholeInv
  BY <1>1, <1>2, NothingIsOpenYet DEF WholeInv
<1>4. StageInv
  BY <1>1 DEF StageInv, Nothing
<1>5. AnswersInv
  BY DEF Init, AnswersInv
<1> QED
  BY <1>3, <1>4, <1>5 DEF RestInv

\* A file that grows by an entry, the others being as they were.
LEMMA Wrote ==
  ASSUME Inv, RestInv, NEW f \in Files, NEW e \in Entries,
         file' = [file EXCEPT ![f] = Append(@, e)], UNCHANGED <<synced, saved>>,
         Whole(Append(file[f], e), todo'[f], At(f)', call'[f]),
         stage'[f] # "missing", stage'[f] = "syncing" => next'[f] \in Active \cup {"idle"},
         \A g \in Files \ {f} : /\ todo'[g] = todo[g] /\ next'[g] = next[g] /\ call'[g] = call[g]
                                /\ stage'[g] = stage[g] \/ (stage[g] = "missing" /\ stage'[g] = "idle")
  PROVE  RestInv'
<1>1. /\ file'[f] = Append(file[f], e) /\ \A g \in Files \ {f} : file'[g] = file[g]
      /\ file[f] \in Seq(Entries)
  BY DEF Inv, TypeInv
<1>2. ASSUME NEW g \in Files \ {f} PROVE Whole(file'[g], todo'[g], At(g)', call'[g])
  <2>1. CASE stage'[g] = stage[g]
    <3>1. At(g)' = At(g)
      BY <2>1 DEF At
    <3> QED
      BY <1>1, <3>1 DEF RestInv, WholeInv
  <2>2. CASE stage[g] = "missing" /\ stage'[g] = "idle"
    <3>1. file[g] = Nothing /\ todo[g] = Nothing
      BY <2>2 DEF RestInv, StageInv, Inv, TodoInv, Nothing
    <3>2. At(g)' = "idle"
      BY <2>2 DEF At
    <3> QED
      BY <1>1, <3>1, <3>2, NothingIsOpenYet
  <2> QED
    BY <2>1, <2>2
<1>3. WholeInv'
  BY <1>1, <1>2 DEF WholeInv
<1>4. StageInv'
  BY <1>1 DEF RestInv, StageInv
<1>5. ASSUME NEW c \in saved PROVE \E g \in Files : c \in CallsOf[g] /\ \E i \in 1 .. synced[g] :
                                     file'[g][i].type = "answer" /\ file'[g][i].of = c
  <2>1. PICK g \in Files : c \in CallsOf[g] /\ \E i \in 1 .. synced[g] :
                             file[g][i].type = "answer" /\ file[g][i].of = c
    BY DEF RestInv, AnswersInv
  <2>2. synced[g] \in Nat /\ synced[g] <= Len(file[g]) /\ Len(file[g]) \in Nat
    BY Domains DEF Inv, TypeInv
  <2>3. \A i \in 1 .. synced[g] : file'[g][i] = file[g][i]
    <3>1. CASE g = f
      BY <1>1, <2>2, <3>1, Appended
    <3>2. CASE g # f
      BY <1>1, <3>2
    <3> QED
      BY <3>1, <3>2
  <2> QED
    BY <2>1, <2>3
<1>6. AnswersInv'
  BY <1>5 DEF AnswersInv
<1> QED
  BY <1>3, <1>4, <1>6 DEF RestInv

\* A session whose run is at work.
LEMMA AtWork ==
  ASSUME Inv, RestInv, NEW f \in Files, stage[f] \in Active
  PROVE  /\ file[f] \in Seq(Entries) /\ Shape(file[f])
         /\ Run(f) \in Nat /\ Run(f) \in 1 .. Run(f) /\ Run(f) = RunsOf(file[f])
         /\ (Run(f) = 1 => ~Has(file[f], "repair"))
         /\ Whole(file[f], Nothing, stage[f], call[f]) /\ OpenRun(file[f], stage[f], call[f])
<1>1. Working(f)
  BY DEF Working
<1>2. file[f] \in Seq(Entries) /\ Run(f) = RunsOf(file[f])
  BY DEF Inv, TypeInv, Run
<1>3. Run(f) \in 1 .. MaxRun /\ Run(f) \in Nat /\ (Run(f) = 1 => ~Has(file[f], "repair"))
  BY <1>1, RunAtWork
<1>4. Run(f) \in 1 .. Run(f)
  BY <1>3
<1>5. todo[f] = Nothing
  BY DEF Inv, TodoInv, Nothing, Active
<1>6. At(f) = stage[f]
  BY DEF At, Active
<1>7. Whole(file[f], Nothing, stage[f], call[f])
  BY <1>5, <1>6 DEF RestInv, WholeInv
<1> QED
  BY <1>2, <1>3, <1>4, <1>7 DEF Whole

\* An entry of a run that is at work takes its writer to v.
LEMMA RunWrites ==
  ASSUME Inv, RestInv, NEW f \in Files, stage[f] \in Active, NEW e \in Entries, NEW v \in Active \cup {"idle"},
         file' = [file EXCEPT ![f] = Append(@, e)], UNCHANGED <<todo, synced, saved>>,
         stage'[f] = v \/ (stage'[f] = "syncing" /\ next'[f] = v),
         \A g \in Files \ {f} : /\ next'[g] = next[g] /\ call'[g] = call[g]
                                /\ stage'[g] = stage[g] \/ (stage[g] = "missing" /\ stage'[g] = "idle"),
         Follows(file[f], e), e.type # "request",
         e.type = "reply" => e.of = {} \/ (v \in Pre /\ Run(f) = 1),
         v \in Active => e.type # "runEnd",
         v \in Pre => stage[f] \in Pre /\ e.type # "receipt",
         v \in {"calling", "answered"} => Run(f) = 1 /\ ~Told(file[f], call'[f]) /\ ~Outcome(e, call'[f]),
         v = "answered" => About(Append(file[f], e), "answer", call'[f]),
         v \notin Pre /\ stage[f] \in Pre /\ Run(f) = 1 => \A x \in AskedIn(file[f]) : Told(file[f], x),
         v \notin Active => e.type = "runEnd" /\ e.run = Run(f)
  PROVE  RestInv'
<1> DEFINE s == file[f]
<1>1. /\ s \in Seq(Entries) /\ Run(f) = RunsOf(s) /\ Whole(s, Nothing, stage[f], call[f])
  BY AtWork
<1>2. todo'[f] = Nothing
  BY DEF Inv, TodoInv, Nothing, Active
<1>3. At(f)' = v /\ stage'[f] # "missing" /\ (stage'[f] = "syncing" => next'[f] \in Active \cup {"idle"})
  BY DEF At, Active
<1>4. Whole(Append(s, e), Nothing, v, call'[f])
  <2> HIDE DEF s
  <2> DEFINE w == stage[f]
             c == call[f]
             d == call'[f]
  <2>1. /\ s \in Seq(Entries) /\ Whole(s, Nothing, w, c) /\ Follows(s, e) /\ w \in Active
        /\ (e.type = "reply" => e.of = {} \/ (v \in Pre /\ RunsOf(s) = 1))
        /\ (v \in Pre => w \in Pre /\ e.type # "receipt")
        /\ (v \in {"calling", "answered"} => RunsOf(s) = 1 /\ ~Told(s, d) /\ ~Outcome(e, d))
        /\ (v = "answered" => About(Append(s, e), "answer", d))
        /\ (v \notin Pre /\ w \in Pre /\ RunsOf(s) = 1 => \A x \in AskedIn(s) : Told(s, x))
        /\ (v \notin Active => e.type = "runEnd" /\ e.run = RunsOf(s))
    BY <1>1 DEF s
  <2> HIDE DEF w, c, d
  <2>2. Whole(Append(s, e), Nothing, v, d)
    BY <2>1, EntryIsWhole
  <2> QED
    BY <2>2 DEF d
<1> QED
  BY <1>2, <1>3, <1>4, Wrote

LEMMA PlainEntry ==
  ASSUME NEW s, NEW e, e.type \in {"reply", "intent", "settled", "jobStart"}, e.run \in 1 .. RunsOf(s)
  PROVE  Follows(s, e)
BY DEF Follows, Clash, Outcome, JobOver

LEMMA RequestRest == ASSUME Inv, RestInv, NEW f \in Files, Request(f) PROVE RestInv'
<1> DEFINE e == Entry("request", Run(f) + 1, "none")
<1>1. file[f] \in Seq(Entries) /\ Run(f) \in Nat /\ Run(f) = RunsOf(file[f])
  BY RunsAreCounted DEF Inv, TypeInv, Run
<1>2. e \in Entries /\ e.type = "request" /\ e.run = RunsOf(file[f]) + 1
  <2> DEFINE k == Run(f) + 1
  <2>1. k \in Nat /\ k = RunsOf(file[f]) + 1
    BY <1>1
  <2>2. "request" \in Types /\ "none" \in Of
    BY DEF Types, Of, Words
  <2> HIDE DEF k
  <2>3. Entry("request", k, "none") \in Entries /\ Entry("request", k, "none").type = "request" /\ Entry("request", k, "none").run = k
    BY <2>1, <2>2, AnEntry
  <2> QED
    BY <2>1, <2>3 DEF k
<1> HIDE DEF e
<1>3. /\ stage[f] = "idle" /\ file' = [file EXCEPT ![f] = Append(@, e)]
      /\ stage' = [stage EXCEPT ![f] = "syncing"] /\ next' = [next EXCEPT ![f] = "asked"]
      /\ UNCHANGED <<synced, todo, call, saved>>
  BY DEF Request, AppendSynced, unrecovered, e
<1>4. stage'[f] = "syncing" /\ next'[f] = "asked" /\ \A g \in Files \ {f} : stage'[g] = stage[g] /\ next'[g] = next[g]
  BY <1>3 DEF Inv, TypeInv
<1>5. At(f)' = "asked" /\ At(f) = "idle"
  BY <1>3, <1>4 DEF At
<1>6. todo[f] = Nothing
  BY <1>3 DEF Inv, TodoInv, Nothing
<1>7. Whole(file[f], Nothing, "idle", call[f])
  BY <1>5, <1>6 DEF RestInv, WholeInv
<1>8. Whole(Append(file[f], e), Nothing, "asked", call'[f])
  BY <1>1, <1>2, <1>7, RequestIsWhole
<1>9. "asked" \in Active
  BY DEF Active
<1> QED
  BY <1>2, <1>3, <1>4, <1>5, <1>6, <1>8, <1>9, Wrote

LEMMA ReplyRest == ASSUME Inv, RestInv, NEW f \in Files, Reply(f) PROVE RestInv'
<1>0. PICK S \in Replies[f] : AppendTo(f, Entry("reply", Run(f), IF Run(f) = 1 THEN S ELSE {}), "replied")
  BY DEF Reply
<1> DEFINE of == IF Run(f) = 1 THEN S ELSE {}
           e == Entry("reply", Run(f), of)
<1>1. stage[f] = "asked" /\ stage[f] \in Active
  BY DEF Reply, Active
<1>2. Run(f) \in Nat /\ Run(f) \in 1 .. Run(f) /\ Run(f) = RunsOf(file[f])
  BY <1>1, AtWork
<1>3. (of # {} => Run(f) = 1) /\ of \in Of
  <2>1. of \subseteq Calls
    BY Constants
  <2> QED
    BY <2>1 DEF Of
<1> HIDE DEF of
<1>4. e \in Entries /\ e.type = "reply" /\ e.run = Run(f) /\ e.of = of
  BY <1>2, <1>3, AnEntry DEF Types
<1> HIDE DEF e
<1>5. /\ file' = [file EXCEPT ![f] = Append(@, e)] /\ stage' = [stage EXCEPT ![f] = "replied"]
      /\ UNCHANGED <<next, synced, todo, call, saved>>
  BY <1>0 DEF Reply, AppendTo, unrecovered, e, of
<1>6. stage'[f] = "replied" /\ \A g \in Files \ {f} : stage'[g] = stage[g]
  BY <1>5 DEF Inv, TypeInv
<1>7. Follows(file[f], e)
  BY <1>2, <1>4, PlainEntry
<1>8. "replied" \in Active /\ "replied" \in Pre /\ "asked" \in Pre /\ "replied" \notin {"calling", "answered"}
  BY DEF Active, Pre
<1> QED
  BY <1>1, <1>3, <1>4, <1>5, <1>6, <1>7, <1>8, RunWrites

LEMMA IntentRest == ASSUME Inv, RestInv, NEW f \in Files, Intent(f) PROVE RestInv'
<1>1. PICK c \in Calls : /\ IsNext(f, c)
                         /\ call' = [call EXCEPT ![f] = c]
                         /\ AppendSynced(f, Entry("intent", Run(f), c), "calling")
  BY DEF Intent
<1> DEFINE e == Entry("intent", Run(f), c)
<1>2. stage[f] = "replied" /\ stage[f] \in Active
  BY DEF Intent, Active
<1>3. /\ file[f] \in Seq(Entries) /\ Run(f) \in Nat /\ Run(f) \in 1 .. Run(f) /\ Run(f) = RunsOf(file[f])
      /\ (Run(f) = 1 => ~Has(file[f], "repair"))
  BY <1>2, AtWork
<1>4. Run(f) = 1
  <2>1. PICK i \in DOMAIN file[f] : file[f][i].type = "reply" /\ file[f][i].run = Run(f) /\ c \in file[f][i].of
    BY <1>1 DEF IsNext, Unanswered
  <2>2. i \in 1 .. Len(file[f])
    BY <1>3, <2>1, Domains
  <2> QED
    BY <2>1, <2>2 DEF Inv, FilesInv, FileOK, EntryOK
<1>5. ~Told(file[f], c)
  <2>1. ~About(file[f], "result", c)
    BY <1>1 DEF IsNext, Unanswered
  <2> QED
    BY <1>3, <1>4, <2>1 DEF Told, Outcome, About, Has
<1>6. e \in Entries /\ e.type = "intent" /\ e.run = Run(f) /\ e.of = c
  BY <1>3, AnEntry DEF Types, Of
<1> HIDE DEF e
<1>7. /\ file' = [file EXCEPT ![f] = Append(@, e)]
      /\ stage' = [stage EXCEPT ![f] = "syncing"] /\ next' = [next EXCEPT ![f] = "calling"]
      /\ UNCHANGED <<synced, todo, saved>>
  BY <1>1 DEF Intent, AppendSynced, unrecovered, e
<1>8. /\ stage'[f] = "syncing" /\ next'[f] = "calling" /\ call'[f] = c
      /\ \A g \in Files \ {f} : stage'[g] = stage[g] /\ next'[g] = next[g] /\ call'[g] = call[g]
  BY <1>1, <1>7 DEF Inv, TypeInv
<1>9. Follows(file[f], e)
  BY <1>3, <1>6, PlainEntry
<1>10. "calling" \in Active /\ "calling" \in Pre /\ "replied" \in Pre /\ ~Outcome(e, c)
  BY <1>6 DEF Active, Pre, Outcome
<1> QED
  BY <1>2, <1>4, <1>5, <1>6, <1>7, <1>8, <1>9, <1>10, RunWrites

LEMMA AnswerRest == ASSUME Inv, RestInv, NEW f \in Files, Answer(f) PROVE RestInv'
<1> DEFINE c == call[f]
           e == Entry("answer", Run(f), c)
<1>1. stage[f] = "calling" /\ stage[f] \in Active /\ Calling(f)
  BY DEF Answer, Active, Calling
<1>2. /\ file[f] \in Seq(Entries) /\ Run(f) \in Nat /\ Run(f) \in 1 .. Run(f) /\ Run(f) = RunsOf(file[f])
      /\ (Run(f) = 1 => ~Has(file[f], "repair")) /\ OpenRun(file[f], "calling", c)
  BY <1>1, AtWork
<1>3. /\ Run(f) = 1 /\ ~Told(file[f], c) /\ ~InRun(file[f], "runEnd", Run(f))
      /\ About(file[f], "intent", c) /\ ~About(file[f], "answer", c) /\ c \in Of
  BY <1>1, <1>2 DEF OpenRun, Active, Answer, Inv, CallInv, TypeInv, Of
<1>4. e \in Entries /\ e.type = "answer" /\ e.run = Run(f) /\ e.of = c
  BY <1>2, <1>3, AnEntry DEF Types
<1> HIDE DEF e
<1>5. /\ file' = [file EXCEPT ![f] = Append(@, e)]
      /\ stage' = [stage EXCEPT ![f] = "syncing"] /\ next' = [next EXCEPT ![f] = "answered"]
      /\ UNCHANGED <<synced, todo, call, saved>>
  BY DEF Answer, AppendSynced, unrecovered, e
<1>6. /\ stage'[f] = "syncing" /\ next'[f] = "answered" /\ call'[f] = c
      /\ \A g \in Files \ {f} : stage'[g] = stage[g] /\ next'[g] = next[g]
  BY <1>5 DEF Inv, TypeInv
<1> HIDE DEF c
<1>7. Follows(file[f], e)
  <2>1. ~About(file[f], "result", c)
    BY <1>3 DEF Told, Outcome, About
  <2>2. \A i \in 1 .. Len(file[f]) : file[f][i].type # "repair"
    BY <1>2, <1>3, Domains DEF Has
  <2>3. \A i \in 1 .. Len(file[f]) : ~Clash(file[f][i], e)
    BY <1>4, <2>2 DEF Clash, Outcome, JobOver
  <2> QED
    BY <1>2, <1>3, <1>4, <2>1, <2>3 DEF Follows, JobOver
<1>8. About(Append(file[f], e), "answer", c)
  BY <1>2, <1>4, AfterAppend
<1>9. "answered" \in Active /\ "answered" \in Pre /\ "calling" \in Pre /\ ~Outcome(e, c)
  BY <1>4 DEF Active, Pre, Outcome
<1> QED
  BY <1>1, <1>3, <1>4, <1>5, <1>6, <1>7, <1>8, <1>9, RunWrites

LEMMA JobStartRest == ASSUME Inv, RestInv, NEW f \in Files, JobStart(f) PROVE RestInv'
<1> DEFINE e == Entry("jobStart", Run(f), Kid)
<1>1. f = Top /\ stage[f] = "calling" /\ stage[f] \in Active
  BY DEF JobStart, Active
<1>2. /\ file[f] \in Seq(Entries) /\ Run(f) \in Nat /\ Run(f) \in 1 .. Run(f) /\ Run(f) = RunsOf(file[f])
      /\ OpenRun(file[f], "calling", call[f])
  BY <1>1, AtWork
<1>3. e \in Entries /\ e.type = "jobStart" /\ e.run = Run(f)
  BY <1>2, AnEntry DEF Types, Of
<1> HIDE DEF e
<1>4. /\ file' = [file EXCEPT ![f] = Append(@, e)] /\ stage[Kid] = "missing"
      /\ stage' = [stage EXCEPT ![f] = "syncing", ![Kid] = "idle"] /\ next' = [next EXCEPT ![f] = "calling"]
      /\ UNCHANGED <<synced, todo, call, saved>>
  BY DEF JobStart, e
<1>5. /\ stage'[f] = "syncing" /\ next'[f] = "calling" /\ stage'[Kid] = "idle"
      /\ \A g \in Files \ {f} : next'[g] = next[g] /\ (stage'[g] = stage[g] \/ (stage[g] = "missing" /\ stage'[g] = "idle"))
  BY <1>1, <1>4, Constants DEF Inv, TypeInv
<1>6. Follows(file[f], e)
  BY <1>2, <1>3, PlainEntry
<1>7. "calling" \in Active /\ "calling" \in Pre /\ ~Outcome(e, call[f]) /\ Run(f) = 1 /\ ~Told(file[f], call[f])
  BY <1>2, <1>3 DEF Active, Pre, Outcome, OpenRun
<1> QED
  BY <1>1, <1>3, <1>4, <1>5, <1>6, <1>7, RunWrites

LEMMA JobEndRest == ASSUME Inv, RestInv, NEW f \in Files, JobEnd(f) PROVE RestInv'
<1> DEFINE e == Entry("jobEnd", Run(f), Kid)
           w == stage[f]
<1>1. w \in Active
  BY DEF JobEnd, Active
<1>2. /\ file[f] \in Seq(Entries) /\ Run(f) \in Nat /\ Run(f) \in 1 .. Run(f) /\ Run(f) = RunsOf(file[f])
      /\ OpenRun(file[f], w, call[f]) /\ Shape(file[f])
  BY <1>1, AtWork
<1>3. e \in Entries /\ e.type = "jobEnd" /\ e.run = Run(f) /\ e.of = Kid
  BY <1>2, AnEntry DEF Types, Of
<1> HIDE DEF e
<1>4. /\ file' = [file EXCEPT ![f] = Append(@, e)]
      /\ stage' = [stage EXCEPT ![f] = "syncing"] /\ next' = [next EXCEPT ![f] = w]
      /\ UNCHANGED <<synced, todo, call, saved>>
  BY DEF JobEnd, AppendSynced, unrecovered, e
<1>5. /\ stage'[f] = "syncing" /\ next'[f] = w
      /\ \A g \in Files \ {f} : stage'[g] = stage[g] /\ next'[g] = next[g]
  BY <1>4 DEF Inv, TypeInv
<1>6. Follows(file[f], e)
  <2>1. ~About(file[f], "jobEnd", Kid) /\ ~About(file[f], "jobUnknown", Kid)
    BY DEF JobEnd, JobsGoing
  <2>2. \A i \in 1 .. Len(file[f]) : JobOver(file[f][i]) => file[f][i].of = Kid
    BY <1>2 DEF Shape, Ordered
  <2>3. \A i \in 1 .. Len(file[f]) : ~JobOver(file[f][i])
    BY <1>2, <2>1, <2>2, Domains DEF JobOver, About
  <2>4. \A i \in 1 .. Len(file[f]) : ~Clash(file[f][i], e)
    BY <1>3, <2>3 DEF Clash, Outcome
  <2> QED
    BY <1>2, <1>3, <2>4 DEF Follows
<1>7. w \in {"calling", "answered"} => Run(f) = 1 /\ ~Told(file[f], call[f]) /\ ~Outcome(e, call[f])
  BY <1>2, <1>3 DEF OpenRun, Outcome
<1>8. w = "answered" => About(Append(file[f], e), "answer", call[f])
  BY <1>2, <1>3, AfterAppend DEF OpenRun
<1> QED
  BY <1>1, <1>3, <1>4, <1>5, <1>6, <1>7, <1>8, RunWrites

LEMMA ResultRest == ASSUME Inv, RestInv, NEW f \in Files, Result(f) PROVE RestInv'
<1> DEFINE c == call[f]
           e == Entry("result", Run(f), c)
<1>1. stage[f] \in {"calling", "answered"} /\ stage[f] \in Active /\ stage[f] \in Pre
  BY DEF Result, Active, Pre
<1>2. /\ file[f] \in Seq(Entries) /\ Run(f) \in Nat /\ Run(f) \in 1 .. Run(f) /\ Run(f) = RunsOf(file[f])
      /\ OpenRun(file[f], stage[f], c)
  BY <1>1, AtWork
<1>3. ~Told(file[f], c) /\ c \in Of
  BY <1>1, <1>2 DEF OpenRun, Inv, TypeInv, Of
<1>4. e \in Entries /\ e.type = "result" /\ e.run = Run(f) /\ e.of = c
  BY <1>2, <1>3, AnEntry DEF Types
<1> HIDE DEF e
<1>5. /\ file' = [file EXCEPT ![f] = Append(@, e)] /\ stage' = [stage EXCEPT ![f] = "replied"]
      /\ call' = [call EXCEPT ![f] = 0]
      /\ UNCHANGED <<next, synced, todo, saved>>
  BY DEF Result, AppendTo, unrecovered, e
<1>6. stage'[f] = "replied" /\ \A g \in Files \ {f} : stage'[g] = stage[g] /\ next'[g] = next[g] /\ call'[g] = call[g]
  BY <1>5 DEF Inv, TypeInv
<1> HIDE DEF c
<1>7. Follows(file[f], e)
  <2>1. \A i \in 1 .. Len(file[f]) : ~Outcome(file[f][i], c)
    BY <1>2, <1>3, Domains DEF Told
  <2>2. \A i \in 1 .. Len(file[f]) : ~Clash(file[f][i], e)
    BY <1>4, <2>1 DEF Clash, Outcome, JobOver
  <2> QED
    BY <1>2, <1>4, <2>2 DEF Follows, JobOver
<1>8. "replied" \in Active /\ "replied" \in Pre
  BY DEF Active, Pre
<1> QED
  BY <1>1, <1>4, <1>5, <1>6, <1>7, <1>8, RunWrites

\* The calls of the run's reply each have a result.
LEMMA AllTold ==
  ASSUME Inv, RestInv, NEW f \in Files, stage[f] \in Active, Unanswered(f) = {}, Run(f) = 1
  PROVE  \A x \in AskedIn(file[f]) : Told(file[f], x)
<1> SUFFICES ASSUME NEW x \in AskedIn(file[f]) PROVE Told(file[f], x)
  OBVIOUS
<1>1. PICK i \in DOMAIN file[f] : file[f][i].type = "reply" /\ x \in file[f][i].of
  BY AskedMeans
<1>2. i \in 1 .. Len(file[f])
  BY Domains DEF Inv, TypeInv
<1>3. file[f][i].run = Run(f)
  BY <1>1, <1>2 DEF Inv, FilesInv, FileOK, EntryOK
<1>4. About(file[f], "result", x)
  BY <1>1, <1>3 DEF Unanswered
<1> QED
  BY <1>4 DEF Told, Outcome, About

\* The verifier gives no receipt.
LEMMA NoReceiptIsWhole ==
  ASSUME NEW s, NEW c, NEW d, Whole(s, Nothing, "replied", c), RunsOf(s) = 1 => \A x \in AskedIn(s) : Told(s, x)
  PROVE  Whole(s, Nothing, "settling", d)
<1>1. CallsTold(s, Nothing, "settling")
  BY NothingThere DEF Whole, CallsTold, Pre, Down
<1>2. RunsEnded(s, Nothing, "settling")
  BY DEF Whole, RunsEnded, Active, Down
<1>3. OpenRun(s, "settling", d) /\ JobsEnded(s, Nothing, "settling")
  BY DEF Whole, OpenRun, JobsEnded, Active, Pre
<1> QED
  BY <1>1, <1>2, <1>3 DEF Whole

\* What a step that writes nothing does of a session.
Kept(g) ==
  /\ Whole(file[g], todo'[g], At(g)', call'[g])
  /\ stage'[g] = "syncing" => next'[g] \in Active \cup {"idle"}
  /\ stage'[g] = "missing" => stage[g] = "missing"

\* Nothing is written, whatever is synced.
LEMMA NothingWritten ==
  ASSUME Inv, RestInv, file' = file, saved' = saved, synced' \in [Files -> Nat],
         \A g \in Files : synced[g] <= synced'[g],
         \A g \in Files : Kept(g)
  PROVE  RestInv'
<1>1. WholeInv'
  BY DEF WholeInv, Kept
<1>2. StageInv'
  BY DEF RestInv, StageInv, Kept
<1>3. ASSUME NEW c \in saved PROVE \E g \in Files : c \in CallsOf[g] /\ \E i \in 1 .. synced'[g] :
                                     file'[g][i].type = "answer" /\ file'[g][i].of = c
  <2>1. PICK g \in Files : c \in CallsOf[g] /\ \E i \in 1 .. synced[g] :
                             file[g][i].type = "answer" /\ file[g][i].of = c
    BY DEF RestInv, AnswersInv
  <2>2. synced[g] \in Nat /\ synced'[g] \in Nat /\ synced[g] <= synced'[g]
    BY DEF Inv, TypeInv
  <2>3. \A i \in 1 .. synced[g] : i \in 1 .. synced'[g]
    BY <2>2
  <2> QED
    BY <2>1, <2>3
<1> QED
  BY <1>1, <1>2, <1>3 DEF RestInv, AnswersInv

\* A file whose writer does nothing stays whole.
LEMMA AsItWas ==
  ASSUME RestInv, NEW g \in Files, stage'[g] = stage[g], next'[g] = next[g], call'[g] = call[g], todo'[g] = todo[g]
  PROVE  Kept(g)
<1>1. At(g)' = At(g)
  BY DEF At
<1> QED
  BY <1>1 DEF RestInv, WholeInv, StageInv, Kept

LEMMA ReceiptRest == ASSUME Inv, RestInv, NEW f \in Files, Receipt(f) PROVE RestInv'
<1> DEFINE e == Entry("receipt", Run(f), "none")
<1>1. stage[f] = "replied" /\ stage[f] \in Active
  BY DEF Receipt, Active
<1>2. /\ file[f] \in Seq(Entries) /\ Run(f) \in Nat /\ Run(f) \in 1 .. Run(f) /\ Run(f) = RunsOf(file[f])
      /\ OpenRun(file[f], "replied", call[f]) /\ Whole(file[f], Nothing, "replied", call[f])
  BY <1>1, AtWork
<1>3. Run(f) = 1 => \A x \in AskedIn(file[f]) : Told(file[f], x)
  BY <1>1, AllTold DEF Receipt
<1>4. UNCHANGED <<synced, todo, call, saved>>
  BY DEF Receipt, unrecovered
<1>5. CASE AppendTo(f, e, "settling")
  <2>1. e \in Entries /\ e.type = "receipt" /\ e.run = Run(f)
    BY <1>2, AnEntry DEF Types, Of, Words
  <2> HIDE DEF e
  <2>2. /\ file' = [file EXCEPT ![f] = Append(@, e)] /\ stage' = [stage EXCEPT ![f] = "settling"]
        /\ UNCHANGED next
    BY <1>5 DEF AppendTo
  <2>3. stage'[f] = "settling" /\ \A g \in Files \ {f} : stage'[g] = stage[g]
    BY <2>2 DEF Inv, TypeInv
  <2>4. Follows(file[f], e)
    <3>1. ~InRun(file[f], "receipt", Run(f))
      BY <1>2 DEF OpenRun, Pre
    <3>2. \A i \in 1 .. Len(file[f]) : ~Clash(file[f][i], e)
      BY <1>2, <2>1, <3>1, Domains DEF Clash, Outcome, JobOver, InRun
    <3> QED
      BY <1>2, <2>1, <3>2 DEF Follows, JobOver
  <2>5. "settling" \in Active /\ "settling" \notin Pre
    BY DEF Active, Pre
  <2> QED
    BY <1>1, <1>3, <1>4, <2>1, <2>2, <2>3, <2>4, <2>5, RunWrites
<1>6. CASE stage' = [stage EXCEPT ![f] = "settling"] /\ UNCHANGED <<file, next>>
  <2>1. stage'[f] = "settling" /\ \A g \in Files \ {f} : stage'[g] = stage[g]
    BY <1>6 DEF Inv, TypeInv
  <2>2. At(f)' = "settling" /\ todo'[f] = Nothing
    BY <1>1, <1>4, <2>1 DEF At, Inv, TodoInv, Nothing
  <2>3. Whole(file[f], todo'[f], At(f)', call'[f])
    BY <1>2, <1>3, <2>2, NoReceiptIsWhole
  <2>6. Kept(f)
    BY <2>1, <2>3 DEF Kept
  <2>4. \A g \in Files \ {f} : Kept(g)
    BY <1>4, <1>6, <2>1, AsItWas
  <2>5. synced' \in [Files -> Nat] /\ \A g \in Files : synced[g] <= synced'[g]
    BY <1>4 DEF Inv, TypeInv
  <2> QED
    BY <1>4, <1>6, <2>4, <2>5, <2>6, NothingWritten
<1> QED
  BY <1>5, <1>6 DEF Receipt

LEMMA SettledRest == ASSUME Inv, RestInv, NEW f \in Files, Settled(f) PROVE RestInv'
<1>1. PICK of \in {"verified", "not"} : AppendSynced(f, Entry("settled", Run(f), of), "settled")
  BY DEF Settled
<1> DEFINE e == Entry("settled", Run(f), of)
<1>2. stage[f] = "settling" /\ stage[f] \in Active
  BY DEF Settled, Active
<1>3. Run(f) \in Nat /\ Run(f) \in 1 .. Run(f) /\ Run(f) = RunsOf(file[f])
  BY <1>2, AtWork
<1>4. e \in Entries /\ e.type = "settled" /\ e.run = Run(f)
  <2>1. of \in Of
    BY DEF Of, Words
  <2> QED
    BY <1>3, <2>1, AnEntry DEF Types
<1> HIDE DEF e
<1>5. /\ file' = [file EXCEPT ![f] = Append(@, e)]
      /\ stage' = [stage EXCEPT ![f] = "syncing"] /\ next' = [next EXCEPT ![f] = "settled"]
      /\ UNCHANGED <<synced, todo, call, saved>>
  BY <1>1 DEF Settled, AppendSynced, unrecovered, e
<1>6. /\ stage'[f] = "syncing" /\ next'[f] = "settled"
      /\ \A g \in Files \ {f} : stage'[g] = stage[g] /\ next'[g] = next[g]
  BY <1>5 DEF Inv, TypeInv
<1>7. Follows(file[f], e)
  BY <1>3, <1>4, PlainEntry
<1>8. "settled" \in Active /\ "settled" \notin Pre /\ "settling" \notin Pre
  BY DEF Active, Pre
<1> QED
  BY <1>2, <1>4, <1>5, <1>6, <1>7, <1>8, RunWrites

LEMMA RunEndRest == ASSUME Inv, RestInv, NEW f \in Files, RunEnd(f) PROVE RestInv'
<1> DEFINE of == IF Last(file[f]) = Entry("settled", Run(f), "verified") THEN "completed" ELSE "incomplete"
           e == Entry("runEnd", Run(f), of)
<1>1. stage[f] = "settled" /\ stage[f] \in Active
  BY DEF RunEnd, Active
<1>2. /\ file[f] \in Seq(Entries) /\ Run(f) \in Nat /\ Run(f) \in 1 .. Run(f) /\ Run(f) = RunsOf(file[f])
      /\ OpenRun(file[f], "settled", call[f])
  BY <1>1, AtWork
<1>3. of \in Of /\ (of = "completed" => Last(file[f]) = Entry("settled", Run(f), "verified"))
  BY DEF Of, Words
<1> HIDE DEF of
<1>4. e \in Entries /\ e.type = "runEnd" /\ e.run = Run(f) /\ e.of = of
  BY <1>2, <1>3, AnEntry DEF Types
<1> HIDE DEF e
<1>5. /\ file' = [file EXCEPT ![f] = Append(@, e)]
      /\ stage' = [stage EXCEPT ![f] = "syncing"] /\ next' = [next EXCEPT ![f] = "idle"]
      /\ UNCHANGED <<synced, todo, call, saved>>
  BY DEF RunEnd, AppendSynced, unrecovered, e, of
<1>6. /\ stage'[f] = "syncing" /\ next'[f] = "idle"
      /\ \A g \in Files \ {f} : stage'[g] = stage[g] /\ next'[g] = next[g]
  BY <1>5 DEF Inv, TypeInv
<1>7. Follows(file[f], e)
  <2>1. ~InRun(file[f], "runEnd", Run(f))
    BY <1>2 DEF OpenRun, Active
  <2>2. \A i \in 1 .. Len(file[f]) : ~Clash(file[f][i], e)
    BY <1>2, <1>4, <2>1, Domains DEF Clash, Outcome, JobOver, InRun
  <2>3. Len(file[f]) > 0
    <3>1. Has(file[f], "request")
      BY <1>1, RunAtWork DEF Working
    <3>2. DOMAIN file[f] = 1 .. Len(file[f]) /\ Len(file[f]) \in Nat
      BY <1>2, Domains
    <3> QED
      BY <3>1, <3>2 DEF Has
  <2>4. of = "completed" => /\ file[f][Len(file[f])].type = "settled" /\ file[f][Len(file[f])].of = "verified"
                            /\ file[f][Len(file[f])].run = Run(f)
    BY <1>3 DEF Last, Entry
  <2> QED
    BY <1>2, <1>4, <2>2, <2>3, <2>4 DEF Follows, JobOver
<1>8. "idle" \notin Active /\ "idle" \notin Pre /\ "settled" \notin Pre
  BY DEF Active, Pre
<1> QED
  BY <1>1, <1>2, <1>4, <1>5, <1>6, <1>7, <1>8, RunWrites

\* Recovery appends what it worked out.
LEMMA RecoveryAppendsRest == ASSUME Inv, RestInv, NEW f \in Files, RecoveryAppends(f) PROVE RestInv'
<1> DEFINE e == Head(todo[f])
<1>1. /\ stage[f] = "opening" /\ todo[f] # << >> /\ file' = [file EXCEPT ![f] = Append(@, e)]
      /\ todo' = [todo EXCEPT ![f] = Tail(@)]
      /\ UNCHANGED <<synced, stage, next, call, saved>>
  BY DEF RecoveryAppends
<1>2. file[f] \in Seq(Entries) /\ todo[f] \in Seq(Entries)
  BY DEF Inv, TypeInv
<1>3. e \in Entries /\ ToAdd(f, file[f], e)
  <2>1. 1 \in 1 .. Len(todo[f]) /\ e = todo[f][1] /\ e \in Entries
    BY <1>1, <1>2
  <2> QED
    BY <2>1 DEF Inv, TodoInv
<1>4. todo'[f] = Tail(todo[f]) /\ \A g \in Files \ {f} : todo'[g] = todo[g]
  BY <1>1 DEF Inv, TypeInv
<1>5. At(f) = "opening" /\ At(f)' = "opening"
  BY <1>1 DEF At
<1>6. Whole(file[f], todo[f], "opening", call[f])
  BY <1>5 DEF RestInv, WholeInv
<1>7. Whole(Append(file[f], e), Tail(todo[f]), "opening", call[f])
  BY <1>1, <1>2, <1>3, <1>6, RecoveryGoesOn
<1> HIDE DEF e
<1> QED
  BY <1>1, <1>3, <1>4, <1>5, <1>7, Wrote

-----------------------------------------------------------------------------
(* The steps that append nothing. *)

LEMMA SyncedRest == ASSUME Inv, RestInv, NEW f \in Files, Synced(f) PROVE RestInv'
<1>1. /\ stage[f] = "syncing" /\ file' = file /\ synced' = [synced EXCEPT ![f] = Len(file[f])]
      /\ stage' = [stage EXCEPT ![f] = next[f]]
      /\ UNCHANGED <<next, call, todo>>
      /\ saved' = IF next[f] = "answered" THEN saved \cup {call[f]} ELSE saved
  BY DEF Synced
<1>2. next[f] \in Active \cup {"idle"}
  BY <1>1 DEF RestInv, StageInv
<1>3. /\ stage'[f] = next[f] /\ (\A g \in Files \ {f} : stage'[g] = stage[g])
      /\ stage'[f] \notin {"syncing", "missing"}
  BY <1>1, <1>2 DEF Inv, TypeInv, Active
<1>4. \A g \in Files : At(g)' = At(g)
  BY <1>1, <1>3 DEF At
<1>5. WholeInv'
  BY <1>1, <1>4 DEF RestInv, WholeInv
<1>6. StageInv'
  BY <1>1, <1>3 DEF RestInv, StageInv
<1>7. \A g \in Files : file[g] \in Seq(Entries) /\ Len(file[g]) \in Nat /\ DOMAIN file[g] = 1 .. Len(file[g])
  BY Domains DEF Inv, TypeInv
<1>8. synced'[f] = Len(file[f]) /\ \A g \in Files : synced'[g] \in Nat /\ synced[g] \in Nat /\ synced[g] <= synced'[g]
  BY <1>1, <1>7 DEF Inv, TypeInv
<1>9. ASSUME NEW c \in saved PROVE \E g \in Files : c \in CallsOf[g] /\ \E i \in 1 .. synced'[g] :
                                     file'[g][i].type = "answer" /\ file'[g][i].of = c
  <2>1. PICK g \in Files : c \in CallsOf[g] /\ \E i \in 1 .. synced[g] :
                             file[g][i].type = "answer" /\ file[g][i].of = c
    BY DEF RestInv, AnswersInv
  <2>2. \A i \in 1 .. synced[g] : i \in 1 .. synced'[g]
    BY <1>8
  <2> QED
    BY <1>1, <2>1, <2>2
<1>10. next[f] = "answered" => /\ call[f] \in CallsOf[f]
                               /\ \E i \in 1 .. synced'[f] : file'[f][i].type = "answer" /\ file'[f][i].of = call[f]
  <2>1. SUFFICES ASSUME next[f] = "answered"
                 PROVE  /\ call[f] \in CallsOf[f]
                        /\ \E i \in 1 .. synced'[f] : file'[f][i].type = "answer" /\ file'[f][i].of = call[f]
    OBVIOUS
  <2>2. Answering(f) /\ At(f) = "answered"
    BY <1>1, <2>1 DEF Answering, At
  <2>3. call[f] \in CallsOf[f]
    BY <2>2 DEF Inv, CallInv
  <2>4. About(file[f], "answer", call[f])
    BY <2>2 DEF RestInv, WholeInv, Whole, OpenRun
  <2> QED
    BY <1>1, <1>7, <1>8, <2>3, <2>4 DEF About
<1>11. AnswersInv'
  BY <1>1, <1>9, <1>10 DEF AnswersInv
<1> QED
  BY <1>5, <1>6, <1>11 DEF RestInv

LEMMA WriteFailsRest == ASSUME Inv, RestInv, NEW f \in Files, WriteFails(f) PROVE RestInv'
<1>1. UNCHANGED <<file, synced, stage, next, call, todo, saved>>
  BY DEF WriteFails
<1> QED
  BY <1>1 DEF RestInv, WholeInv, StageInv, AnswersInv, At

\* Sessions that are let go, the others being as they were.
LetGoNow(g) ==
  /\ stage'[g] \in Down /\ todo'[g] = << >>
  /\ stage'[g] = "missing" => stage[g] = "missing"

LEMMA LetGo ==
  ASSUME Inv, RestInv, NEW F \in SUBSET Files,
         file' = file, UNCHANGED <<synced, next, saved>>,
         \A g \in F : LetGoNow(g),
         \A g \in Files \ F : stage'[g] = stage[g] /\ call'[g] = call[g] /\ todo'[g] = todo[g]
  PROVE  RestInv'
<1>1. ASSUME NEW g \in F
      PROVE  Kept(g)
  <2>1. At(g)' \in Down /\ todo'[g] = Nothing /\ stage'[g] # "syncing"
    BY DEF At, Down, Nothing, LetGoNow
  <2>2. Shape(file[g])
    BY DEF RestInv, WholeInv, Whole
  <2>3. Whole(file[g], Nothing, At(g)', call'[g])
    BY <2>1, <2>2, ClosedIsWhole
  <2> QED
    BY <2>1, <2>3 DEF Kept, LetGoNow
<1>2. \A g \in Files \ F : Kept(g)
  BY AsItWas
<1>3. synced' \in [Files -> Nat] /\ \A g \in Files : synced[g] <= synced'[g]
  BY DEF Inv, TypeInv
<1> QED
  BY <1>1, <1>2, <1>3, NothingWritten

LEMMA ClosedRest ==
  ASSUME Inv, RestInv, NEW f \in Files, Closed(f), file' = file, UNCHANGED <<synced, next, saved>>
  PROVE  RestInv'
<1>1. /\ stage'[f] = "closed" /\ todo'[f] = << >>
      /\ \A g \in Files \ {f} : stage'[g] = stage[g] /\ call'[g] = call[g] /\ todo'[g] = todo[g]
  BY DEF Closed, Inv, TypeInv
<1>2. {f} \in SUBSET Files /\ \A g \in {f} : LetGoNow(g)
  BY <1>1 DEF Down, LetGoNow
<1> QED
  BY <1>1, <1>2, LetGo

LEMMA KillRest == ASSUME Inv, RestInv, NEW f \in Files, Kill(f) PROVE RestInv'
<1>1. PICK F \in SUBSET Files : Ends(F)
  <2> DEFINE F == {f} \cup (IF f = Top /\ by[Kid] # "operator" THEN {Kid} ELSE {})
  <2>1. F \in SUBSET Files
    BY Constants
  <2> QED
    BY <2>1 DEF Kill
<1>2. UNCHANGED <<file, synced, next, saved>>
  BY DEF Kill
<1>3. /\ \A g \in F : LetGoNow(g)
      /\ \A g \in Files \ F : stage'[g] = stage[g] /\ call'[g] = call[g] /\ todo'[g] = todo[g]
  <2>1. /\ \A g \in F : /\ stage'[g] \in {"missing", "closed"} /\ (Open(g) => stage'[g] = "closed")
                        /\ (~Open(g) => stage'[g] = stage[g])
                        /\ call'[g] = 0 /\ todo'[g] = << >>
        /\ \A g \in Files \ F : stage'[g] = stage[g] /\ call'[g] = call[g] /\ todo'[g] = todo[g]
    BY <1>1, EndsStep
  <2> QED
    BY <2>1 DEF Down, LetGoNow
<1> QED
  BY <1>2, <1>3, LetGo

LEMMA PowerLossRest == ASSUME Inv, RestInv, PowerLoss PROVE RestInv'
<1>1. \A g \in Files : \E n \in 0 .. Len(file[g]) :
        /\ synced[g] <= n /\ file'[g] = SubSeq(file[g], 1, n)
        /\ file'[g] \in Seq(Entries) /\ Len(file'[g]) = n
        /\ \A i \in 1 .. n : file'[g][i] = file[g][i]
  BY PowerLossCuts
<1>2. \A g \in Files : /\ stage'[g] \in {"missing", "closed"} /\ (stage'[g] = "missing" => stage[g] = "missing")
                     /\ todo'[g] = Nothing
  <2>1. Ends(Files)
    BY DEF PowerLoss
  <2>2. \A g \in Files : /\ stage'[g] \in {"missing", "closed"} /\ (Open(g) => stage'[g] = "closed")
                       /\ (~Open(g) => stage'[g] = stage[g]) /\ todo'[g] = << >>
    BY <2>1, EndsStep
  <2> QED
    BY <2>2 DEF Nothing
<1>3. synced' = synced /\ saved' = saved
  BY DEF PowerLoss
<1>4. ASSUME NEW g \in Files PROVE Whole(file'[g], todo'[g], At(g)', call'[g])
  <2>1. PICK n \in 0 .. Len(file[g]) : /\ file'[g] \in Seq(Entries) /\ Len(file'[g]) = n
                                       /\ \A i \in 1 .. n : file'[g][i] = file[g][i]
    BY <1>1
  <2>2. file[g] \in Seq(Entries) /\ Shape(file[g]) /\ Len(file[g]) \in Nat
    BY Domains DEF Inv, TypeInv, RestInv, WholeInv, Whole
  <2>3. Shape(file'[g])
    BY <2>1, <2>2, ShapeIsCut
  <2>4. At(g)' \in Down
    BY <1>2 DEF At, Down
  <2> QED
    BY <1>2, <2>3, <2>4, ClosedIsWhole
<1>5. StageInv'
  <2>1. ASSUME NEW g \in Files, stage'[g] = "missing" PROVE file'[g] = << >>
    <3>1. file[g] = << >>
      BY <1>2, <2>1 DEF RestInv, StageInv
    <3>2. Len(file'[g]) = 0 /\ file'[g] \in Seq(Entries)
      BY <1>1, <3>1
    <3> QED
      BY <3>2
  <2> QED
    BY <1>2, <2>1 DEF StageInv
<1>6. ASSUME NEW c \in saved PROVE \E g \in Files : c \in CallsOf[g] /\ \E i \in 1 .. synced[g] :
                                     file'[g][i].type = "answer" /\ file'[g][i].of = c
  <2>1. PICK g \in Files : c \in CallsOf[g] /\ \E i \in 1 .. synced[g] :
                             file[g][i].type = "answer" /\ file[g][i].of = c
    BY DEF RestInv, AnswersInv
  <2>2. \A i \in 1 .. synced[g] : file'[g][i] = file[g][i]
    BY <1>1 DEF Inv, TypeInv
  <2> QED
    BY <2>1, <2>2
<1> QED
  BY <1>3, <1>4, <1>5, <1>6 DEF RestInv, WholeInv, AnswersInv

\* A file is opened again: what it lacks is to be added.
LEMMA OpenedRest ==
  ASSUME Inv, RestInv, NEW f \in Files, NEW who, Opened(f, who), NEW rest \in {"idle", "closed"},
         stage' = [stage EXCEPT ![f] = IF todo'[f] = << >> THEN rest ELSE "opening"],
         UNCHANGED <<next, call, saved>>
  PROVE  RestInv' /\ (stage'[f] = "idle" => JobsGoing(file'[f]) = {})
<1>1. /\ file' = file /\ stage[f] = "closed"
      /\ synced' = [synced EXCEPT ![f] = IF tail[f] = "whole" THEN @ ELSE Len(file[f])]
      /\ todo' = [todo EXCEPT ![f] = Recovery(file[f])]
  BY DEF Opened, Read
<1>2. \A g \in Files : file[g] \in Seq(Entries) /\ Len(file[g]) \in Nat
  BY Domains DEF Inv, TypeInv
<1>3. synced' \in [Files -> Nat] /\ \A g \in Files : synced[g] <= synced'[g]
  BY <1>1, <1>2 DEF Inv, TypeInv
<1>4. todo'[f] = Recovery(file[f]) /\ \A g \in Files \ {f} : todo'[g] = todo[g]
  BY <1>1 DEF Inv, TypeInv
<1>5. /\ stage'[f] = IF todo'[f] = << >> THEN rest ELSE "opening"
      /\ \A g \in Files \ {f} : stage'[g] = stage[g]
  BY DEF Inv, TypeInv
<1>6. Shape(file[f]) /\ FileOK(f, file[f])
  BY DEF RestInv, WholeInv, Whole, Inv, FilesInv
<1>7. Whole(file[f], todo'[f], "opening", call'[f])
  BY <1>2, <1>4, <1>6, RecoveryIsWhole
<1>8. Whole(file[f], todo'[f], At(f)', call'[f]) /\ (stage'[f] = "idle" => JobsGoing(file[f]) = {})
  <2>1. CASE todo'[f] = << >>
    <3>1. todo'[f] = Nothing /\ At(f)' = rest /\ stage'[f] = rest
      BY <1>5, <2>1 DEF At, Nothing
    <3>2. Whole(file[f], Nothing, "idle", call'[f]) /\ JobsGoing(file[f]) = {}
      BY <1>7, <3>1, OpenedIsWhole
    <3>3. Whole(file[f], Nothing, "closed", call'[f])
      BY <1>6, ClosedIsWhole DEF Down
    <3> QED
      BY <3>1, <3>2, <3>3
  <2>2. CASE todo'[f] # << >>
    <3>1. stage'[f] = "opening" /\ At(f)' = "opening"
      BY <1>5, <2>2 DEF At
    <3> QED
      BY <1>7, <3>1
  <2> QED
    BY <2>1, <2>2
<1>9. stage'[f] \notin {"syncing", "missing"}
  BY <1>5
<1>10. \A g \in Files \ {f} : Kept(g)
  BY <1>4, <1>5, AsItWas
<1>12. Kept(f)
  BY <1>8, <1>9 DEF Kept
<1>11. RestInv'
  BY <1>1, <1>3, <1>10, <1>12, NothingWritten
<1> QED
  BY <1>1, <1>8, <1>11

LEMMA OpenSessionRest == ASSUME Inv, RestInv, NEW f \in Files, OpenSession(f) PROVE RestInv'
<1>1. Opened(f, "operator") /\ stage' = [stage EXCEPT ![f] = IF todo'[f] = << >> THEN "idle" ELSE "opening"]
      /\ UNCHANGED <<next, call, saved>>
  BY DEF OpenSession
<1> QED
  BY <1>1, OpenedRest

LEMMA RecoverChildRest == ASSUME Inv, RestInv, NEW f \in Files, RecoverChild(f, Kid) PROVE RestInv'
<1>1. UNCHANGED <<next, call, saved>>
  BY DEF RecoverChild
<1>2. CASE stage[Kid] = "closed"
  <2>1. /\ Opened(Kid, "recovery")
        /\ stage' = [stage EXCEPT ![Kid] = IF todo'[Kid] = << >> THEN "closed" ELSE "opening"]
    BY <1>2 DEF RecoverChild
  <2> QED
    BY <1>1, <2>1, Constants, OpenedRest
<1>3. CASE stage[Kid] # "closed"
  <2>1. UNCHANGED <<file, synced, todo, stage>>
    BY <1>3 DEF RecoverChild
  <2> QED
    BY <1>1, <2>1 DEF RestInv, WholeInv, StageInv, AnswersInv, At
<1> QED
  BY <1>2, <1>3

\* Recovery is over for a file that lacks nothing more.
LEMMA RecoveryEnds ==
  ASSUME Inv, RestInv, NEW f \in Files, NEW from \in {"opening", "children"}, NEW to \in {"children", "closed", "idle"},
         stage[f] = from, todo[f] = << >>, from = "opening" => to # "idle", from = "children" => to # "children",
         file' = file, synced' \in [Files -> Nat], \A g \in Files : synced[g] <= synced'[g],
         stage' = [stage EXCEPT ![f] = to], UNCHANGED <<next, call, todo, saved>>
  PROVE  RestInv' /\ JobsGoing(file'[f]) = {}
<1>1. stage'[f] = to /\ \A g \in Files \ {f} : stage'[g] = stage[g]
  BY DEF Inv, TypeInv
<1>2. At(f) = from /\ At(f)' = to /\ todo[f] = Nothing /\ todo'[f] = Nothing
  BY <1>1 DEF At, Nothing
<1>3. Whole(file[f], Nothing, from, call[f]) /\ Shape(file[f])
  BY <1>2 DEF RestInv, WholeInv, Whole
<1>4. Whole(file[f], Nothing, to, call[f]) /\ JobsGoing(file[f]) = {}
  <2>1. Whole(file[f], Nothing, "closed", call[f])
    BY <1>3, ClosedIsWhole DEF Down
  <2>2. Whole(file[f], Nothing, "idle", call[f]) /\ JobsGoing(file[f]) = {}
    BY <1>3, OpenedIsWhole
  <2>3. from = "opening" => Whole(file[f], Nothing, "children", call[f])
    BY <1>3, RecoveredIsWhole
  <2> QED
    BY <2>1, <2>2, <2>3
<1>5. \A g \in Files \ {f} : Kept(g)
  BY <1>1, AsItWas
<1>7. Kept(f)
  BY <1>1, <1>2, <1>4 DEF Kept
<1>6. RestInv'
  BY <1>5, <1>7, NothingWritten
<1> QED
  BY <1>4, <1>6

LEMMA RecoverySyncedRest == ASSUME Inv, RestInv, NEW f \in Files, RecoverySynced(f) PROVE RestInv'
<1> DEFINE to == IF by[f] = "recovery" THEN "closed" ELSE "children"
<1>1. /\ stage[f] = "opening" /\ todo[f] = << >> /\ file' = file
      /\ synced' = [synced EXCEPT ![f] = Len(file[f])] /\ stage' = [stage EXCEPT ![f] = to]
      /\ UNCHANGED <<next, call, todo, saved>>
  BY DEF RecoverySynced
<1>2. \A g \in Files : Len(file[g]) \in Nat
  BY Domains DEF Inv, TypeInv
<1>3. synced' \in [Files -> Nat] /\ \A g \in Files : synced[g] <= synced'[g]
  BY <1>1, <1>2 DEF Inv, TypeInv
<1>4. to \in {"children", "closed"}
  OBVIOUS
<1> HIDE DEF to
<1> QED
  BY <1>1, <1>3, <1>4, RecoveryEnds

LEMMA ChildrenRecoveredRest ==
  ASSUME Inv, RestInv, NEW f \in Files, ChildrenRecovered(f)
  PROVE  RestInv' /\ JobsGoing(file'[f]) = {}
<1>1. /\ stage[f] = "children" /\ todo[f] = << >> /\ file' = file /\ synced' = synced
      /\ stage' = [stage EXCEPT ![f] = "idle"] /\ UNCHANGED <<next, call, todo, saved>>
  BY DEF ChildrenRecovered, Inv, TodoInv
<1>2. synced' \in [Files -> Nat] /\ \A g \in Files : synced[g] <= synced'[g]
  BY <1>1 DEF Inv, TypeInv
<1> QED
  BY <1>1, <1>2, RecoveryEnds

-----------------------------------------------------------------------------
(* Every step keeps it. *)

LEMMA NextRest == Inv /\ RestInv /\ [Next]_vars => RestInv'
<1> SUFFICES ASSUME Inv, RestInv, [Next]_vars PROVE RestInv'
  OBVIOUS
<1>1. CASE UNCHANGED vars
  BY <1>1 DEF vars, RestInv, WholeInv, StageInv, AnswersInv, At
<1>2. ASSUME NEW f \in Files, Dispose(f) \/ RecoveryFails(f) PROVE RestInv'
  <2>1. Closed(f) /\ file' = file /\ UNCHANGED <<synced, next, saved>>
    BY <1>2 DEF Dispose, RecoveryFails
  <2> QED
    BY <2>1, ClosedRest
<1>3. ASSUME NEW f \in Files,
             \/ Synced(f) \/ WriteFails(f) \/ Request(f) \/ Reply(f) \/ Intent(f) \/ Answer(f)
             \/ JobStart(f) \/ JobEnd(f) \/ Result(f) \/ Receipt(f) \/ Settled(f) \/ RunEnd(f)
             \/ Dispose(f) \/ OpenSession(f) \/ RecoveryAppends(f) \/ RecoverySynced(f)
             \/ RecoverChild(f, Kid) \/ ChildrenRecovered(f) \/ RecoveryFails(f) \/ Kill(f)
      PROVE  RestInv'
  BY <1>2, <1>3, SyncedRest, WriteFailsRest, RequestRest, ReplyRest, IntentRest, AnswerRest, JobStartRest,
     JobEndRest, ResultRest, ReceiptRest, SettledRest, RunEndRest, OpenSessionRest,
     RecoveryAppendsRest, RecoverySyncedRest, RecoverChildRest, ChildrenRecoveredRest, KillRest
<1>4. CASE PowerLoss
  BY <1>4, PowerLossRest
<1> QED
  BY <1>1, <1>3, <1>4 DEF Next

LEMMA BothInvariants == Spec => [](Inv /\ RestInv)
<1> QED
  BY InitInv, NextInv, AtFirst, NextRest, PTL DEF Spec

-----------------------------------------------------------------------------
(* What follows. *)

LEMMA FilesAreWhole ==
  ASSUME Inv, RestInv, NEW f \in Files
  PROVE  /\ file[f] \in Seq(Entries) /\ Len(file[f]) \in Nat /\ DOMAIN file[f] = 1 .. Len(file[f])
         /\ Shape(file[f])
BY Domains DEF Inv, TypeInv, RestInv, WholeInv, Whole

LEMMA IdleIsWhole ==
  ASSUME NEW s, NEW c, Whole(s, Nothing, "idle", c)
  PROVE  /\ \A x \in AskedIn(s) : Told(s, x)
         /\ \A r \in 1 .. RunsOf(s) : InRun(s, "runEnd", r)
BY NothingThere DEF Whole, CallsTold, RunsEnded, Pre, Active, Down

LEMMA NothingIsOpen ==
  ASSUME Inv, RestInv, NEW f \in Files, stage[f] = "idle"
  PROVE  \A c \in AskedIn(file[f]) : Told(file[f], c)
<1>1. At(f) = "idle" /\ todo[f] = Nothing
  BY DEF At, Inv, TodoInv, Nothing
<1>2. Whole(file[f], Nothing, "idle", call[f])
  BY <1>1 DEF RestInv, WholeInv
<1> QED
  BY <1>2, IdleIsWhole

\* Whatever the crash, the file reads back (`wholeLines', `entryAt').
THEOREM FilesReadBack == Spec => []ReadsBack
<1>1. Inv /\ RestInv => ReadsBack
  BY FilesAreWhole DEF ReadsBack, Shape, Ordered
<1> QED
  BY <1>1, BothInvariants, PTL

\* Each call has one outcome at most, each run and job one end, however often
\* recovery itself is cut short (`recovery').
THEOREM OneOutcomeOfEach == Spec => []OneOutcome
<1>1. Inv /\ RestInv => OneOutcome
  <2> SUFFICES ASSUME Inv, RestInv, NEW f \in Files
               PROVE  /\ \A c \in CallsOf[f] : Cardinality(OutcomesOf(file[f], c)) <= 1
                      /\ \A r \in 1 .. MaxRun, type \in {"receipt", "runEnd"} :
                           Cardinality({i \in DOMAIN file[f] : file[f][i].type = type /\ file[f][i].run = r}) <= 1
                      /\ Cardinality({i \in DOMAIN file[f] : file[f][i].type \in {"jobEnd", "jobUnknown"}}) <= 1
    BY DEF OneOutcome
  <2> DEFINE s == file[f]
  <2>1. s \in Seq(Entries) /\ DOMAIN s = 1 .. Len(s) /\ \A i, j \in 1 .. Len(s) : i # j => ~Clash(s[i], s[j])
    BY FilesAreWhole DEF Shape
  <2> HIDE DEF s
  <2>2. ASSUME NEW c \in CallsOf[f] PROVE Cardinality(OutcomesOf(s, c)) <= 1
    <3>1. c \in Calls
      BY Constants
    <3>2. OutcomesOf(s, c) \in SUBSET (1 .. Len(s)) /\ \A i \in OutcomesOf(s, c) : Outcome(s[i], c)
      BY <2>1 DEF OutcomesOf, Outcome
    <3>3. \A i, j \in OutcomesOf(s, c) : i = j
      BY <2>1, <3>1, <3>2 DEF Clash
    <3> QED
      BY <2>1, <3>2, <3>3, OneAtMost
  <2>3. ASSUME NEW r \in 1 .. MaxRun, NEW type \in {"receipt", "runEnd"}
        PROVE  Cardinality({i \in DOMAIN s : s[i].type = type /\ s[i].run = r}) <= 1
    <3> DEFINE P == {i \in DOMAIN s : s[i].type = type /\ s[i].run = r}
    <3>1. P \in SUBSET (1 .. Len(s)) /\ \A i \in P : s[i].type = type /\ s[i].run = r
      BY <2>1
    <3>2. \A i, j \in P : i = j
      BY <2>1, <3>1 DEF Clash
    <3> HIDE DEF P
    <3>3. Cardinality(P) <= 1
      BY <2>1, <3>1, <3>2, OneAtMost
    <3> QED
      BY <3>3 DEF P
  <2>4. Cardinality({i \in DOMAIN s : s[i].type \in {"jobEnd", "jobUnknown"}}) <= 1
    <3> DEFINE P == {i \in DOMAIN s : s[i].type \in {"jobEnd", "jobUnknown"}}
    <3>1. P \in SUBSET (1 .. Len(s)) /\ \A i \in P : JobOver(s[i])
      BY <2>1 DEF JobOver
    <3>2. \A i, j \in P : i = j
      BY <2>1, <3>1 DEF Clash
    <3> HIDE DEF P
    <3>3. Cardinality(P) <= 1
      BY <2>1, <3>1, <3>2, OneAtMost
    <3> QED
      BY <3>3 DEF P
  <2> QED
    BY <2>2, <2>3, <2>4 DEF s
<1> QED
  BY <1>1, BothInvariants, PTL

\* An answer the operator was told is saved is its call's result once the
\* session is at rest, after any crash (`questionHost', `recovery').
THEOREM SavedAnswersAreKept == Spec => []SavedAnswersSurvive
<1>1. Inv /\ RestInv => SavedAnswersSurvive
  <2> SUFFICES ASSUME Inv, RestInv, NEW c \in saved, NEW f \in Files, stage[f] = "idle", c \in AskedIn(file[f])
               PROVE  About(file[f], "result", c)
    BY DEF SavedAnswersSurvive
  <2>1. /\ DOMAIN file[f] = 1 .. Len(file[f]) /\ Len(file[f]) \in Nat
        /\ \A i, j \in 1 .. Len(file[f]) : i # j => ~Clash(file[f][i], file[f][j])
    BY FilesAreWhole DEF Shape
  <2>2. PICK g \in Files : c \in CallsOf[g] /\ \E i \in 1 .. synced[g] :
                             file[g][i].type = "answer" /\ file[g][i].of = c
    BY DEF RestInv, AnswersInv
  <2>3. f = g
    BY <2>2, Asked, JournalAssumption DEF Files
  <2>4. PICK k \in 1 .. Len(file[f]) : file[f][k].type = "answer" /\ file[f][k].of = c
    BY <2>1, <2>2, <2>3 DEF Inv, TypeInv
  <2>5. PICK i \in 1 .. Len(file[f]) : Outcome(file[f][i], c)
    BY <2>1, NothingIsOpen DEF Told
  <2>6. file[f][i].type # "repair"
    <3>1. i = k \/ ~Clash(file[f][k], file[f][i])
      BY <2>1
    <3> QED
      BY <2>4, <2>5, <3>1 DEF Clash, Outcome
  <2> QED
    BY <2>1, <2>5, <2>6 DEF Outcome, About
<1> QED
  BY <1>1, BothInvariants, PTL

RestsClosed ==
  \A f \in Files : stage[f] # "idle" /\ stage'[f] = "idle" =>
    /\ \A c \in AskedIn(file'[f]) : OutcomesOf(file'[f], c) # {}
    /\ \A r \in 1 .. RunsOf(file'[f]) : InRun(file'[f], "runEnd", r)
    /\ stage[f] \in {"closed", "opening", "children"} => JobsGoing(file'[f]) = {}

\* A session that comes to rest has nothing open: every call has an outcome,
\* every run an end and, when it was opened, every job too (`openSession').
THEOREM NothingIsLeftOpen == Spec => AtRestNothingIsOpen
<1>1. Inv /\ RestInv /\ [Next]_vars => [RestsClosed]_vars
  <2> SUFFICES ASSUME Inv, RestInv, Next, NEW f \in Files, stage[f] # "idle", stage'[f] = "idle"
               PROVE  /\ \A c \in AskedIn(file'[f]) : OutcomesOf(file'[f], c) # {}
                      /\ \A r \in 1 .. RunsOf(file'[f]) : InRun(file'[f], "runEnd", r)
                      /\ stage[f] \in {"closed", "opening", "children"} => JobsGoing(file'[f]) = {}
    BY DEF RestsClosed
  <2>1. Inv' /\ RestInv'
    BY NextInv, NextRest
  <2>2. /\ \A c \in AskedIn(file'[f]) : Told(file'[f], c)
        /\ \A r \in 1 .. RunsOf(file'[f]) : InRun(file'[f], "runEnd", r)
    <3>1. At(f)' = "idle" /\ todo'[f] = Nothing
      BY <2>1 DEF At, Inv, TodoInv, Nothing
    <3>2. Whole(file'[f], Nothing, "idle", call'[f])
      BY <2>1, <3>1 DEF RestInv, WholeInv
    <3> QED
      BY <3>2, IdleIsWhole
  <2>3. \A c : Told(file'[f], c) => OutcomesOf(file'[f], c) # {}
    BY DEF Told, OutcomesOf, Outcome
  <2>4. ASSUME stage[f] \in {"closed", "opening", "children"} PROVE JobsGoing(file'[f]) = {}
    <3>1. CASE \E g \in Files : OpenSession(g)
      <4>1. PICK g \in Files : OpenSession(g)
        BY <3>1
      <4>2. stage' = [stage EXCEPT ![g] = IF todo'[g] = << >> THEN "idle" ELSE "opening"]
        BY <4>1 DEF OpenSession
      <4>3. g = f
        BY <4>2 DEF Inv, TypeInv
      <4>4. /\ Opened(f, "operator") /\ stage' = [stage EXCEPT ![f] = IF todo'[f] = << >> THEN "idle" ELSE "opening"]
            /\ UNCHANGED <<next, call, saved>>
        BY <4>1, <4>3 DEF OpenSession
      <4> QED
        BY <4>4, OpenedRest
    <3>2. CASE \E g \in Files : ChildrenRecovered(g)
      <4>1. PICK g \in Files : ChildrenRecovered(g)
        BY <3>2
      <4>2. stage' = [stage EXCEPT ![g] = "idle"]
        BY <4>1 DEF ChildrenRecovered
      <4>3. g = f
        BY <4>2 DEF Inv, TypeInv
      <4> QED
        BY <4>1, <4>3, ChildrenRecoveredRest
    <3>3. ASSUME NEW g \in Files,
                 \/ Synced(g) \/ WriteFails(g) \/ Request(g) \/ Reply(g) \/ Intent(g) \/ Answer(g)
                 \/ JobEnd(g) \/ Result(g) \/ Receipt(g) \/ Settled(g) \/ RunEnd(g)
          PROVE  FALSE
      <4>1. g # f => stage'[f] = stage[f]
        BY <3>3 DEF Synced, WriteFails, Request, Reply, Intent, Answer, JobEnd, Result, Receipt, Settled,
                    RunEnd, AppendTo, AppendSynced, Inv, TypeInv
      <4>2. g = f => stage'[f] = stage[f] \/ stage[f] \notin {"closed", "opening", "children"}
        BY <3>3 DEF Synced, WriteFails, Request, Reply, Intent, Answer, JobEnd, Result, Receipt, Settled,
                    RunEnd, AppendTo, AppendSynced
      <4> QED
        BY <2>4, <4>1, <4>2
    <3>4. ASSUME NEW g \in Files, JobStart(g) PROVE FALSE
      <4>1. stage[Kid] = "missing" /\ stage' = [stage EXCEPT ![g] = "syncing", ![Kid] = "idle"]
        BY <3>4 DEF JobStart
      <4> QED
        BY <2>4, <4>1 DEF Inv, TypeInv
    <3>5. ASSUME NEW g \in Files,
                 \/ Dispose(g) \/ RecoveryAppends(g) \/ RecoverySynced(g) \/ RecoverChild(g, Kid) \/ RecoveryFails(g)
          PROVE  FALSE
      <4>1. stage' = stage \/ \E h \in Files, w \in {"closed", "children", "opening"} : stage' = [stage EXCEPT ![h] = w]
        BY <3>5, Constants DEF Dispose, RecoveryAppends, RecoverySynced, RecoverChild, RecoveryFails, Closed
      <4> QED
        BY <4>1 DEF Inv, TypeInv
    <3>6. ASSUME NEW F \in SUBSET Files, Ends(F) PROVE FALSE
      BY <3>6, EndsStep
    <3>7. ASSUME PowerLoss \/ \E g \in Files : Kill(g) PROVE FALSE
      <4>1. PICK F \in SUBSET Files : Ends(F)
        <5>1. \A g \in Files : {g} \cup (IF g = Top /\ by[Kid] # "operator" THEN {Kid} ELSE {}) \in SUBSET Files
          BY Constants
        <5>2. Files \in SUBSET Files
          OBVIOUS
        <5> QED
          BY <3>7, <5>1, <5>2 DEF PowerLoss, Kill
      <4> QED
        BY <3>6, <4>1
    <3> QED
      BY <3>1, <3>2, <3>3, <3>4, <3>5, <3>7 DEF Next
  <2> QED
    BY <2>2, <2>3, <2>4
<1> QED
  BY <1>1, BothInvariants, PTL DEF Spec, AtRestNothingIsOpen, RestsClosed

\* A session rests with nothing open, on files whose durable part only grew.
\* (session.ts openSession and recovered, session-file.ts wholeLines.)
THEOREM SessionsRestComplete == Spec => RestsComplete
<1>1. Spec => AtRestNothingIsOpen
  BY NothingIsLeftOpen
<1>2. Spec => DurableOnlyGrows /\ NothingFollowsATear
  BY WhatIsDurableOnlyGrows, NothingEverFollowsATear
<1> QED
  BY <1>1, <1>2 DEF RestsComplete
=============================================================================
