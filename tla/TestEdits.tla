------------------------------- MODULE TestEdits -------------------------------
(***************************************************************************)
(* Whether a change to a test file may weaken its tests: the lines Git     *)
(* shows removed and added, the assertions of either side matched test by  *)
(* test, and a removed line excused when its assertions became stricter or *)
(* the line in its place only adds list items.  An assertion means the set *)
(* of values of its subject it admits.                                     *)
(***************************************************************************)
EXTENDS Naturals, Integers, FiniteSets, SequencesExt

CONSTANTS
  Tests,
  Items,       \* the assertions the tests of a file may make
  Words,       \* the tokens of a line that asserts nothing
  MaxLines, MaxTokens, MaxEdit   \* bounds a file's lines, a line's tokens and the edits

VARIABLES
  kind,        \* what this behaviour edits: a "file", one "check" or one "line" of setup
  base, now, edits, pc,
  diff,        \* the removed and added lines, and the file they number
  flagged,     \* whether the receipt lists the test file
  named        \* what the reading says became of each assertion
vars == <<kind, base, now, edits, pc, diff, flagged, named>>

----------------------------------------------------------------------------
(* Checks, the values they admit, and how one changed into another.          *)

Check(m, args) == [matcher |-> m, args |-> args]
Exactness == <<"toMatchObject", "toEqual", "toStrictEqual", "toBe">>
Exact == {"toEqual", "toStrictEqual", "toBe"}
Literals == {"0", "1", "undefined"}
AllChecks ==
  {Check(m, <<a>>) : m \in Exact, a \in Literals} \cup {Check(m, <<"x">>) : m \in Exact \cup {"toMatchObject"}}
  \cup {Check(m, <<>>) : m \in {"toBeTruthy", "toBeFalsy", "toBeDefined", "toThrow"}}
  \cup {Check(m, <<a>>) : m \in {"toBeGreaterThan", "toBeLessThan"}, a \in {"0", "1"}}
  \cup {Check("toBeCloseTo", a) : a \in {<<"1">>, <<"1", "0">>, <<"1", "2">>}}
  \cup {Check(m, <<a>>) : m \in {"toMatch", "toThrow"}, a \in {"a", "ab"}} \cup {Check("toContain", <<"x">>)}

\* x is an object written as a variable: a copy equals it, a sparse copy only loosely, a wider one holds its properties.
Objects == <<"x wider", "x sparse", "x copy", "x">>
Value == [n \in {"0", "1", "1.004", "1.3", "2"} |-> CASE n = "0" -> 0 [] n = "1" -> 1000 [] n = "1.004" -> 1004 [] n = "1.3" -> 1300 [] OTHER -> 2000]
Numbers == DOMAIN Value
Texts == {"a", "ab"}
Throws == {"throws a", "throws ab"}
Values == Range(Objects) \cup Numbers \cup Texts \cup Throws \cup {"undefined"}
Falsy == {"0", "undefined"}
IndexIn(s, e) == IF e \in Range(s) THEN CHOOSE i \in DOMAIN s : s[i] = e ELSE 0
Admits(c) ==
  LET m == c.matcher  a == c.args IN
  CASE m \in Range(Exactness) -> IF a = <<"x">> THEN {Objects[i] : i \in IndexIn(Exactness, m)..4} ELSE {a[1]}
    [] m = "toBeTruthy" -> Values \ Falsy
    [] m = "toBeFalsy" -> Falsy
    [] m = "toBeDefined" -> Values \ {"undefined"}
    [] m = "toBeGreaterThan" -> {n \in Numbers : Value[n] > Value[a[1]]}
    [] m = "toBeLessThan" -> {n \in Numbers : Value[n] < Value[a[1]]}
    [] m = "toBeCloseTo" -> {n \in Numbers : Value[n] \in (1000 - (IF a = <<"1", "0">> THEN 499 ELSE 4))..(1000 + (IF a = <<"1", "0">> THEN 499 ELSE 4))}
    [] m = "toMatch" -> IF a = <<"a">> THEN Texts ELSE {"ab"}
    [] m = "toThrow" -> IF a = <<"ab">> THEN {"throws ab"} ELSE Throws
    [] OTHER -> {"x wider"}

Order(b, a, stricter) == IF a = b THEN "other" ELSE IF stricter THEN "stricter" ELSE "weaker"
Digits(args) == IF Len(args) = 2 /\ args[2] = "0" THEN 0 ELSE 2
Includes(long, short) == long = short \/ (long = "ab" /\ short = "a")
ArgumentChange(m, b, a) ==
  CASE a = b -> "same"
    [] m = "toBeCloseTo" -> IF a[1] = b[1] THEN Order(Digits(b), Digits(a), Digits(a) > Digits(b)) ELSE "other"
    [] m = "toBeGreaterThan" -> Order(b[1], a[1], Value[a[1]] > Value[b[1]])
    [] m = "toBeLessThan" -> Order(b[1], a[1], Value[a[1]] < Value[b[1]])
    [] m \in {"toMatch", "toThrow"} /\ Len(a) = 1 /\ Len(b) = 1 -> IF Includes(a[1], b[1]) THEN "stricter" ELSE "weaker"
    [] m = "toThrow" -> IF IsStrictPrefix(b, a) THEN "stricter" ELSE IF IsStrictPrefix(a, b) THEN "weaker" ELSE "other"
    [] OTHER -> "other"
\* An exact check of one literal implies a presence check that admits it; of anything else nothing is known.
ImpliesPresence(exact, presence) ==
  /\ exact.matcher \in Exact /\ exact.args[1] \in Literals /\ presence.args = <<>>
  /\ CASE presence.matcher = "toBeDefined" -> exact.args[1] # "undefined"
       [] presence.matcher = "toBeTruthy" -> exact.args[1] \notin Falsy
       [] presence.matcher = "toBeFalsy" -> exact.args[1] \in Falsy
       [] OTHER -> FALSE
Strength(m) ==
  CASE m = "toBe" -> 5 [] m = "toStrictEqual" -> 4 [] m = "toEqual" -> 3 [] m \in {"toBeTruthy", "toBeFalsy", "toBeDefined"} -> 1 [] OTHER -> 2
CheckChange(b, a) ==
  LET was == IndexIn(Exactness, b.matcher)  is == IndexIn(Exactness, a.matcher) IN
  CASE b.matcher = a.matcher -> ArgumentChange(b.matcher, b.args, a.args)
    [] b.matcher # a.matcher /\ was > 0 /\ is > 0 /\ b.args = a.args -> IF is > was THEN "stricter" ELSE "weaker"
    [] b.matcher # a.matcher /\ ImpliesPresence(a, b) -> "stricter"
    [] b.matcher # a.matcher /\ ImpliesPresence(b, a) -> "weaker"
    [] OTHER -> IF Strength(b.matcher) > Strength(a.matcher) THEN "ranked_weaker" ELSE "other"
\* Mutant: a not turns no implication around.
AssertionChangeUnturned(beforeNot, afterNot, check) ==
  CASE check = "same" -> "kept" [] check = "stricter" -> "tightened" [] check = "weaker" -> "loosened" [] OTHER -> "changed"
AssertionChange(beforeNot, afterNot, check) ==
  CASE beforeNot /\ ~afterNot -> "dropped_not"
    [] ~beforeNot /\ afterNot -> "changed"
    [] check = "same" -> "kept"
    [] check = "other" -> "changed"
    [] check = "ranked_weaker" -> IF beforeNot THEN "changed" ELSE "loosened"
    [] OTHER -> IF (check = "weaker") # beforeNot THEN "loosened" ELSE "tightened"

----------------------------------------------------------------------------
(* A test file: headers, each opening a test, assertions and comments.       *)

Item(s, n, c) == [subject |-> s, not |-> n, check |-> c]
Header(t, m) == [line |-> "test", test |-> t, marker |-> m, items |-> <<>>]
Asserts(items) == [line |-> "assert", test |-> "", marker |-> "", items |-> items]
Comment == [line |-> "comment", test |-> "", marker |-> "", items |-> <<>>]
\* A line may hold two assertions; those of a line are of two subjects.
AssertLines == {Asserts(<<i>>) : i \in Items} \cup {Asserts(<<i, j>>) : i \in {k \in Items : ~k.not}, j \in {k \in Items : ~k.not}}
FileLines == {Header(t, m) : t \in Tests, m \in {"", "skip"}} \cup {l \in AssertLines : Cardinality({i.subject : i \in Range(l.items)}) = Len(l.items)} \cup {Comment}
WellFormed(s) == s # <<>> /\ s[1].line = "test" /\ \A i, j \in DOMAIN s : (s[i].line = "test" /\ s[j].line = "test" /\ s[i].test = s[j].test) => i = j
Blocks(s) == {s[i].test : i \in {j \in DOMAIN s : s[j].line = "test"}}
Marker(s, t) == s[CHOOSE i \in DOMAIN s : s[i].line = "test" /\ s[i].test = t].marker
TestOf(s, i) == s[Max({j \in 1..i : s[j].line = "test"})].test
\* The assertions of a side, in order, each with its test and its line.
Assertions(s) ==
  FlattenSeq([i \in DOMAIN s |-> [k \in DOMAIN s[i].items |-> [test |-> TestOf(s, i), item |-> s[i].items[k], at |-> i]]])
Written(a) == <<a.item.not, a.item.check>>

Without(s, i) == SubSeq(s, 1, i - 1) \o SubSeq(s, i + 1, Len(s))
InsertLine(s, i, l) == SubSeq(s, 1, i - 1) \o <<l>> \o SubSeq(s, i, Len(s))
BaseFiles == {<<Header(CHOOSE t \in Tests : TRUE, "")>> \o s : s \in UNION {[1..n -> FileLines \ {Comment}] : n \in 0..(MaxLines - 2)}}
----------------------------------------------------------------------------
(* A line of setup, as tokens: a word, an open or closed bracket, a comma.   *)

Tokens == {"(", ")", ","} \cup Words
TokenLines(n) == UNION {[1..k -> Tokens] : k \in 0..n}
TokenKind(t) == CASE t = "(" -> "open" [] t = ")" -> "close" [] t = "," -> "separator" [] t = "expect" -> "check" [] OTHER -> "plain"
Depth(s, lo, hi) == Cardinality({i \in (lo + 1)..hi : s[i] = "("}) - Cardinality({i \in (lo + 1)..hi : s[i] = ")"})
IsItem(s, lo, hi) ==
  LET opens == lo = 0 \/ TokenKind(s[lo]) \in {"open", "separator"}
      closes == hi = Len(s) \/ TokenKind(s[hi + 1]) = "close"
  IN \/ lo = hi
     \/ /\ Depth(s, lo, hi) = 0 /\ \A k \in lo..hi : Depth(s, lo, k) >= 0
        /\ \/ opens /\ s[hi] = ","
           \/ s[lo + 1] = "," /\ closes
           \/ lo > 0 /\ s[lo] = "(" /\ hi < Len(s) /\ s[hi + 1] = ")"
\* Where the line in its place keeps each token, each at the first place after the last one's, as far as it does.
Alignment(b, a) ==
  FoldLeft(LAMBDA at, t :
    LET next == {k \in DOMAIN a : (at = <<>> \/ k > at[Len(at)]) /\ a[k] = t}
    IN  IF next = {} \/ (at # <<>> /\ at[Len(at)] = 0) THEN at ELSE Append(at, Min(next)), <<>>, b)
AddsItems(b, a) ==
  LET at == Alignment(b, a)
      start(g) == IF g = 1 THEN 0 ELSE at[g - 1]
      end(g) == IF g = Len(at) + 1 THEN Len(a) ELSE at[g] - 1
  IN /\ Len(at) = Len(b) /\ \A i \in DOMAIN at : a[at[i]] = b[i]
     /\ \A k \in DOMAIN a : TokenKind(a[k]) # "check"
     /\ \A g \in 1..(Len(at) + 1) : IsItem(a, start(g), end(g))

----------------------------------------------------------------------------
NoDiff == [removed |-> {}, added |-> {}, shown |-> <<>>]
Init ==
  /\ edits = 0 /\ pc = "working" /\ diff = NoDiff /\ flagged = FALSE /\ named = {}
  /\ \/ kind = "file" /\ base \in {s \in BaseFiles : WellFormed(s)}
     \/ kind = "check" /\ base \in {<<[not |-> n, check |-> c]>> : n \in BOOLEAN, c \in AllChecks}
     \/ kind = "line" /\ base \in TokenLines(MaxTokens)
  /\ now = base

Edited ==
  CASE kind = "file" -> {s \in {Without(now, i) : i \in DOMAIN now} \cup {InsertLine(now, i, l) : i \in 2..(Len(now) + 1), l \in FileLines}
                                \cup {[now EXCEPT ![i] = l] : i \in DOMAIN now, l \in FileLines} : Len(s) <= MaxLines /\ WellFormed(s)}
    [] kind = "check" -> IF edits > 0 THEN {} ELSE {<<[not |-> n, check |-> c]>> : n \in BOOLEAN, c \in AllChecks}
    [] OTHER -> {s \in {InsertLine(now, i, t) : i \in 1..(Len(now) + 1), t \in Tokens} \cup {Without(now, i) : i \in DOMAIN now} : Len(s) <= MaxTokens + 2}
Edit ==
  /\ pc # "settled" /\ edits < MaxEdit /\ edits' = edits + 1
  /\ now' \in Edited
  /\ UNCHANGED <<kind, base, pc, diff, flagged, named>>

Picked(s, K) == LET place(n) == CHOOSE i \in K : Cardinality({j \in K : j <= i}) = n IN [n \in 1..Cardinality(K) |-> s[place(n)]]
Alignments ==
  LET common == {kl \in (SUBSET DOMAIN base) \X (SUBSET DOMAIN now) :
                   Cardinality(kl[1]) = Cardinality(kl[2]) /\ Picked(base, kl[1]) = Picked(now, kl[2])}
  IN {kl \in common : \A other \in common : Cardinality(other[1]) <= Cardinality(kl[1])}
ReadsDiff ==
  /\ pc = "working" /\ pc' = "reading"
  /\ IF kind = "file" THEN \E kl \in Alignments : diff' = [removed |-> DOMAIN base \ kl[1], added |-> DOMAIN now \ kl[2], shown |-> now]
     ELSE diff' = [removed |-> IF base = now THEN {} ELSE {1}, added |-> IF base = now THEN {} ELSE {1}, shown |-> now]
  /\ UNCHANGED <<kind, base, now, edits, flagged, named>>

\* The first assertion left of this side that a condition holds of, or none.
Take(left, P(_)) == LET S == {i \in left : P(i)} IN IF S = {} THEN 0 ELSE Min(S)
\* What became of each assertion of the base: matched as written, then by subject, then by what it checks.
Became ==
  LET b == Assertions(base)  n == Assertions(now)
      Same(i, j) == n[j].test = b[i].test
      pass1 == FoldLeft(LAMBDA acc, i :
                 LET j == Take(acc.left, LAMBDA k : Same(i, k) /\ n[k].item = b[i].item)
                 IN IF b[i].test \notin Blocks(now) THEN [acc EXCEPT !.kept = @ \cup {i}]
                    ELSE IF j = 0 THEN acc ELSE [left |-> acc.left \ {j}, kept |-> acc.kept \cup {i}],
                 [left |-> DOMAIN n, kept |-> {}], [i \in DOMAIN b |-> i])
      rest == SelectSeq([i \in DOMAIN b |-> i], LAMBDA i : i \notin pass1.kept)
      pass2 == FoldLeft(LAMBDA acc, i :
                 LET s == Take(acc.left, LAMBDA k : Same(i, k) /\ n[k].item.subject = b[i].item.subject)
                     j == IF s # 0 THEN s ELSE Take(acc.left, LAMBDA k : Same(i, k) /\ Written(n[k]) = Written(b[i]))
                     how == IF j = 0 THEN "removed" ELSE IF s = 0 THEN "changed"
                            ELSE AssertionChange(b[i].item.not, n[j].item.not, CheckChange(b[i].item.check, n[j].item.check))
                 IN [left |-> acc.left \ {j}, named |-> acc.named \cup {[of |-> i, how |-> how, by |-> j]}],
                 [left |-> pass1.left, named |-> {}], rest)
  IN pass2.named
\* A removed line counts unless it is a comment, or holds only assertions that became stricter.
TightenedLine(i, became) ==
  LET b == Assertions(base) IN
  /\ \E e \in became : e.how = "tightened"
  /\ base[i].line = "assert" /\ \A k \in DOMAIN b : b[k].at = i => \E e \in became : e.of = k /\ e.how = "tightened"
RemovalCounts(i, became) == base[i].line # "comment" /\ ~TightenedLine(i, became)
ChangesRuns == \E j \in diff.added : diff.shown[j].line = "test" /\ diff.shown[j].marker # ""
Reads ==
  /\ pc = "reading" /\ pc' = "settled"
  /\ CASE kind = "file" ->
            /\ flagged' = ((\E i \in diff.removed : RemovalCounts(i, Became)) \/ ChangesRuns)
            /\ named' = Became \cup {[of |-> 0, how |-> "deleted_test", by |-> t] : t \in Blocks(base) \ Blocks(now)}
                               \cup {[of |-> 0, how |-> "skipped", by |-> t] : t \in {u \in Blocks(now) : Marker(now, u) # "" /\ (u \notin Blocks(base) \/ Marker(base, u) = "")}}
       [] kind = "check" ->
            LET how == AssertionChange(base[1].not, now[1].not, CheckChange(base[1].check, now[1].check))
            IN  named' = {[of |-> 1, how |-> how, by |-> 1]} /\ flagged' = (how \notin {"kept", "tightened"})
       [] OTHER -> named' = {} /\ flagged' = (base # now /\ base # <<>> /\ ~AddsItems(base, now))
  /\ UNCHANGED <<kind, base, now, edits, diff>>
RunsAgain ==
  /\ pc = "settled" /\ edits < MaxEdit /\ pc' = "working" /\ flagged' = FALSE /\ named' = {} /\ diff' = NoDiff
  /\ UNCHANGED <<kind, base, now, edits>>
Next == Edit \/ ReadsDiff \/ Reads \/ RunsAgain
Spec == Init /\ [][Next]_vars

----------------------------------------------------------------------------
Steady(k) == pc = "settled" /\ kind = k /\ diff.shown = now
Meaning(i) == IF i.not THEN Values \ Admits(i.check) ELSE Admits(i.check)
Runs(s, t) == Marker(s, t) = ""
\* An edit the receipt passes over leaves, for each assertion that ran, one that runs and admits no value the old one did not.
QuietEditsKeepTheChecks ==
  Steady("file") /\ ~flagged =>
    \A a \in Range(Assertions(base)) : Runs(base, a.test) =>
      \E b \in Range(Assertions(now)) : b.item.subject = a.item.subject /\ Runs(now, b.test) /\ Meaning(b.item) \subseteq Meaning(a.item)
\* It leaves every test of the base there, and no test skipped that ran; the assertion is in its own test when no test was added.
QuietEditsKeepTheTests ==
  Steady("file") /\ ~flagged =>
    /\ \A t \in Blocks(base) : t \in Blocks(now) /\ (Runs(base, t) => Runs(now, t))
    /\ Blocks(base) = Blocks(now) => \A a \in Range(Assertions(base)) :
         \E b \in Range(Assertions(now)) : b.test = a.test /\ b.item.subject = a.item.subject /\ Meaning(b.item) \subseteq Meaning(a.item)
\* Each test the edit deleted or skipped, and each assertion it dropped, is named, test by test.
LossesAreNamed ==
  Steady("file") => \A a \in Range(Assertions(base)) :
    \/ \E e \in named : e.how = "deleted_test" /\ e.by = a.test
    \/ \E b \in Range(Assertions(now)) : b.test = a.test /\ b.item.subject = a.item.subject /\ Meaning(b.item) \subseteq Meaning(a.item)
    \/ \E e \in named : e.how \in {"removed", "changed", "loosened", "dropped_not"} /\ Assertions(base)[e.of] = a
\* A check is read as stricter, or as no weaker, only where every value it admits the old one admitted.
StricterIsStricter ==
  Steady("check") /\ ~flagged =>
    LET of(s) == IF s[1].not THEN Values \ Admits(s[1].check) ELSE Admits(s[1].check) IN of(now) \subseteq of(base)
\* A line taken as extended keeps each token of the old line in order, at the depth it had, and checks nothing.
Kept(a) == {at \in [DOMAIN base -> DOMAIN a] : (\A i, j \in DOMAIN base : i < j => at[i] < at[j]) /\ \A i \in DOMAIN base : a[at[i]] = base[i]}
ExtendedLinesKeepTheirShape ==
  Steady("line") /\ ~flagged /\ base # <<>> =>
    /\ base = now \/ "expect" \notin Range(now)
    /\ \E at \in Kept(now) : \A i \in DOMAIN base : Depth(now, 0, at[i]) = Depth(base, 0, i)
TypeOK ==
  /\ pc \in {"working", "reading", "settled"} /\ edits \in 0..MaxEdit /\ flagged \in BOOLEAN
  /\ kind = "file" => WellFormed(now) /\ diff.removed \subseteq DOMAIN base /\ diff.added \subseteq DOMAIN diff.shown
  /\ pc # "settled" => ~flagged /\ named = {}
Inv == TypeOK /\ QuietEditsKeepTheChecks /\ QuietEditsKeepTheTests /\ LossesAreNamed /\ StricterIsStricter /\ ExtendedLinesKeepTheirShape
================================================================================
