------------------------------- MODULE Weakening -------------------------------
(***************************************************************************)
(* The changes of a request that may weaken the evidence its result rests  *)
(* on, read from a diff against the request's base and from the file as it *)
(* is when the diff is followed up: LemmaScript annotations in source, the *)
(* trust a Dafny proof is given, and the check scripts of a manifest.  The *)
(* agent edits any line; Git picks any shortest diff.                      *)
(***************************************************************************)
EXTENDS Naturals, Sequences, FiniteSetsExt

CONSTANTS
  Units,       \* the functions a source file may declare, and the lemmas of a proof
  MaxBase, MaxLines, MaxEdit   \* bounds the base's lines, the file's lines and the edits

VARIABLES
  kind,        \* "source", "proof" or "manifest"
  base, now,   \* the file at the request's base and as it is: its lines, or its scripts
  generated,   \* the program LemmaScript generated last for a proof, as lines
  edits, pc,
  diff,        \* what the gate read: the lines removed and added, and the file they number
  listed       \* the weakenings of the receipt
vars == <<kind, base, now, generated, edits, pc, diff, listed>>

Line(k, x) == [kind |-> k, of |-> x]
Contracts == {"requires", "ensures"}
Annotations == Contracts \cup {"assume", "skip", "verify"}
\* A unit is a declaration; a statement is the first of the body of the unit above it.
SourceLines == {Line(k, "x") : k \in Contracts \cup {"assume"}} \cup {Line(k, "") : k \in {"skip", "verify", "statement"}} \cup {Line("unit", u) : u \in Units}
\* A lemma is declared with its body or, as an axiom, without.
ProofLines == {Line("assume", "x")} \cup {Line(k, u) : k \in {"lemma", "axiom"}, u \in Units}
Scripts == [{"check", "lint", "test"} -> {"absent", "a", "b"}]

WellFormed(s) ==
  /\ \A i, j \in DOMAIN s : s[i].of = s[j].of /\ i # j => s[i].kind \notin {"unit", "lemma", "axiom"} \/ s[j].kind \notin {"unit", "lemma", "axiom"}
  /\ \A i \in DOMAIN s : s[i].kind = "statement" => i > 1 /\ \E j \in 1..(i - 1) : s[j].kind = "unit" /\ \A k \in (j + 1)..(i - 1) : s[k].kind \in Annotations
Files(lines, n) == {s \in UNION {[1..k -> lines] : k \in 0..n} : WellFormed(s)}
LinesOf(k) == IF k = "source" THEN SourceLines ELSE ProofLines

NoDiff == [removed |-> {}, added |-> {}, shown |-> <<>>]
Init ==
  /\ edits = 0 /\ pc = "working" /\ diff = NoDiff /\ listed = {}
  /\ \/ kind = "source" /\ base \in Files(SourceLines, MaxBase) /\ generated = <<>>
     \/ kind = "proof" /\ base \in Files(ProofLines, MaxBase) /\ generated \in Files(ProofLines, 1)
     \/ kind = "manifest" /\ base \in Scripts /\ generated = <<>>
  /\ now = base

----------------------------------------------------------------------------
(* Edits.                                                                    *)

InsertAt(s, i, l) == SubSeq(s, 1, i - 1) \o <<l>> \o SubSeq(s, i, Len(s))
Without(s, i) == SubSeq(s, 1, i - 1) \o SubSeq(s, i + 1, Len(s))
Edited ==
  IF kind = "manifest" THEN {[now EXCEPT ![n] = c] : n \in DOMAIN now, c \in {"absent", "a", "b"}}
  ELSE {s \in {Without(now, i) : i \in DOMAIN now} \cup {InsertAt(now, i, l) : i \in 1..(Len(now) + 1), l \in LinesOf(kind)} : Len(s) <= MaxLines /\ WellFormed(s)}
Edit ==
  /\ pc # "settled" /\ edits < MaxEdit /\ edits' = edits + 1
  /\ now' \in Edited
  /\ UNCHANGED <<kind, base, generated, pc, diff, listed>>

----------------------------------------------------------------------------
(* Source: which unit a line annotates.                                      *)

Nothing == [unit |-> "", statement |-> FALSE]
Annotates(s, i) ==
  LET after == {j \in (i + 1)..Len(s) : s[j].kind \notin Annotations}
  IN IF i \notin DOMAIN s \/ after = {} THEN Nothing
     ELSE IF s[i].kind \notin Annotations THEN Nothing
     ELSE LET led == Min(after)
          IN  [unit |-> s[Max({j \in 1..led : s[j].kind = "unit"})].of, statement |-> s[led].kind = "statement"]
Declared(s) == {s[i].of : i \in {j \in DOMAIN s : s[j].kind = "unit"}}
LinesOn(s, u, kinds) == {s[i] : i \in {j \in DOMAIN s : s[j].kind \in kinds /\ Annotates(s, j).unit = u}}
SkippedIn(s, u) == \E i \in DOMAIN s : s[i].kind = "skip" /\ Annotates(s, i) = [unit |-> u, statement |-> FALSE]
VerifyOn(s, u) == \E i \in DOMAIN s : s[i].kind = "verify" /\ Annotates(s, i) = [unit |-> u, statement |-> FALSE]
\* What LemmaScript extracts: with a verify in the file, only the units that have one.
Extracted(s, u) == u \in Declared(s) /\ ~SkippedIn(s, u) /\ (VerifyOn(s, u) \/ \A v \in Declared(s) : ~VerifyOn(s, v))
Proved(s) == {u \in Declared(s) : Extracted(s, u) /\ (LinesOn(s, u, Contracts) # {} \/ VerifyOn(s, u))}
Unselected(s) == {u \in Declared(s) : ~Extracted(s, u) /\ ~SkippedIn(s, u) /\ LinesOn(s, u, Contracts) # {}}

----------------------------------------------------------------------------
(* The diff, and the lines left when those that only moved are matched.      *)

Picked(s, K) ==
  LET place(n) == CHOOSE i \in K : Cardinality({j \in K : j <= i}) = n IN [n \in 1..Cardinality(K) |-> s[place(n)]]
\* The lines Git may keep: a longest common subsequence, on each side.
Alignments ==
  LET common == {kl \in (SUBSET DOMAIN base) \X (SUBSET DOMAIN now) :
                   Cardinality(kl[1]) = Cardinality(kl[2]) /\ Picked(base, kl[1]) = Picked(now, kl[2])}
  IN {kl \in common : \A other \in common : Cardinality(other[1]) <= Cardinality(kl[1])}
ReadsDiff ==
  /\ pc = "working" /\ pc' = "reading"
  /\ IF kind = "manifest" THEN diff' = diff
     ELSE \E kl \in Alignments : diff' = [removed |-> DOMAIN base \ kl[1], added |-> DOMAIN now \ kl[2], shown |-> now]
  /\ UNCHANGED <<kind, base, now, generated, edits, listed>>

Removed(i) == base[i]
Added(i) == diff.shown[i]
\* The lines of one side that no line of the same key on the other is left for, in their order.
Unmatched(lines, Key(_), others, OtherKey(_)) ==
  {i \in lines : Cardinality({j \in lines : j <= i /\ Key(j) = Key(i)}) > Cardinality({j \in others : OtherKey(j) = Key(i)})}
\* Mutant: every skip reads the same, whatever it leaves out.
SkipKeyAsWritten(line, s, i) == <<line, Nothing>>
\* A skip is keyed with what it leaves out on its side; the side as changed is the content read after the diff.
SkipKey(line, s, i) == <<line, IF line.kind = "skip" THEN Annotates(s, i) ELSE Nothing>>
RemovedKey(i) == SkipKey(Removed(i), base, i)
AddedKey(i) == SkipKey(Added(i), now, i)
\* A file the base lacks had nothing; a unit that cannot be named counts as there.
Existed(i) == base # <<>> /\ LET u == Annotates(now, i).unit IN u = "" \/ u \in Declared(base)
Weakens(k, removed, existed) ==
  IF removed THEN k \in Contracts ELSE k = "assume" \/ (k \in {"requires", "skip"} /\ existed)
Entry(change, line, u) == [change |-> change, line |-> line, unit |-> u]

RemovedContracts ==
  {Entry("removed_contract", Removed(i), "") : i \in {j \in Unmatched(diff.removed, Removed, diff.added, Added) : Weakens(Removed(j).kind, TRUE, TRUE)}}
\* In a proof LemmaScript generated, a line its last program holds is LemmaScript's.
GeneratedLine(i) == generated[i]
Written == IF generated = <<>> THEN diff.added ELSE Unmatched(diff.added, Added, DOMAIN generated, GeneratedLine)
AddedLines ==
  LET weak == {i \in Unmatched(Written, AddedKey, diff.removed, RemovedKey) : Weakens(Added(i).kind, FALSE, Existed(i))}
  IN {Entry("added_" \o Added(i).kind, Added(i), IF Added(i).kind = "skip" THEN Annotates(now, i).unit ELSE "") : i \in weak}
Selection == {Entry("added_skip", Line("verify", ""), u) : u \in Unselected(now) \cap Proved(base)}
Axioms(s) == {s[i].of : i \in {j \in DOMAIN s : s[j].kind = "axiom"}}
AxiomChanges == {Entry("added_assume", Line("axiom", u), u) : u \in Axioms(now) \ (Axioms(base) \cup Axioms(generated))}

\* A manifest's check runs alone; otherwise discovery runs the others.
Selected(m) == {n \in DOMAIN m : m[n] # "absent" /\ (n = "check" \/ m["check"] = "absent")}
CheckScriptWeakens(n) == n \in Selected(base) /\ (n \notin Selected(now) \/ now[n] # base[n])
CheckScriptChanges == {Entry("changed_check_script", Line("script", n), "") : n \in {s \in DOMAIN base : CheckScriptWeakens(s)}}

Lists ==
  /\ pc = "reading" /\ pc' = "settled"
  /\ listed' = CASE kind = "source" -> RemovedContracts \cup AddedLines \cup Selection
                 [] kind = "proof" -> AddedLines \cup AxiomChanges
                 [] OTHER -> CheckScriptChanges
  /\ UNCHANGED <<kind, base, now, generated, edits, diff>>
\* A request sent back runs again, and is read again against the same base.
RunsAgain ==
  /\ pc = "settled" /\ pc' = "working" /\ edits < MaxEdit /\ listed' = {} /\ diff' = NoDiff
  /\ UNCHANGED <<kind, base, now, generated, edits>>

Next == Edit \/ ReadsDiff \/ Lists \/ RunsAgain
Spec == Init /\ [][Next]_vars

----------------------------------------------------------------------------
\* The listing says what it says of the file it read: nobody edited it between the diff and its content.
Steady == pc = "settled" /\ (kind = "manifest" \/ diff.shown = now)
Count(s, line) == Cardinality({i \in DOMAIN s : s[i] = line})
Both == Declared(base) \cap Declared(now)
Listed(change, line) == \E e \in listed : e.change = change /\ e.line = line

\* A contract a function of the base lost is listed, unless as many of the same line are still in the file.
LostContractsAreListed ==
  Steady /\ kind = "source" =>
    \A u \in Both : \A l \in LinesOn(base, u, Contracts) \ LinesOn(now, u, Contracts) :
      Listed("removed_contract", l) \/ Count(now, l) >= Count(base, l)
\* A requires a function of the base gained, or an assumption more than the base's, is listed likewise.
GainsAreListed ==
  Steady /\ kind = "source" =>
    /\ \A u \in Both : \A l \in LinesOn(now, u, {"requires"}) \ LinesOn(base, u, {"requires"}) :
         Listed("added_requires", l) \/ Count(now, l) <= Count(base, l) \/ \E v \in Declared(now) \ Declared(base) : l \in LinesOn(now, v, {"requires"})
    /\ \A l \in {n \in SourceLines : n.kind = "assume"} : Count(now, l) > Count(base, l) => Listed("added_assume", l)
\* A function the base proved that is proved no longer has a line of its own in the list, lost its
\* contract, or is left out by a skip that no diff shows since its line stayed.
StayedSkip(u) ==
  \E i \in DOMAIN base, j \in DOMAIN now :
    base[i].kind = "skip" /\ i \notin diff.removed /\ j \notin diff.added /\ now[j].kind = "skip" /\ Annotates(now, j).unit = u /\ Annotates(base, i) # Annotates(now, j)
LeftOutIsListed ==
  Steady /\ kind = "source" =>
    \A u \in Proved(base) \cap Declared(now) :
      ~Extracted(now, u) => (\E e \in listed : e.change = "added_skip" /\ e.unit = u) \/ StayedSkip(u) \/ LinesOn(now, u, Contracts) = {}
\* What a proof takes on trust beyond its base and LemmaScript's own program is listed.
TrustIsListed ==
  Steady /\ kind = "proof" =>
    /\ \A l \in ProofLines : l.kind = "assume" /\ Count(now, l) > Count(base, l) + Count(generated, l) => Listed("added_assume", l)
    /\ \A u \in Axioms(now) : u \notin Axioms(base) => Listed("added_assume", Line("axiom", u)) \/ u \in Axioms(generated)
\* A check the base selected still runs, and runs what it ran, unless the change is listed.
ChecksAreKept ==
  Steady /\ kind = "manifest" =>
    \A n \in Selected(base) : (n \in Selected(now) /\ now[n] = base[n]) # Listed("changed_check_script", Line("script", n))
\* Nothing is listed of a file that changed nothing a proof or a check rests on.
NoFalseAlarm ==
  Steady /\ kind # "manifest" => \A e \in listed :
    \/ e.change = "removed_contract" /\ Count(now, e.line) < Count(base, e.line)
    \/ e.change \in {"added_requires", "added_assume"} /\ Count(now, e.line) > Count(base, e.line)
    \/ e.change = "added_skip" /\ (e.unit = "" \/ e.unit \in Both)
TypeOK ==
  /\ pc \in {"working", "reading", "settled"} /\ edits \in 0..MaxEdit
  /\ kind # "manifest" => WellFormed(now) /\ Len(now) <= MaxLines /\ diff.removed \subseteq DOMAIN base /\ diff.added \subseteq DOMAIN diff.shown
  /\ pc # "settled" => listed = {}
Inv == TypeOK /\ LostContractsAreListed /\ GainsAreListed /\ LeftOutIsListed /\ TrustIsListed /\ ChecksAreKept /\ NoFalseAlarm
================================================================================
