------------------------------- MODULE MCGate -------------------------------
EXTENDS Gate

\* Versions 1 and 2 of the code fail their proof, each its own way; 3 fails the
\* command, proves a weak contract and breaks the model; 4 is right, but with the
\* second model the command fails as it did on the base.
MCCodes == 1 .. 4
MCLaterCodes == 3 .. 4
MCRightCode == {4}
MCUnprovedCodes == {1, 2, 4}
MCOneModel == {"m1"}
MCModels == {"m1", "m2"}
MCFailingOf(S) ==
  [proof    |-> [c \in S |-> CASE c.code = 1 -> "p1" [] c.code = 2 -> "p2" [] OTHER -> "none"],
   command  |-> [c \in S |-> CASE c.code = 3 -> "t1" [] c.code = 4 /\ c.model = "m2" -> "b1" [] OTHER -> "none"],
   contract |-> [c \in S |-> IF c.code = 3 THEN "w1" ELSE "none"],
   model    |-> [c \in S |-> IF c.code = 3 /\ c.model = "m1" THEN "v1" ELSE "none"]]
MCFailing == MCFailingOf(Contents)
=============================================================================
