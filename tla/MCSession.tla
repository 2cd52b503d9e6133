----------------------------- MODULE MCSession ------------------------------
(* Small values of Session's constants for TLC.                              *)
EXTENDS Session

\* Calls that read, change a file, run a command a rule allows, or are the floor's to refuse.
MCKinds == {"look", "change", "shell", "never"}
MCAccess == [k \in MCKinds |-> CASE k = "look" -> "read" [] k = "change" -> "write" [] OTHER -> "run"]
MCRule == [k \in MCKinds |-> IF k = "shell" THEN {"allow"} ELSE {}]
MCSize == <<1, 2>>
=============================================================================
