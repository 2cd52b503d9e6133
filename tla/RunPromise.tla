----------------------------- MODULE RunPromise -----------------------------
(***************************************************************************)
(* What a session promises about a run and the messages sent into it,      *)
(* without saying how: runs open one after the other, a message belongs to *)
(* the open run that accepted it, reaches the model in that run or never,  *)
(* and a run ends once, completed only with no message left over.          *)
(***************************************************************************)
EXTENDS Naturals

CONSTANTS MaxRun, MaxInput

Runs == 1 .. MaxRun
Messages == 1 .. MaxInput

VARIABLES opened,     \* the last run opened
          message,    \* what became of each message
          messageRun, \* the run that accepted it; 0 when none
          over        \* how each run ended

promiseVars == <<opened, message, messageRun, over>>

Waiting == {i \in Messages : message[i] = "accepted"}
Open == opened > 0 /\ over[opened] = "none"

Init ==
  /\ opened = 0
  /\ message = [i \in Messages |-> "unsent"]
  /\ messageRun = [i \in Messages |-> 0]
  /\ over = [r \in Runs |-> "none"]

Mark(some, as) == message' = [i \in Messages |-> IF i \in some THEN as ELSE message[i]]

\* A run opens, with the messages that waited for it.
OpenRun(some) ==
  /\ opened < MaxRun /\ Waiting = {}
  /\ \A i \in some : message[i] = "unsent"
  /\ opened' = opened + 1
  /\ Mark(some, "accepted")
  /\ messageRun' = [i \in Messages |-> IF i \in some THEN opened + 1 ELSE messageRun[i]]
  /\ UNCHANGED over

Accept(i) ==
  /\ Open /\ message[i] = "unsent"
  /\ Mark({i}, "accepted")
  /\ messageRun' = [messageRun EXCEPT ![i] = opened]
  /\ UNCHANGED <<opened, over>>

\* Messages reach the model, in the run that accepted them.
Give(some) ==
  /\ Open /\ some # {}
  /\ \A i \in some : message[i] = "accepted" /\ messageRun[i] = opened
  /\ Mark(some, "given")
  /\ UNCHANGED <<opened, messageRun, over>>

TakeBack ==
  /\ Waiting # {}
  /\ Mark(Waiting, "withdrawn")
  /\ UNCHANGED <<opened, messageRun, over>>

\* What no run took is lost before the next one opens.
Lose ==
  /\ Waiting # {}
  /\ Mark(Waiting, "lost")
  /\ UNCHANGED <<opened, messageRun, over>>

End(how) ==
  /\ Open
  /\ how = "completed" => Waiting = {}
  /\ over' = [over EXCEPT ![opened] = how]
  /\ UNCHANGED <<opened, message, messageRun>>

Next ==
  \/ \E some \in SUBSET Messages : OpenRun(some) \/ Give(some)
  \/ \E i \in Messages : Accept(i)
  \/ TakeBack \/ Lose
  \/ \E how \in {"completed", "incomplete", "aborted", "error"} : End(how)

Spec == Init /\ [][Next]_promiseVars
=============================================================================
