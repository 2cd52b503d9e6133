---------------------------- MODULE MCProviders -----------------------------
(***************************************************************************)
(* The failures a reply meets in TLC's run of Providers.                   *)
(***************************************************************************)
EXTENDS Providers

\* A rate limit that asks for a long wait, a server's failure, a transport's, a
\* refused request whose text reads like one, a used-up quota and a plain error.
Failed(terminal, transient, status, wait) == [terminal |-> terminal, transient |-> transient, status |-> status, wait |-> wait]
GivenFailures ==
  {Failed(FALSE, FALSE, 429, 100), Failed(FALSE, FALSE, 503, 0), Failed(FALSE, TRUE, 0, 0),
   Failed(FALSE, TRUE, 400, 0), Failed(TRUE, TRUE, 429, 0), Failed(FALSE, FALSE, 0, 0)}
MCSeconds == {0, 30, 115}
=============================================================================
