----------------------------- MODULE MCJournal ------------------------------
(***************************************************************************)
(* Values for Journal: a session whose first reply starts a subagent, or   *)
(* asks a question, writes and reads; and the subagent, which writes.      *)
(***************************************************************************)
EXTENDS Journal, TLC

MCReplies == (Top :> {{1}, {2, 3, 4}}) @@ (Kid :> {{5}})
MCKind == (1 :> "agent") @@ (2 :> "ask") @@ (3 :> "write") @@ (4 :> "read") @@ (5 :> "write")
=============================================================================
