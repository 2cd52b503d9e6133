---------------------------- MODULE Conversation -----------------------------
(***************************************************************************)
(* The conversation as the loop keeps it and as a session's file gives it  *)
(* back: the history and the request's ledger of packages/core/src/loop.ts *)
(* (`start', `deliver', `runCalls', `compact', `compactedHead'), the cut   *)
(* of compact-rule.ts, and `conversation' and `recovery' of session.ts,    *)
(* which rebuild both from the entries.  What a message says is left out:  *)
(* it is its kind and what it is of, and a summary's head also the input   *)
(* it repeats as given.                                                    *)
(***************************************************************************)
EXTENDS Integers, Sequences, SequencesExt

CONSTANTS
  Referenced,   \* the request comes with issue references
  Checked,      \* the base has a check plan the model is told of
  Keep,         \* how many messages the verbatim tail holds at least
  MaxRun, MaxReply, MaxAmend, MaxCompaction, MaxCrash

VARIABLES
  history, ledger,      \* the conversation, and the request's input with its order
  entries,              \* the session's file
  order,                \* `nextInputOrder'
  queue,                \* amendments not delivered
  todo,                 \* the calls of the last reply without a result
  answered,             \* the orders of the answers saved and not yet told, by call
  summarized,           \* the history begins with a summary's head
  open, runs, replies, amends, compactions, crashes
vars == <<history, ledger, entries, order, queue, todo, answered, summarized, open, runs, replies, amends, compactions, crashes>>
counts == <<runs, replies, amends, compactions, crashes>>

\* What a message or an entry is of: a run, an amendment, a reply, a count, or
\* a call, by its reply and its place in it.
Of(n) == <<n, 0>>
Message(kind, of) == [kind |-> kind, of |-> of, given |-> <<>>]
Entry(type, of) == [type |-> type, of |-> of]
\* The calls of a reply: work, or a question and work.
Calls(r) == IF r % 2 = 0 THEN <<<<r, 1>>>> ELSE <<<<r, 1>>, <<r, 2>>>>
IsAsk(call) == call[1] % 2 = 1 /\ call[2] = 1

\* A message joins the ledger at its place in the order input came.
Place(in, at) == Max({0} \cup {i \in 1 .. Len(in) : in[i].at <= at})
ToLedger(in, message, at) ==
  SubSeq(in, 1, Place(in, at)) \o <<[message |-> message, at |-> at]>> \o SubSeq(in, Place(in, at) + 1, Len(in))
Said(in) == [i \in 1 .. Len(in) |-> in[i].message]

\* The head of a compacted conversation: each of the request's input, exactly
\* as given, that the tail does not hold, before the summary.
Without(said, tail) == [i \in 1 .. Len(said) |-> IF Contains(tail, said[i]) THEN <<>> ELSE <<said[i]>>]
Head0(in, tail) == [kind |-> "head", of |-> Of(0), given |-> Without(Said(in), tail)]
CutAt(h, from) ==
  LET starts == {k \in from + 1 .. Len(h) : k > 1 /\ Len(h) - k + 1 >= Keep /\ h[k].kind # "result"}
  IN IF starts = {} THEN 0 ELSE Max(starts) - 1
Compacted(h, in, cut) == <<Head0(in, SubSeq(h, cut + 1, Len(h)))>> \o SubSeq(h, cut + 1, Len(h))

------------------------------------------------------------------------------
(* What the file gives back. *)

\* A repair goes after the other results of its reply; one whose reply was
\* summarized goes with it.
Repaired(h, call) ==
  LET at == {i \in 1 .. Len(h) : h[i] = Message("reply", Of(call[1]))}
      after == Max({n \in Max(at) .. Len(h) : \A i \in Max(at) + 1 .. n : h[i].kind = "result"})
  IN IF at = {} THEN h ELSE SubSeq(h, 1, after) \o <<Message("result", call)>> \o SubSeq(h, after + 1, Len(h))

\* What the first n entries hold: where one is, and whether a call's answer was saved.
OrderOf(es, n, entry) == Max({i \in 1 .. n : es[i] = entry})
Given(es, n, call) == \E i \in 1 .. n : es[i] = Entry("clarification", call)

ReadBack(state, es, n) ==
  LET e == es[n]
      h == state.history
      push(message) == [state EXCEPT !.history = Append(h, message)]
      input(message, at) == [history |-> Append(h, message), ledger |-> ToLedger(state.ledger, message, at), summarized |-> state.summarized]
      asked == <<Message("asked", e.of)>> \o IF Checked THEN <<Message("checking", e.of)>> ELSE <<>>
  IN CASE e.type = "request" -> [history |-> h \o asked, ledger |-> [i \in 1 .. Len(asked) |-> [message |-> asked[i], at |-> n]], summarized |-> state.summarized]
       [] e.type = "references" -> input(Message("referenced", e.of), n)
       [] e.type = "delivered" -> input(Message("amended", e.of), OrderOf(es, n, Entry("amendment", e.of)))
       [] e.type = "assistant" -> push(Message("reply", e.of))
       [] e.type = "tool_result" ->
            IF Given(es, n, e.of) THEN input(Message("result", e.of), OrderOf(es, n, Entry("clarification", e.of))) ELSE push(Message("result", e.of))
       [] e.type = "reconciliation" -> [state EXCEPT !.history = Repaired(h, e.of)]
       [] e.type = "compaction" -> [history |-> Compacted(h, state.ledger, IF Len(h) > e.of[1] THEN Len(h) - e.of[1] ELSE 0), ledger |-> state.ledger, summarized |-> TRUE]
       [] OTHER -> state

\* What each prefix of the entries gives, and what all of them do.
Blank == [history |-> <<>>, ledger |-> <<>>, summarized |-> FALSE]
Reads(es) == LET read[n \in 0 .. Len(es)] == IF n = 0 THEN Blank ELSE ReadBack(read[n - 1], es, n) IN read
Rebuilt(es) == Reads(es)[Len(es)]

\* What opening a file adds: the result of a saved answer, which only the call
\* whose turn it is can have, a repair for every other call without a result,
\* and the end of the run.
Saved == IF todo # <<>> /\ Given(entries, Len(entries), Head(todo)) THEN 1 ELSE 0
Recovery ==
  [i \in 1 .. Len(todo) |-> Entry(IF i <= Saved THEN "tool_result" ELSE "reconciliation", todo[i])]
  \o IF open THEN <<Entry("run_end", Of(runs))>> ELSE <<>>

------------------------------------------------------------------------------
Init ==
  /\ history = <<>> /\ ledger = <<>> /\ entries = <<>> /\ order = 0 /\ queue = <<>> /\ todo = <<>> /\ answered = <<>>
  /\ summarized = FALSE /\ open = FALSE /\ runs = 0 /\ replies = 0 /\ amends = 0 /\ compactions = 0 /\ crashes = 0

Write(es) == entries' = entries \o es
Add(messages) == history' = history \o messages

\* A run's request, its references and its checks, in the order the model is
\* told of them.
Opening(run) ==
  <<Message("asked", Of(run))>> \o (IF Referenced THEN <<Message("referenced", Of(run))>> ELSE <<>>)
  \o IF Checked THEN <<Message("checking", Of(run))>> ELSE <<>>
Start ==
  /\ ~open /\ runs < MaxRun /\ runs' = runs + 1 /\ open' = TRUE /\ queue' = <<>> /\ answered' = <<>>
  /\ Write(<<Entry("request", Of(runs'))>> \o IF Referenced THEN <<Entry("references", Of(runs'))>> ELSE <<>>)
  /\ Add(Opening(runs')) /\ order' = Len(Opening(runs'))
  /\ ledger' = [i \in 1 .. Len(Opening(runs')) |-> [message |-> Opening(runs')[i], at |-> i - 1]]
  /\ UNCHANGED <<todo, summarized, replies, amends, compactions, crashes>>

Amend ==
  /\ open /\ amends < MaxAmend /\ amends' = amends + 1 /\ order' = order + 1
  /\ Write(<<Entry("amendment", Of(amends'))>>) /\ queue' = Append(queue, [id |-> Of(amends'), at |-> order])
  /\ UNCHANGED <<history, ledger, todo, answered, summarized, open, runs, replies, compactions, crashes>>

\* What is due enters the ledger in the order it came, each at its own place.
Joins(in, due) ==
  LET joined[n \in 0 .. Len(due)] == IF n = 0 THEN in ELSE ToLedger(joined[n - 1], Message("amended", due[n].id), due[n].at) IN joined
Joined(in, due) == Joins(in, due)[Len(due)]
Deliver ==
  /\ open /\ todo = <<>> /\ queue # <<>> /\ queue' = <<>>
  /\ Write([i \in 1 .. Len(queue) |-> Entry("delivered", queue[i].id)])
  /\ Add([i \in 1 .. Len(queue) |-> Message("amended", queue[i].id)])
  /\ ledger' = Joined(ledger, queue)
  /\ UNCHANGED <<order, todo, answered, summarized, open, counts>>

Reply ==
  /\ open /\ todo = <<>> /\ replies < MaxReply /\ replies' = replies + 1
  /\ Write(<<Entry("assistant", Of(replies'))>>) /\ Add(<<Message("reply", Of(replies'))>>) /\ todo' = Calls(replies')
  /\ UNCHANGED <<ledger, order, queue, answered, summarized, open, runs, amends, compactions, crashes>>

\* The operator's answer is saved as it is submitted, and takes its place in
\* the input then; it enters the conversation in its call's result.
Save ==
  /\ open /\ todo # <<>> /\ IsAsk(Head(todo)) /\ answered = <<>> /\ order' = order + 1
  /\ Write(<<Entry("clarification", Head(todo))>>) /\ answered' = <<[call |-> Head(todo), at |-> order]>>
  /\ UNCHANGED <<history, ledger, queue, todo, summarized, open, counts>>

Result ==
  /\ open /\ todo # <<>> /\ todo' = Tail(todo) /\ answered' = <<>>
  /\ Write(<<Entry("tool_result", Head(todo))>>) /\ Add(<<Message("result", Head(todo))>>)
  /\ ledger' = IF answered = <<>> THEN ledger ELSE ToLedger(ledger, Message("result", Head(todo)), answered[1].at)
  /\ UNCHANGED <<order, queue, summarized, open, counts>>

Summarized == summarized' = TRUE
KeptLess(cut) == Len(history) - cut - 1
Kept(cut) == Len(history) - cut

\* A compaction, before a request or on the operator's word between runs.
Compact ==
  LET from == IF summarized THEN 1 ELSE 0
      cut == CutAt(history, from)
  IN /\ runs > 0 /\ todo = <<>> /\ compactions < MaxCompaction /\ compactions' = compactions + 1 /\ cut > from
     /\ history' = Compacted(history, ledger, cut) /\ Summarized
     /\ Write(<<Entry("compaction", Of(Kept(cut)))>>)
     /\ UNCHANGED <<ledger, order, queue, todo, answered, open, runs, replies, amends, crashes>>

End == open /\ todo = <<>> /\ queue = <<>> /\ open' = FALSE /\ Write(<<Entry("run_end", Of(runs))>>) /\ UNCHANGED <<history, ledger, order, queue, todo, answered, summarized, counts>>

\* The process ends and the session is opened again: the conversation is what
\* its entries give.
Reopen ==
  /\ entries # <<>> /\ crashes < MaxCrash /\ crashes' = crashes + 1
  /\ Write(Recovery)
  /\ LET read == Rebuilt(entries') IN history' = read.history /\ ledger' = [i \in 1 .. Len(read.ledger) |-> [message |-> read.ledger[i].message, at |-> i - 1]] /\ summarized' = read.summarized
  /\ order' = Len(ledger') /\ open' = FALSE /\ todo' = <<>> /\ queue' = <<>> /\ answered' = <<>>
  /\ UNCHANGED <<runs, replies, amends, compactions>>

Next == Start \/ Amend \/ Deliver \/ Reply \/ Save \/ Result \/ Compact \/ End \/ Reopen
Spec == Init /\ [][Next]_vars

------------------------------------------------------------------------------
\* What the open session has is what its file gives back: the conversation
\* the model saw, message for message, after amendments, answers saved before
\* or after them, compactions and earlier recoveries.
ReadsBackAsItWas == Rebuilt(entries).history = history

\* The same of the request's ledger, in the order the input came.
LedgerReadsBack == Said(Rebuilt(entries).ledger) = Said(ledger)

\* Nothing the operator gave to the request is left to a summary's words:
\* what entered its ledger is a message of the conversation, or repeated as
\* given in the head.
InputIsKeptAsGiven ==
  \A i \in 1 .. Len(ledger) :
    Contains(history, ledger[i].message) \/ \E j \in 1 .. Len(history) : Contains(history[j].given, <<ledger[i].message>>)

\* A tool's result always follows its reply with only results between, and a
\* reply has a result for each of its calls once a request is sent: providers
\* refuse any other conversation.
CallsKeepTheirResults ==
  /\ \A i \in 1 .. Len(history) : history[i].kind = "result" =>
       \E j \in 1 .. i - 1 : history[j] = Message("reply", Of(history[i].of[1])) /\ \A k \in j + 1 .. i : history[k].kind = "result"
  /\ todo = <<>> => \A i \in 1 .. Len(history) : history[i].kind = "reply" =>
       \A c \in 1 .. Len(Calls(history[i].of[1])) : \E j \in 1 .. Len(history) :
         \A k \in 1 .. Len(history) : history[k] = Message("result", Calls(history[i].of[1])[c]) <=> k = j

\* The types of the state.
TypeOK ==
  /\ runs \in 0 .. MaxRun /\ replies \in 0 .. MaxReply /\ amends \in 0 .. MaxAmend /\ order \in Nat
  /\ \A i \in 1 .. Len(history) : history[i].kind \in {"asked", "referenced", "checking", "amended", "reply", "result", "head"}
  /\ summarized = (\E i \in 1 .. Len(history) : history[i].kind = "head") /\ Len(answered) <= 1

\* What the session promises of its conversation, in one: its file gives it and
\* the ledger back, input survives a summary, and results keep their replies.
Safety == ReadsBackAsItWas /\ LedgerReadsBack /\ InputIsKeptAsGiven /\ CallsKeepTheirResults
=============================================================================
