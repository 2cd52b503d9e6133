------------------------------ MODULE HandBack ------------------------------
(***************************************************************************)
(* Claude through the operator's own Claude Code                           *)
(* (packages/core/src/providers/claude-code.ts, handback-rule.ts).  A      *)
(* query runs Claude Code across the steps of a run: a reply with calls    *)
(* ends the step, the engine's results answer the MCP calls Claude Code    *)
(* makes, and the next step goes on in the query or replaces it with one   *)
(* started from the engine's history.  The engine and the program are as   *)
(* this provider meets them.  A message is the set of its calls, whose ids *)
(* grow in the order they were made; texts, prompts' changes and usage are *)
(* left out.                                                               *)
(***************************************************************************)
EXTENDS Integers, Sequences

CONSTANTS MaxQuery, MaxCall, MaxLength

VARIABLES
  history,   \* the engine's messages: "user", "reply" with its calls, "result" of a call
  step,      \* "idle", or "asked" while the engine awaits a reply
  running,   \* a run is open, whose signal the queries of its steps listen to
  stopped,
  live,      \* the conversation kept for the session (`live'), 0 for none
  convs,     \* the conversations, in the order they were opened
  next       \* the next call's id
vars == <<history, step, running, stopped, live, convs, next>>

User == [t |-> "user", calls |-> {}, of |-> 0]
Reply(calls) == [t |-> "reply", calls |-> calls, of |-> 0]
Result(id) == [t |-> "result", calls |-> {}, of |-> id]
Last(s) == s[Len(s)]

Init ==
  /\ history = <<>> /\ step = "idle" /\ running = FALSE /\ stopped = FALSE /\ live = 0 /\ convs = <<>> /\ next = 1

(* The program's part of a conversation is `phase' ("opening", "running",    *)
(* "killed", "ended"), `said' (the calls of its messages), `asked' (those it *)
(* called over MCP) and `answers', how often each was answered; the rest are *)
(* the fields of Conversation.                                              *)
Opening(earlier) ==
  [phase |-> "opening", said |-> {}, asked |-> {}, answers |-> [id \in 1 .. MaxCall |-> 0],
   stream |-> TRUE, ended |-> "none", blocks |-> {}, calls |-> {}, at |-> 0, delivering |-> {},
   waiting |-> {}, early |-> {}, closed |-> FALSE, heard |-> FALSE, transcript |-> "none", earlier |-> earlier]

Answered(c) == {id \in DOMAIN c.answers : c.answers[id] > 0}
Answer(answers, ids) == [id \in DOMAIN answers |-> IF id \in ids THEN answers[id] + 1 ELSE answers[id]]

Whole(blocks) == {b \in blocks : ~b.open}
Ids(blocks) == {b.id : b \in blocks}

\* The step ends, if it still streams; a cut one keeps its whole blocks only.
Finish(c, how) ==
  IF ~c.stream THEN c ELSE [c EXCEPT !.stream = FALSE, !.ended = how, !.blocks = IF how = "done" THEN @ ELSE Whole(@)]
EndOnCalls(c) ==
  IF ~c.stream \/ c.blocks = {} THEN c
  ELSE [c EXCEPT !.calls = Ids(c.blocks), !.stream = FALSE, !.ended = "toolUse"]

\* The query is closed: the MCP calls that wait are answered as stopped, and
\* the program, once it was started, is killed.
Close(c) ==
  IF c.closed THEN c
  ELSE [c EXCEPT !.closed = TRUE, !.answers = Answer(@, c.waiting), !.waiting = {}, !.heard = FALSE,
                 !.phase = IF @ = "running" THEN "killed" ELSE @]
CloseAborted(c) == IF c.closed THEN c ELSE Finish(Close(c), "aborted")

Set(k, c) == convs' = [convs EXCEPT ![k] = c]
Forget(k) == live' = IF live = k THEN 0 ELSE live

------------------------------------------------------------------------------
(* The engine. *)

\* The operator's request, or a message that reaches the run between a
\* reply's results and its next step.
Say ==
  /\ step = "idle" /\ Len(history) < MaxLength /\ (history # <<>> => Last(history).t # "user")
  /\ \A i \in DOMAIN history : \A id \in history[i].calls : \E j \in DOMAIN history : history[j] = Result(id)
  /\ history' = Append(history, User) /\ UNCHANGED <<step, running, stopped, live, convs, next>>

\* A step of a run asks the provider: it goes on in the query whose last
\* reply the history ends with, every call of it answered, or opens another.
TurnStart(h) == IF h # <<>> /\ Last(h).t = "user" THEN Len(h) ELSE Len(h) + 1
GoesOn(same, pending, made, answered) ==
  same /\ pending # {} /\ pending = made /\ pending \subseteq answered
AnswersAny(c, same) ==  \* mutant: goes on whatever the engine kept of its reply
  same /\ ~c.closed /\ ~c.stream /\ c.calls # {}
Answers(c, same) ==
  LET behind == c.at + 1 .. TurnStart(history) - 1 IN
  GoesOn(same /\ ~c.closed /\ ~c.stream /\ \A i \in behind : history[i].t = "result", c.calls,
         IF c.at \in DOMAIN history THEN history[c.at].calls ELSE {}, {history[i].of : i \in behind})

\* The results given to the calls that wait, or kept for those to come.
Give(c, ids) ==
  [c EXCEPT !.answers = Answer(@, ids \cap c.waiting), !.waiting = @ \ ids,
            !.early = @ \cup (ids \ c.waiting), !.delivering = {}]

\* A steer is pushed first, and its writing awaited.
Steered == Last(history).t = "user"
Begin(c) == [c EXCEPT !.stream = TRUE, !.ended = "none", !.blocks = {}]
Deliver(c) ==
  LET begun == [Begin(c) EXCEPT !.calls = {}]
      results == {history[i].of : i \in c.at + 1 .. Len(history)}
      given == c.calls \cap results IN
  IF Steered THEN [begun EXCEPT !.delivering = given] ELSE Give(begun, given)

\* The prompt's position is kept and the run's signal listened to; a signal
\* that was already aborted stops it at once.
Listening(c) == LET d == [c EXCEPT !.at = Len(history) + 1] IN IF stopped THEN CloseAborted(d) ELSE [d EXCEPT !.heard = TRUE]

Ask(same) ==
  /\ step = "idle" /\ history # <<>> /\ Last(history).t # "reply" /\ (running \/ Last(history).t = "user")
  /\ step' = "asked" /\ running' = TRUE /\ UNCHANGED <<history, stopped, next>>
  /\ IF live # 0 /\ Answers(convs[live], same)
     THEN Set(live, Listening(Deliver(convs[live]))) /\ (IF stopped THEN live' = 0 ELSE UNCHANGED live)
     ELSE /\ Len(convs) < MaxQuery
          /\ LET old == IF live = 0 THEN convs ELSE [convs EXCEPT ![live] = Close(@)] IN
             convs' = Append(old, Listening(Opening(TurnStart(history) > 1)))
          /\ live' = IF stopped THEN 0 ELSE Len(convs) + 1

\* The reply is recorded, with the calls it made; the run may end there.
Awaited(k) == step = "asked" /\ k = Len(convs) /\ ~convs[k].stream
Keep(k) ==
  /\ Awaited(k) /\ step' = "idle"
  /\ history' = Append(history, Reply(Ids(convs[k].blocks)))
  /\ IF convs[k].ended = "toolUse" THEN UNCHANGED <<running, stopped>> ELSE running' = FALSE /\ stopped' = FALSE
  /\ convs' = [convs EXCEPT ![k].heard = @ /\ running'] /\ UNCHANGED <<live, next>>

\* The results of a reply's calls, which come one by one, in order.
Record(id) ==
  /\ step = "idle" /\ \E i \in DOMAIN history : id \in history[i].calls
  /\ \A i \in DOMAIN history : history[i] # Result(id)
  /\ history' = Append(history, Result(id)) /\ UNCHANGED <<step, running, stopped, live, convs, next>>

\* The history is replaced by a summary and what follows the cut.
Compact(n) ==
  /\ step = "idle" /\ n \in 2 .. Len(history) /\ history[n].t # "result"
  /\ \A i \in DOMAIN history : \A id \in history[i].calls : \E j \in DOMAIN history : history[j] = Result(id)
  /\ history' = <<User>> \o SubSeq(history, n, Len(history)) /\ UNCHANGED <<step, running, stopped, live, convs, next>>

\* The run ends between two steps: its signal is never given again.
RunEnds ==
  /\ step = "idle" /\ running /\ running' = FALSE /\ stopped' = FALSE
  /\ convs' = [k \in DOMAIN convs |-> [convs[k] EXCEPT !.heard = FALSE]] /\ UNCHANGED <<history, step, live, next>>

Stop ==
  /\ running /\ ~stopped /\ stopped' = TRUE
  /\ convs' = [k \in DOMAIN convs |-> IF convs[k].heard THEN CloseAborted(convs[k]) ELSE convs[k]]
  /\ live' = IF live # 0 /\ convs[live].heard THEN 0 ELSE live
  /\ UNCHANGED <<history, step, running, next>>

------------------------------------------------------------------------------
(* The program, and what the provider does with what it says. *)

\* The query starts once what it needs is loaded; its transcript is written.
Opened(k) ==
  /\ convs[k].phase = "opening"
  /\ Set(k, [convs[k] EXCEPT !.phase = "running", !.transcript = "written"]) /\ UNCHANGED <<history, step, running, stopped, live, next>>
OpenFails(k) ==
  /\ convs[k].phase = "opening" /\ \E wrote \in {"none"} \cup (IF convs[k].earlier THEN {"written"} ELSE {}) :
       Set(k, [Close(Finish(convs[k], "error")) EXCEPT !.phase = "ended", !.transcript = wrote])
  /\ Forget(k) /\ UNCHANGED <<history, step, running, stopped, next>>

\* The steer reached the program, or its prompt was closed: the results follow.
Written(k) ==
  /\ convs[k].delivering # {} /\ (convs[k].phase = "running" \/ convs[k].closed)
  /\ Set(k, Give(convs[k], convs[k].delivering)) /\ UNCHANGED <<history, step, running, stopped, live, next>>

Speaks(k) ==
  /\ convs[k].phase = "running" /\ convs[k].said \subseteq Answered(convs[k])
\* A call begins and ends as a block of a message; a step that ended takes none of them.
BlockStart(k) ==
  /\ Speaks(k) /\ next <= MaxCall /\ convs[k].stream /\ \A b \in convs[k].blocks : ~b.open
  /\ Set(k, [convs[k] EXCEPT !.blocks = @ \cup {[id |-> next, open |-> TRUE, given |-> FALSE]}]) /\ next' = next + 1
  /\ UNCHANGED <<history, step, running, stopped, live>>
BlockStop(k) ==
  /\ Speaks(k) /\ convs[k].stream /\ UNCHANGED <<history, step, running, stopped, live, next>>
  /\ \E b \in convs[k].blocks : b.open /\ Set(k, [convs[k] EXCEPT !.blocks = (@ \ {b}) \cup {[b EXCEPT !.open = FALSE]}])
\* A message still open is given up and asked for again.
MessageStart(k) ==
  /\ Speaks(k) /\ convs[k].stream /\ convs[k].blocks # {}
  /\ Set(k, [convs[k] EXCEPT !.blocks = {[b EXCEPT !.given = TRUE] : b \in Whole(@)}])
  /\ UNCHANGED <<history, step, running, stopped, live, next>>
\* The message ends: its calls are the program's, and end the step.
Own(blocks) == {b \in blocks : ~b.given}
MessageStop(k) ==
  /\ Speaks(k) /\ convs[k].stream /\ Own(Whole(convs[k].blocks)) # {}
  /\ LET c == [convs[k] EXCEPT !.blocks = Whole(@), !.said = @ \cup Ids(Own(Whole(convs[k].blocks)))] IN Set(k, EndOnCalls(c))
  /\ UNCHANGED <<history, step, running, stopped, live, next>>
\* A whole message, when Claude Code fell back to asking without streaming.
Message(k) ==
  /\ Speaks(k) /\ next <= MaxCall /\ convs[k].stream /\ next' = next + 1
  /\ LET c == [convs[k] EXCEPT !.blocks = Whole(@) \cup {[id |-> next, open |-> FALSE, given |-> FALSE]}, !.said = @ \cup {next}] IN
     Set(k, EndOnCalls(c))
  /\ UNCHANGED <<history, step, running, stopped, live>>

\* The program makes a call of its message over MCP.
Call(k, id) ==
  /\ convs[k].phase = "running" /\ id \in convs[k].said \ convs[k].asked
  /\ LET c == [convs[k] EXCEPT !.asked = @ \cup {id}] IN
     Set(k, IF id \in c.early THEN [c EXCEPT !.early = @ \ {id}, !.answers = Answer(@, {id})]
            ELSE IF c.closed THEN [c EXCEPT !.answers = Answer(@, {id})]
            ELSE [c EXCEPT !.waiting = @ \cup {id}])
  /\ UNCHANGED <<history, step, running, stopped, live, next>>

\* The turn ends, well or not: the step ends, and the prompt with it; then
\* the program exits.
TurnEnds(k, how) ==
  /\ Speaks(k) /\ Set(k, [Finish(convs[k], how) EXCEPT !.phase = "killed"]) /\ UNCHANGED <<history, step, running, stopped, live, next>>
\* The program exits: by itself, killed, or by a crash.
Consumed(k, how) ==
  /\ convs[k].phase \in {"running", "killed"} /\ how \in {"done", "error"} /\ (convs[k].phase = "running" => how = "error")
  /\ LET c == IF convs[k].closed THEN convs[k] ELSE Finish(convs[k], how) IN
     Set(k, [Close(c) EXCEPT !.phase = "ended", !.transcript = "removed"])
  /\ Forget(k) /\ UNCHANGED <<history, step, running, stopped, next>>

Next ==
  \/ Say \/ (\E same \in BOOLEAN : Ask(same)) \/ RunEnds \/ Stop
  \/ \E id \in 1 .. MaxCall : Record(id)
  \/ \E n \in 2 .. MaxLength : Compact(n)
  \/ \E k \in DOMAIN convs :
       \/ Keep(k) \/ Opened(k) \/ OpenFails(k) \/ Written(k) \/ BlockStart(k) \/ BlockStop(k) \/ MessageStart(k) \/ MessageStop(k) \/ Message(k)
       \/ \E id \in 1 .. MaxCall : Call(k, id)
       \/ \E how \in {"done", "error"} : TurnEnds(k, how) \/ Consumed(k, how)
Spec == Init /\ [][Next]_vars

------------------------------------------------------------------------------
\* The types of the state.
TypeOK ==
  /\ step \in {"idle", "asked"} /\ {running, stopped} \subseteq BOOLEAN /\ live \in 0 .. Len(convs) /\ next \in 1 .. MaxCall + 1
  /\ \A k \in DOMAIN convs : convs[k].phase \in {"opening", "running", "killed", "ended"} /\ convs[k].ended \in {"none", "done", "toolUse", "error", "aborted"}

\* Every call Claude Code makes is answered once, whether its result came
\* before the call, after it, or never: none is left waiting on a query that
\* was replaced, stopped or crashed.
CallsAreAnsweredOnce ==
  \A k \in DOMAIN convs : LET c == convs[k] IN
    /\ \A id \in DOMAIN c.answers : c.answers[id] <= 1
    /\ Answered(c) \cup c.waiting = c.asked /\ Answered(c) \cap c.waiting = {}
    /\ c.closed => c.waiting = {}

\* One query at most is open for a session, the one it keeps; the step the
\* engine awaits always has a stream that something still ends.
OneQueryIsOpen ==
  /\ \A k \in DOMAIN convs : ~convs[k].closed => k = live
  /\ \A k \in DOMAIN convs : convs[k].stream => ~convs[k].closed /\ step = "asked"

\* A query goes on only behind its own last reply as the engine kept it:
\* whatever was compacted, said or switched between, a step never awaits a
\* query that still waits for results it will not be given.
StepsAreHeard ==
  \A k \in DOMAIN convs : LET c == convs[k] IN
    c.stream => c.said \subseteq Answered(c) \cup c.early \cup c.delivering
Safety == TypeOK /\ CallsAreAnsweredOnce /\ OneQueryIsOpen /\ StepsAreHeard

\* The provider's comment says a message that was given up is dropped, and a
\* call Claude Code will never make with it.
KeptCallsAreMade == \A k \in DOMAIN convs : convs[k].calls \subseteq convs[k].said
\* A query the stop closed is not started.
StoppedQueriesStayClosed == [][\A k \in DOMAIN convs : convs[k].closed /\ convs[k].phase = "opening" => convs'[k].phase # "running"]_vars
\* The sessions a query wrote are removed when it ends.
TranscriptsAreRemoved == \A k \in DOMAIN convs : convs[k].phase = "ended" => convs[k].transcript # "written"
=============================================================================
