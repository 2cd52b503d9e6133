-------------------------------- MODULE Mcp --------------------------------
(***************************************************************************)
(* One MCP server of a workspace (packages/core/src/mcp.ts): its            *)
(* connection made in the background, by a call that finds none, by one     *)
(* whose HTTP session expired and by the operator; its tools, listed as it  *)
(* connects and again on each change it announces; signing out and closing. *)
(* The server is external: it may refuse, drop a connection, restart (its   *)
(* sessions are then unknown) and change its tools.                         *)
(***************************************************************************)
EXTENDS Integers, Sequences, FiniteSets

CONSTANTS
  Callers,                    \* calls of the sessions
  MaxClient, MaxOffer, MaxRestart,
  Reordered                   \* whether the server's answers may overtake each other

VARIABLES
  state, client, opening,     \* the fields of Server; clients are numbered, 0 for none
  making,                     \* where connect() is: "none", "closing", "dialing", "listing" or "failing"
  conns,                      \* what became of each client: "open", "closing" or "closed"
  known,                      \* the clients whose session the server knows
  tools, offers,              \* the list the engine has and the server's, as versions
  lists,                      \* the answers on their way to each client, oldest first
  caller,                     \* where each call is: [pc, on, tries]
  op,                         \* where the operator's /mcp or exit is
  closing,                    \* close() was called
  restarts
vars == <<state, client, opening, making, conns, known, tools, offers, lists, caller, op, closing, restarts>>

Clients == DOMAIN conns
Idle == [pc |-> "idle", on |-> 0, tries |-> 0]

\* As startMcp() leaves an enabled server: its first connection is being made.
Init ==
  /\ state = "connecting" /\ client = 0 /\ opening = 1 /\ making = "dialing" /\ conns = <<"open">> /\ known = {}
  /\ tools = 0 /\ offers = 1 /\ lists = <<<<>>>> /\ caller = [c \in Callers |-> Idle] /\ op = "none" /\ closing = FALSE /\ restarts = 0

external == <<offers, restarts>>
others == <<tools, caller, op, closing, external>>
kept == <<tools, closing, external>>
\* An attempt ended: the calls and the operator that waited for it go on.
AfterStays(pc) == CASE pc = "renewing" -> "renewed" [] pc = "waits" -> "reconnect" [] pc = "connects" -> "none" [] OTHER -> pc  \* mutant: calls are not woken
After(pc) == CASE pc = "waiting" -> "woken" [] pc = "renewing" -> "renewed" [] pc = "waits" -> "reconnect" [] pc = "connects" -> "none" [] OTHER -> pc
Wake == caller' = [c \in Callers |-> [caller[c] EXCEPT !.pc = After(@)]] /\ op' = After(op)

\* connect(): one attempt at a time; whoever asks meanwhile waits for it.
\* The connection there was is closed first.
Closed(k, cs) == IF k = 0 THEN cs ELSE [cs EXCEPT ![k] = "closed"]
ConnectsAgain == making' = "closing" /\ conns' = IF client = 0 THEN conns ELSE [conns EXCEPT ![client] = "closing"]  \* mutant: each asks for its own
Connects ==
  IF making # "none" THEN UNCHANGED <<making, conns>>
  ELSE making' = "closing" /\ conns' = IF client = 0 THEN conns ELSE [conns EXCEPT ![client] = "closing"]

\* The old connection closed, which its own handler hears; the new one is dialed.
Dial ==
  /\ making = "closing" /\ Len(conns) < MaxClient
  /\ conns' = Append(Closed(client, conns), "open") /\ client' = 0 /\ lists' = Append(lists, <<>>)
  /\ state' = "connecting" /\ opening' = Len(conns) + 1 /\ making' = IF closing THEN "failing" ELSE "dialing"
  /\ UNCHANGED <<known, others>>
Connected ==
  /\ making = "dialing" /\ conns[opening] = "open"
  /\ making' = "listing" /\ known' = known \cup {opening} /\ lists' = [lists EXCEPT ![opening] = Append(@, offers)]
  /\ UNCHANGED <<state, client, opening, conns, others>>
\* The list arrives: the connection is the server's, unless the shell closes.
Listed ==
  /\ making = "listing" /\ conns[opening] = "open" /\ lists[opening] # <<>>
  /\ \E i \in DOMAIN lists[opening] : (i = 1 \/ Reordered) /\ tools' = lists[opening][i]
       /\ lists' = [lists EXCEPT ![opening] = SubSeq(@, 1, i - 1) \o SubSeq(@, i + 1, Len(@))]
  /\ making' = "none" /\ opening' = 0 /\ Wake
  /\ IF closing THEN conns' = [conns EXCEPT ![opening] = "closed"] /\ UNCHANGED <<state, client>>
     ELSE client' = opening /\ state' = "connected" /\ UNCHANGED conns
  /\ UNCHANGED <<known, closing, external>>
\* The server refuses, needs a sign-in, or the attempt was closed under way.
Fails(why) ==
  /\ making \in {"dialing", "listing", "failing"} /\ why \in {"failed", "needs sign-in"}
  /\ conns' = Closed(opening, conns) /\ state' = why /\ opening' = 0 /\ making' = "none" /\ Wake
  /\ UNCHANGED <<client, known, lists, kept>>

\* The bound on connections: past it the server refuses.
Refused ==
  /\ making = "closing" /\ Len(conns) = MaxClient /\ conns' = Closed(client, conns) /\ client' = 0
  /\ state' = "failed" /\ making' = "none" /\ Wake /\ UNCHANGED <<opening, known, lists, kept>>

\* The server announces a change; the client lists its tools again, whether it
\* is connected or connecting.
Changes ==
  /\ offers < MaxOffer /\ offers' = offers + 1
  /\ lists' = [k \in DOMAIN lists |-> IF conns[k] = "open" /\ k \in known THEN Append(lists[k], offers') ELSE lists[k]]
  /\ UNCHANGED <<state, client, opening, making, conns, known, tools, caller, op, closing, restarts>>
ListedAgain(k) ==
  /\ lists[k] # <<>> /\ conns[k] = "open" /\ (making # "listing" \/ k # opening)
  /\ \E i \in DOMAIN lists[k] : (i = 1 \/ Reordered)
       /\ tools' = (IF k \in {client, opening} THEN lists[k][i] ELSE tools)
       /\ lists' = [lists EXCEPT ![k] = SubSeq(@, 1, i - 1) \o SubSeq(@, i + 1, Len(@))]
  /\ UNCHANGED <<state, client, opening, making, conns, known, caller, op, closing, external>>

\* The connection drops; the server restarts and knows no session of before.
Drops(k) ==
  /\ conns[k] = "open" /\ k # opening /\ conns' = [conns EXCEPT ![k] = "closed"]
  /\ IF k = client THEN client' = 0 /\ state' = (IF state = "connected" THEN "disconnected" ELSE state) ELSE UNCHANGED <<client, state>>
  /\ UNCHANGED <<opening, making, known, lists, others>>
Restarts ==
  /\ restarts < MaxRestart /\ restarts' = restarts + 1 /\ known' = known \ {client}
  /\ UNCHANGED <<state, client, opening, making, conns, tools, offers, lists, caller, op, closing>>

------------------------------------------------------------------------------
(* A call: on the connection there is, or on one it waits for; once more on  *)
(* another when its session is not known.                                   *)
Put(c, r) == caller' = [caller EXCEPT ![c] = r]
callUnchanged == <<opening, known, tools, lists, op, closing, external>>

\* Only a reachable server's tools are offered, and none once it closes.
Offered == ~closing /\ state \in {"connected", "disconnected"}
Send(c, tries) ==
  IF client # 0 THEN Put(c, [pc |-> "sent", on |-> client, tries |-> tries]) /\ UNCHANGED <<making, conns>>
  ELSE Put(c, [pc |-> "waiting", on |-> 0, tries |-> tries]) /\ Connects
Call(c) == caller[c].pc = "idle" /\ Offered /\ Send(c, 1) /\ UNCHANGED <<state, client, callUnchanged>>
\* The attempt it waited for ended; a renewed session may find none again.
Waited(c) ==
  /\ UNCHANGED <<state, client, callUnchanged>>
  /\ \/ /\ caller[c].pc = "woken" /\ UNCHANGED <<making, conns>>
        /\ Put(c, IF client # 0 THEN [caller[c] EXCEPT !.pc = "sent", !.on = client] ELSE [caller[c] EXCEPT !.pc = "error"])
     \/ caller[c].pc = "renewed" /\ Send(c, 2)
Answered(c) ==
  /\ caller[c].pc = "sent" /\ conns[caller[c].on] = "open" /\ caller[c].on \in known
  /\ Put(c, [caller[c] EXCEPT !.pc = "done"]) /\ UNCHANGED <<state, client, making, conns, callUnchanged>>
\* Its session expired: whatever connection there is now is made again, once.
Expired(c) ==
  /\ caller[c].pc = "sent" /\ conns[caller[c].on] = "open" /\ caller[c].on \notin known
  /\ IF caller[c].tries = 1 THEN Put(c, [pc |-> "renewing", on |-> 0, tries |-> 2]) /\ Connects
     ELSE Put(c, [caller[c] EXCEPT !.pc = "error"]) /\ UNCHANGED <<making, conns>>
  /\ UNCHANGED <<state, client, callUnchanged>>
\* Its connection closed, its time is up or it was stopped: the model is told.
Errs(c) == caller[c].pc = "sent" /\ Put(c, [caller[c] EXCEPT !.pc = "error"]) /\ UNCHANGED <<state, client, making, conns, callUnchanged>>

------------------------------------------------------------------------------
(* The operator. *)
\* reconnect() waits for an attempt under way, and makes another; a sign-in
\* which ended well connects, or waits for an attempt that began without it.
Ask(what) ==
  /\ op = "none" /\ ~closing
  /\ op' = IF what = "signIn" THEN what ELSE IF making # "none" THEN "waits" ELSE "reconnect"
  /\ UNCHANGED <<state, client, opening, making, conns, known, tools, lists, caller, closing, external>>
Reconnect ==
  /\ op \in {"reconnect", "signIn"} /\ Connects
  /\ op' = "connects"
  /\ UNCHANGED <<state, client, opening, known, tools, lists, caller, closing, external>>
SignInFails == op = "signIn" /\ op' = "none" /\ UNCHANGED <<state, client, opening, making, conns, known, tools, lists, caller, closing, external>>
\* disconnect(): a connection under way is stopped, waited for, and the one
\* there is then is closed; its close handler finds it is no longer the server's.
Disconnects == conns' = Closed(opening, conns)
SignOut ==
  /\ op = "none" /\ ~closing /\ op' = "signOut" /\ Disconnects
  /\ UNCHANGED <<state, client, opening, making, known, tools, lists, caller, closing, external>>
Disconnected ==
  /\ op \in {"signOut", "shut"} /\ making = "none" /\ conns' = Closed(client, conns) /\ client' = 0
  /\ op' = IF op = "signOut" THEN "tokens" ELSE "gone"
  /\ UNCHANGED <<state, opening, making, known, tools, lists, caller, closing, external>>
\* Its tokens are forgotten, once no refresh of them runs.
SignedOut ==
  /\ op = "tokens" /\ op' = "none" /\ tools' = 0 /\ state' = "needs sign-in"
  /\ UNCHANGED <<client, opening, making, conns, known, lists, caller, closing, external>>
Close ==
  /\ op = "none" /\ ~closing /\ closing' = TRUE /\ op' = "shut" /\ Disconnects
  /\ UNCHANGED <<state, client, opening, making, known, tools, lists, caller, external>>

Next ==
  \/ Dial \/ Refused \/ Connected \/ Listed \/ Changes \/ Restarts \/ Reconnect \/ SignInFails \/ SignOut \/ Disconnected \/ SignedOut \/ Close
  \/ \E why \in {"failed", "needs sign-in"} : Fails(why)
  \/ \E what \in {"reconnect", "signIn"} : Ask(what)
  \/ \E k \in Clients : ListedAgain(k) \/ Drops(k)
  \/ \E c \in Callers : Call(c) \/ Waited(c) \/ Answered(c) \/ Expired(c) \/ Errs(c)
Spec == Init /\ [][Next]_vars
\* Each wait ends: an attempt ends within its timeout, a call within its own.
Attempt == Dial \/ Refused \/ Fails("failed")
CallSettles(c) == Waited(c) \/ Errs(c)
FairSpec == Spec /\ WF_vars(Attempt) /\ \A c \in Callers : WF_vars(CallSettles(c))

------------------------------------------------------------------------------
\* The types of the state.
TypeOK ==
  /\ state \in {"connecting", "connected", "disconnected", "failed", "needs sign-in"} /\ {client, opening} \subseteq 0 .. Len(conns)
  /\ making \in {"none", "closing", "dialing", "listing", "failing"} /\ \A k \in Clients : conns[k] \in {"open", "closing", "closed"}
  /\ op \in {"none", "waits", "reconnect", "connects", "signIn", "signOut", "tokens", "shut", "gone"} /\ tools \in 0 .. MaxOffer

\* Whatever calls, the operator and the server do at once, an open connection
\* is the server's or the one being made: none is left open behind them, and
\* none at all once the shell closed.
NoConnectionIsLeft ==
  /\ \A k \in Clients : conns[k] = "open" => k \in {client, opening}
  /\ op = "gone" => \A k \in Clients : conns[k] = "closed" \/ k = opening
\* A connected server's tools are its own once what it announced was answered.
ToolsAreCurrent ==
  client # 0 /\ state = "connected" /\ conns[client] = "open" /\ client \in known /\ lists[client] = <<>> => tools = offers
Safety == TypeOK /\ NoConnectionIsLeft /\ ToolsAreCurrent
\* A call ends, with its result or an error the model reads.
CallsEnd == \A c \in Callers : caller[c].pc # "idle" ~> caller[c].pc \in {"done", "error"}

\* A call that retries on a new connection leaves another's alone.
RetriesLeaveOthersAlone ==
  [][\A c, d \in Callers : c # d /\ Expired(c) /\ caller[d].pc = "sent" /\ caller[d].on \in known => conns'[caller[d].on] = "open"]_vars
\* A signed-out server has no connection left that its credentials opened.
SignedOutHasNoConnection == state = "needs sign-in" => client = 0
=============================================================================
