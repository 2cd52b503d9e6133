------------------------------ MODULE McpAuth ------------------------------
(***************************************************************************)
(* One remote MCP server's account (packages/core/src/mcp-auth.ts and the  *)
(* locks of session-lock.ts): the stored tokens that several shells send,  *)
(* refresh, sign in for and sign out of at once.  The server replaces the  *)
(* refresh token with each use and refuses an old one.  A version number   *)
(* stands for an access token and the refresh token it came with.          *)
(***************************************************************************)
EXTENDS Naturals

CONSTANTS Shells, MaxToken, MaxCrash

VARIABLES
  stored,      \* the version in mcp-auth.json, 0 when there is none
  granted,     \* the last version the server gave
  taken,       \* versions whose refresh token it took, and takes no more
  expired,     \* versions whose access token the server refuses
  holder,      \* who holds the account's lock: <<what, shell>> or <<>>
  at,          \* where each shell's refresh, sign-in and sign-out are
  stale,       \* the version a shell's refresh replaces
  lost,        \* history: versions whose refresh may have been answered with no one to save it
  crashes
vars == <<stored, granted, taken, expired, holder, at, stale, lost, crashes>>

Versions == 1 .. MaxToken
Work == {"refresh", "signIn", "signOut"} \X Shells
file == <<stored, granted, taken, expired>>
history == <<lost, crashes>>

Init ==
  /\ stored \in {0, 1} /\ granted = stored /\ expired = {} /\ holder = <<>>
  /\ stale = [s \in Shells |-> 0] /\ at = [w \in Work |-> "none"]
  /\ taken = {} /\ lost = {} /\ crashes = 0

Go(w, where) == at' = [at EXCEPT ![w] = where]
Free(w) == holder' = IF holder = w THEN <<>> ELSE holder

------------------------------------------------------------------------------
(* The server and its clock. *)
Expires(v) ==
  /\ v <= granted /\ v \notin expired /\ expired' = expired \cup {v}
  /\ UNCHANGED <<stored, granted, taken, holder, at, stale, history>>
\* It takes a refresh token it took before no more, or the browser's code.
Grants(w) ==
  /\ granted < MaxToken /\ granted' = granted + 1 /\ Go(w, "answered")
  /\ \/ at[w] = "sent" /\ stored \notin taken /\ taken' = taken \cup {stored}
     \/ at[w] = "code" /\ UNCHANGED taken
  /\ UNCHANGED <<stored, expired, holder, stale, history>>
\* It refuses the request: the client may drop tokens whose refresh is refused,
\* and a refused sign-in asks the operator's browser.
Refuses(w) ==
  /\ at[w] \in {"sent", "code"}
  /\ stored' \in IF at[w] = "sent" THEN {stored, 0} ELSE {stored}
  /\ IF at[w] = "sent" /\ w[1] = "signIn" THEN Go(w, "browser") /\ UNCHANGED holder ELSE Go(w, "none") /\ Free(w)
  /\ UNCHANGED <<granted, taken, expired, stale, history>>

------------------------------------------------------------------------------
(* A connection's token. *)

\* token(), onUnauthorized(): a token it sent some time expired or was refused,
\* or there was none: a shell refreshes once at a time.
Refresh(s, v) ==
  /\ at[<<"refresh", s>>] = "none" /\ v \in expired \cup {0}
  /\ Go(<<"refresh", s>>, "waiting") /\ stale' = [stale EXCEPT ![s] = v]
  /\ UNCHANGED <<file, holder, history>>

\* Holding the account's lock, tokens that changed meanwhile are kept; with none
\* there is nothing to refresh.
RefreshUnlocked(s) ==  \* mutant: only this shell's refreshes are one at a time
  /\ at[<<"refresh", s>>] = "waiting"
  /\ IF stored # stale[s] \/ stored = 0 THEN Go(<<"refresh", s>>, "none") /\ UNCHANGED holder
     ELSE Go(<<"refresh", s>>, "sent") /\ holder' = <<"refresh", s>>
  /\ UNCHANGED <<file, stale, history>>
RefreshLocked(s) ==
  /\ at[<<"refresh", s>>] = "waiting" /\ holder = <<>>
  /\ IF stored # stale[s] \/ stored = 0 THEN Go(<<"refresh", s>>, "none") /\ UNCHANGED holder
     ELSE Go(<<"refresh", s>>, "sent") /\ holder' = <<"refresh", s>>
  /\ UNCHANGED <<file, stale, history>>

------------------------------------------------------------------------------
(* The operator's sign-in and sign-out. *)
Begins(what, s) == what \in {"signIn", "signOut"} /\ at[<<what, s>>] = "none" /\ Go(<<what, s>>, "waiting") /\ UNCHANGED <<file, holder, stale, history>>

\* signInLocked(): tokens of a redirect address that no longer holds are
\* dropped; a stored refresh token is tried first, unless more scope is asked.
SignInLocked(s, holds, more) ==
  /\ at[<<"signIn", s>>] = "waiting" /\ holder = <<>> /\ holder' = <<"signIn", s>>
  /\ stored' = (IF holds THEN stored ELSE 0)
  /\ IF holds /\ stored # 0 /\ ~more THEN Go(<<"signIn", s>>, "sent") ELSE Go(<<"signIn", s>>, "browser")
  /\ UNCHANGED <<granted, taken, expired, stale, history>>
\* The operator answers in the browser.
Answers(s) == at[<<"signIn", s>>] = "browser" /\ Go(<<"signIn", s>>, "code") /\ UNCHANGED <<file, holder, stale, history>>

\* signOut(): no refresh runs anywhere, so none saves the tokens again.
SignOut(s) ==
  /\ at[<<"signOut", s>>] = "waiting" /\ holder = <<>>
  /\ stored' = 0 /\ Go(<<"signOut", s>>, "none")
  /\ UNCHANGED <<granted, taken, expired, holder, stale, history>>

------------------------------------------------------------------------------
(* How work that holds the lock, or waits for it, ends. *)

\* Its answer is saved, and the lock released.
Saves(w) ==
  /\ at[w] = "answered" /\ stored' = granted /\ Go(w, "none") /\ Free(w)
  /\ UNCHANGED <<granted, taken, expired, stale, history>>
\* What was sent may have been answered: timed out, or the save failed; a
\* sign-in may be stopped as well, a refresh that was sent is not.
Loses(w) ==
  /\ at[w] \in {"sent", "answered", "browser", "code"} /\ (at[w] = "browser" => w[1] = "signIn")
  /\ Go(w, "none") /\ Free(w)
  /\ lost' = (IF at[w] \in {"sent", "answered"} THEN lost \cup {stored} ELSE lost)
  /\ UNCHANGED <<file, stale, crashes>>
\* withLockWhile(): the wait ran out, or the sign-in was stopped.
GivesUp(w) == at[w] = "waiting" /\ Go(w, "none") /\ UNCHANGED <<file, holder, stale, history>>

\* A shell is killed: the system releases its lock.
Crash(s) ==
  /\ crashes < MaxCrash /\ crashes' = crashes + 1
  /\ at' = [w \in Work |-> IF w[2] = s THEN "none" ELSE at[w]]
  /\ holder' = (IF \E w \in Work : w[2] = s /\ holder = w THEN <<>> ELSE holder)
  /\ lost' = lost \cup {stored : w \in {v \in Work : v[2] = s /\ at[v] \in {"sent", "answered"}}}
  /\ UNCHANGED <<file, stale>>

Next ==
  \/ \E v \in Versions : Expires(v)
  \/ \E w \in Work : Grants(w) \/ Refuses(w) \/ Saves(w) \/ Loses(w) \/ GivesUp(w)
  \/ \E s \in Shells : RefreshLocked(s) \/ Answers(s) \/ SignOut(s) \/ Crash(s)
  \/ \E s \in Shells, v \in 0 .. MaxToken : Refresh(s, v)
  \/ \E s \in Shells, what \in {"signIn", "signOut"} : Begins(what, s)
  \/ \E s \in Shells, holds, more \in BOOLEAN : SignInLocked(s, holds, more)
Spec == Init /\ [][Next]_vars

------------------------------------------------------------------------------
\* The types of the state.
TypeOK ==
  {stored, granted} \subseteq 0 .. MaxToken /\ expired \subseteq Versions /\ lost \subseteq 0 .. MaxToken

\* Whoever works with the account's tokens holds its lock.
WorkersHoldTheLock == \A w \in Work : at[w] \in {"sent", "answered", "browser", "code"} => holder = w

\* No shell sends a refresh token the server took already, whichever of them
\* refresh it and sign in with it at once, unless that answer was lost; and a
\* refresh replaces only the token that was refused.
TokensAreSpentOnce ==
  [][\A w \in Work : at[w] # "sent" /\ at'[w] = "sent" => stored \notin taken \ lost /\ (w[1] = "refresh" => stored \in expired)]_vars
\* Signed out, an account has no tokens again but by a sign-in.
SignedOutStaysOut == [][stored = 0 /\ stored' # 0 => \E s \in Shells : at[<<"signIn", s>>] = "answered" /\ at'[<<"signIn", s>>] = "none"]_vars
Safety == [](TypeOK /\ WorkersHoldTheLock) /\ TokensAreSpentOnce /\ SignedOutStaysOut
=============================================================================
