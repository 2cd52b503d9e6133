------------------------------- MODULE Usage -------------------------------
(* How much each account has left (usage.ts, shell/usage-panel.ts, the sign-in *)
(* checks of model-access.ts): rounds of reads in the panels of several Tesota *)
(* processes over one file of saved readings, while sign-ins and clock move.   *)
EXTENDS Integers, Sequences, FiniteSets, FiniteSetsExt

CONSTANTS Processes,
          Accounts,   \* 1..n, in the order of the rows
          People,     \* provider and identity, as usageFingerprint and identities take them
          Limitless,  \* those of them whose plan has no limits
          Hour, MaxTime, MaxTick, MaxMove, MaxRound,
          Lefts       \* the shares whose drawing is looked at

Rounds == 1..MaxRound
SignIns == People \cup {"out", "unknown"}  \* signed out, or in to someone unknown

VARIABLES whose,    \* whom each account is signed in to
          now, ticks, moves,
          crossed,  \* a sign-in moved after a round checked it and before it was read
          file,     \* the saved readings
          by, phase, aborted,  \* the rounds: their process, where they are, their signal
          rows,     \* what a round's sign-in checks found
          base,     \* the saved readings as its reads began
          waiting,  \* its reads still out
          fresh,    \* what it is to save
          merged,   \* the file as it read it again to save
          screen    \* what each panel shows of each account

world == <<whose, now, ticks, moves, crossed>>
rounds == <<by, phase, aborted, rows, base, waiting, fresh, merged>>
vars == <<world, file, rounds, screen>>

None == [of |-> "none", readAt |-> 0, who |-> "none"]
Entries == [of : SignIns, readAt : 0..MaxTime, who : People] \cup {None}
Unread == [k \in Accounts |-> None]
(* A reading shown, or none: whose it really is, when it was read, whom it was *)
(* saved for, and how old it was then.                                         *)
Shown(state, e, age, r) == [state |-> state, of |-> e.of, readAt |-> e.readAt, who |-> e.who, age |-> age, round |-> r]

Init ==
  /\ whose \in [Accounts -> SignIns] /\ now = 0 /\ ticks = 0 /\ moves = 0 /\ crossed = FALSE
  /\ file = Unread
  /\ by = [r \in Rounds |-> "none"] /\ phase = [r \in Rounds |-> "unused"]
  /\ aborted = [r \in Rounds |-> FALSE]
  /\ rows = [r \in Rounds |-> [k \in Accounts |-> "checking"]]
  /\ base = [r \in Rounds |-> Unread] /\ waiting = [r \in Rounds |-> {}]
  /\ fresh = [r \in Rounds |-> Unread] /\ merged = [r \in Rounds |-> Unread]
  /\ screen = [p \in Processes |-> [k \in Accounts |-> Shown("nothing", None, 0, 0)]]

-----------------------------------------------------------------------------
RecentEnough(readAt, at) == 0 <= at - readAt /\ at - readAt <= Hour

(* standIn: the saved reading that may stand for an account: read for whom it  *)
(* is signed in to now, within the past hour.                                  *)
StandInOfAny(e, row, at) == IF e # None /\ row \in People /\ RecentEnough(e.readAt, at) THEN e ELSE None
StandIn(e, row, at) == IF e # None /\ row \in People /\ e.who = row /\ RecentEnough(e.readAt, at) THEN e ELSE None

(* usageReader: the first account on the same identity; one whose identity is  *)
(* unknown is read by itself.                                                  *)
UsageReader(row, k) == IF row[k] \notin People THEN k ELSE Min({j \in Accounts : row[j] = row[k]})
Sharing(row, reader) == {k \in Accounts : UsageReader(row, k) = reader}
Readers(row) == {UsageReader(row, k) : k \in Accounts}

(* pendingUsage *)
Pending(r, row) ==
  [k \in Accounts |-> LET e == StandIn(file[k], row[k], now)
                      IN  Shown("reading", e, IF e = None THEN 0 ELSE now - e.readAt, r)]

(* A save reads, merges and writes without an await. *)
MayRun(p) == \A r \in Rounds : by[r] = p => phase[r] # "merged"
Stops(p) == [r \in Rounds |-> aborted[r] \/ (by[r] = p /\ phase[r] # "ended")]

(* start: the round still going is stopped, and the accounts are listed with   *)
(* their sign-ins being checked.                                               *)
Starts(p, r) ==
  /\ MayRun(p) /\ phase[r] = "unused" /\ \A s \in Rounds : s < r => phase[s] # "unused"
  /\ by' = [by EXCEPT ![r] = p]
  /\ phase' = [phase EXCEPT ![r] = "checking"]
  /\ aborted' = [Stops(p) EXCEPT ![r] = FALSE]
  /\ screen' = [screen EXCEPT ![p] = Pending(r, rows[r])]
  /\ UNCHANGED <<world, file, rows, base, waiting, fresh, merged>>

(* dispose *)
Closes(p) ==
  /\ MayRun(p) /\ Stops(p) # aborted /\ aborted' = Stops(p)
  /\ UNCHANGED <<world, file, by, phase, rows, base, waiting, fresh, merged, screen>>

(* accountStates: each sign-in as its check returns; the rows are shown again. *)
Checks(r, k) ==
  /\ phase[r] = "checking" /\ rows[r][k] = "checking" /\ MayRun(by[r])
  /\ rows' = [rows EXCEPT ![r][k] = whose[k]]
  /\ screen' = IF aborted[r] THEN screen ELSE [screen EXCEPT ![by[r]] = Pending(r, rows'[r])]
  /\ UNCHANGED <<world, file, by, phase, aborted, base, waiting, fresh, merged>>

(* A check that fails, or finds the round stopped, ends it. *)
Gives(r) ==
  /\ phase[r] = "checking" /\ MayRun(by[r])
  /\ phase' = [phase EXCEPT ![r] = "ended"]
  /\ UNCHANGED <<world, file, by, aborted, rows, base, waiting, fresh, merged, screen>>

(* The rows are in: they are shown, and readUsage starts every reader at once. *)
Begins(r) ==
  /\ phase[r] = "checking" /\ "checking" \notin {rows[r][k] : k \in Accounts} /\ ~aborted[r] /\ MayRun(by[r])
  /\ phase' = [phase EXCEPT ![r] = "reading"]
  /\ screen' = [screen EXCEPT ![by[r]] = Pending(r, rows[r])]
  /\ base' = [base EXCEPT ![r] = file]
  /\ waiting' = [waiting EXCEPT ![r] = Readers(rows[r])]
  /\ UNCHANGED <<world, file, by, aborted, rows, fresh, merged>>

(* readAccount, within its limit: the account is read as it is signed in now.  *)
Outcomes(r, k) ==
  IF rows[r][k] = "out" THEN {"none"}
  ELSE {"failed"} \cup (IF aborted[r] THEN {}
                        ELSE IF whose[k] \in Limitless \cup {"out"} THEN {"none"} ELSE {"reading"})

(* A failed read: the newest saved reading that may stand for an account on it. *)
LastKnown(r, reader) ==
  LET at == [k \in Sharing(rows[r], reader) |-> StandIn(base[r][k], rows[r][k], now)]
      some == {k \in DOMAIN at : at[k] # None}
      newest == {k \in some : \A j \in some : at[j].readAt <= at[k].readAt}
  IN  IF some = {} THEN None ELSE at[Min(newest)]

Answer(r, k, outcome) ==
  LET last == LastKnown(r, k)
  IN  IF outcome = "reading" THEN Shown("read", [of |-> whose[k], readAt |-> now, who |-> "none"], 0, r)
      ELSE IF outcome = "none" \/ last = None THEN Shown("unavailable", None, 0, r)
      ELSE Shown("last_known", last, now - last.readAt, r)

Settles(r, k) ==
  /\ k \in waiting[r] /\ MayRun(by[r])
  /\ waiting' = [waiting EXCEPT ![r] = @ \ {k}]
  /\ \E outcome \in Outcomes(r, k) :
       /\ screen' = IF aborted[r] THEN screen
                    ELSE [screen EXCEPT ![by[r]] = [j \in Accounts |->
                           IF j \in Sharing(rows[r], k) THEN Answer(r, k, outcome) ELSE @[j]]]
       /\ fresh' = IF outcome # "reading" THEN fresh
                   ELSE [fresh EXCEPT ![r] = [j \in Accounts |->
                          IF j \in Sharing(rows[r], k) /\ rows[r][j] \in People
                          THEN [of |-> whose[k], readAt |-> now, who |-> rows[r][j]] ELSE @[j]]]
  /\ UNCHANGED <<world, file, by, phase, aborted, rows, base, merged>>

(* Every read is in: nothing is saved of a stopped round, or when none was read. *)
SavesStopped(r) == fresh[r] # Unread
Saves(r) == ~aborted[r] /\ fresh[r] # Unread

Merges(r) ==
  /\ phase[r] = "reading" /\ waiting[r] = {} /\ MayRun(by[r])
  /\ phase' = [phase EXCEPT ![r] = IF Saves(r) THEN "merged" ELSE "ended"]
  /\ merged' = IF Saves(r) THEN [merged EXCEPT ![r] = file] ELSE merged
  /\ base' = [base EXCEPT ![r] = Unread]
  /\ fresh' = IF Saves(r) THEN fresh ELSE [fresh EXCEPT ![r] = Unread]
  /\ UNCHANGED <<world, file, by, aborted, rows, waiting, screen>>

(* save: written whole; one that cannot be written is let go. *)
Writes(r) ==
  /\ phase[r] = "merged"
  /\ phase' = [phase EXCEPT ![r] = "ended"]
  /\ file' \in {file, [k \in Accounts |-> IF fresh[r][k] # None THEN fresh[r][k] ELSE merged[r][k]]}
  /\ merged' = [merged EXCEPT ![r] = Unread] /\ fresh' = [fresh EXCEPT ![r] = Unread]
  /\ UNCHANGED <<world, by, aborted, rows, base, waiting, screen>>

(* The world: an account signed in to another, and a clock that may go back. *)
InUse(r, k) == phase[r] \in {"checking", "reading"} /\ rows[r][k] # "checking"
Moves(k) ==
  /\ moves < MaxMove /\ moves' = moves + 1
  /\ \E w \in SignIns \ {whose[k]} : whose' = [whose EXCEPT ![k] = w]
  /\ crossed' = (crossed \/ \E r \in Rounds : InUse(r, k))
  /\ UNCHANGED <<now, ticks, file, rounds, screen>>

Ticks ==
  /\ ticks < MaxTick /\ ticks' = ticks + 1
  /\ \E t \in 0..MaxTime \ {now} : now' = t
  /\ UNCHANGED <<whose, moves, crossed, file, rounds, screen>>

Next ==
  \/ \E p \in Processes : Closes(p) \/ \E r \in Rounds : Starts(p, r)
  \/ \E r \in Rounds : Gives(r) \/ Begins(r) \/ Merges(r) \/ Writes(r)
  \/ \E r \in Rounds, k \in Accounts : Checks(r, k) \/ Settles(r, k)
  \/ Ticks \/ \E k \in Accounts : Moves(k)

Spec == Init /\ [][Next]_vars

-----------------------------------------------------------------------------
(* usage-rule.ts and usedHundredths: how a share left is drawn. A report is in *)
(* tenths of a hundredth of a percent used, so it may fall between two.        *)
UsedHundredths(tenths) == IF tenths <= 0 THEN 0 ELSE IF tenths >= 100000 THEN 10000
                          ELSE Min({9999, Max({1, (tenths + 5) \div 10})})
RemainingHundredths(used) == IF used <= 0 THEN 10000 ELSE IF used >= 10000 THEN 0 ELSE 10000 - used
Nearest(n, whole) == IF n < 1 THEN 1 ELSE IF n > whole - 1 THEN whole - 1 ELSE n
FilledSegments(left, segments) ==
  IF left <= 0 THEN 0 ELSE IF left >= 10000 THEN segments ELSE Nearest((left * segments + 5000) \div 10000, segments)
ShownPercent(left) == IF left <= 0 THEN 0 ELSE IF left >= 10000 THEN 100 ELSE Nearest((left + 50) \div 100, 100)
MeterTone(left) == IF left <= 0 THEN "out" ELSE IF left <= 2500 THEN "low" ELSE "ok"
Left(tenths) == RemainingHundredths(UsedHundredths(tenths))

-----------------------------------------------------------------------------
TypeOK ==
  /\ whose \in [Accounts -> SignIns] /\ now \in 0..MaxTime
  /\ file \in [Accounts -> Entries]
  /\ phase \in [Rounds -> {"unused", "checking", "reading", "merged", "ended"}]
  /\ \A r \in Rounds : waiting[r] \subseteq Accounts /\ fresh[r] \in [Accounts -> Entries]

(* A saved reading an account shows meanwhile was read for whom it is signed   *)
(* in to, within the hour, wherever the clock moved; and it is that one's,     *)
(* unless a sign-in moved while a round was between checking and reading it.   *)
Current(p) == CHOOSE r \in Rounds : by[r] = p /\ \A s \in Rounds : by[s] = p => s <= r
StandInsAreTheirs ==
  \A p \in Processes, k \in Accounts :
    LET u == screen[p][k]
    IN  u.state \in {"reading", "last_known"} /\ u.of # "none" =>
          /\ u.who = rows[u.round][k]
          /\ 0 <= u.age /\ u.age <= Hour
          /\ crossed \/ u.of = u.who

(* What is saved for someone is that one's reading, but for the same move. *)
SavedAreTheirs == \A k \in Accounts : file[k] # None => crossed \/ file[k].of = file[k].who

(* The panel shows only its last round: a stopped round shows nothing more,    *)
(* whatever of it is still out.                                                *)
OnlyTheLastRoundShows ==
  \A p \in Processes : (\E r \in Rounds : by[r] = p) => \A k \in Accounts : screen[p][k].round = Current(p)

(* Accounts on one underlying account show one reading once they are read. *)
MetersAgree ==
  \A p \in Processes, j, k \in Accounts :
    (\E r \in Rounds : by[r] = p) =>
      LET r == Current(p)
      IN  phase[r] \in {"merged", "ended"} /\ ~aborted[r] /\ "checking" \notin {rows[r][i] : i \in Accounts}
            /\ screen[p][j].state # "reading" /\ rows[r][j] \in People /\ rows[r][j] = rows[r][k]
            => screen[p][j] = screen[p][k]

(* Bar, number and color agree on what is left, and only all or none of it     *)
(* used reads so.                                                              *)
LevelsAgree ==
  \A t \in Lefts, segments \in {5, 10, 20} :
    LET left == Left(t)
    IN  /\ (FilledSegments(left, segments) = 0) <=> (ShownPercent(left) = 0)
        /\ (ShownPercent(left) = 0) <=> (MeterTone(left) = "out")
        /\ (MeterTone(left) = "out") <=> (t >= 100000)
        /\ (FilledSegments(left, segments) = segments) <=> (ShownPercent(left) = 100)
        /\ (ShownPercent(left) = 100) <=> (t <= 0)

(* A stopped round saves nothing. *)
StoppedSavesNothing == file' # file => \E r \in Rounds : phase[r] = "merged" /\ phase'[r] = "ended" /\ ~aborted[r]

Inv == TypeOK /\ StandInsAreTheirs /\ SavedAreTheirs /\ OnlyTheLastRoundShows /\ MetersAgree
=============================================================================
