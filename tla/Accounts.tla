------------------------------ MODULE Accounts ------------------------------
(* The operator's accounts (accounts.ts, settings.ts, credentials.ts): adding, *)
(* signing in again and removing them from several Tesotas at once, over one   *)
(* settings file, one credential store and the folders of Claude accounts;     *)
(* sign-ins that fail, writes that do not get their lock, and crashes.         *)
EXTENDS Naturals, FiniteSets

CONSTANTS Processes, Claude, Chatgpt, \* the accounts of each provider, by id
          Theirs,                     \* folders the operator made
          MaxOp, MaxHand, MaxCrash, MaxToken

Ids == Claude \cup Chatgpt
(* claudeAccountFolder: one for each Claude account *)
Own(a) == <<"made", a>>
Slot == <<"slot", "chatgpt">>
No == <<"not", "declared">>
Made == {Own(a) : a \in Claude}

VARIABLES accounts,  \* the accounts setting: each account's folder, or No
          model,     \* the account the model setting names, or "default"
          folders, signedIn,  \* the folders there are, and those signed in to
          creds,     \* the credential store: a token for each ChatGPT account, 0 for none
          valid,     \* the token OpenAI takes
          lock,      \* who holds the credential store's lock
          proc,      \* what each process does: an operation, its account and how far it is
          held,      \* a token refresh: its account, the store as read, and how far it is
          ops, hands, crashes,
          slipped,   \* an account was chosen between its in-use check and its removal
          overlapped, \* accounts two processes worked on at once
          spoiled    \* accounts whose process died between OpenAI's answer and its save

files == <<accounts, model, folders, signedIn>>
store == <<creds, valid, lock, held>>
counts == <<ops, hands, crashes>>
ghosts == <<slipped, overlapped, spoiled>>
vars == <<files, store, proc, counts, ghosts>>

Idle == [op |-> "none", id |-> "none", pc |-> "none", was |-> [a \in Ids |-> No]]
Unheld == [id |-> "none", pc |-> "none", was |-> [a \in Chatgpt |-> 0]]

Init ==
  /\ accounts = [a \in Ids |-> No] /\ model = "default" /\ folders = Theirs /\ signedIn = Theirs
  /\ creds = [a \in Chatgpt |-> 0] /\ valid = [a \in Chatgpt |-> 0] /\ lock = "none"
  /\ held = [p \in Processes |-> Unheld] /\ proc = [p \in Processes |-> Idle]
  /\ ops = 0 /\ hands = 0 /\ crashes = 0 /\ slipped = FALSE /\ overlapped = {} /\ spoiled = {}

-----------------------------------------------------------------------------
At(p, pc) == proc[p].pc = pc
Goes(p, pc) == proc' = [proc EXCEPT ![p].pc = pc]
Ends(p) == proc' = [proc EXCEPT ![p] = Idle]
Begins(p, op, a, pc) ==
  /\ proc[p] = Idle /\ ops < MaxOp /\ ops' = ops + 1
  /\ proc' = [proc EXCEPT ![p] = [op |-> op, id |-> a, pc |-> pc, was |-> accounts]]
  /\ overlapped' = IF \E q \in Processes : proc[q].id = a THEN overlapped \cup {a} ELSE overlapped
  /\ UNCHANGED <<files, store, hands, crashes, slipped, spoiled>>

(* addAccount: not one declared already, nor in a folder that is there already. *)
Adds(p, a) ==
  /\ accounts[a] = No
  /\ a \in Claude => Own(a) \notin folders
  /\ Begins(p, "add", a, IF a \in Claude THEN "make" ELSE "signing")

MakesFolder(p) ==
  /\ At(p, "make") /\ Goes(p, "signing")
  /\ folders' = folders \cup {Own(proc[p].id)}
  /\ UNCHANGED <<accounts, model, signedIn, store, counts, ghosts>>

(* signInAgain *)
SignsInAgain(p, a) == accounts[a] # No /\ Begins(p, "login", a, "signing")

Folder(p) == IF proc[p].op = "login" THEN proc[p].was[proc[p].id] ELSE Own(proc[p].id)

(* signIn: Claude Code's in the folder, ChatGPT's into the account's slot.     *)
AnyTime == TRUE
Free == lock = "none"
SignsIn(p) ==
  /\ At(p, "signing")
  /\ Goes(p, "labels")
  /\ LET a == proc[p].id
     IN  IF a \in Claude
         THEN /\ folders' = folders \cup {Folder(p)} /\ signedIn' = signedIn \cup {Folder(p)}
              /\ UNCHANGED <<creds, valid>>
         ELSE /\ Free /\ valid[a] < MaxToken
              /\ valid' = [valid EXCEPT ![a] = @ + 1]
              /\ creds' = [creds EXCEPT ![a] = valid'[a]]
              /\ UNCHANGED <<folders, signedIn>>
  /\ UNCHANGED <<accounts, model, lock, held, counts, slipped, overlapped>>
  /\ spoiled' = spoiled \ {proc[p].id}

(* A sign-in that fails, or whose label cannot be read: of an account being    *)
(* added nothing is kept, but the slot's sign-in.                              *)
Fails(p) ==
  /\ proc[p].pc \in {"signing", "labels"}
  /\ Ends(p)
  /\ LET gone == IF proc[p].op = "add" /\ proc[p].id \in Claude THEN {Own(proc[p].id)} ELSE {}
     IN  folders' = folders \ gone /\ signedIn' = signedIn \ gone
  /\ UNCHANGED <<accounts, model, store, counts, ghosts>>

(* updateSettings: the settings as they are then, under their lock.            *)
With(settings, a) == [settings EXCEPT ![a] = IF a \in Claude THEN Own(a) ELSE Slot]
RecordedAsRead(p) == With(proc[p].was, proc[p].id)
Recorded(p) == With(accounts, proc[p].id)
Records(p) ==
  /\ At(p, "labels") /\ Ends(p)
  /\ accounts' = IF proc[p].op = "add" THEN Recorded(p) ELSE accounts
  /\ UNCHANGED <<model, folders, signedIn, store, counts, ghosts>>

(* The lock of the settings is another's for too long: the account is signed   *)
(* in to and not recorded.                                                     *)
CannotRecord(p) ==
  /\ At(p, "labels") /\ proc[p].op = "add" /\ Ends(p)
  /\ UNCHANGED <<files, store, counts, ghosts>>

-----------------------------------------------------------------------------
(* removeAccount: one the model setting does not name. *)
NeverInUse(a) == FALSE
InUse(a) == model = a
MayGo(a) == accounts[a] # No /\ ~InUse(a)
Removes(p, a) == MayGo(a) /\ Begins(p, "remove", a, "update")

Updates(p) ==
  /\ At(p, "update") /\ Goes(p, "clear")
  /\ accounts' = [accounts EXCEPT ![proc[p].id] = No]
  /\ UNCHANGED <<model, folders, signedIn, store, counts, ghosts>>

(* Its ChatGPT sign-in goes with it, or the folder Tesota made for it, unless  *)
(* it is the operator's or another account uses it.                            *)
SharesNone(a) == FALSE
Shares(a) == \E b \in Claude : accounts[b] = Own(a)
Kept(p) == LET a == proc[p].id IN proc[p].was[a] # Own(a) \/ Shares(a)
Clears(p) ==
  /\ At(p, "clear") /\ Ends(p)
  /\ LET a == proc[p].id
         gone == IF a \in Claude /\ ~Kept(p) THEN {Own(a)} ELSE {}
     IN  /\ folders' = folders \ gone /\ signedIn' = signedIn \ gone
         /\ IF a \in Chatgpt THEN Free /\ creds' = [creds EXCEPT ![a] = 0] ELSE UNCHANGED creds
  /\ UNCHANGED <<accounts, model, valid, lock, held, counts, ghosts>>

(* A write that does not get its lock: the settings keep the account, or the   *)
(* store the credential of one that is gone.                                   *)
CannotWrite(p) ==
  /\ At(p, "update") \/ (At(p, "clear") /\ proc[p].id \in Chatgpt)
  /\ Ends(p)
  /\ UNCHANGED <<files, store, counts, ghosts>>

-----------------------------------------------------------------------------
(* fileCredentialStore.modify: a sign-in refreshed under the store's lock: the *)
(* store is read, OpenAI gives a new token for the one read, all is written.   *)
Takes(p, a) ==
  /\ held[p] = Unheld /\ Free /\ creds[a] # 0
  /\ lock' = p
  /\ held' = [held EXCEPT ![p] = [id |-> a, pc |-> "asking", was |-> creds]]
  /\ UNCHANGED <<files, creds, valid, proc, counts, ghosts>>

Rotates(p) ==
  /\ held[p].pc = "asking"
  /\ LET a == held[p].id
         taken == held[p].was[a] = valid[a] /\ valid[a] < MaxToken
     IN  /\ valid' = IF taken THEN [valid EXCEPT ![a] = @ + 1] ELSE valid
         /\ held' = [held EXCEPT ![p].pc = IF taken THEN "rotated" ELSE "refused",
                                 ![p].was[a] = IF taken THEN valid[a] + 1 ELSE @]
  /\ UNCHANGED <<files, creds, lock, proc, counts, ghosts>>

Stores(p) ==
  /\ held[p].pc \in {"rotated", "refused"}
  /\ creds' = IF held[p].pc = "rotated" THEN held[p].was ELSE creds
  /\ lock' = IF lock = p THEN "none" ELSE lock
  /\ held' = [held EXCEPT ![p] = Unheld]
  /\ UNCHANGED <<files, valid, proc, counts, ghosts>>

(* The operating system lets go of a dead process's lock. *)
Crashes(p) ==
  /\ crashes < MaxCrash /\ crashes' = crashes + 1
  /\ proc[p] # Idle \/ held[p] # Unheld
  /\ Ends(p) /\ held' = [held EXCEPT ![p] = Unheld]
  /\ lock' = IF lock = p THEN "none" ELSE lock
  /\ spoiled' = IF held[p].pc = "rotated" THEN spoiled \cup {held[p].id} ELSE spoiled
  /\ UNCHANGED <<files, creds, valid, ops, hands, slipped, overlapped>>

-----------------------------------------------------------------------------
(* The operator: a model chosen, and an account declared by hand in a folder   *)
(* that is signed in to and that no operation is under way in.                 *)
ChoosesModel(a) ==
  /\ hands < MaxHand /\ hands' = hands + 1
  /\ accounts[a] # No /\ model' \in {a, "default"} \ {model}
  /\ slipped' = (slipped \/ (model' = a /\ \E p \in Processes : At(p, "update") /\ proc[p].id = a))
  /\ UNCHANGED <<accounts, folders, signedIn, store, proc, ops, crashes, overlapped, spoiled>>

Declares(a) ==
  /\ hands < MaxHand /\ hands' = hands + 1
  /\ a \in Claude /\ accounts[a] = No /\ \A p \in Processes : proc[p].id # a
  /\ \E f \in signedIn : /\ \A p \in Processes : proc[p].op = "none" \/ Own(proc[p].id) # f
                        /\ accounts' = [accounts EXCEPT ![a] = f]
  /\ UNCHANGED <<model, folders, signedIn, store, proc, ops, crashes, ghosts>>

Next ==
  \/ \E p \in Processes, a \in Ids : Adds(p, a) \/ SignsInAgain(p, a) \/ Removes(p, a)
  \/ \E p \in Processes : MakesFolder(p) \/ SignsIn(p) \/ Fails(p) \/ Records(p) \/ CannotRecord(p)
  \/ \E p \in Processes : Updates(p) \/ Clears(p) \/ CannotWrite(p) \/ Crashes(p)
  \/ \E p \in Processes : Rotates(p) \/ Stores(p) \/ \E a \in Chatgpt : Takes(p, a)
  \/ \E a \in Ids : ChoosesModel(a) \/ Declares(a)

Spec == Init /\ [][Next]_vars

-----------------------------------------------------------------------------
TypeOK ==
  /\ accounts \in [Ids -> Theirs \cup Made \cup {Slot, No}] /\ model \in Ids \cup {"default"}
  /\ signedIn \subseteq folders /\ folders \subseteq Theirs \cup Made
  /\ creds \in [Chatgpt -> 0..MaxToken] /\ lock \in Processes \cup {"none"}

(* An account that is recorded is signed in to, in its folder or its slot,     *)
(* whatever failed or crashed, unless two processes worked on it at once.      *)
RecordedAreSignedIn ==
  \A a \in Ids \ overlapped : accounts[a] # No =>
    IF a \in Claude THEN accounts[a] \in signedIn ELSE creds[a] # 0

(* A stored sign-in is the one OpenAI takes, but while it is being refreshed   *)
(* or after the process that refreshed it died before its save.                *)
TokensAreCurrent ==
  \A a \in Chatgpt : creds[a] # 0 => \/ creds[a] = valid[a]
                                     \/ a \in spoiled
                                     \/ \E p \in Processes : held[p].id = a /\ lock = p

(* The model setting names an account there is, unless it was chosen between   *)
(* the check and the removal.                                                  *)
ModelIsDeclared == model = "default" \/ accounts[model] # No \/ slipped

(* An account leaves the setting by its own removal only: a Tesota that saves  *)
(* keeps what another saved meanwhile.                                         *)
LeaveByRemoval ==
  \A a \in Ids : accounts[a] # No /\ accounts'[a] = No => \E p \in Processes : At(p, "update") /\ proc[p].id = a

(* A folder the operator made stays, and so does one an account is declared in. *)
FoldersStay == \A f \in folders \ folders' : f \in Made /\ \A a \in Claude \ overlapped : accounts[a] # f

Inv == TypeOK /\ RecordedAreSignedIn /\ TokensAreCurrent /\ ModelIsDeclared
=============================================================================
