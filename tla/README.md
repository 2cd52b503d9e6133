# Tesota, modelled and checked

Tesota is a coding agent written in TypeScript. Its engine (`src/packages/core/src`)
runs a model's turns and tool calls and keeps every step in a session file; its gate
(`src/src`) verifies what a request changed before the run may complete and leaves a
receipt. This project keeps TLA+ models of the parts whose correctness depends on the
order of things, on files and processes that move meanwhile, or on many facts that must
agree. TLC checks the models on small instances; TLAPS proves the main facts about the
run loop, the session's journal, the tree of subagents, the gate, a session's door, calls,
questions and conversation, and what it asks of others (a model's replies, Claude Code's queries, MCP servers
and their accounts) and the folders sessions work in, for every value of their constants.

Paths below are relative to `src/`; `core` is `packages/core/src`.

## 1. The system

| Component | State it keeps | Operations | Talks to |
| --- | --- | --- | --- |
| Session loop, `core/loop.ts`, `settle-rule.ts`, `extensions.ts` | the running run, its controller, the queue, input handlers at work and waiting, jobs and their unreported ends, the conversation | `prompt`, a message during a run (`amend`), `withdrawPendingMessages`, `abort`, `compact`, `dispose`; turns, calls, jobs, settlement | the journal (every entry), extensions and the gate (settle handlers), providers, the shell (events) |
| Session journal, `session-file.ts`, `session.ts`, `session-lock.ts`, `reconcile-rule.ts` | an append-only file, its lock, staged and synced entries, the poison of a failed write | create, open, read, repair the tail, recover, recover the children, close; rebuild the conversation | the loop (writer), the file system |
| Subagents, `children.ts`, `agent-rule.ts`, `tools/agent.ts` | the tree's count of running children, each child's session, depth and end | the `agent` call: admission, a child's run as a job, its end and its discarding | the loop's jobs, the journal of each child |
| Verification gate, `src/gate.ts`, `verification/gate-rule.ts`, `model-rule.ts`, `request-fingerprint.ts`, `evidence.ts` | per request: what went back, start fingerprints, kept model checks, the pinned model's state; the status the operator sees | the operator's input, a tool's start, the settling of a run: rungs, repairs, receipt, stop | the loop (settle handlers), the files, provers and commands |
| Operations ledger, `src/operations.ts` | attempts and the operations of each | plan, run, reuse, close | gate, shell |
| Test rung, `src/test-rung.ts`, `test-report.ts`, `projects.ts` | none between passes; a worktree of the base while one runs | run the commands, compare with the base, exercise the changed tests | gate, Git |
| Proofs, `verification/lemmascript-verifier.ts`, `prove-tool.ts`, `proof-coverage.ts` | a cache of inspections | prove a file in place, inspect what was attached, find a program's sources | gate, agent, external provers |
| Contract strength and judgments, `proof-guarantees.ts`, `proof-mutation.ts`, `pi-claimcheck.ts`, `open-cases.ts` | none; the records of judgments | mutate a contract and prove each mutant; ask models about it | gate, provers, providers |
| Design-model checks, `model-check.ts`, `model-view.ts`, `model-graph.ts` ... | kept checks; captured graphs | check a model and its planted faults | gate, external checkers |
| Receipt, `src/receipt.ts`, `footer.ts`, `pull-request-receipt.ts`, `verification/verdict-rule.ts` | none: computed from the evidence | standing, findings, wording, statement | gate, shell, pull requests |
| Test-weakening detection, `verification-changes.ts`, `test-edits.ts` | none | list what a change takes from contracts, proofs, commands, tests | gate, Git |
| Questions, `questions.ts`, `questions-rule.ts` | the form that is open, attempts per request | ask, answer, dismiss; repair a question in prose | loop, journal, gate |
| Provider retry, `provider-retry.ts` | attempts of one reply, tokens of the failed ones | classify, wait, retry | loop |
| Compaction, `compaction.ts`, `compact-rule.ts` | the summary at the head of the conversation | cut, summarise | loop, journal |
| Permissions and hooks, `permissions.ts`, `permission-rule.ts`, `hooks.ts` | the mode, rules, allowances | judge a call, ask, run a hook | loop |
| MCP, `mcp.ts`, `mcp-auth.ts`, `mcp-config.ts` | each server's connection, tools and tokens | connect, call, reconnect, refresh, sign in and out | loop, the shell |
| Claude Code provider, `providers/claude-code.ts`, `handback-rule.ts` | the open query, the calls it asked for | hand calls back and go on | loop |
| Workspace, `workspace.ts` | leases, worktrees and branches | open, resume, close a session's folder | session, Git, other processes |
| Accounts and usage, `accounts.ts`, `credentials.ts`, `usage.ts`, `model-access.ts` | the account setting, stored sign-ins, folders; saved readings | add, sign in, remove, refresh; read and show usage | shell, other processes |
| Processes, `src/process.ts`, `core/tools/shell.ts` | a child, its output, a job on Windows; the capture's file | run, stop with everything it started, report | tools, hooks, provers and commands |
| Tasks, `tasks.ts`, `tools/tasks.ts` | each run's list and the run it continues | update, inherit, say after a compaction; replay | loop, journal |
| Bases and snapshots, `core/base.ts`, `src/snapshot.ts` | a hidden Git directory for each folder, under one lock | capture a request's base, take and prune snapshots | Git, the gate, other processes |
| Tools, settings, shell, model viewer | files, what is shown | input, drawing, one effect each | all |

What is hard here, and where:

- **Messages during a run.** A message may come before the request is in the file, between
  two turns, while handlers or the verifier settle, or after the run's end. Each wait in
  `prompt`, `amend`, `settle` and `release` is a place where it may.
- **Settlement.** A run completes only behind a verification that saw everything. The
  verifier's result, the decision and the run's end are one synchronous step.
- **Stops.** A tool may not listen to a stop; after two seconds its run goes on without it
  (`step`), and the call it left behind keeps running beside later runs.
- **Crashes.** The file is the only truth. An intent is synced before its call runs, a
  result after; recovery repairs what a crash left open, and may itself be cut short.
- **A tree of sessions** that share one count, each with runs, stops and a file of its own.
- **Files that move while they are checked.** The operator may edit at any time, a check
  reads while it runs, and a receipt must not vouch for content nobody checked.
- **Surfaces that must agree.** The receipt's word, color, rows and lines, the footer and
  the statement on a pull request are separate functions of the same facts.
- **Several processes** over one settings file, credential store, lock and repository.

What makes each component correct is stated as properties in sections 2 and 3; the
hazards, each at its line with the properties that cover it, are in `PROJECT.json`.

## 2. The modules

A module has its system's actions and its properties. Beside some definitions stand faulty
forms of them, marked `mutant`: a plausible error in that code, with which TLC finds one of
the properties broken. They are no part of any specification.

| Module | Models | With |
| --- | --- | --- |
| `RunLoop` | the runs of one session, and `settle-rule.ts`: what follows each settlement phase | |
| `RunPromise` | what a session promises of runs and messages, without saying how | |
| `RunLoopProofs` | proofs of `RunLoop`'s properties, and that it implements `RunPromise` | `RunLoop` |
| `Journal`, `JournalProofs` | two session files: a session and its subagent, crashes and recovery | |
| `Subagents`, `SubagentsProofs` | the tree of subagents, and proofs about it | |
| `Gate`, `GateProofs` | the gate over one session's requests in one repository, and proofs about it | |
| `Admission` | how prompts, compactions, stops and disposals are let in | |
| `Calls` | a reply's calls: judged, asked about, hooked, run, stopped, left behind | |
| `Questions` | a request's questions, their attempts and the one repair | |
| `Conversation` | the history and ledger, live and as a file gives them back | |
| `ProviderRetry` | a model's reply and its retries | |
| `HandBack` | the queries of Claude Code across steps | |
| `Mcp`, `McpAuth` | one MCP server's connection; its account under several shells | |
| `Session`, `SessionProofs`, `ConversationProofs` | the door, the calls, the questions and the conversation of a session side by side; proofs about the first three; proofs about the fourth and the types of all | `Admission`, `Calls`, `Questions`, `Conversation` |
| `Providers`, `ProvidersProofs` | what a session asks of others, side by side, and proofs about all four | `ProviderRetry`, `HandBack`, `Mcp`, `McpAuth` |
| `Receipt`, `PullRequest` | what a receipt and the footer's row say; the statement about a commit | |
| `ModelCheck` | a design model and its planted faults, checked, kept and used again | |
| `TestRung` | a command on the change and on the base, and the exercise of its tests | |
| `Operations` | the ledger of a pass's operations | |
| `Attribution` | what a request is taken to have changed | |
| `Weakening`, `TestEdits` | what is listed of a change to contracts, proofs, scripts; to tests | |
| `Proofs`, `Inspections` | one run of the proof tool; its cache and its search for sources | |
| `Strength`, `Judgments` | mutants of contracts; models' judgments of requests | |
| `Workspace`, `WorkspaceProofs` | worktrees and leases, and proofs about them | |
| `Accounts`, `Usage` | accounts; usage | |
| `Processes` | one run of a process, what the shell keeps of its output and what a hook's run decides | |
| `Tasks` | the agent's task lists, live and as a file gives them back | |
| `Snapshots` | the bases of requests in folders without a repository | |
| `MCEvidence` | the gate's evidence and what outlives a session, side by side | their modules |
| `MCJournal`, `MCGate`, `MCSession`, `MCProviders` | constants for TLC | their module |

`Session`, `Providers` and `MCEvidence` give each of their parts variables of its own. They have a variable `part`: a behaviour follows the part it starts with,
and the variables of the others keep their initial state. One run then takes the sum of
the parts' state spaces, not their product: nothing is composed, several questions share
a run.

### RunLoop

An action is what one actor does between two awaits. `stage` is where `start()` is
suspended; each action's guard is the stage it resumes from.

| Code | Model |
| --- | --- |
| `runs`, `closed`, `controller.signal.aborted`, a poisoned writer | `run`, `closed`, `stopped`, `broken` |
| `queue`, the amendments in the file | `input[i]` in `"steer"`, `"followUp"`; `inputRun[i]` |
| `handling`, `waiting`, `Promise.all(handling)` | `handling`, `waiting`, `awaited` |
| `jobs`, `finishedJobs`, their start and end entries | `job`, `mode`, `callRun`, `startRun`, `endRun` |
| calls `step()` went on without | `left` |
| `prompt` and `start` up to the synced request | `Prompt`, `RequestWritten`, `RequestFails`, `InputHandled` |
| `turns`, `runCalls`, `toolFreeEnd`, `waitForJobs` | `ReplyCalls`, `ReplyFails`, `ToolFreeEnd`, `ToolHandlerThrows`, `CallsEnd`, `BeginTurns`, `EndTurns` |
| `stopJobs`, `settle`, `release` | `JobsStopped`, `HandlersFinished`, `ExtensionsSettled`, `VerifierSettled`, `WaitingHandlerRuns`, `Released` |
| the `catch` of `prompt` | `WriteFails`, `RunFails`, `HandlersStopped` |
| `amend`, `withdrawPendingMessages`, `abort` | `Send`, `Withdraw`, `Stop` |
| `jobHost.start`, a job's end, a left-behind call | `StartJob`, `LeftCallStartsJob`, `JobEnds`, `LeftCallEnds` |

`callRun`, `startRun` and `endRun` are kept apart because the code writes a job's start and
end with whatever run is current then. `failed` is a history: the runs (`Current`, the one a
prompt is for) a failure or a stop came in.

### Admission, Calls, Questions, Conversation

`Admission` has one program counter for each caller: `at[c]` is the await at which its
`prompt`, `compact`, `abort` or `dispose` is suspended, and an action is what it does from
there to the next. What a run does is recorded here only as `stage`.

`Calls` keeps each call's own await in `at` (`parsing`, `asking`, `before`, `opening`,
`executing`), what its permission entries say in `decided`, and its run's stop. A call left
behind by the grace keeps its own steps, which is why `at` outlives the run. `seen` is the mode
a call is judged in: `permitted` reads it before it awaits the parsed command (`loop.ts:911`), so
the operator may have changed it meanwhile. `Access`,
`Floor`, `Rule` and `Slow` are what the rule and the parsing of a command would find.

`Questions` is the engine between two model replies: each reply is any mix of a question
in a call, a question in prose, other calls and words; `times`, `repaired` and `boundary` are
the code's counters and flags. `Responder` says whether a shell is there to answer.

`Conversation` keeps two things and compares them: what the loop holds (`history`, `ledger`)
and what `conversation()` and `recovery()` rebuild from `entries` (`Rebuilt`, the last of
`Reads`, a function from the length of a prefix to what it gives). A crash drops the first;
opening takes the second. `Of` is what a message or an entry is about: a run, a message of the
operator's, a reply, a count, or a call by its reply and its place in it. `given` in a summary's head has a
place for each of the ledger's messages, empty where the tail holds the message. One call at a
time can have a saved answer, the one whose turn it is, so `Recovery` is the repairs of the
calls to come with the first of them a result where an answer was `Saved`.

### Journal

A file is a sequence of whole entries plus the state of its last line. `synced` counts the
entries that survive a power loss. Each append of the loop is an action, and a stage of its
own says that a sync is still to come, so that a kill, a power loss or a failed write may
come between them. `Read` is `readSessionFile` and the tail's repair, `Recovery` is
`recovery()` as a function from the entries to what it appends, and `RecoverChild` opens a
child's file for its parent. `Placed` is the reader's grammar (`entryAt`): what the file
must satisfy to be opened again.

### Subagents

Each session of the tree is one actor: its turns, its settlement and its end. `call[s]` is
what its `agent` call does; `"model"` is the await between the admission and the count.
`running` is `tree.running`, `counted` the places whose `uncount` has not run. `Spawn` to
`WaitReturns` are the steps of `agentHost`'s `spawn`, `Limited` to `Disposed` those of
`runChild`.

### Gate and Attribution

| Code | Model |
| --- | --- |
| the files | `content`: a version of the code and one of the model |
| `current.fingerprints`, the saved start of a run that ended on its question | `start`, `saved` |
| `sentBack`, `commandsSentBack`, `weakSentBack`, `modelsSentBack` | `sent[check]` |
| `modelsChecked`, `modelsPassed` | `cached` |
| `requiredModel`, `selectionSentBack` | `required`, `asked` |
| `progress.status` | `step`, `receipt` |
| `input`, `tool_execution_start` | `Input`, `Tool` |
| `agent_before_settle`, `verify`, `settle` | `Unchanged`, `SelectionBack`, `Settle`, `RunStopped`, `Skip`, `Begin`, `End`, `Reuse`, `Publish`, `Stop` |
| `proofsBack`, `testsBack`, `contractsBack`, `modelsBack` | `Judged` |
| `settledCheck`, `unitEvidence` | `Reconciled` |

`untouched` and `told` are history: the content before the first tool, and how often a
failure went to the agent. What fails on which content is the constant `Failing`, so that an
agent's repair, the operator's edit and a repeated failure are all choices of content. While
a check runs, `seen` gathers the contents there were, and the check may have read any of
them. Receipt and evidence carry the content they name (`of`) and, as history, the content
read (`read`).

`Gate` takes what changed from two contents; `Attribution` says how the code finds it in a
repository: a commit graph, branches, a working tree and a clock that the agent and the
operator both move, the base and refs read at admission, the two captures and
`compareFingerprints` over them.

### The gate's evidence

`ModelCheck`, `TestRung` and `Proofs` are each one check as its steps: what it reads, what it
runs on the content of that moment, what it keeps, with an edit or a stop between any two.
What really holds of a content is a constant or chosen at the start (`truth`, `world`,
`Versions`), so that what a check says can be compared with what is so. `Operations` runs
threads that publish to one ledger. `Strength` and `Judgments` go through contracts and
repositories one at a time and count. `Weakening` and `TestEdits` let the agent edit any line,
let Git pick any shortest diff, and compare what is listed with what the two contents mean.

`Receipt` adds one item at a time to a receipt; everything the code computes from the items
is an operator here under its own name (`CheckFinding`, `Standing`, `SummaryTone`,
`MethodStanding`, `UnitStanding`, `StatementResult`), and so is the footer's row. `PullRequest`
is the command's reads of HEAD, content and status while the operator commits.

### Providers and what outlives a session

`ProviderRetry` counts seconds in `clock`. `HandBack` numbers queries (`convs`) and calls;
Claude Code is as the provider meets it: it may make its calls before or after the step that
answers them. A message is the set of its calls and `answers` counts the answers each call got,
since what matters is which calls have one and that none has two. `Mcp` numbers connections and tool lists; `McpAuth` numbers token versions and
keeps what the server took and which answers were lost. `Workspace` and `Accounts` have a
program counter for each process, and a crash of one releases its locks only. In `McpAuth` a
refused refresh may drop the tokens or leave them, as the server's answer has it. `Usage` numbers
rounds and keeps, beside each reading, whose it really is; it runs with one process and two
people, and with two processes over the one file of readings.

`Processes` keeps each process as within reach of a stop of its tree (`"in"`), out of it, dying or
gone, and apart from that whether it holds the run's output. `where` is how a tree is stopped:
its group, a Windows job, or `taskkill` along parents that are still there. `Ends` to
`OutputClosed` are the Effect's use and release, and `Reports` is `Capture.finish` with the
words of the shell's result.

`Tasks` keeps the loop's book (`live`) and replays the file into another (`Replay`) to compare
them. A list is its four measures, which `TaskListAccepted` judges. A crash keeps any part of the
file from what was synced on, and the session is opened again from that.

`Snapshots` has each session at one of `takeSnapshot`'s awaits (`pc`), the lock `withLockWhile`
gives, and each folder's Git directory as what decides the next take: whether it is there, has
a HEAD, has all its objects, names the large file, when it was used, its index, and the Git that
still holds the index. A folder has an ordinary file and one that may be over the limit.

## 3. Runs

Every run sets `CHECK_DEADLOCK FALSE`: each model comes to rest, with its bounded requests
or crashes used up, which is where the real system waits for the operator.

### Passing runs

| Run | Instance | What it shows |
| --- | --- | --- |
| `run_loop` | 2 runs, 2 messages, 1 job, 1 automatic continuation | a completed run saw every message and job (`CompletedSawEverything`); a handler that throws in any stage, a reply or a loop that fails and a stop each keep the run they came in from completing (`NoFailureIsLost`); a message joins only an open run, enters in the order it came, steers first, and the conversation is still during settlement (`InputAndConversationAreOrdered`); the loop implements `RunPromise` (`KeepsPromise`); the inductive invariant of the proofs (`RunInv`) |
| `run_loop_stop` | 1 run, 1 message, 1 job, with fairness | a stop ends the run |
| `journal` | a session and its subagent, 2 runs over both, 2 crashes; the session's reply starts the subagent, or asks, writes and reads | the file always reads back (`ReadsBack`); a call that ran is never told as one that did not (`RanCallsAreKnown`); one outcome for each call, run and job (`OneOutcome`); a saved answer survives (`SavedAnswersSurvive`); a session at rest has nothing open, what is durable only grows, nothing follows a torn line (`RestsComplete`) |
| `subagents` | 3 children, 2 at once, depth 2, with fairness | the count is exact and a stop reaches all below (`TreeIsConsistent`); a run settles after its children; a waiting call returns and the tree drains (`TreeEnds`) |
| `gate` | 2 requests, 2 codes, 2 models, a failure of the base, 1 edit | a receipt's passes are of the content it is of; a failure a receipt has went to the agent in its own request; a change is never left without a receipt |
| `gate_pinned` | 1 request, a pinned model, 1 edit | a pinned model counts as checked only on its own content, by a current check |
| `gate_end` | 1 request, 4 codes that fail every check, with fairness | no failure goes back twice, and every request settles |
| `session` | the four parts below, with fairness | `AdmissionIsSafe`, `CallsAreSafe`, `QuestionsAreSafe`, `ConversationIsSafe`, and `StopsAreObeyed`: each stop and disposal returns, and a stop ends the calls and the form |
| `providers` | the four parts below, with fairness | `RepliesAreSafe`, `HandBackIsSafe`, `ConnectionsAreSafe`, `AccountIsSafe`, and `WaitsEnd`: a stop ends a reply, an MCP call ends |
| `evidence` | the twenty-one parts below | `ReceiptsAreTrue`, `ChecksShowWhatTheyRan`, `ChangesAreTold`, `ProofsClaimNoMore`, `WorkAndAccountsAreKept` |

The parts, with what each promises (the property named is a definition of the module):

| Run, part | Bounds | Promise |
| --- | --- | --- |
| session, `admission` | 3 calls of any kind | a run and a compaction never at once (`OneAtATime`); nothing works on a closed file; a stopped prompt never reaches a run; nothing begins after a lost answer |
| session, `calls` | 2 replies of 1 and 2 calls, 4 kinds, 2 modes | one result for each call; only allowed calls run, their intent on disk; after the floor refused one no mode allows another; a stop starts nothing |
| session, `questions` | 5 replies, 3 forms | forms and repairs are bounded; no question is dropped by a completed run; a saved answer is told; a question goes before other tools |
| session, `conversation` | 2 runs, 2 replies of up to 2 calls, 1 amendment, 2 compactions, 1 crash | the rebuilt conversation and ledger are those the model saw; input is kept as given; a result follows its reply |
| providers, `reply` | 3 retries, 6 kinds of failure, waits at and below the budget | retries are for their own failure and bounded; every message given in time is in the file and counted once, and nothing else; a left reply is silent |
| providers, `handback` | 2 queries, 2 calls | a call is answered once; one query is open; a step never awaits a query that waits for results it will not get |
| providers, `server` | 2 callers, 2 connections, 2 lists, 1 restart | no connection is left open; tools are current |
| providers, `account` | 2 shells, 2 tokens, 1 crash | whoever works with the tokens holds the lock; a token is spent once; signed out stays so |
| evidence, `receipt` | receipts of up to 3 items of about 50 kinds, one or two repositories; widths 0 to 26 | `VerifiedIsEarned`, `SurfacesAgree`, `RowsNeverOverstate`, `PartsAgree`, `OnlyEvidenceCounts`, the footer's `FooterInv`, `StatusesAlwaysFit` |
| evidence, `pull request` | 2 contents of 3 files, 1 commit more | `StatementsHold` |
| evidence, `model` | 4 truths, 1 edit, 2 requests, 1 model with up to 2 faults | `PassesAreOfWhatStands`, `FailuresWereFound`, `LinksArePasses` |
| evidence, `tests` | 2 sources and a test, 5 behaviors of it, 3 of the others | `OriginsAreTrue`, `SensitivityIsTrue`, `SourceCreditsAreTrue` |
| evidence, `operations` | 2 passes of 2 steps and 3 threads, then 1 pass of another request | `ClosedPassesStayClosed`, `ConcurrencyIsTold`, `StopsAreTold`, `EveryOperationIsShown`, `EndsAreFinal` |
| evidence, `attribution` | 3 commits, 2 edits, 2 files, one second | `CreditsAreNew`, `NothingIsMissed` |
| evidence, `weakening` | files of up to 3 lines, 2 functions, 2 edits | `LostContractsAreListed`, `GainsAreListed`, `LeftOutIsListed`, `TrustIsListed`, `ChecksAreKept`, `NoFalseAlarm` |
| evidence, `test edits` | files of up to 3 lines, 2 tests, 4 assertions, 2 edits; lines of up to 3 tokens | `QuietEditsKeepTheChecks`, `QuietEditsKeepTheTests`, `LossesAreNamed`, `StricterIsStricter`, `ExtendedLinesKeepTheirShape` |
| evidence, `proof` | 10 contents, 2 runs and edits | `OutrightIsOutright`, `PassesAreWhole`, `NoPassWithoutAProof`, `StopsEndIt` |
| evidence, `search`, `cache` | folders of depth 2, one hidden, 2 sources; 3 askers over a cache of 2 | `EverySourceIsFound`, `CacheIsTrue` |
| evidence, `strength` | 2 functions of 6 kinds, 3 operators, 2 mutants each | `OnlyEquivalentsAreDropped`, `TheLimitKeepsAMix`, `EveryChangeIsMeasured` |
| evidence, `judgments` | 2 repositories, 4 chains of up to 3 requests, contexts of 7 tokens | `CompletedIsComplete`, `JudgmentsAreOfWholeRequests`, `ReferencesStayBounded` |
| evidence, `workspace` | 2 processes, 2 sessions, 3 openings, 1 crash | `OneSessionPerFolder`, `WorkingFoldersStay`, `WorkIsKept`, `KeptWorkIsTold`, `LeasesAreHeld` |
| evidence, `accounts` | 2 processes, 3 accounts, 3 operations, 1 folder by hand, 1 crash | `RecordedAreSignedIn`, `TokensAreCurrent`, `ModelIsDeclared`, `LeaveByRemoval`, `FoldersStay` |
| evidence, `processes` | a child and what it starts, each platform, 3 chunks of which 1 is shown and 2 are kept in memory | `StopsLeaveNothing`, `CodesAreItsOwn`, `OutputIsAccountedFor`, `BlocksHold` |
| evidence, `tasks` | 3 runs, 2 replies or compactions, 2 ids, a list at every limit, an empty one and one past a limit, an empty file and one with a bad link and a result of no call | `BooksAgree`, `HeardIsKept`, `SaidIsReplayed`, `ListsAreItsRequests` |
| evidence, `snapshots`, `pruning` | 2 sessions, 3 takes, 1 crash; one shared folder, beside a repository, edited once; two folders over 3 days, 1 store kept past its day, for the code's 10 | `OneWriter`, `BasesAreKept`, `LeftOutIsNamed`, `BaseIsTheFolder` |
| evidence, `shared usage` | 2 processes, 2 accounts of one person, 2 rounds, 1 step of the clock either way | as `usage` |
| evidence, `usage` | 2 accounts, 2 people, 2 rounds, 1 move of a sign-in | `StandInsAreTheirs`, `SavedAreTheirs`, `OnlyTheLastRoundShows`, `MetersAgree`, `LevelsAgree`, `StoppedSavesNothing` |

Why these bounds are enough for the questions asked: two runs let what one leaves behind
meet the next; two messages let one be delivered while the other waits; one continuation
is both below and at its limit. Two crashes let a recovery be cut short. Three children over two levels let a limit of two be reached by the
top session and a child of it at once, and be exceeded. Two failures of one check are the
fewest that alternate, and one edit of the operator's may fall before, inside or after
every check. Three calls let one be let in while two wait for it. Two shells are the
fewest that race, and one crash of either falls between any two of its steps. Two items
of a receipt are the fewest that may contradict, and a third decides between them; limits
such as the cache's, the mutants' and the context's are set so that they are reached and
passed. An edit and one after it let a change be made and taken back. The bounds are
constants named `Max...`, in guards, and are the only things that stop the environment.

### Runs that show a disagreement

Each checks one statement of the code or its documents and TLC finds a behaviour of the
code against it. `PROJECT.json` quotes the statement.

| Run | What happens |
| --- | --- |
| `orphaned_child` | a crash between a parent's recovery and its children's leaves a child never ended |
| `after_floor` | after the floor refused a call, a call the operator allowed for the session runs unasked in the same request |

### Further disagreements

What the models show beside those, found while they were written. A property named here is
stated in its module and none of the runs' own: TLC finds it violated when it is added to
the configuration of its module's run, with the constant given (of `Session`,
`Providers` and `MCEvidence` through the part's instance).

| Property | Where | What happens |
| --- | --- | --- |
| `NoHandlerOutlivesCompletion` | `RunLoop`, `loop.ts:1346` | `withdrawPendingMessages` empties the queue and not `waiting`: a message withdrawn while its run settles lets the run complete with the message's handlers still to run |
| `JobStartsInItsCallsRun` | `RunLoop`, `session-file.ts:139` | a call its stopped run went on without starts its job in the next run |
| `JobEndsInItsRun` | `RunLoop`, `loop.ts:1411` | a background job that ended just before a question, an error or a stop ended the turns is written with the next run |
| `NoHandlerOutlivesItsRun` | `RunLoop`, `loop.ts:1498` | a message accepted while a failed run waits for its handlers leaves handlers at work after `prompt` rejected |
| `WithinLimit` | `Subagents`, `children.ts:190` | two sessions of the tree, each awaiting its child's model, exceed the tree's limit |
| `PinnedRequestsAreReceipted` | `Gate`, `gate.ts:1186` | a request with a pinned model whose tool changed nothing settles without a check or a receipt |
| `ProofsAreOfWhatTheyRead` | `Gate`, `Codes <- MCCodes`, `evidence.ts:8` | `proveFile` hashes the files after the proof, so an edit while it runs is in the hash of a pass that never read it |
| `ContractsAreOfTheReceiptsContent` | `Gate`, 2 edits, `docs/concepts/verification.md:68` | a contract is measured on an edit made since its proof, and its measurement settles once the file is put back |
| `StoppedReceiptsAreUnchecked` | `Gate`, pinned, `docs/receipt-v3.md:62` | a stop after the models were checked settles a receipt without evidence that says the pinned model was checked |
| `LeftCallsAreSilent` | `Calls`, `loop.ts:376` | a call left behind still writes its entries and tells handlers |
| `LedgerReadsBack` | `Conversation`, `Referenced <- TRUE`, `session.ts:420` | of a request with references and a check plan the loop's ledger has the references first and the file's the check plan; a request with one of them is proved to read back |
| `KeptCallsAreMade` | `HandBack`, `claude-code.ts:490` | a message that was given up leaves its calls kept for a query that never makes them |
| `StoppedQueriesStayClosed` | `HandBack`, `claude-code.ts:709` | a query closed by a stop while it opens is started all the same |
| `TranscriptsAreRemoved` | `HandBack` | a query that crashes leaves what it wrote |
| `RetriesLeaveOthersAlone` | `Mcp`, `mcp.ts:195` | a call that reconnects closes the new connection another call already uses |
| `ToolsAreCurrent` | `Mcp`, `Reordered <- TRUE`, `mcp.ts:147` | two answers that cross leave the older list of tools |
| `SignedOutHasNoConnection` | `Mcp`, `mcp.ts:330` | signing out while a connection is made leaves it open behind "needs sign-in" |
| `ClosedPassesStayClosed` without `waste` | `Operations`, `proof-guarantees.ts:189` | a runner that throws leaves the other of its step starting operations in a closed pass |
| `OutrightIsOutright` without `~moved` | `Proofs`, `lemmascript-verifier.ts:351` | a file that moves while its proof runs is told as proved outright |
| `StatementsHold` without `~moved` | `PullRequest` | HEAD is read first, content and status each later: a commit in between is stated about |
| `PassesAreOfWhatStands` without `Raced` | `ModelCheck` | the header is read before the content is hashed, so the faults checked may not be the ones declared; an edit that is put back goes undetected |
| `OriginsAreTrue`, `Uncovered <- TRUE` | `TestRung` | a failure the report leaves out can be read as the base's own |

Seen in the models, where a guard or an exception of a property names it:

- `TestRung`: a test whose run on the base times out is credited as failing there.
- `Attribution`: a request that continues one that ended on its question keeps base and refs
  but takes the later time (`gate.ts:520`, `565`); where the first capture is not of the base
  a file changed back is not listed; a dangling commit of the same second, restored later, is
  credited.
- `Weakening`: a `skip` whose line stayed while the function under it changed is not listed
  (`StayedSkip`); neither are an annotation moved between functions, a `requires` added by
  renaming its function, a hand-written `assume` that repeats a generated line, or a script
  only a selected one calls. Diff and content are read in two steps (`gate.ts:127`).
- `TestEdits`: an argument added before those there counts as extended; where no line counts
  a removed assertion is dropped (`testChange`).
- `Strength`: with the scope unavailable a changed contract reads as "no eligible changed
  contract". `Operations`: a mutation the stop cut short ends `done`, and the next contract's
  starts after the stop (`operations.ts:173`). `Judgments`: the context is recorded before a
  judgment is sent, or without (`pi-claimcheck.ts:128`).
- `Receipt`: a preexisting failure of a command counts as failed in the standing of its row
  and only as a warning in its tone (`receipt.ts:1107`, `1185`); "Proved" keeps its tick with
  unattached specifications (`methodRow`). With several repositories, one's unread
  weakening makes the row say "1 proved" for a proof the receipt words as on trust
  (`footer.ts:86`), and takes one gap off another's (`153`); a receipt with only an unanswered
  question shows "! receipt" with no reason (`148`).
- `Workspace`: `release()` lets go of the lease before it removes the worktree
  (`workspace.ts:128`); a commit made in that gap is lost with the branch; a refused lease
  leaves its worktree.
- `Accounts`: a ChatGPT sign-in stays stored when recording it fails; a Claude folder signed in
  to and not recorded blocks its name; removing an account declared by hand at Tesota's own
  path deletes its folder; a model chosen between the in-use check and the removal names a gone
  account; a crash between a token's rotation and its save loses the sign-in. `Usage`: two
  processes' saves may lose one another's readings, and a plan without limits is not
  remembered.
- `Processes`: off Windows a process that left its group survives a stop, and where `taskkill`
  stops a tree so does one whose parent has exited (`where` in `StopsLeaveNothing`); a stopped
  run waits without bound for whoever still holds its output (`process.ts:187`); a stop that
  comes while a run that ended by itself is released reports it as stopped, and leaves what
  outlived it running (`Result`).
- `Tasks`: "The live loop and replay both drive it, so they agree on every state" (`tasks.ts:68`)
  fails where one reply gives two updates the same id: the loop runs the first, and replay reads
  the arguments of the last (`repeated`).
- `Snapshots`: a stop during `git add` still lets the commit run (`snapshot.ts:135`); where
  `git config` failed, or a crash came before it, the next take finds a HEAD and skips it; an
  index lock that a killed Git leaves makes every later take of that folder refuse.

## 4. Fairness

- `RunLoop`: the loop takes its next step when it can (the event loop runs ready
  continuations), and once its signal is aborted, an input handler and a job return. A
  running tool is not assumed to return: `step` leaves it after its grace. The handlers and jobs
  the code awaits without a bound, so one that ignored its signal would hold the run, and
  `StopEndsTheRun` says nothing of that. Nothing is
  assumed of the operator or the provider; a provider that never answers is not a
  violation of `StopEndsTheRun`, since the stop interrupts the wait for it.
- `Subagents`: a child's time limit is a timer that fires, and a stopped session's turns
  and settlement end, which is what `run_loop_stop` shows of one session. A child not
  stopped is not assumed to end its turns.
- `Gate`: a check ends, since each has a time limit; the agent ends its turns, and the
  operator does not send input into one run for ever (strong fairness of settling without
  more input). Which outcome a check has is never assumed.
- `Admission`: handlers, summaries and the steps between two awaits happen, and a run that
  is stopped ends; one that is not may go on for ever. `Calls`: the grace's timer fires and a
  stopped call's wait for an answer is released; a tool, a hook, a slow parse and the operator may take
  for ever. `Questions`: only what follows a stop happens.
- `ProviderRetry`: the timer of a wait fires and an attempt that is stopped ends or is left.
  `Mcp`: a connection's attempt and a call each end within their timeout.

No liveness is claimed of the twenty-one parts of `evidence`: each is a pass with limits of its
own, and `RequestsSettle` of the gate rests on those limits.

## 5. Proofs

| Theorem | States | For every |
| --- | --- | --- |
| `TypeCorrect`, `RunInvariant`, `CompletedRunsSawEverything`, `FailedRunsDoNotComplete`, `VerificationIsQuiet`, `MessagesJoinAnOpenRun`, `MessagesAndSettlementAreOrdered` (`RunLoopProofs`) | the loop's types, its inductive invariant, and every safety property its run checks | number of runs and messages, set of jobs, continuation limit, verifier registered or not (`RunLoopAssumption`) |
| `LoopKeepsPromise` (`RunLoopProofs`) | `Spec => Promise!Spec` | the same |
| `SubagentsTypeCorrect`, `TreeStaysConsistent`, `RunsSettleAfterTheirChildren` (`SubagentsProofs`) | types, `TreeIsConsistent`, `SettlesAfterItsChildren` | finite set of children, limit and depth (`SubagentsAssumption`) |
| `GateTypeCorrect`, `PassesStayOfTheirContent`, `PinnedModelsAreFulfilled`, `FailuresGoBackOnce`, `SettledFailuresWereTold`, `ChangesStayReceipted` (`GateProofs`) | every safety property the gate's runs check | versions, failures of each on each content, failures of the base, pin, requests and edits (`GateAssumption`) |
| `JournalTypeCorrect`, `RanCallsStayKnown`, `NothingEverFollowsATear`, `WhatIsDurableOnlyGrows` (`JournalProofs`) | types; a call that ran is known to have run; what a crash may take of a file | finite sets of calls and their kinds, runs and crashes (`JournalAssumption`) |
| `FilesReadBack`, `OneOutcomeOfEach`, `SavedAnswersAreKept`, `NothingIsLeftOpen`, `SessionsRestComplete` (`JournalProofs`) | `ReadsBack`, `OneOutcome`, `SavedAnswersSurvive`, `AtRestNothingIsOpen`, `RestsComplete` | the same |
| `CallersAreKeptApart`, `CallsAreAnsweredAndAllowed`, `QuestionsAreSettled` (`SessionProofs`) | `AdmissionIsSafe`, `CallsAreSafe`, `QuestionsAreSafe` | set of callers; kinds of calls, their access, rules, modes, number and order; counts of questions and replies (`CallersAssumption`, `CallsAssumption`, `QuestionsAssumption`) |
| `TheFileGivesTheConversationBack` (`ConversationProofs`) | `ConversationIsSafe` | number of runs, replies, amendments, compactions and crashes, what a compaction keeps, where a request does not come with both references and a check plan (`ConversationAssumption`) |
| `SessionIsTyped` (`ConversationProofs`) | `TypeOK` of the whole session | the constants of all four parts, whatever a request comes with |
| `RepliesAreRetriedAndCounted`, `QueriesAreAnswered`, `NoConnectionIsLeftOpen`, `AccountsAreSafe` (`ProvidersProofs`) | `RepliesAreSafe`, `HandBackIsSafe`, `ConnectionsAreSafe`, `AccountIsSafe` | failures, durations and limits of a reply; number of queries, calls and messages; callers, connections, lists and restarts of a server; shells, tokens and crashes (`ReplyAssumption`, `HandBackAssumption`, `ServerAssumption`, `AccountAssumption`) |
| `FoldersAreKeptApart`, `FoldersStay`, `WorkIsKeptOrTold` (`WorkspaceProofs`) | every property `Workspace` is checked for in MCEvidence: its types, `OneSessionPerFolder`, `LeasesAreHeld`, `WorkingFoldersStay`, `WorkIsKept`, `KeptWorkIsTold` | sets of processes and sessions, openings, changes and crashes, in Git or outside; the mark of no process is neither a process nor a session (`Apart`) |

A part of `Session` or `Providers` has an inductive invariant over its own variables. A step of
the whole is a step of that part or leaves its variables alone (`CallsMove`, `QueriesMove` and
the like), which is all the composition needs.

**Run loop.** `CompletedSawEverything` alone is not inductive: the step that ends a run looks
at the queue and the jobs of now, so it must be known that whatever was accepted into this
run is still in this queue or was given to the model. `RunInv` adds which stages have an open
run (`OpenRun`), that queued messages are of the current run (`MessagesHaveTheirRun`), that a
job's call, start and end are in order of runs (`JobsHaveTheirRun`), that only stopped runs
leave calls behind and those never completed (`LeftInAStoppedRun`), that the handlers
settlement waits for are those at work (`HandlersAwaited`), that a failure is kept from where
it happens to the end of its run (`FailuresAreKept`: among the errors until a settlement takes
them, then that settlement's own, which no continuation follows; a failed reply is the outcome
of its turns, a stop or a failed loop the run's signal), and the count of continuations
(`ContinuationBudget`). Each part has a lemma with a step per action. `LoopKeepsPromise` maps
each action to a step of `RunPromise` or a stutter, with `RunInv` where the abstract guard
needs it (a run ends completed only with no message waiting). That messages enter in order
(`StepInOrder`) needs the types alone: each place that delivers takes all the steers or the whole
queue.

**Subagents.** That a working child has a working parent is not inductive: it says nothing of
a child whose run is over and which is not yet let go, while the parent's settlement waits
for exactly that. `StopInv` says it of a child until it is let go. It needs the shape of the
tree (`TreeInv`: the sessions above a child are those above its parent, and its parent), from
which `Depth`, `Children` and `Parent` are what their names say (`DepthOfChild`, `ChildrenAre`,
`ParentIs`), and that a call that waits for its model is of a session in its turns
(`CallInv`). The count is exact by `CountInv`, with the library's facts on cardinality.

**Gate.** The receipt is published from evidence found earlier, so its properties rest on that
of the evidence (`EvidenceInv`: what a check found, in this pass or kept from another, is a
failure there is and names what it read where nobody edited meanwhile), which rests on what is
known while a check runs (`CheckInv`: the content of now and that of its start are among those
there were). `ToldInv` says that what was told is what was sent back, and that a failure in a
pass that may send was sent back, which gives both that none goes back twice and that none
settles untold. `StartInv` says that the start a request keeps, over a question too, is the
content its first tool found; with it a changed folder is never found unchanged.

**Journal.** The proof has two layers, each an inductive invariant. `Inv` is what the writer
and the disk keep: the types; that a last line cut short is of a closed file or of one whose
writer takes no more (`TearInv`); that a file begins with a request, has its calls in its first
run, and has no repair that says something false (`FilesInv`), nor has what a recovery is still
to add (`TodoInv`); that a run at work follows no repair of its own calls (`WorkInv`); and that
a call that runs has its intent in the file (`CallInv`) and one that ran has it in what is
durable (`RanInv`). `RanCallsAreKnown` needs exactly the last: a call runs only behind its
synced intent, so no crash lets recovery find it unstarted.

What recovery adds depends on the whole file, so the second layer, `RestInv`, speaks of the
file at each stage of the writer: each entry is where the reader wants it, every run but the
last has ended, and no two entries clash, as two outcomes of a call or two ends of a run do
(`Shape`); what recovery is still to add clashes with nothing (`Fresh`), whatever part of it a
crash left in the file; and what is open at each stage is what the run at work will close or
recovery will (`OpenRun`, `CallsTold`, `RunsEnded`, `JobsEnded`). A file cut short keeps
`Shape`, which is the step for a power loss. `AnswersInv` says a saved answer is durable. TLC
checked both invariants before they were proved.

**Admission.** Each disposal waits for two things in turn. `DisposalInv` says what it waited
for is over by each of its awaits and that no other can have begun behind it; `ToldInv` says
only prompts that wait are told of a stop.

**Calls.** `ResultsInv` says that a call whose turn is over, because its run ended or went on
behind it, has its result unless its id repeats an earlier one's, and no other call has one;
`BegunInv`, that only a call with an id of its own was begun, and gave something once it ended;
`TurnInv`, that a call at one of its awaits is the next one of the open run, or of a run that was stopped,
so that all calls of a run that ended are done. `WordInv` says that the last permission entry of
a call on its way to run allows it, that its intent is on disk from where it opens, and that
after a refusal of the floor in its run the word was the operator's or the session's, unless the
run was stopped, in which case it will not begin.

**Questions.** `CountsInv` bounds forms by attempts and repairs by one; `ResolvedInv` says that
the model is asked again only with no question open and that a run completes with none;
`AnswersInv`, that every saved answer was told but the one on its way.

**Conversation.** `ConversationIsSafe` says that what `conversation()` rebuilds is what the model
was told. Memory and file keep different orders: the loop numbers input as it comes and restarts
the numbers with each request and each opening, the reader takes an entry's place in the file. So
`HInv` says more than that the two sides are equal (`ReadsInv`). Each ledger is in the order of its own
numbers (`SortedInv`). What is still to enter, a queued message or a saved answer, has its entry in
the file once, and that entry's place relates to every place in the file's ledger as its number
does to the loop's, and the waiting ones relate to each other alike (`WaitInv`); from this an
insertion lands at one place in both (`BothLedgers`) and leaves the rest so. An answer saved for a call without a
result is the one on its way (`FreshInv`), which is why opening the file finds one at most. Every
reply has its calls' results right behind it, one each, but for the calls to come
(`ShapeInv`), which puts a repair where the loop's result would have been (`CallMends`), and a cut,
never before a result, leaves no result without its reply; whatever entered the ledger is in the
conversation or repeated in a head (`Kept`).

The theorem assumes `~ (Referenced /\ Checked)`, because without it the statement is false: the
loop puts a request's references before its check plan in the ledger (`loop.ts:1387`) and the
file gives the check plan with the request, before them (`session.ts:420`). That is `LedgerReadsBack`
in section 3; a request with one of the two, or neither, is covered. The types need no such
hypothesis and have an invariant of their own (`HTypesInv`): of the file it says only that what
was delivered, or waits in the queue, had come (`Came`, `Queued`), so that every place the
reader looks up is there.

What a file gives is a recursive function of its entries, so facts about it need an induction.
`Induction` is over the set of numbers for which a fact holds; it follows from the library's
theorem that a well-founded relation has a least element in every set, where the library's own
induction takes an operator. With it `ReadsEquation` shows that the recursive definition has a
value, `ReadsStep` what one entry adds to it, and `ReadRequest` to `ReadCompaction` what each
kind of entry does.

**Types of a session.** The safety of `Calls` and `Questions` needs less than all of their types.
`CTypes` adds that a call gave something exactly once it ended, `seen` its modes, and `QTypes` that a form or what is
behind one is of a form that was shown and of a call in hand, that a saved answer is of a form,
and that a request has its outcome exactly once it ended.

**Reply.** `AttemptsInv` ties the attempt's number to the retries counted before its wait, so
that the evidence judged is the attempt's own and both bounds hold as an attempt begins;
`RecordsInv` says of each place of the code whether the attempt's entry is written yet, and
`GaveInv` that a message an attempt gave in time is recorded or is what the step is about to
record. An attempt that throws after the stop (`Thrown`, `loop.ts:796`) gives none: the turns are
aborted, and what it had used is neither in the file nor counted.

**Claude Code's queries.** `Good` is one query's part: its calls are those that wait and those
answered, each once; while a step streams, each call of its messages is answered, or its result
is kept or on the way; and once a step ended on calls, those not answered are exactly among the
calls it hands back. The second is `StepsAreHeard`; it is inductive only with the third, which
is what lets a step go on: `GoesOn` asks for the results of exactly those calls. `ConvsInv` adds
that the query kept is the last one and every other is closed. Each change of a query has a
lemma about `Good`, and each action one that says which query it changes.

**Connections.** `AttemptInv` says what each place of `connect()` has: the client it makes, and
none otherwise; `OpenInv`, that what is not closed belongs to the server or the attempt; and
`ListsInv`, that the answers on their way to a client whose session is known end with the list
offered last, so that once they arrived the tools are that list. It rests on the answers
arriving in order, which `Providers` fixes by `Reordered <- FALSE`; that they need not is a
disagreement of section 3.

**Account.** `OneHolder` gives mutual exclusion over the whole of a refresh or a sign-in, crash
included; `Replacing` says the server never took the version that is stored unless its
successor is on the way or lost; `Causes` says why each is at work.

**Workspace.** That two working processes have two folders follows from the leases only if each
works under one: `LeaseInv` says a process about to work, at work or about to let go holds the
checkout's lease or its own worktree's, and not both. Closing lets go of the session's file before
its worktree, so a session may have two processes; `SessionInv` says the second resumed it
(`raced`), and that a session without a header has the one process that holds its file, which
is why a new session meets no one. `ClosingInv` carries what closing found unchanged to its two
Git calls, unless work came in between (`late`). The types and histories need `RecordInv`: what
the header says at each place of a process.

Only model-checked:

- every liveness property (`StopEndsTheRun`, `TreeEnds`, `RequestsSettle`, `StopsAreObeyed`,
  `WaitsEnd`): fairness and ENABLED are outside the prover;
- `ConversationIsSafe` for a request with both references and a check plan, where it does not hold;
- that a child ends with its parent, which the code does not keep;
- everything about the gate's evidence and what outlives a session (`MCEvidence`), but for `Workspace`.

## 6. Not modelled, and why

- `RunLoop`, `Admission`, `Calls`, `Questions`, `Conversation` and `ProviderRetry` are models of
  one session from six sides and are not composed; each takes the others as steps of its
  environment. Likewise `Gate` takes from the other evidence modules an outcome and a content.
  A call left behind by a stopped run may change files while the next request settles:
  `RunLoop` and `Calls` have the call and `Gate` has the files. Such a call may also append after
  `dispose()` closed the writer: `Admission` has the close and not the call.
- Inside `Journal`: entries that only add text; a run has one reply. The kernel dropping
  pages after a failed sync is not modelled, since the first failed write closes the
  session; a failed write may have left its line torn or unterminated. A run that fails with its
  file intact and has no end there (`loop.ts:1493–1504`) is `RunLoop`'s `RunFails` and not in
  `Journal`, where only a failed write or a crash leaves a run open.
- `Gate` takes one repository with one file of code and one model; the reading of several files
  at publication is one step, so an edit between two of those reads is not seen. A check that
  throws is left out.
- `Operations`' properties are silent on what a thread starts that another's error left behind
  (`waste`). `Proofs`, `PullRequest` and `ModelCheck` leave a file that moves between two of
  their reads out of their promises, as the table above says.
- The parsing of source text, diffs, shell commands and reports; wording, layout and drawing.
  Lines, commands and reports are what the code makes of them.
- `Snapshots`: a scan reads a folder at one moment; Git's own steps each happen or fail whole.
- `proof-coverage.ts`: which single lines a proof covers. A deletion above a covered function
  counts its lines as covered (lines 46–66).
- The other tools, settings and instructions, the terminal shell and the model viewer: pure
  functions of their input, one effect each, or calls to other programs.

## 7. What is left

1. `GateLoop`: `Gate` as `RunLoop`'s verifier, with left-behind calls that edit files.
2. `Admission`'s run replaced by `RunLoop`, so that a disposal meets each stage of a run.
3. Several repositories in one pass of the gate, and a repository created during it.
4. An abstract journal that `Journal` refines.
5. Proofs for `Accounts`.
