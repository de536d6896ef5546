# code-operator in TLA+

A verification development of *code-operator*, an interactive coding agent: a
prompt passes tasks to an agent loop, which asks a language model, executes the
tool calls it answers with on a workspace of files, and gives the results back.
Paths below are those of the repository; `PROJECT.json` maps every definition
to its lines.

- [The system](#the-system)
- [Modules](#modules)
- [Runs](#runs)
- [Bounds](#bounds) and [fairness](#fairness)
- [Proofs](#proofs)
- [Disagreements found](#disagreements-found)
- [What is not modelled](#what-is-not-modelled)
- [Plan](#plan)

## The system

| component | state it keeps | operations |
|---|---|---|
| undo stack, `journal.py` | list of change records, counter of their snapshot bytes | `record`, `peek`, `discard`, `clear` |
| file tools, `tools/filesystem.py` | the workspace's files, hashes of completely read files, the undo stack | `read_file`, `write_file`, `edit_file`, `list_dir`, `undo_last_change`, `reset_read_state`, `reset` |
| command tool, `tools/command.py` | a process, its tree, a reader thread | `run_command` |
| search tool, `tools/search.py` | the paths a search has still to visit | `grep` |
| policies, `policy.py` | none | path resolution, approval of commands |
| tool registry, `tools/registry.py` | none (handlers) | validation of calls, `iter_results` |
| context manager, `context.py` | none | `prepare` |
| agent loop, `loop.py` | the conversation `_messages` | `run`, `compact`, `reset` |
| session, `session.py` | queue of undo events; owns loop, tools, client | `run`, `undo`, `compact`, `reset`, `close` |
| prompt, `__main__.py` | the session, token total, `usage_incomplete` | tasks, `/undo`, `/compact`, `/status`, `/new`, `/exit` |
| model client, `client.py` | connection pool, the attempt under way | `complete`, with retries |
| audit log and trace, `audit.py`, `trace.py` | a JSONL file, the terminal | callbacks of loop and session |
| session probe, `evals/run_session_probe.py` | a directory of reservations, results and a summary; one run's evidence | freeze, reserve, run, file, summarize |
| golden evaluation, `evals/run_golden.py` | a workspace per run, a report | preflight, runs with their gates, report |
| agent comparison, `evals/agent_comparison/` | workspaces, rows, a report per phase | adapters, grading, phases, manifests |
| reliability studies, `evals/reliability/` | none of their own | scripted cases against the loop |

How they interact.  Everything but the reader thread of a command runs in one
thread, by plain calls: prompt → session → loop → (client, context manager,
registry → tool).  Results come back as return values; the tools never raise
for an expected failure.  Three pieces of state are shared between components:
the conversation (loop, context manager, `/compact`), the read state with the
undo stack (file tools, session), and the workspace's files, which also editors
and processes left behind by commands change.

What is hard.  With so little concurrency inside, the difficulty is elsewhere:

- **Ctrl-C**.  A `KeyboardInterrupt` can be raised between any two statements.
  Some of the code catches it and repairs (`_reconcile_interrupted_undo`,
  the handlers of `loop.run`, `run_command`, `_run_interactive`), the rest
  relies on the order of its statements.
- **The workspace is not the program's own**.  Between the check of a hash
  and the replacement of the file anything may happen to it.
- **Promises across components**: the hash table authorises overwriting on the
  strength of what the conversation showed, while conversation, hash table and
  undo stack are reset, compacted, trimmed and undone by different commands.
- **Bounded everything**: two limits of the undo stack, the input budget, the
  limits on rounds, calls, failures and repetitions, each an off-by-one.
- **Processes**: a deadline, an exit, a thread and a Ctrl-C race.
- **Lost answers and lost lines**: a request may have been worked on although
  its answer is gone; the audit log swallows its own failures, and another
  program later reads a verdict from it.
- **Evidence that must not lie**: probe, golden evaluation and comparison claim
  things about the agent on the strength of files, hashes and exit codes, while
  every step of theirs may fail, and processes race for the same attempt.

What makes each component correct:

| component | correct means |
|---|---|
| undo stack | list and counter agree; both limits hold between calls; it behaves as an atomic bounded stack |
| file tools | no content is destroyed the session does not know; a new file replaces none; the undo records of a file link up and end at what it holds; an undo that says it succeeded did |
| context manager | what is sent is within budget, replayable, and has the current task with its newest results; it gives up only when nothing else is left |
| agent loop | every call has one true reply; history is replayable wherever a run ended; limits are exact; a run ends; the session is never wedged |
| session and prompt | every undo is told to the model once, in order; read state belongs to the conversation; undo records are not dropped silently |
| command tool | the result is true, the call returns, nothing runs on |
| registry and policy | a handler gets complete arguments in range, or is not called; a denied command never runs |
| model client | requests and waits are bounded whatever the provider says; a call ends |
| search tool | a search that does not say it was truncated found everything; it ends |
| audit log and adapter | the study's verdict on a run is that of the run |
| session probe | an attempt runs once; all attempts are of one protocol; the summary claims what is filed; a failure of the infrastructure is not held against the agent |
| golden evaluation | the exit status says what the runs have earned |
| comparison | a phase's report has every row, each fair |

## Modules

`A ← B`: B extends A.

    BoundedUndoStack   the promised stack, which ChangeJournal instantiates
    ChangeJournal                                           MCChangeJournal
                  ← FileTools ← FileToolsProofs             MCFileTools, MCShown
    ContextManager ← ContextTrim ← AgentLoopProofs          MCPrograms
                   ← AgentLoop   ← AgentLoopProofs          MCAgentLoop
    Session ← SessionProofs                                 MCSession
    CommandRun ← CommandRunProofs                           MCCommandRun
    ModelClient, ToolRegistry, CommandPolicy
                   ← AuditedRun ← AuditedRunProofs          MCAuditedRun
    ProbeQueue ← ProbeQueueProofs                           MCProbeQueue
    SearchTool, ProbeRun, GoldenEval, ComparisonStudy
                   ← ProgramProofs                          MCPrograms, MCSearch
    NatRecursion   induction, recursion and sums, for FileToolsProofs,
                   AgentLoopProofs and ProgramProofs

**ChangeJournal** is `journal.py` a statement at a time.  `records` is `_records`
and `snapshotBytes` is `_snapshot_bytes`; `jpc` says which statement is next and
`owed` what the counter has still to be given.  `record` is `AppendChange`,
`CountAppended`, and then `EvictOldest`/`CountEvicted` until `FinishRecord`;
`discard` is `DiscardTop`, `CountDiscarded`; `clear` is `ClearJournal`.
`EvictFromNothing` is the `IndexError` of popping an empty list, which a counter
that is too high leads to.  `TearJournal` is a Ctrl-C between two statements.

**BoundedUndoStack** is what callers may believe: push (evicting the oldest until
both limits hold), pop, empty, each one step.  `Shown` of ChangeJournal is the
refinement mapping: callers see the list without what the running call has still
to evict, and `ImplementsBoundedStack` says that every statement maps to a step of
that stack or to none, until a call is cut short.

**FileTools** adds the files (`disk`), `_complete_read_hashes` (`readHash`) and the
tool call in progress (`call`, with its own program counter).  `write_file` and
`edit_file` are check (`StartWrite`, `StartEdit`), `Create`+`FillCreated` or
`Overwrite`, `NoteHash`, `RecordChange`; `undo_last_change` is `StartUndo`,
`RestoreFile`, `RestoreReadState`, `DiscardUndone`, and after a Ctrl-C
`_reconcile_interrupted_undo` is `ReconcileRestored` or `ReconcileGivesUp`.
`OutsideChange` is anything outside the program, at any moment; `Interrupt` a
Ctrl-C; `ChangeFails` and `UndoFails` the operating system's refusals.  Two
history variables give the properties their words: `known` (what the session
read or composed) and `unlogged` (the file was changed without a record).
A content stands for its SHA-256: collisions are not modelled.

**MCShown** composes FileTools with what the conversation has shown of each file.

**ContextManager** defines, in closed form, which message lists are replayable and
what `prepare` leaves of them; **ContextTrim** is `prepare` with its parser and its
two loops, checked and proved to compute exactly that.  The loop module uses the
closed form.

**AgentLoop** is `loop.py`: `pc` is where `run` stands (`prepare`, `request`, `execute`,
`commit`, `result`, or `ready` when there is no run), `messages` is `_messages`, and
the counters bear the names of the locals, shortened.  `ExecuteCall` is one
`next()` on the registry's lazy iterator; `Commit` the `extend` of the history and
the limit counters, result by result; `Escape` a Ctrl-C that run's two handlers
do not catch.

**Session** is `session.py` under `_run_interactive`: `at` is where the prompt
stands, `pending` is `_pending_events`, `stack` the undo records.  The conversation
is reduced to whether it is empty.  Of each hash of the read state, and of each
hash that an undo record keeps from before its change, the model has whether it
is there and whether what was hashed was shown in the present conversation or in
one that has been replaced (`reads`, `before`): `RestoreFile`, an undo, puts back the
hash its change rested on, whichever conversation that was of; `NoteHash` is a read
or a write of the present one.  Compaction is two steps, `ReplaceHistory` and
`ResetReadState`, with a place for a Ctrl-C between them.

**CommandRun** is `tools/command.py`: `run_command`'s thread (`pc`), the reader thread
(`reader`), the deadline (`late`), and the command's leader process with the
processes it starts, inside its process group or apart, holding the pipes or
not, with the processes between each of them and the leader (`above`).  `platform` is
`os.name`, as the two ways of killing a tree differ.  On posix `KillGroup` kills the
group.  On nt `StartTaskkill` starts a process of its own, which looks for what is
below the leader (`TaskkillLooks`: nothing, if the leader is gone, and not what is
behind a process that ended), then kills what it found, or a part of it
(`TaskkillKills`); `TaskkillReturns` waits for it without a limit, as
`subprocess.run` does.  What can raise on the way leaves run_command: `KillRaises`,
`KillLeaderRaises`, and `StartReaderFails` for a thread that cannot be started.

**ModelClient** is `ModelClient.complete`: `post` is where it stands, `attempt` the
attempt of `_post_with_retries`.  `LoseAnswer` is a transport error after which
nobody knows whether the provider worked (`carried` counts that it did),
`RefuseRequest` an HTTP status, `Deliver` an answer and what
`parse_assistant_turn` makes of it, `WakeUp` the end of a wait.

**ToolRegistry** is `tools/registry.py` as a decision table: `Parameters` is
`_TOOL_SCHEMAS`, `ValidArguments` the check, `Refusal` the reasons in the order of
`iter_results`, `Repaired` what happens to a handler's result that is none.
**CommandPolicy** is the same for `policy.py`: `Classify` on a command's program and
words, `Approve` what is asked of whom.

**AuditedRun** composes the three with a run of the one-shot program as the
comparison measures it: the agent's rounds (`AskModel`, `HearCalls`, `CallTool`,
`CallCommand`, ..., and `OverLimit` and `LimitReached` for the calls beyond the run's
tool-call limit), the audit log written line by line (`RecordTool`, `RecordRun`;
a line may be lost, torn or hide a command's words, which `spoilt` remembers), the
process's death at any step (`Die`), the adapter's deadline (`Deadline`) and the
adapter's reading of the log (`ReadLog`).  `handed` and `tested` are history.

**SearchTool** is `grep`: `pending` is the list of paths to visit, a tree maps each
directory to the resolved entries, so that a link is an entry of what it leads to.
`LeaveRoot` is the `ValueError` of `relative_to` for a path that a link led outside
of the search root, `SkipDirectory` the `OSError` of `iterdir`, after which a directory
is passed over without a word.

**ProbeQueue** is the evidence directory of `run_session_probe.py` under several
processes: an attempt is begun by `Start`, its protocol frozen by `Validate`,
`HashFixture`, `HashPrompts`, `HashCode`, and it goes on with `CheckPrevious`, `Reserve`,
`Verify`, `ReadPrompts`, `CheckPrompts`, then again `Validate`, `HashFixture` and
`HashPrompts`, as the code does them a second time to run, with `Run` (which copies
the fixture as it then is), `LookAtResult` and `FileResult`.  The summary is
`ReadReservation`, `ReadResult`, `LookAtSummary`, `WriteSummary`.  `tree` is what the
hashes are of, and `EditTree` may change it between any two of these steps; each
look at it may also find something the code refuses (`Refuse`, `PromptsMissing`).
`moved` is the state of a directory's ctime, which the snapshots contain.  Three
history variables tell why something went as it did: `used`, what each attempt was
really run with; `slipped`, that the tree was edited between a look and the use of
what was looked at; `edited` and `cutShort`, which processes were overtaken by an
edit, and which attempts fell to that or to a crash.

**ProbeRun** is `run_probe`, one attempt: two turns, the tests after each, an undo,
a reset, the closing and the removal of the copy, the outcome and its failure code
as they are found, and the report.  `wrong` is history: what outcome each thing
that happened deserves.

**GoldenEval** is `run_golden.main`: destination, preflight tests, three runs with
their gates (`Reasons`), report and exit status.  **ComparisonStudy** is `run_phase` of
`run_study.py` with `grade_workspace`: `Evidence` is the set of things that speak
against a cell, `Precedence` the order in which `grader.py` looks at them.  How the
adapter ended is an action each: `RunAdapter` (to its end or to its time limit),
`FailAdapter` (INFRA_ERROR without a run), `KeepRuntime` (INFRA_ERROR after one, with
the participant's runtime directory left behind); the grader does not see which,
only the row's `stop` does.

**MCPrograms** runs the five programs that share no state with others, each on its
own: in a behaviour one of them runs and the rest are `off`.

The `MC` modules hold the values of constants that a `.cfg` cannot express.
Operators named `X_Y` beside an `X` are mutants: `X` as a plausible bug would have
it, used by no specification.

## Runs

| run | what it shows |
|---|---|
| `journal` | `CounterExact`: list and counter agree, statement by statement, unless a Ctrl-C tore a call. `OverrunBounded`: limits hold between calls, and a torn call costs at most one record. `CallsReturn`: eviction ends, also from a wrong counter. `ImplementsBoundedStack`: without Ctrl-C the code refines BoundedUndoStack; the refinement mapping shows callers the list without what the running call has still to evict |
| `files` | one file with every interleaving: `NoForeignLoss`, `HistoryLinksUp`, `OwnChangesNeverStale`, `UndoIsHonest`, `DiscardsWhatItUndid` |
| `shown` | `OverwritesOnlyShown`, *violated*: see below |
| `loop` | `HistoryReplayable`, `NeverWedged`, `RepliesAreHonest`, `RefusalLeavesNoTrace`, `RequestCarriesTask`, `ToolBudget`, `LoopsAreBroken` and `RunsEnd`, through several tasks of one conversation and to every limit |
| `session` | `EventsMatchUndos`, `ReadsBelongToConversation`, `LossIsAnnounced` |
| `command` | `VerdictIsHonest`, `TreeIsKilled`, `CommandReturns` |
| `command_orphan` | `TimeoutLeavesNoOrphans`, *violated*: see below |
| `round` | a whole run as a study measures it: `RetryCostBounded` (requests and half seconds slept), `CompleteReturns`, `HandlersGetWhatTheyExpect`, `VerdictIsTheRuns`, `ObservedTestsRan` |
| `attempts` | two processes at the probe's queue, with crashes and edits: `AttemptRunsOnce`, `OneProtocol`, `SummaryIsOfEvidence`, `NotUsedUpInVain` |
| `attempts_posix` | `NotUsedUpInVain` where a directory's ctime follows its entries, *violated*: see below |
| `programs` | `PreparesAsDefined`, `TrimKeepsThePoint` of prepare; `SearchIsComplete` of grep; `ReportsAreAccepted`, `VerdictIsFair` of a probe's run; `CandidateIsEarned` of the golden evaluation; `StudyReportIsTrue` of a phase; and `ProgramsEnd` |
| `search_cycle` | `SearchEnds`, *violated*: see below |

Several properties say less than one would like, because the code does less; each
excuse is in the property's comment.

- `VerdictIsHonest` does not say that a command whose output was complete before its
  deadline is never reported as timed out: it may be, when it completes between
  `wait`'s look at the event and its look at the clock (`inTime` leaves that out).
- `TreeIsKilled` excuses what a kill cannot reach (`OutOfReach`: on posix who left the
  group, on nt who is behind a process that ended), a leader that was gone before
  its tree could be killed (`headless`, the finding of `command_orphan`), and a process
  that refused to be killed or was started between taskkill's look and its kill
  (`missed`).  Where killing raises there is no result, and nothing is claimed.
- `CommandReturns` has `TaskkillEnds` as its hypothesis: run_command waits for taskkill
  without a limit, and returns if taskkill does.
- `ReadsBelongToConversation` excuses a file whose last change was undone, until it is
  read or written again: undo revives the read its change rested on (the finding of
  `shown`).  That this is the one way left, besides a Ctrl-C between the two steps of
  a compaction, is what the property says.
- `SummaryIsOfEvidence` excuses an attempt whose fixture or prompts were edited between
  the run's look at them and its use of them (`slipped`).
- `NotUsedUpInVain` excuses an attempt whose process crashed, or refused to go on after
  an edit of the tree.
- `StudyReportIsTrue` speaks of a breakdown of the grading, not of the adapter: a
  participant that never started is judged by the workspace it did not touch, and
  only the stop reason of its row tells.  It also lets a change out of scope go
  before a failed measurement, as `grader.py` looks at it first.
- `SearchIsComplete` excuses what cannot be read, and directories that cannot be listed.
- `VerdictIsTheRuns` excuses a log with a lost or torn line, and one whose
  `run_command` was called with malformed or overlong arguments: the adapter then
  calls a run that completed INVALID_OUTPUT.

`CHECK_DEADLOCK FALSE` stands where the program ends: the prompt is left (`session`),
the command is over (`command`, `command_orphan`), the run has been judged (`round`),
the attempts are used up and the summary is there (`attempts`, `attempts_posix`), the
program has ended (`programs`, `search_cycle`).  Everywhere else a deadlock would be
reported.

## Bounds

| bound | value | why it is enough |
|---|---|---|
| `MaxEntries`, `MaxSnapshotBytes` | 2–3 | the limits bind at the third or fourth record; contents of one and two bytes let one record displace one or two, and the byte limit bind before the entry limit and after it |
| `MaxTears` | 2 (0 in `shown`) | a second torn call meets the state the first left; counters off in both directions occur |
| `Paths`, `Contents` of `files` | 1 file, 3 contents | the contents: two texts and one that `read_file` does not show. Several files on one stack are left to the proofs, which are of any set of paths |
| `ShortLength`, `Segments` | 4, 4 | every list of up to four messages, well formed or not, and every history of a system message, a task and up to four blocks, against a budget of 5: turns and groups are both dropped, down to the last |
| `CallIds`, `TurnSize` | 2, 2 | duplicate ids, and an abort with calls before and after it |
| `Tasks`, `Summaries` | sizes 2, 5, 8 and 1, 8 against a budget of 7 | tasks that fit, told apart, and one that never does |
| `MaxMessages` | 7 | tasks are typed until the history is over budget, so that trimming and refusal happen with history behind them |
| `MaxRounds`, `MaxToolCalls`, `MaxFailures`, `MaxRepeats` of `loop` | 4, 4, 3, 3 | each limit can be reached before the others, in one round and across rounds |
| `Paths`, `MaxDepth`, `MaxPending` of `session` | 2, 2, 3 | a record kept through a compaction lies under a newer one, of the same file or of the other; the oldest is evicted; several events wait while tasks are refused and undone again |
| `Children` | 2 (1 for `command_orphan`) | one process inside the leader's group and one apart, holding pipes or not; one starting the other and ending before it, which is the shortest broken chain of parents |
| `MaxRetries`, `MaxWait` | 2, 5 s | the last retry and the capped wait are both reached; headers are absent, negative and beyond the cap |
| `MaxRounds`, `MaxToolCalls`, `Bodies` of `round` | 2 rounds, 2 calls; answers without calls, with one and two calls, and every way of being unusable | a call after a call, a denied command beside one that runs, tests named and not run |
| `Processes`, `Planned` of `attempts` | 2, 2 (interchangeable processes) | both race for each attempt, and the second follows a first of the same or of another protocol |
| `Fixtures`, `Prompts`, `Codes`, `MaxEdits` | 2 (1 sound), 3 (2 readable), 1, 2 | an edit, and one that takes it back, fall between any two steps, to what is refused and to what is only different; another version of the code acts as other prompts that are readable do up to the reservation, and later nobody looks at it |
| `Trees`, `MaxFiles`, `MaxResults` | 5 trees of 4 directories, one of which cannot be listed, 4, 3 | each limit is met first in some tree, with a match left over and without; links sideways, twice to one file, outside the root and outside the workspace |
| `Events1`, `Events2` | 7 and 5 lists | the ideal sequence, legal detours, a wrong order, a denied command, an extra write, nothing |
| `OfficialRuns` | 3 | as in the code: two of three must have succeeded |
| `Cells`, `MaxPhases` | 2, 2 | one task that asks for a test and one that does not; a phase is started again behind one that failed |

## Fairness

Weak fairness is assumed of the program's own steps only, and only where a
liveness property needs it: `JournalStatement` (a journal call goes on),
`RunStep` (a run goes on: this includes that the provider answers or fails, as
the client's timeouts see to, and that a tool returns, which `CommandReturns`
shows of the one that could hang), `RunCommand` and `DeadlinePasses` (run_command
goes on once approved, and time passes), `AwaitClient` (a request is answered or
lost within httpx's timeout, and a sleep ends), `SearchNext`, and in `programs` the
step of whichever program runs, each of which is one thread.  Where such a program
waits for tests or an agent, its subprocess has a time limit.  Nothing is assumed
of the user, of other processes, of the command's processes, of taskkill or of the
reader thread: they may act at any time, or never.  `CommandReturns` needs that
taskkill ends and has it as a hypothesis, not as fairness.

## Proofs

Eight modules of proofs.  Each holds for every value of the constants that fits the
assumptions below: any files, contents, limits, numbers of processes, answers,
tasks, cells, trees, events.

| theorem | states |
|---|---|
| `JournalTypeCorrect` | type correctness of the undo stack |
| `CounterIsExact`, `CounterIsExactInUse` | `CounterExact`, for the stack on its own and as the file tools use it |
| `LimitsHoldAtRest` | `LimitsAtRest`, and that the bytes of the snapshots themselves are within their limit |
| `JournalImplementsStack`, `StackIsImplementedInUse` | `ImplementsBoundedStack`: the refinement of BoundedUndoStack, step by step |
| `OverrunIsBounded`, `OverrunIsBoundedInUse` | `OverrunBounded`, for the stack on its own and as the file tools use it |
| `FileTypeCorrect` | type correctness of the file tools |
| `FileInvariantHolds` | `FileInvariant`, inductive |
| `ReadStateNeverStale` | `OwnChangesNeverStale` |
| `HistoryIsUnbroken` | `HistoryLinksUp` |
| `SuccessfulUndoIsHonest` | `UndoIsHonest` |
| `NothingForeignIsLost` | `NoForeignLoss` |
| `CreationIsExclusive` | `CreateIsExclusive` |
| `OnlyTheUndoneIsDiscarded` | `DiscardsWhatItUndid` |
| `CommandInvariantHolds` | `CommandInvariant`, inductive |
| `ResultIsTrue` | `VerdictIsHonest` |
| `TreeIsGone` | `TreeIsKilled` |
| `LoopInvariantHolds` | `LoopInv`, inductive |
| `HistoriesAreReplayable` | `HistoryReplayable` |
| `RefusalsLeaveNoTrace` | `RefusalLeavesNoTrace` |
| `RequestsCarryTheTask` | `RequestCarriesTask` |
| `ToolBudgetHolds` | `ToolBudget` |
| `RepliesAlwaysHonest` | `RepliesAreHonest` |
| `SessionsAreNeverWedged` | `NeverWedged` |
| `LoopsAlwaysBroken` | `LoopsAreBroken` |
| `PreparesAlwaysAsDefined` | `PreparesAsDefined` |
| `PointAlwaysKept` | `TrimKeepsThePoint` |
| `SessionInvariantHolds`, `SessionTyped` | `SessionInv`, inductive, and the types in it |
| `UndosAreToldInOrder` | `EventsMatchUndos` |
| `ReadsAreOfThisConversation` | `ReadsBelongToConversation` |
| `LossesAreAnnounced` | `LossIsAnnounced` |
| `RetriesAreBounded`, `RunRetriesAreBounded` | `RetryCostBounded`, of the client alone and in a run that may end at any step |
| `VerdictsAreTheRuns` | `VerdictIsTheRuns` |
| `ObservedTestsReallyRan` | `ObservedTestsRan` |
| `HandlersAreServed` | `HandlersGetWhatTheyExpect` |
| `QueueInvariantHolds` | `QueueInv`, inductive |
| `AttemptsRunOnce` | `AttemptRunsOnce` |
| `ReservationsAreOneProtocol` | `OneProtocol` |
| `SummariesAreOfEvidence` | `SummaryIsOfEvidence` |
| `NoAttemptInVain` | `NotUsedUpInVain`, if `Posix = FALSE` |
| `SearchesAreComplete` | `SearchIsComplete` |
| `VerdictsAreFair` | `VerdictIsFair` |
| `ReportsAreAlwaysAccepted` | `ReportsAreAccepted` |
| `CandidatesAreEarned` | `CandidateIsEarned` |
| `StudyReportsAreTrue` | `StudyReportIsTrue` |

Assumptions, all in the modules that declare the constants, and evaluated by TLC in
every run: `Absent`, `NotFile` and `NoHash` are no contents (`AbsentAssumption`,
`DistinctAssumption`), sizes and limits are natural numbers, limits positive as
`ChangeJournal.__init__` demands (`SizeAssumption`, `LimitAssumption`,
`TearAssumption`), `Showable` ⊆ `Text` ⊆ `Contents` (`ContentAssumption`), a platform is
one of two (`PlatformAssumption`), the budget is a natural number and the loop's
limits positive ones (`BudgetAssumption`, `LoopLimits`), `prepare` is called with
lists of messages (`InputsAssumption`), the bounds of the session
are numbers (`SessionAssumption`), retries and the longest wait are numbers
(`ClientLimits`), the calls of an answer are a list (`CallsAreLists`), versions of the
tree are told from none, of the fixtures some are sound and of the prompts some
readable (`QueueConstants`), there is an official run
(`GoldenConstants`) and a cell (`StudyConstants`), and of a search directories,
files and what is denied are different things, the directories finitely many, some of
them listable, and the limits numbers (`SearchConstants`).  Only `NoAttemptInVain` has a hypothesis of
its own, `Posix = FALSE`: with `Posix = TRUE` the run `attempts_posix` shows it false.

The arguments.

*Files.*  The properties speak of the moments between calls, and are not
inductive: in the middle of a write, the file is ahead of its hash and of the
stack.  `FileInvariant` says how far ahead, for every program counter: what the
file holds (`DiskInCall`), what its hash may still be (`HashInCall`), what its
latest record is to have left (`HistoryInCall`, through `Recorded`), that the
record being undone is still on top (`UndoneOnTop`), that hashes and records are
of known contents (`ContentsKnown`, the heart of `NoForeignLoss`), that what was
raced is unlogged (`RacesUnlogged`), and that journal code runs only inside a
call (`JournalInCall`).  Each conjunct has a lemma that every step preserves it,
with one proof step per action; the three lemmas `HistoryAppended`,
`HistoryEvicted` and `HistoryDiscarded` carry the reasoning about positions in
the stack.  `OverrunBounded` rests on `DepthBounds`, which counts the record that
the running `record()` has not evicted yet.

*The undo stack.*  `CounterExact` is inductive with the types: what each statement
does to the list and to the counter it does to their difference.  It speaks of a sum
over the list, so that it needs the lemmas below on what `Append` and `Tail` do to a
sum.  The refinement needs nothing more than it, since a `record` that is evicting
shows callers the longest suffix that fits: `EvictionIsPromised` is that this suffix
stays the same while the front is taken off, and `LimitIsReal` that the loop ends when
it is reached.
FileTools drives the same statements with the same limits, so both hold of its
behaviours by simulation (`CounterIsExactInUse`, `StackIsImplementedInUse`).

*Commands.*  `CommandInvariant` adds to the two properties of run_command what they
rest on: why the command was terminated, and that a timeout is late (`ReasonKnown`),
that whole output implies a leader that exited (`OutputKnown`), where taskkill is and
what it has found (`TaskkillKnown`: between its look and its kill, whoever runs below
the leader was found, or is behind a process that ended by itself), and that nothing
revives what was killed (`KilledForGood`): on posix only a process of the group could
start another one in it, on nt a process below a killed one cannot be started, and
one below a process out of reach is out of reach itself.

*The loop.*  `LoopInv` is `RunInv` (counters and types), `RepliesInv` (how many calls of
the round have started, been counted and been answered, for every `pc`) and
`HistoryInv` (the history is replayable at every `pc`, ends in whole groups, and its
newest user message is the task).  That a history stays replayable is shown once
for appending a user message or a group (`ExtendedReplayable`, `AppendUser`,
`AppendGroup`) and once for what trimming may cut (`CutReplayable`, `TurnKept`,
`GroupKept`, from which `PreparedKeeps`); all rest on `GroupMoves`: a group that moves
as a whole is a group.

`NeverWedged` needs no more than that the history is replayable and the estimate a
sum: with all older groups and turns gone what is left is the system message and
the task, whose size `TaskAlone` and `ShortTaskIsPreparable` compare with the
budget.  `LoopsAreBroken` speaks of windows of the list of outcomes, while the code
only counts: `CountersInv` says that each counter is the length of the longest
suffix of the outcomes that are failures, or that equal the last, and that no
window so far was full.  `WindowsEnd` turns a window into the place where it ends,
`FailuresWindow` and `RepeatsWindow` compare it with the counter there, and
`CommitCounts` takes the counters through the results of a whole round.

*Trimming.*  `TrimInv` follows `prepare` from the parser to its end.  While it parses,
the turns put together are the messages before `index`, and each of those is where a
replayable list has it (`ParseInv`): so the parser accepts what `Replayable` defines
and nothing else, which needs that the tool messages behind an assistant message are
the results of its calls exactly when a group is there (`AnswersAre`, `GroupParsed`).
While turns are dropped, what is left is the list from some user message on, and no
cut before that one fits (`TurnsInv`); while groups are, the same holds of the groups of
the current turn (`GroupsInv`).  The first cut that fits is then the one the closed
definition names.  The list is a sequence of turns, each a sequence of groups,
flattened twice: `FlattenIs` shows that `FlattenSeq` is its own recursion,
`FlattenAppend`, `FlattenFirst` and `FlattenConcat` what it does to a list that grows or
shrinks, and `RestIs` what is left of a list whose beginning is taken away.
`TrimKeepsThePoint` follows from the closed form, by `PreparedKeeps` and by
`NewestKept`: no cut is behind the newest group.

*The session.*  The events queued or taken are those undone and not told, in the
order of the undos: `Within` relates the two lists, and the lemmas `WithinTail`,
`WithinCons`, `WithinBehead`, `WithinAppend` and `WithinLonger` say what taking, giving
back, queuing and losing an event do to it.  `ReadsOwned` says of every moment what
`ReadsBelongToConversation` says of two: a hash of a replaced conversation is one that
an undo put there, or that a compaction has not yet taken away (`Excused`).  Records
may hold such hashes for ever, and the proof does not need to know of which files;
it needs that only `RestoreFile` takes a hash from a record, and that any step which
makes present reads replaced ends at a place where they are excused.

*The run.*  `ClientInv` counts requests and waits by the attempt; `RunInv` relates every
line of the log to what it was written for: a line that names pytest to a process
that ran, an incomplete line to `spoilt`, a run's line to its status.  What handlers
get follows from the table alone (`ValidIsExpected`), for any calls.

*The evaluations.*  `QueueInv` says that a process past its reservation is the only one
there with that attempt and has the metadata on disk; it does not need that
processes are fair or stay alive.  `GoldenInv` and `StudyInv` count runs and rows by the
place in the batch; `PrimaryIsFirst` and `FaultIsEvident` show of the precedence that a
category is chosen only from the evidence, and a failed measurement before what it
then showed.

`EvidenceInv` adds to `QueueInv` what a process that is summarizing has read: its tally
so far is of results on disk, which nobody replaces (`FilesStay`).  `InputsInv` follows the
fixture and the prompts from the reservation to the result: at each place of a
process that runs an attempt, what it has looked at so far is still on disk, or was
edited since, which `slipped` remembers.  `UsedUpInv` adds that without ctime changes
no process finds its directory moved by its own writing, and that a process whose
tree was not edited since it froze the protocol has one that is sound and readable
and equals what it used: so what it looks at a second time cannot fail, and `LetsGo`
is that whoever lets go of an attempt has run it, crashed, or met an edit.

*The search.*  What is behind the walk is a set of places (`Covers`): every entry of a
directory in it is in it too or still pending, and every line of a file in it is
reported.  Such a set exists at every step of the walk (`SearchInv`), whatever links
lead where; when nothing is pending it is closed under entries, and so holds all
that can be reached in any number of steps (`ReachableSeen`).

*The probe's run.*  `ProbeInv` says for every stage what the evidence must hold if the
run got there with nothing wrong (`SeenSoFar`), and that the verdict found so far is
the one that everything found so far deserves.  That each stage's checks look for
the infrastructure's failures before the agent's is `InfrastructureFirst`, from which
`Judged` follows for any list of checks; `ReportKeeps` adds what closing may find.

*Induction over data.*  The prover cannot instantiate a theorem that has an operator
as its parameter, which excludes the library's induction theorems.  NatRecursion
does without them: a property is the set of the numbers that have it (`Induction`,
from `Smallest`), a step is a function, and that a recursive function equals its
definition is shown from a function that does (`RecursionExists`, put together from
its finite beginnings).  The sums over the undo stack and over the history
are of this kind, and what can be reached in a tree.

Model-checked only is all liveness: `CallsReturn`, `RunsEnd`, `CommandReturns`,
`CompleteReturns`, `ProgramsEnd`.  Liveness under fairness and `ENABLED` are out of the
prover's reach.  Every invariant and every other action property a passing run checks
is stated by a theorem above.

## Disagreements found

- **A timeout leaves orphans** (`command_orphan`).  `_terminate_process_tree`
  (`tools/command.py:80`) returns at once when the leader has exited.  A command
  whose leader starts another process and exits keeps the pipes open, runs
  into the timeout, and that process is not killed; `DEFENSE.md:22` promises the
  opposite, and the evaluation harness has a test of this very case.
- **Undo revives a read** (`shown`).  After a complete read and a write, `/compact`
  empties the read state; `undo` puts a hash back (`filesystem.py:157`), and the
  file may be overwritten although the conversation never showed what it now
  holds.  The tool's description says that only a complete read authorises
  overwriting, and the event sent to the model says the file has to be read
  again.
- **The probe mistrusts its own writing** (`attempts_posix`).  The identity of a
  directory includes its ctime, and after the reservation was created in that
  directory the identity is compared (`run_session_probe.py:1645`, `1709`).  Where
  creating an entry changes the ctime, the check always fails, the reservation
  stays, and the attempt is used up without a run.  The comment at line 374 knows
  of the effect.
- **grep does not end** (`search_cycle`).  A link to a directory above it is followed
  again and again; files count towards `MAX_SEARCH_FILES` only once
  `file_pattern` let them through (`search.py:74`, `99`), so that a cycle without
  such a file is walked for ever, inside one tool call, where no limit of the loop
  applies.

Narrower ones, seen in the models and left to a note.

- A Ctrl-C between two particular statements: a torn `record()` leaves the byte
  counter too low, so that more than `MAX_JOURNAL_SNAPSHOT_BYTES` may be kept until
  `clear` (`CounterExact` excuses it by `tears`); completed results of a round that
  were not yet in the history are lost between the loop's handlers (`Escape`); an
  undo whose event was not queued yet goes unannounced, and a `/compact` cut between
  its two steps leaves the old read state (both excused by `cut` in Session).
- The tokens of a `/compact` whose answer had no usable summary enter no total and
  do not mark it as incomplete (`__main__.py:420`).
- `json.loads` raises ValueError for an integer of more than 4300 digits; the registry
  does not catch it, and the run ends with it (`EscapeRegistry`).
- `grep` through a link that leads outside the search root ends in a ValueError
  (`LeaveRoot`), which the registry reports as a failed tool.
- The comparison's adapter rejects the whole log of a run for one `run_command` with
  malformed arguments, also when it was refused and the run completed.
- A cell whose adapter ended with INFRA_ERROR (`run_study.py:290-301`) is graded like any
  other, by its workspace: a participant that never started is rated
  LOCALIZATION_FAILURE or INCORRECT_PATCH, and one whose runtime directory stayed
  behind SCOPE_VIOLATION, where
  `docs/superpowers/specs/2026-08-31-reliability-research-benchmark-design.md:349-357`
  wants INVALID_INFRA.  Only the row's stop reason tells (`StudyReportIsTrue`).
- run_command waits for `taskkill` without a limit (`tools/command.py:88-94`), where
  `evals/run_golden.py:231-241` gives the same call one second; a taskkill that does not
  end holds up the agent.  `taskkill /T` does not find processes behind one that ended.
- A kill that raises (PermissionError of `killpg`, OSError of starting taskkill), or a
  reader thread that cannot be started (`tools/command.py:47`), leaves run_command with
  an exception and the command's processes running (`KillRaises`, `StartReaderFails`).
- `grep` passes over a directory it cannot list without a word and does not count its
  answer as truncated (`search.py:87-88`, `SkipDirectory`).
- A fixture that is edited between its hash (`run_session_probe.py:658`) and its copy
  (`run_session_probe.py:1185`) gives a result under the hash of another (`slipped`).
- In the golden evaluation an infrastructure error of a later run loses the completed
  ones, and an OSError nobody caught leaves with the status of a failed batch.
- The probe's summary is not made again when results are filed later, and one result
  it refuses leaves no summary at all; a study's report torn in the writing blocks the
  phase from being started again.

## What is not modelled

- Text: diffs, messages, redaction, truncation of output, colours, prompts,
  configuration.  They keep no state.  Path resolution is the operating system's: a
  path is what it resolves to, and `OutsideChange`, `NotFile`, `Denied` and the
  disjuncts that refuse a call stand for its outcomes.
- `list_dir`, which changes nothing.
- Token totals, the trace's terminal output, the client's headers and connection pool.
- Path races on directories and symbolic links: the code excludes them from its
  promises (`DESIGN.md`, known limits).
- The one-shot command line's printing and the loading of AGENT.md; its run is
  AuditedRun's.
- What the probe's hashes are made of and what `validate_fixture` tests (a fixture is
  sound or not), guards against a directory of evidence that is replaced, the
  difference between the code a process has loaded and the code it hashes, and the
  offline mode; the golden evaluation's own termination of processes, which is an outcome chosen freely.
- Of the comparison: manifests, schemas, git snapshots, the validation of fixtures and
  the adapters of other agents, whose logs are in formats of other programs.
- The reliability studies (`evals/reliability`) and `scripts/`: fixed cases and one-off
  checks without state of their own.  The behaviour the studies drive is AgentLoop's.

## Plan

The order was: the undo stack and the file tools with their proofs, because
everything else rests on them; context, loop and session; commands; client,
registry, policy, search and audit log; the evaluation harnesses; the proofs of
loop, session, run and evaluations.  What would come next:

1. **Composition** of Session with AgentLoop's conversation and FileTools' read state,
   as a refinement of the Session module's abstraction.
2. **FixtureValidator** (`agent_comparison/fixture_validator.py`): which fixtures are
   refused, as a decision table, and the manifest's checks that a study goes on with
   the same inputs.
3. The golden evaluation's process termination beside CommandRun's, which differs
   from it in the very case of `command_orphan`.
4. The reliability studies as scripted environments of AgentLoop.
