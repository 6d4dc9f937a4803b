# BrowserShell: a verification development

BrowserShell (the code under `src/src/`) is a PowerShell-like shell that runs in a
browser page: a kernel that executes pipelines of commands inside a worker, a
virtual filesystem that survives the tab, and a terminal front end.  This directory
holds TLA+ modules of its parts, the TLC configurations that check them on small
instances, and TLAPS proofs of what matters most for every size.

Paths below are relative to `src/src/` unless they say otherwise.

## 1. Inventory

| part | state | operations | talks to |
|---|---|---|---|
| **Durable store** `storage/opfs-store.ts`, `opfs-wal.ts` | two checkpoint slots and a log (OPFS files held with exclusive handles); fields `#generation`, `#active`, the log's append offset and dirty flag | `recover`, `checkpoint`, `reset`, `sync`, `close`, `rollbackTo`; log `write`/`commit`/`reset` | the browser's file handles |
| **OPFS backend** `storage/opfs.ts` | the mutex chain `#queue`, quota warning edge, role (leader or follower) | every mutation, `checkpoint`, `reset`, `sync`, `quota`, mount, follower mount | memory backend, store, lock manager, broadcast channel |
| **Memory tree** `storage/memory.ts` | directories, files, used bytes | plan/validate/journal/apply for write, mkdir, rename, copy, remove, chmod, utimes; `replay` | the journal |
| **Snapshots, seed** `storage/snapshot.ts`, `seed.ts` | none | export/import of the overlay over the seed | memory tree |
| **Migration** `storage/opfs-migrate.ts` | the rollback copy | ladder up and down, interrupted migration | store |
| **Storage worker** `storage/opfs-worker.ts` | pending calls by id | request/answer over `postMessage` | backend, page |
| **Kernel** `kernel/kernel.ts` | `#submitted`, `#cancelled`, `#finished`, `#running`, terminals (`$?`, `$LASTEXITCODE`, cwd, size), event sequence | `send` (exec, stdin, signal, resize, cancel), `interrupt`, `drain` | all the tables below, listeners |
| **Process table** `kernel/process/table.ts` | process snapshots | create, transition, exit, reap | kernel (change events) |
| **Jobs** `kernel/process/jobs.ts` | job snapshots, bounded buffers | start, record, receive, finish, remove | kernel |
| **Signals** `kernel/signals.ts` | controllers by pid, groups, foreground group per terminal, last delivered signal | register, unregister, raise, raiseGroup, interrupt | kernel, commands (`AbortSignal`) |
| **Pipeline** `pipeline/pipeline.ts` | one channel per stage (queue, waiters, acks, demand) | write/close/fail/abandon/next, stage composition | commands, kernel |
| **Capabilities** `kernel/capabilities.ts` | grants, audit log | request, grant, revoke, require | commands |
| **Client, wire, transport** `kernel/client.ts`, `wire.ts`, `transport.ts`, `serve.ts` | pending requests, mirrored state | send, receive, loss of the worker | page, worker |
| **Language** `language/` | none: everything runs anew on every keystroke | lex, parse, colour, gate what may run | line editor, kernel |
| **Binding** `binding/` | none | resolve a name, choose a set, place the values | kernel |
| **Commands** `commands/` | what one invocation holds between two awaits | about ninety; those that change the tree do it in several storage calls | storage, channel, broker |
| **Paths** `storage/vfs.ts` | none | resolve, join and show a path against the prompt and the drives | every command |
| **Operators, formatting** `operators/`, `formatting/` | none | compare, convert; wrap, fit, cut | commands |
| **Encodings** `pipeline/encoding.ts` | none | encode with a preamble, sniff, decode | file commands |
| **Providers** `providers/` | Env:, Variable:, Function:, Alias:, each a store of named values | get, set, rename, copy, remove | commands |
| **Line editor** `line-editor/` | line and caret, undo and kill ring, menu, search, place in the history | keys | input, language |
| **Input** `input/` | the hidden textarea, the composition | key, input and composition events | line editor, browser |
| **Renderer** `renderer/` | parser state, the grid of cells, the page's rows, what is dirty | write a chunk, clear | terminal page |

How they interact: the page sends requests to the kernel, which resolves and binds a
line, makes one process per stage and runs the stages as coupled async generators.
Every change is an event delivered *synchronously* to listeners, and a listener may
call `send` again.  Commands reach the filesystem through the storage backend, which
appends each validated plan to the log before it is applied to the tree, and folds
the log into a checkpoint slot when it has grown.  One tab (the leader) holds the
files; another may follow read-only.

The hard parts:

* **Crash at any disk call**, with any unflushed write kept, dropped or torn; a
  crash during the recovery of a crash.
* **A disk call that fails** (quota, device) half way through a mutation, a
  checkpoint, a boot or a wipe, with the session carrying on afterwards.
* **Two tabs**: an unlocked reader against a writer that checkpoints under it.
* **Re-entrancy**: a request issued from a listener in the middle of `exec`,
  `teardown` or signal delivery.
* **Races between a stop and a return**: kill, cancel or Ctrl+C against a command
  that returns by itself, or that has not been entered.
* **Backpressure**: a producer that must park, and must never park for ever.

What makes each correct is stated as properties below for the modelled parts, and
planned in section 2 for the others.  `PROJECT.json` lists every component, and
every hazard at its line.

## 2. Plan

In this order.

| module | what | state |
|---|---|---|
| `DurableStore` | slots, log, backend: crash, faults, boot, wipe | done |
| `StoreContract`, `MCDurableStore` | what the filesystem promises the shell; `DurableStore` refines it | done |
| `DurableStoreProofs` | TLAPS: whatever fails: types, nothing unapplied, wipe is final, checkpoint survives, no tie; without disk errors: what a crash costs, what replay takes, the log's limit, invisible checkpoints, and that each step implements `StoreContract` | done |
| `FollowerView` | composes `DurableStore` with an unlocked reader | done |
| `FollowerViewProofs` | TLAPS: `ShowsARealTree`, `QuietReadIsCurrent` | done |
| `KernelProcesses` | kernel, process table, signals, jobs, pipeline ends | done |
| `KernelProcessesProofs` | TLAPS: all of its safety properties | done |
| `ObjectChannel`, `PipelineStages` | backpressure: how far a producer runs ahead, no lost value, nobody parked for ever; a chain of stages with break, throw, cancel and drain | done |
| `PipelineStagesProofs` | TLAPS: types, `NeverAhead`, `NothingLost`, `CutIsNotAnEnd`, `StoppedAsksNoMore`, `NoLeak`, `PushBased` | done |
| `StoreMigration` | rollback copy, interrupted migration, two builds on one store, `rollbackTo` | done |
| `StoreElection` | leader lock, three exclusive handles, tabs with and without locks, take-over | done |
| `StorageWorker` | the page's calls, the backend's queue, a sync and reads that do not queue, the worker's death | done |
| `TreeOps`, `MemoryTree` | plan, validate, journal, apply, commit of each operation on a small tree with owners and modes | done |
| `SeedOverlay` | export then import over a changed seed, tombstones | done |
| `JobBuffers`, `Capabilities`, `SessionState` | bounded buffers; grants and the audit log; the drives that are not files | done |
| `KernelTransport`, `WireCopy` | client and worker across a channel that loses or repeats; the copy a value is sent as | done |
| `LineEditor`, `TextareaInput` | keys, menu, search, history; input methods of three kinds | done |
| `AnsiStream`, `TerminalScreen`, `TextLayout` | a stream of escapes cut anywhere; grid and page; wrapping and columns | done |
| `Lexer`, `Completion`, `Parser`, `ParameterBinding` | the three modes of the lexer; the word at the caret; from tokens to statements, colours and what the kernel will run; from arguments to parameters | done |
| `VirtualPaths`, `FileCommands`, `SelectObject`, `ObjectCommands`, `ChildItems`, `ReadCommands`, `Encodings` | what a path names; the commands that change the tree, two at a time; windows on a stream; filter, sort, group and measure; wildcard paths and the walk of Get-ChildItem; lines and matches of a file; text files | done |
| operators, other commands, registry of providers | sequential functions of text and values | next |
| `StoreMigrationProofs` | TLAPS: `MigrationSafe`, `DowngradeOnlyByName`; of the election `ElectionSafe`, of the storage worker `WorkerSound` | done |
| `MemoryTreeProofs` | TLAPS: `TreeSound`, `TreeSteps` | done |
| `SessionProofs` | TLAPS: `JobsSound`, `EndsOnce`, `SessionSound`, `CapabilitiesSound`, of the stream of escapes `StreamSound`, of the terminal's page `ScreenSound`, and of the prompt `InputSound`, `InputSteps` | done |
| `KernelTransportProofs` | TLAPS: `TransportSound`, and of the copy a value is sent as `WireSound` | done |

A part that is small on its own shares the one configuration `MCParts_each`
(section 7).  What a change of the code could break in each is listed there too.

## 3. The durable store: `DurableStore.tla`

**State.** A mutation is a number.  The code plans, logs and applies mutations one
at a time inside one promise-chain mutex (`OpfsStorage.#serialise`), so a tree, and
the payload of a checkpoint, is the *set* of mutations it contains.  `slot`/`wal`
are the files as a reader sees them; `slotD`/`walD` are what the last flush put
down.  A slot is a generation and a tree, generation 0 meaning "does not decode"; a
log is a generation and its records, generation -1 meaning "no readable header".
`generation`, `active`, `logLen`, `dirty` are the fields of the same name
(`logLen` is the append offset in records).  `pc` is the worker's next disk call and
`ret` what the running checkpoint or log reset is part of: `boot` (recover's reset),
`mount` (mount's checkpoint), `op` (a mutation's), `ctl` (asked for), `wipe`.
`acked`, `applied` and `gone` are history: what the user was told is stored, what
ever reached the tree, what a completed Reset-FileSystem destroyed.

**Actions.** One per disk call, so that a crash or a failure can fall between any
two: `Recover` (which also stands for the replay into the tree: no disk call lies
between), `LogTruncate`, `LogHeader`, `LogFlush*` (`OpfsJournal.reset`),
`CheckpointSync`, `SlotTruncate`, `SlotWrite`, `SlotFlush` (`OpfsStore.checkpoint`),
`PlanAppend`, `PlanFlush`, `Apply`, `Commit` (`MemoryStorage.#commit` under
`OpfsStorage.#durable`), `Wipe` (`OpfsStore.reset`), `BeginCheckpoint`, `Sync`,
`Close`.  Each mutation may *need* an earlier one (a write into a directory that was
just made): replay stops at the first plan whose need is missing, as
`mountOpfsStorage` does.  `Fail` is any disk call returning an error: during boot
the store is closed again, otherwise the caller gets the error and the fields stay
as they are, as in the code.  A log truncated by a failed reset leaves the append
offset past the end, and what is then written is behind a hole
(`AppendRecord`).

**What a crash leaves.** External to the code, and modelled as the file system may
behave: a slot with unflushed bytes is old, new or torn; the log survives as a
prefix no shorter than what was flushed, and after an unflushed reset it may be the
old log, none, or the new one.  A torn record ends the parse (its checksum), so it
is the shorter prefix.  What a death leaves is settled: the next boot finds it flushed.
A tab that dies alone may instead leave its unflushed bytes to the operating system, and
`FollowerView` has that death.  There TLC finds one more way into the window of finding 1
of section 8: the tab dies with a slot written and unflushed, the next boot runs on that
slot and resets the log, and the machine crashes before mount's checkpoint; the slot is
gone with the log.

**Left out.** Migration (`StoreMigration` has it; here the store has the current
version), the readme file, quota reports, timestamps, the
bytes of records.  `decodePlan`'s refusals are left out: a record that passes its
checksum decodes.

### What is checked

`MCDurableStore_healthy` (no disk error, two crashes, one reset, four mutations, a
log of three mutations between checkpoints, five generations; 245k states):

* `LosesAtMostTail`: a crash costs at most the last mutation and only while its
  commit marker is unflushed.  Stated over every outcome of a crash in every state.
* `ReplayNeverStops`: recovery never meets a plan its tree cannot take, so
  `MountReport.failures` stays empty.
* `LogBounded`: between requests the log is empty or below `checkpointBytes`.  (Empty
  when the limit is 0, which `checkpointDue` allows: it makes every mutation due, and
  no run has such a limit.  The proof asked for the case.)
* `CheckpointInvisible` (action property): no single step of a checkpoint changes
  what a recovery would show.
* `ImplementsContract`: `DurableStore` refines `StoreContract` under
  `stored <- acked` and the phase computed from `pc`, `ret` and `generation`.

`DurableStore_faulty` (a disk error, a crash and a reset in any order): `TypeOK`;
`NothingUnapplied`, no outcome of a crash recovers a mutation that did not reach the
tree; `WipeIsFinal`; `CheckpointSurvives`, also after failed checkpoints, and through
a boot that meets no disk error; `NoTie`, two slots never have the same generation;
and `WorkerReturns`, under weak fairness of the worker: every boot and request ends.

`DurableStore_boot` and `DurableStore_reset` show two disagreements between comments
and code, see section 8.

**Bounds.** Three mutations fill the log in the healthy run (`LogLimit = 6`: a plan
and a commit each) and two in the others (`LogLimit = 4`), so
four mutations meet a checkpoint caused by a mutation, one asked for, and one with
an empty log, in every order; five generations use each slot at least twice, which
is where a slot is overwritten; two crashes allow a crash during the recovery of a
crash.  One fault is enough for every error path, followed by the rest of the
session, a crash and a boot.

## 4. The follower: `FollowerView.tla`

`FollowerView` extends `DurableStore` with a second tab that reads slot A, slot B and
the log through `getFile()`, one await after the other, while the leader works, is
closed (`LeaderTabDies`: the files stay as written, flushed or not) and boots again.
When the browser or the machine dies the follower dies too (`BothDie`), and reads anew
after the next boot.
It is one of the parts of `MCParts_each`, which checks `ShowsARealTree` (the view is a
tree the leader really had, never one checkpoint with the log of another) and
`QuietReadIsCurrent` (while the leader only logs mutations, the view is current) on
two mutations, three generations and one crash, without disk errors and without a
reset; section 9 proves both for any number of them.  Two mutations and three
generations let the leader overwrite the slot the follower has read first, and start a
log of a generation it has not seen.  `FollowerView_stale` (three mutations, no crash) shows
that the general claim does not hold (section 8).

## 5. The kernel: `KernelProcesses.tla`

**State.** The process table (`state`, `code`), the kernel's sets (`finished`,
`cancelled`), the signal controller (`registered`, `delivered`, `fg`, and `aborted`
for the abort signals), the jobs, per request the pipeline (`drive`, `invoked`,
`outcome`), per terminal the request its `$?` is from.  A request is its process
group, and stage `i` of request `r` is the process `<<r, i>>`: pids count up and are
never reused, so this only renames them.

**Run to completion and re-entrancy.** The kernel is synchronous between awaits and
tells listeners about every change *before* it goes on.  The rest of the running
call is the sequence `todo`, one step per change a listener is told of.  `Request`
is enabled at every boundary, so a listener may submit, cancel or signal in the
middle of any call, and its steps are put in front, as a nested call's are.  A few
boundaries carry no event in the code; nothing is reachable there that is not
reachable at the event before or after.  `Prepare` is one step from the foreground
change to the first "running" event, because no event lies between: the registering
of abort controllers and the one check for a remembered cancellation are atomic.
`KernelConstants` assumes that there is a terminal: every request names one, and
`Init` gives one to each request that is not made yet.

**The pipeline.** `Start` enters the *last* command, because the first pull does;
an earlier one is entered when the next one pulls its input (`Enter`), which a
stopped stage no longer does.  `Settle` is a command returning or throwing, with
`guard`'s rule: one that was signalled reports the last signal it got.  `DriveEnds`
is the output ending once each entered command has returned; `Teardown` then lists
the steps of `#teardown`.  The channel between two stages is `PipelineStages`.

**Left out.** stdin and resize, sequence numbers and the outbox, reaping (nothing
calls it), job buffers, capability checks, the text of errors.  The three answers of
parser, resolver and binder are an input: refused, unknown (which also stands for a
binding failure: the same steps), or ok.

### What is checked

`KernelProcesses_pair` (two requests of up to two stages, foreground or background,
one signal or cancel at any point; 970k states):

* `OneExit`: one exit event per process, never two, and none missing at the end.
* `StatusBeforeExit`: `$?` is written before any exit of a foreground pipeline that
  ran is published (a kill, which ends one process early, excepted).
* `CtrlCReachesLatest`: Ctrl+C reaches the last foreground pipeline as long as any
  of its stages can be signalled, whatever an older one's teardown does.
* `JobTellsTheTruth`: a job is Running exactly while its pipeline is and none of its
  stages was stopped.

`KernelProcesses_signals` (one request, three signals, cancels or Ctrl+Cs; 821k
states): `TypeOK`; `EarlyCancelNeverRuns`; `KillIsNotIgnored`; `FirstExitWins`
(action property); `EveryExecExits` (liveness).

**Fairness.** `KernelStep` is weakly fair: JavaScript runs a call to its end.
`Enter`, `Settle` and `DriveEnds` are weakly fair: the event loop gets to every
promise, and *a command returns in the end*.  The last is an assumption about the
commands: `runCommand` awaits a command after it has abandoned its channel, so one
that ignores its signal keeps the pipeline, and the terminal's foreground, for ever.

**Bounds.** Two stages are enough for "first, last, and one that is never entered";
two requests for one pipeline's end against another's start on the same terminal;
three signals for kill, cancel and Ctrl+C to meet in any order.

## 6. The pipeline: `ObjectChannel.tla`, `PipelineStages.tla`

**State.** A channel is a record of the fields of `ObjectChannel`, with counts for
the buffered values, and with what the pending `next()` has come to (`reader`) and
whether a parked write has been woken (`woken`): one reader and one writer, as
`runCommand` builds them.  `ObjectChannel.tla` has one operator per method.  Stage
`i` is three parties: `cmd[i]` the command, `gen[i]` the generator of `runCommand`
that reads the channel for the next stage, and `guard[i]` the `guardedInput` that
asks `gen[i - 1]`.  `gen[0]` is `noInput`; `guard[N + 1]` is the loop of
`runPipelineStages` together with whoever iterates it.  `sig` are the stages whose
`AbortSignal` fired, `stop` those whose `stageStop` did.

**Actions.** One per turn between two awaits.  A command does what it likes: it asks
its input (`Read`), writes (`Write`, parked until `Wake`), leaves its loop (`Break`),
throws or returns (`Throw`, `Return`), and drains what it did not read (`Drain`).  A
generator that is asked for the first time enters its command; up to its first await
the command may read, which may enter the one before it, and write; then the
generator asks its channel (`Enter`, `FirstAsk`).  `Receive`, `ReaderEnds`, `GenDone`
are the generator's turns, `Leave` is the `return()` of whoever read it, `LoopEnds`
the end of the guard and what it means to the command.  `Closing` is one step:
`abandon` releases a parked write, and `abort` runs a microtask later, before the
command the release resumes.  `Signal` may fall into any turn, a listener's included.

**Left out.** What the values are (their order is the order of a single reader and
writer), exit codes, streams other than success, `transformStage` and the sources
`fromValue`, `fromValues`, and a command that iterates its input by hand or does not
await its writes: no command of the repository does.  The kernel's `#guard` turns a
throw into a return; the model has both.

### What is checked

`PipelineStages_three` (three commands of up to two values each, a signal to each at
any point, a consumer that may leave; 1.7M states):

* `NeverAhead`: a command has written no more than its reader holds, and nothing
  more once the reader has gone: the measured 1,2,3 and not 1,2,3,4.
* `NothingLost`: a reader told of the end or of a failure has had every value written.
* `NoLeak`: when a stage is over no command at or above it runs.
* `PushBased`: the upstream of a command that returned has run, read or not, unless
  that command was stopped.
* `CutIsNotAnEnd`: a stage signalled before its command settled does not look complete.
* `StoppedAsksNoMore` (action property): a stopped stage makes no further pull.
* `Terminates`: nobody stays parked, whatever order all of this comes in.

**Fairness.** `Step` is weakly fair, as a whole: the event loop runs what can run, a
command goes on when what it awaits has come, and the consumer asks again or leaves.
That commands end is the bound `MaxValues`, and an assumption as in section 5.

**Bounds.** Three stages are the first with a stage that has both neighbours, so that
a stop travels up while an end travels down; two values are the first with a write
that is acknowledged by a later ask.  `Slack` is 0, as everywhere in the code.

## 7. The other parts: `MCParts.tla`

Twenty-four small instances share one configuration.  `which` is the part whose
behaviour it is: `Init` gives every other part one fixed initial state (`Here`) and
`Next` leaves it alone, so the state graph is the disjoint union of the parts' own
graphs (889k states) and nothing is multiplied.  Each part is an `INSTANCE` of its
module with the instance's constants.  A property of the run is the conjunction of
what one group of parts promises; the part modules state each promise separately and
below each is named with its part.  The fairness is the parts' own, restricted to the
behaviours of the part.

| property of the run | parts |
|---|---|
| `StoreSound` | `StoreMigration`, `StoreElection` |
| `ShowsARealTree`, `QuietReadIsCurrent` | `FollowerView` (section 4) |
| `TreeSound` | `MemoryTree`, `SeedOverlay` |
| `CommandSound` | `Lexer`, `Completion` and `Parser`, `ParameterBinding`, `VirtualPaths`, `FileCommands`, `SelectObject`, `ObjectCommands`, `ChildItems`, `ReadCommands` |
| `CallsSound` | `StorageWorker`, `KernelTransport` |
| `ScreenSound` | `TextareaInput` with `LineEditor`, `TextLayout`, `TerminalScreen` |
| `SessionSound` | `JobBuffers`, `SessionState`, `Capabilities` |
| `BytesSound` | `WireCopy`, `Encodings`, `AnsiStream` |
| `PartSteps` | action properties of seven of them |
| `Progress` | liveness of five of them |

**Fairness.** A disk call, a lock request and a message in a channel are answered
(`Migration!Goes` as a whole: boots are tried again with the newest build; `Election!MountStep`
per tab; `Worker!Works` and `Settle`; `Transport!Moves`), the commands of a request
end (`Transport!Finishes`), and the walk of `WireCopy` is a loop of one call.  No
fairness is given to users, faults, crashes or tabs that close.

### The store

`StoreMigration`: the slots and `rollback.bin` as read and as flushed, the version a
checkpoint is labelled with and the one its bytes are really in.  A step is a disk
call of `recover`, `#migrate`, `checkpoint` and `rollbackTo`; a tab dies between any
two, a step of the ladder fails, and builds of two versions open the same store.
`CheckpointOutlivesMigration`, `NeverMigratedTwice`, `InterruptedMigrationIsUndone`;
`DowngradeOnlyByName`: an older build never rewrites a newer store; `Mounted`: neither
a torn copy nor an interrupted migration wedges it.  The log is one step here;
`DurableStore` has it.  Bounds: two mutations, four generations, three deaths or
failures, so that a migration is interrupted, its recovery is, and a third boot ends it.

`StoreElection`: where each tab's mount stands, the leader lock and the three exclusive
handles.  `OneOwner`; `NothingStranded`: a tab that was refused has given all back;
`SomebodyLeads`: tabs that open together do not refuse each other all round;
`ReloadTakesOver`; `Decided`.  Three tabs, one of them without the lock manager, one
device fault, two departures.

`StorageWorker`: the page's calls by id, both directions of the channel, the backend's
queue, and the tree as two halves that a mutation changes in one turn and a checkpoint
exports with an await between.  `ReadsAreNotStale`, `CallsTakeEffectInOrder`,
`CheckpointIsATree`, and `AllAnswered` unless the worker dies: there is no timeout.

`MemoryTree` over `TreeOps`: plan, journal, apply, commit under the one mutex, on paths
of up to three names with owners and modes; a journal append or a commit record may
fail.  `TreeIsWhole` (the running byte count is what a walk counts), `WithinCapacity`,
`PlansAlwaysApply`, `ReplayRebuilds`; as steps, `ReadOnlyDirectoryKeepsItsEntries`,
`UnreadableStaysUnread`, `CopyIsFaithful`.

`SeedOverlay`: operations of `TreeOps`, then a reload through `createSnapshot` and
`applyOverlay` over the same or the next release of the seed.  `ReloadIsStable`,
as steps
`WhatTheUserMadeSurvives` (a reload of the same release) and `SeedUpdateReaches` (the
next release is there wherever the user has not replaced it).  `MCOverlay`
checks `MoveSticks` and finds it violated (section 8).

### Commands

`Lexer` is the whole of `language/lexer.ts`: three modes, thirty-odd kinds of token,
here-strings, redirections, `--%`.  `EveryCharacterOnce`; `LinesStandAlone`: what is
before and behind a newline is lexed as if it were alone; `IncompleteCanBeCured`;
`QuotedTextIsKept`; as a step `OnlyTheEndChanges`, with its two exceptions named.
`Completion` adds the projection of `tokenize.ts`, the context of the caret and the
quoting of a candidate: `QuotedIsOneArgument`, `CompletionKeepsTheRest`,
`CommandIsTheOneBefore`; `MCCompletion` finds `OnlyWhatPrecedes` violated.  Every line of
up to four characters from six alphabets, chosen so that characters that mean
something to one another meet.

`Parser` reads the lexer's tokens as `language/parse.ts` does, with the three places that
use what it reads: the gates of `parseForExecution` and `#exec`, the arguments of
`from-ast.ts`, the colours of `highlight.ts`.  `NothingUnread`: every token belongs to one
piece of the tree or is named in a refusal.  `LinesRunAlone`: a line that may run, after
another that may run, means what it means alone.  `ColoursTellTheTruth`: what is coloured
as a command is what the kernel would run.  `SaidAgain`: the written form of an argument
parses to that argument.  `QuotedIsAValue`: what the editor quotes binds as one value.
Which message a refusal carries is left out; that there is one is not.

`ParameterBinding` is `bind` phase by phase: named parameters, sets, positions,
mandatory ones.  `EachTokenOnce`, `FitsItsSet`, `NamedAnywhere`,
`ValuesContradictNothing`, `MoreIsTheSame`, `IntentKept`, on two commands that between
them have sets, aliases, a switch that is not honoured, a parameter that gathers and a
name that begins another, and all that may be written in four arguments.

`VirtualPaths`: every written path of one or two names, said from every place two names
deep, on the filesystem and a drive.  `UnderARoot`, `FullNamesThePlace`, `InPieces`.

`FileCommands`: Copy-Item, Move-Item, Rename-Item, Remove-Item, Reset-FileSystem,
New-Item, Set-Content, Add-Content, Set-Location and their short forms, one storage
call a step, a foreground and a background pipeline on one tree, either stopped at any
await.  `StoppedWalkLeavesAbove`, `MarkStaysFirst`, `CopyIsWhole`, `SweepIsWhole`; as
steps `TakesWhatItSaw`, `MoveLosesNothing`, `PromptStands`, `SweepSparesTheSeed`.

`SelectObject`: windows on a stream of three objects, with the reader leaving or Ctrl+C
at any await.  `RightWindow` (also when the upstream was stopped: nothing it could have
sent would have changed the answer), `NothingHeldBack`, `StopsTheUpstream`,
`HoldsNoMore`.  The meaning of the window is a separate definition over the whole input.

`ObjectCommands`: Where-, Sort-, Group- and Measure-Object on streams of up to three
values, with the comparisons of `pipeline/psobject.ts` they rest on, in twenty-one calls;
the values are null, numbers, the NaN, texts that differ in case, a text that spells a
number, a list, and objects with one property, the other, both, or one that is null.
`SortIsAnOrder` (against places given to the values without comparing two of them; what
lacks the property last in either direction, what is alike as it came),
`GroupsAreAPartition`, `MeasureIsOfAll`, and `WhereKeepsWhatItsTestKeeps`, with the six
comparisons of a pair in agreement.  A stream of numbers mixed with texts has no order to
be sorted by (section 8); for it the first says only that nothing is lost or added.

`ChildItems`: what a path with wildcards names and the walk of Get-ChildItem, eleven
calls on a tree of ten nodes, one of them a directory nobody may read and one with a
name that is a pattern, while somebody else makes or removes one node, the reader
leaves, or Ctrl+C comes.  `WhatStoodIsListed` (against a definition over the whole tree
at once), `NothingTwice`, `BlocksAreWhole`, `SiblingsInOrder`.

`ReadCommands`: Get-Content and Select-String in eighteen calls on three files, a directory
and a file nobody may read, with the three ends of a line, an empty line, a last line
without an end and an empty file, while somebody else changes one file, the reader leaves,
or Ctrl+C comes.  `ContentIsTheFiles` and `MatchesAreTheLines` (the lines by counting the
ends before each character, windows and batches by the place of each line),
`QuietIsTrue`, `NoFileHidesAnother`.

### The kernel's neighbours

`KernelTransport`: client, two channels, the worker's wiring; the kernel is its
transcript, in the order `KernelProcesses` has reasons for.  A post may fail, an event
may be repeated.  `OutcomeIsWhole`: what `run()` settles with is what the kernel
published; `NothingTwice`, `NoDeadPids`; `AllSettled` unless an event was lost.

`JobBuffers` with buffers of one: `NothingUnaccounted`, `MoreDataIsTrue`, `PidsAgree`,
and `EndsOnce` as a step.  `Capabilities`: `OnTheRecord`, also when a listener of a
record makes a command ask again; `ElevationOpensNothing`.  `SessionState`: names in any
case, copies that await between look and write, two at a time: `OneNameEach`, `OnlyAccepted`.

`WireCopy`, every graph of an object, a bag and an array: `ArrivesWhole` (sharing and
cycles included), `RefusedForAReason`, `Ended`.

### Text and screen

`Encodings`: the Unicode encodings with and without a mark and the single-byte ones, texts that begin like a mark or hold half a pair:
`ReadsBack`, `MarkDecides`, `NeverHalfAPair`.  `AnsiStream`, five characters of a class
each, cut anywhere: `SplitIsInvisible`, `ControlsPassThrough`, `CancelStartsAfresh`.
`TerminalScreen`: rows of narrow and wide characters and the page's mirror of them:
`NoHalfCharacters`, `RunsCoverTheRow`, `PageShowsTheRows`.  `TextLayout`: every text of
five clusters on every width: `NothingLostInWrapping`, `WordsThatFitAreWhole`,
`CellsFit`, `TablesFit`.

`LineEditor` has every action of the key map; `TextareaInput` puts the hidden field and
three kinds of input method before it.  `MenuShowsTheLine`, `DraftWaits`, `Mirror`; as
steps `KeysAreTheMethods`, `CommitsOnce`.

### What these properties notice

Each part module holds, beside a definition, a *slip*: the definition as a plausible
mistake would have it.  `PROJECT.json` lists one slip for each property of the run; the
others were put in place of their definition the same way and were found too:

| property | slips found |
|---|---|
| `StoreSound` | `MigratedUnlabelled`, `OtherKept`, `OpenFileShared`, `OpenFileAnyOrder`, `OpenFailsKeeping`, `ReleaseForgotten` |
| `TreeSound` | `CopyAllowedSource` |
| `CommandSound` | `WrittenEncoded`, `FateSkips`, `ResolveByPrefix`, `OpenInAny`, `LooseAtOnce`, `StopsAnyway`, `CountsNull`, `WalkedOut`, `ResolveOnFiles`, `ReadQuotedOnce`, `LineCommentWhole`, `FootersAnywhere`, `VerbatimStopsAt`, `QuoteIfNeededDoubled`, `TargetsWithin`, `StatedInSilence`, `CommandEndsAtSigns`, `ResetsOfLine`, `ArgumentOfText`, `VisibleToo`, `ShownToAll`, `RowsBelowFirst`, `ForSortingAsText`, `OrderedLoosely`, `NumberedNull`, `MissingTurned`, `UniqueByValue`, `TwoEnds`, `TailTooLong`, `RowsOfEach`, `EndsThere` |
| `CallsSound` | `ReceiveInTurn`, `ReceiveRepeats` |
| `ScreenSound` | `Unsynced`, `EditedUnderMenu`, `CompleteInPlace`, `CutBare`, `BreakAtEdge`, `CutCellBesides`, `HandOutAll` |
| `SessionSound` | `RecordUncounted`, `StoreAsSpelt`, `RenameKeeping`, `ShouldAuditUses` |
| `BytesSound` | `EnterAgain`, `SniffShortFirst`, `UnitChecked`, `ControlEnds`, `AbortsOutside` |
| `PartSteps` | `PlanRemoveShallow`, `StampedTopDown`, `GuardsFlagged`, `SkipsFlagged`, `LeavesItself`, `TakenWhole` |
| `Progress` | `TornIsFatal`, `ElectWaits`, `RouteRejectedLate` |

Where a property needs a large value several times it binds it with a quantifier over
the set of that one value, so that TLC computes it once.

## 8. Where comments and code disagree

1. `DurableStore_boot` / `BootRepeatable`. `storage/opfs.ts:831` says a tab that dies
   before mount's checkpoint leaves the store as it found it.  `recover` resets the
   log (`opfs-store.ts:481`) before that checkpoint: a second death in between loses
   every mutation that was only in the log.
2. `DurableStore_reset` / `ReportedIsStored`. The header of `opfs-wal.ts` says the
   store holds what was reported.  After Reset-FileSystem there is no slot, and
   `recover` resets a log without a winning slot unread: mutations reported between a
   reset and the next checkpoint are lost when the tab closes.
3. `FollowerView_stale` / `FollowerIsCurrent`. `opfs.ts:953` says a follower's view is
   as of the leader's last committed operation.  With a checkpoint between its reads
   it pairs the old slot with the new log, calls it stale, and shows an older tree.
4. `KernelProcesses_status` / `StatusAlwaysFirst`. The comment of `#teardown` says
   status first, then exits.  An unknown command or a binding failure publishes its
   exit first, and a listener of it reads the status of the command before.

5. `SeedOverlay_moved` / `MoveSticks`. `memory.ts:1472` says a move is a user action
   whatever it moves.  Only the named node becomes the user's: remove `/a`, move `/b` to
   `/a`, reload, and `/a/a` has the seed's content again.
6. `Completion_before` / `OnlyWhatPrecedes`. `completion.ts:204` says it looks at what
   precedes the caret; with the caret in no word it looks at the whole stage.

The rest were met while modelling and have no run.  Where the model keeps what the
code does, a property names the exception.

* *Kernel.* A cancellation remembered for a request that is refused, unknown or does not
  bind is never dropped (`kernel.ts:886` says only never-submitted ids persist).  A
  cancel sent from a listener of the first "running" event still lets the last command be
  entered.  `#unstarted` is reached without a kill (`kernel.ts:1427` says only a kill gets
  there).  `client.ts:187` keeps request ids for ever.  A listener of a job that receives
  from inside the announcement leaves `hasMoreData` set (`jobs.ts:252`).
* *Store.* A rename does not bound the paths below what it moves (`memory.ts:1473`; a copy
  does, 1543).  After a failed commit record later plans still commit.  A migrated store
  drops its log (`opfs-store.ts:506`) though the comment of 468 keeps it.
* *Commands.* A removal cancelled on entering a directory has not removed what is below
  the item it reports (`fs-manage/support.ts:353`).  `rm` and a `cd` under way may leave
  the prompt in a directory that is gone.  Two Add-Content to a new file may write two
  marks.  A copy between drives may find its source gone and report success
  (`session-state.ts:684`).
* *Editor.* A commit of an input method during a reverse search is lost
  (`editor.ts:231`); leaving a menu opened on a recalled line loses the draft; Ctrl+K at
  the end of a line empties the kill ring; `cancelComposition` does not sync the field
  (`textarea.ts:370`).
* *Language.* `1-5` is one word, `1+5` three tokens.  `"$x"` passes the gate and binds the
  two characters, though `parse.ts:835` speaks of what would be approximate.  After `f &`
  the parser starts a statement and the highlighter does not (the kernel refuses both).  An unclosed `${name` loses its last
  letter and is not reported as incomplete.  `quoteIfNeeded` leaves a name that begins with
  `#`, `@`, `-` or `]` bare.  After `$x.` a completed member replaces the dot.  A word is
  lexed for completion as if at the head of a statement, so `2024-0` asks for `2024`.
* *Objects.* `psobject.ts:622` calls the order of the cmdlets total.  Over numbers mixed
  with texts it is none: 9 comes before 10, 10 before the text `10a`, and `10a` before 9.
  A text on the left of -LE or -GE with the NaN on the right never matches, though
  `where-object.ts:282` says that a text on the left keeps the comparison one of texts; the
  text `NaN` is then equal to the value and not at most it.
* *Listing.* A pattern reads the names of the working directory as patterns too
  (`fs-read/support.ts:654`).  `a*/*` shows a file that `a*` itself matches.  A walk whose
  reader has left reads on until it has a row to write, though `support.ts:800` says that
  is what `emit` is there to prevent.
* *Paths and text.* `~//..` and `~//x` differ when joined in pieces, and a name with a
  backslash parts on a drive.  `wrapText` may end in an empty line.  The ANSI parser
  gives two cells for a pair cut between chunks (`ansi.ts:305`); a combining mark after a
  carriage return overwrites the first cell; a sequence that clears the buffer leaves the
  page's elements as they were (`semantic.ts:197`).

## 9. What is proved

### `DurableStoreProofs.tla`

From `BoundsAreNat` alone, so for every number of mutations, generations, crashes,
faults and wipes and every log limit:

| theorem | property |
|---|---|
| `TypeCorrect` | `TypeOK` |
| `NothingUnappliedHolds` | `NothingUnapplied` |
| `WipeIsFinalHolds` | `WipeIsFinal` |
| `CheckpointSurvivesHolds` | `CheckpointSurvives` |
| `NoTieHolds` | `NoTie` |

Each property quantifies over the outcomes of a crash and is not inductive: the
proofs strengthen it and then read it off.

* `TypeInv` adds to the types that a mutation step works on a real mutation.
* `AppliedInv`: the trees of all four slot files are within `applied`, and every
  commit record in either log is of an applied mutation.  An outcome of a crash is
  made of those files, and a prefix of a log commits no more than the log, so what
  it recovers is within `applied`.  The invariant is parameterised by the set
  (`FilesWithin`, `CommitsIn`), and the same lemmas serve `gone`.
* `WipeInv`: how far a wipe has got (`WipeProgress`), and the files are within the
  complement of `gone` (`GoneInv`); ids only grow, so a later mutation is never a
  wiped one.
* `SlotInv`: how far a checkpoint has got shows in the slot it writes
  (`SlotProgress`); the active slot is flushed and has the store's generation
  (`ActiveIsFlushed`); with no disk error only the slot being written has unflushed
  bytes (`HealthySlots`).
* `InTurn`: the slots take turns, so whether a generation is odd says which slot it is
  in.  This needs nothing of the others, and showed that `NoTie`, first stated without
  disk errors only, holds with them too; it is now stated so.

The second part is about a store without disk errors.  It too is
from `BoundsAreNat` alone; what a property says of such a store it says itself
(`faults = 0`), and the behaviours with errors are among those quantified over:

| theorem | property |
|---|---|
| `LosesAtMostTailHolds` | `LosesAtMostTail` |
| `ReplayNeverStopsHolds` | `ReplayNeverStops` |
| `LogBoundedHolds` | `LogBounded` |
| `CheckpointInvisibleHolds` | `CheckpointInvisible`, an action property |
| `ContractImplemented` | `ImplementsContract`, of behaviours in which no disk call fails: the contract promises nothing else |

All but `LogBounded` read the invariant `LogInv` off, which is `WipeInv` and `SlotInv`
from above and, while no call has failed, `Healthy`:

* `LogRuns`, `LogRests`: which generation the log has at each `pc`, what of it is flushed,
  and that `logLen` is its length.  A log is read only with the slot of its own generation,
  so this is what decides whether a crash between two steps finds it or throws it away.
* `Numbered`, `OnlyTheLast`, `LogsReplay`: records come in the order of their mutations,
  a plan is followed by its own commit, and each stands on the base or on an earlier
  commit.  `ReplayTakesAll` proves that such a log replays to its end, and `FrontReplays`
  that so does every prefix, which is what a crash leaves.
* `TreeRunning`, `TreeBooting`, `TreeWiping`, `TreeDown`: the tree of the store is what
  the active slot and the log replay to, in the files as read and as flushed.
* `SlotsNest`, `OtherSlot`: the slot that is not in use is older, or is the checkpoint
  being written and then says the same as the old one with its log.

None of these is inductive alone: that a checkpoint's slot may take over needs the tree,
the tree needs the log, and the log needs to know which slot a recovery would choose.
`StepIsPromised` takes each action to a step of `StoreContract` or to none: the phase is
that of `PhaseIs`, a death loses at most `LosesOne`, and a report is of a mutation that is
in the files (`ReportIsNew`).

### `PipelineStagesProofs.tla`

From `ChannelConstants` and `PipelineConstants` alone, so for pipelines of any length,
any number of values and any slack:

| theorem | property |
|---|---|
| `TypeCorrect` | `TypeOK`, with the bound on what a channel buffers |
| `NeverAheadHolds` | `NeverAhead` |
| `NothingLostHolds` | `NothingLost` |
| `NoLeakHolds` | `NoLeak` |
| `PushBasedHolds` | `PushBased` |
| `CutIsNotAnEndHolds` | `CutIsNotAnEnd` |
| `StoppedAsksNoMoreHolds` | `StoppedAsksNoMore`, an action property |

None of the first three is inductive: each needs the others' reasons.  `StageOK` states them
of one stage: written values are read, in the reader's hand or buffered
(`Conserved`); the asks are the values read and the pending one (`AsksCounted`); a
write that is not parked has been overtaken by an ask (`Paced`); and what the exit of
a generator says of its channel stays true (`Exited`).  A stage is touched in a dozen
ways (an ask, a write, a wake, a failure, ...): one lemma for each says that `StageOK`
is kept, over the fields that each method of the channel leaves, and the proof of an
action says which of them it does to which stage.

The other four are about who waits for whom, so their invariant `Fit` takes the parties
in pairs: a reader's guard and the generator it asks (`LinkOK`), a command and its own
guard (`LoopOK`), a command and the end of its channel (`EndsOK`, `CutOK`), and a command
that nobody entered with the reason its reader had (`UnreadOK`).  `NoLeak` reaches over any
distance, and is `OverBefore`: a stage that is over has a stage before it that is over, by
induction along the pipeline.

### `FollowerViewProofs.tla`

From `BoundsAreNat` alone:

| theorem | property |
|---|---|
| `ReadInvHolds` | `ReadInv`, the invariant of leader and follower |
| `ShowsARealTreeHolds` | `ShowsARealTree`, while the filesystem has not been reset (`wipes = 0`) |
| `QuietReadIsCurrentHolds` | `QuietReadIsCurrent` |

The premise `wipes = 0` is needed.  A reset starts the generations again, so a follower
that read the slot of generation 1 before it may find the new log of generation 1, and
replay it on the old slot; TLC shows that tree with `MaxWipes = 1`.  The code has no
answer to it, and no comment promises one.  A quiet read is one without a reset, so
`QuietReadIsCurrent` needs no such premise.

The second part of `DurableStoreProofs` cannot be used as it stands: in its world a death leaves what was
flushed and a prefix of the rest, and here the leader's tab may die while the files keep
every byte it wrote.  So nothing in `LeaderInv` is about what is flushed:

* `LogRuns`, `Numbered`, `TreeRunning`, `NewCheckpoint` are as there and their
  lemmas are used again; `OpenSlots` and `LiveReplays` take the place of
  `ActiveIsFlushed` and `LogsReplay`, and speak of the files as read.
* `MountLogsNothing`: the checkpoint of a mount begins with an empty log.

What the follower has read is `ReadIsOld`: a slot it read is no newer than those there
are now, and if one of its generation is still there it is the same, byte for byte.  The
slots take turns (`InTurn`), so a read slot that has since been overwritten has a
generation that no log has any more, and the follower then shows the slot alone, a tree
the leader had when it wrote it (`TreesSeen`).  `WouldShow` is the property moved to the
middle of a read: what the follower *would* show if the files stayed as they are is a
tree the leader had.  Most steps of the leader keep that; where one adds a commit record,
the tree that is shown is the tree of that moment (`LiveShows`).

TLC checked `ReadInv`, `WouldShow` and `QuietRead` on small instances, with a crash and
with a reset, before they were proved.

### `KernelProcessesProofs.tla`

From `KernelConstants` alone, so for any set of requests and terminals, pipelines of any
length and any number of signals:

| theorem | property |
|---|---|
| `TypesHold` | `TypeOK` |
| `ExactlyOneExit` | `OneExit` |
| `EarlyCancelsHold` | `EarlyCancelNeverRuns` |
| `StatusComesFirst` | `StatusBeforeExit` |
| `CtrlCFindsLatest` | `CtrlCReachesLatest` |
| `JobsTellTheTruth` | `JobTellsTheTruth` |
| `KillsAreFinal` | `KillIsNotIgnored` |
| `ExitsAreFinal` | `FirstExitWins`, an action property |

The tables say little about what the kernel will still do; `todo`, the rest of the
running calls, does, and a listener may put another call's steps in front of it at any
moment.  The invariant `IInv` therefore reads `todo` in three ways:

* `StepsOK` is what each waiting step may rely on when its turn comes (a `start` that its
  stages can still be signalled, a `report` that its exit is unpublished), so no nested
  call may break it: that is the proof obligation of re-entrancy.
* `Order` is which steps of one request may wait behind which (`MayPrecede`): `$?` before
  the exits, the exits before the end, but for those of a kill.
* `ProcsOK`, `ExitsOK`, `EntriesOK`, `JobsOK` say what is *owed*: where a table is not yet
  what it will be, a step waits that will make it so (a killed process that is not finished
  has its `finish` waiting).  At rest nothing waits, so nothing is owed, and the properties
  that speak of rest follow.

### `StoreMigrationProofs.tla`

For any versions and builds of which one is the newest and any ladder (`Versions`), and any
number of mutations, checkpoints, rollbacks and deaths:

| theorem | property |
|---|---|
| `TypesHold` | `TypeOK` |
| `MigrationInvHolds` | `MigrationInv` |
| `MigrationSafeHolds` | `MigrationSafe`: `CheckpointOutlivesMigration`, `NeverMigratedTwice`, `InterruptedMigrationIsUndone` (in `StoreSound` of `MCParts_each`) |
| `DowngradeOnlyByNameHolds` | `DowngradeOnlyByName`, an action property |

`CheckpointOutlivesMigration` speaks of all that a death may leave of unflushed bytes and
is not inductive.  `Files` says which file has such bytes at each step (one at a time),
`CopyKept` what `rollback.bin` would put back, `SlotsKept` where the newest complete
checkpoint is: in the slot in use, in the other, or, while the copy is there, in the copy
alone.  `OutcomeRecovers` concludes, step by step, that whichever outcome a death has the
next recovery finds it.  The proof needed no more of the ladder than that its versions are
numbers: a gap in it is refused before anything is written.  It also showed that the slot
in use need not have the greater generation at every step, only be the one recovery would
take (`Wins`), which holds even for a store whose two slots had the same.

Its second part is about the election of the tab that opens the store (`StoreElection`,
through an INSTANCE).  For any set of tabs that does not contain the value `Nobody`, any of them with locks, any
of them willing to follow, and any number of failures and departures:

| theorem | property |
|---|---|
| `ElectionInvHolds` | `ElectionInv`, which has `TypeOK` |
| `ElectionSafeHolds` | `ElectionSafe`: `OneOwner`, `NothingStranded`, `SomebodyLeads`, `ReloadTakesOver` (in `StoreSound` of `MCParts_each`) |

The lock proves nothing of `OneOwner`: what does is that a tab that opens holds a prefix of
the files, in the one order all of them use (`TabOK`).  `SomebodyLeads` is about the end of
a race and `NoFight` about its middle: while nothing has failed and nobody has left, a tab
that gives up does so before it has a handle, so the one it gave way to goes on.

Its last part is about the storage worker (`StorageWorker`, through an INSTANCE).  For any
number of calls:

| theorem | property |
|---|---|
| `WorkerTypesHold` | `TypeOK` |
| `WorkerInvHolds` | `WorkerInv` |
| `WorkerSoundHolds` | `WorkerSound`: `ReadsAreNotStale`, `CallsTakeEffectInOrder`, `CheckpointIsATree` (in `CallsSound` of `MCParts_each`) |

`InOrder` follows a call from the page's messages through the queue to the tree: what is
further on has the smaller number.  `Queued` ties the stage to the operation at the head,
so that an answer given at its end may rely on the mutation being in the tree; `Honest`
says so of every answer, told or on its way, and then a read that was called later finds
it there.  `Exporting` is why a checkpoint is one tree although its export awaits: no
mutation takes effect while a checkpoint is at the head.

### `MemoryTreeProofs.tla`

From `TreeConstants` alone: what callers name is a path under the root, what they write is
a sequence of bytes, modes are sets of permissions, and each tree to start from is one and
fits the quota.  So for any names, contents, modes and quota, any finite tree to start from
(whoever its nodes belong to) and any number of plans:

| theorem | property |
|---|---|
| `TreeInvHolds` | `TreeInv` |
| `TreeSoundHolds` | `TreeSound`: `TreeIsWhole`, `WithinCapacity`, `PlansAlwaysApply`, `ReplayRebuilds` (in `TreeSound` of `MCParts_each`) |
| `TreeStepsHold` | `TreeSteps`: `EffectIsLocal`, `ReadOnlyDirectoryKeepsItsEntries`, `UnreadableStaysUnread`, `CopyIsFaithful` (in `PartSteps`) |
| `TreeTypesHold` | `TypeOK` |

`TreeInv` says little of a plan under way: that it was made of the tree there is
(`Flying`), which the mutex is for.  All else follows from what each planner does, one
lemma for each (`MkdirWorks`, `WriteWorks`, `RemoveWorks`, `RenameWorks`, `CopyWorks`,
`ChmodWorks`, `TouchWorks`), and they say the same: the plan `Works`.  Its steps run to the
end; the tree is whole after them and `#used` is what a walk counts; it has grown by no more than the
`byteDelta` that `#checkCapacity` saw; nothing outside the request has changed (`Local`) and
no directory that cannot be written has other entries (`Keeps`).

A plan that removes or copies a subtree has as many steps as the subtree has nodes, and the
proof goes along them (`RemoveRuns`, `CopyRuns`).  Removed deepest first, a node has
nothing below it when its turn comes; that is why `#apply`, which takes off the size of the
named node alone, counts right.  Copied shallowest first, the place of a node has its
parent, of the right kind because the planner has looked at all that was there
(`TargetsDiffer`, `CopiedTo`).  `MoveStep` shows that what moves meets nothing at its
destination and leaves no node behind; a directory moved below itself is the case the planner
refuses.  `AlikeRun` is why a replay, which counts no bytes, gives the tree that applying
gave.  The lemmas on paths (`RebasedBelow`, `AtOrBelowIs` and those around them) and on
counting (`OneMore`, `OneOther`) carry the rest.

For this the sizes in `TreeOps` are counted as the elements of a set (`Bytes`) and orders
and runs are recursive functions (`LeftOf`, `Run`) where they were folds: the provers can
reason about those.  What they compute is the same, and so is the state space.

### `KernelTransportProofs.tla`

From `TransportConstants` alone (the bounds on stages and calls are natural numbers), so
for any set of requests, pipelines of any length, any output and any number of lost and
repeated events:

| theorem | property |
|---|---|
| `TransportInvHolds` | `TransportInv` |
| `TransportSoundHolds` | `TransportSound`: `OutcomeIsWhole`, `NothingTwice`, `NoDeadPids` (in `CallsSound` of `MCParts_each`) |
| `TransportTypesHold` | `TypeOK` |

`OutcomeIsWhole` speaks of what a promise was settled with; the invariant has to say what
a request that still waits has yet to hear.  It has two parts.

* `Basics` holds whatever the channel does: one number is one event and the channel keeps
  the order (`Ordered`), the client's two maps agree (`Owners`), a call is in one place
  (`CallsApart`, `Asked`, `Reuse`: an id that is used again is another call), each stage
  is live or has exited once (`JobsRun`), and no exit comes that was counted
  (`ExitsApart`).
* `Faithful` holds while no event is known or about to be known as lost (`Intact`): what
  a waiting request has not heard is exactly what is under way.  The exits it misses are
  the last things published, each behind the news of its process (`ExitsCome`); its
  processes are known or will be before any exit (`ProcsCome`); of its output nothing is
  missing but what comes last (`OutputComes`).  So the exit that settles the promise
  finds the transcript complete.

After a loss `Intact` is false for good and the property demands nothing of later
answers, but those given before stay right.  The kernel publishes in the model when the
client has caught up (the module says why that loses nothing), so `ExitsCome` is about
the order inside one synchronous run of `#teardown` or `#kill`: were an exit published
before the news of another stage, a promise could be settled too early.

The last part is the copy a value is sent as (`WireCopy`, through an INSTANCE), for any
graphs of finitely many nodes and any limits on depth and nodes (`WireConstants`):

| theorem | property |
|---|---|
| `WireInvHolds` | `WireInv` |
| `WireSoundHolds` | `WireSound`: `ArrivesWhole`, `RefusedForAReason` (in `BytesSound` of `MCParts_each`) |
| `WireTypesHold` | `TypeOK` |

A copy is as much of its source as has been read, and what it refers to has a copy
(`Copied`); one that is not whole is open (`Finished`).  So when no call is open the memo
is closed, and `Reached` is the least closed set with the root: the whole graph has
arrived, and nothing else.  `Paid` counts: the charges are the nodes and primitives copied
so far (`Spent`), each once, so one too many for the limit means a value larger than the
limit, whether it shares or not.  `Nested` counts too: the open calls are of different
nodes, so a walk as deep as the limit has met more nodes than that, and a cycle can never
be the reason.

### `SessionProofs.tla`

Parts of the session beside its processes, each through an INSTANCE of its module:

| theorem | property | premise |
|---|---|---|
| `JobsSoundHolds` | `JobsSound`: `NothingUnaccounted`, `MoreDataIsTrue`, `PidsAgree` | `JobConstants`: finitely many processes, limits above zero |
| `JobTypesHold` | `TypeOK`, with the limits of the buffers | `JobConstants` |
| `EndsOnceHolds` | `EndsOnce`, an action property | `JobConstants` |
| `SessionSoundHolds` | `SessionSound`: `OneNameEach`, `OnlyAccepted` | none: any names and any folding of them |
| `CapabilitiesSoundHolds` | `CapabilitiesSound`: `OnTheRecord`, `ElevationOpensNothing` | `ConfersNothingReal`: elevation confers no real capability |
| `StreamSoundHolds` | `StreamSound`: `SplitIsInvisible`, `ControlsPassThrough`, `CancelStartsAfresh` (in `BytesSound` of `MCParts_each`) | `StreamConstants`: what came before was a stream of characters |
| `StreamTypesHold` | `TypeOK` | `StreamConstants` |
| `ScreenSoundHolds` | `NoHalfCharacters`, `RunsCoverTheRow`, `PageShowsTheRows` (in `ScreenSound` of `MCParts_each`) | `ScreenConstants`: at least one row (`grid.ts:201`), a tab width above zero, first pages of whole characters |
| `ScreenTypesHold` | `TypeOK` | `ScreenConstants` |
| `InputSoundHolds` | `InputSound`: `Mirror`, `MenuShowsTheLine`, `DraftWaits` | `InputConstants`: an inventory and a history of texts, no longer history than its capacity |
| `InputStepsHold` | `InputSteps`: `KeysAreTheMethods`, `CommitsOnce`, action properties | `InputConstants` |
| `InputTypesHold` | `TypeOK`: every caret, place and length within its own | `InputConstants` |

`BufferOK` is the heart of the first: a buffer holds the newest of what its process has
emitted, in order, and what was handed out, what is held and what was dropped add up.
`OwnJob` is needed because records come by pid and a job may be removed under its process.
The premise of `CapabilitiesSound` is what `assertElevationCannotConferReality`
(`capabilities.ts:193`) throws over when the module is loaded; the list is empty today.
Without it `ElevationOpensNothing` would be false.  `OnTheRecord` counts: for each ask that matters,
as many records as ended and open calls (`CountAppend`), so a listener that asks again in
the middle of an append cannot make one record serve for two.

The stream of escapes is proved for streams of any length.  What is shown of one is the
events it has given and the text that is waiting after them; `StepShows` says what a
character adds to that (`Adds`: one event or none, whatever text is waiting) and
where it takes the parser (`Onward`).  So `StreamInv` needs only that the parser is the one
of the whole stream but for the waiting text (`Bare(parser) = At(given)`), and that text is what has
not been reported; a chunk may then end anywhere.  That two texts in a row are one makes
joining associative (`JoinTwice`, `JoinEither`), which is all a cancel needs: after it the
parser is `Fresh`, so what follows is a stream of its own.  For the controls, one inside a sequence
leaves the parser as it was and adds at most its own event, and one outside only splits a
text that joins again once the event is left out (`PlainJoined`).  What a stream gives is a recursion
over its characters; `StringsClimb`, the induction over streams, is stated of a set of them and
proved from the least counterexample, so no induction theorem with an operator parameter is used.

The page is proved for any width, any number of rows and any first pages.  `Whole` says of a row
that each right half is behind a wide character and each wide character before its right
half; `RepairedIs` says what `#repairOverlap` leaves, and from it a plain and a wide write
keep `Whole` (`PlainWrites`, `WideWrites`), hence padding, blanking, cutting and every
character.  The runs are followed cell by cell (`GatherStep`): they end where the cells end and hold
their text (`RunsAre`); that a right half finds a run to join needs `Whole`.  The page alone is not inductive within a
chunk, when it lags behind the rows.  `Lags` is what holds then: only the rows from the
one the chunk began in may differ, that row is still counted, and the rows above it are
shown as many elements lower as rows were dropped since; so what `#reconcile` keeps is
right after dropping those, and what it fills again is the rest.

The prompt is proved over any letters, commands and lines recalled, with a lemma for each
kind of key.  `EditorInv` is what the editor keeps by itself: most keys close the menu and
either end the walk through the history or leave it alone (`Settles`), and what is left to
show is that each caret, cut and completion stays inside its text.  `Methods` is what makes
`InputSound` inductive: outside a composition the editor composes only while a lost
compositionend is `owing`, and inside one it does unless the method's own keys say whose
they are.  So no key of a composition passes the guard (`CandidateKeyKeeps`), and the input
that Chrome sends before compositionend is skipped, which is why a commit counts once.
`MaxText` bounds only what may be typed; what a menu, a search or a walk keeps of the line
stays within it because it is always the line of the step before (`Keepsakes`).

### Not proved

Model-checked only: the liveness properties, which are out of the prover's reach
(`WorkerReturns`, `EveryExecExits`, `Terminates`, `Progress`), and the
parts of section 7 other than the follower, the election, the
migrations, the worker, the in-memory tree, the transport, the wire, the jobs, the drives,
the audit log, the stream of escapes, the terminal's page and the prompt.
Several of those parts are recursive over text or
trees (`Lexer`, `Parser`, `TextLayout` and others), and what a recursion
computes for every input cannot be proved with the library's induction theorems; where it goes
over a sequence one by one, as in `AnsiStream` and `TerminalScreen`, induction over a set of prefixes does
(`Climb`).  The six violations of section 8 are counterexamples and need no proof.

## 10. What is not modelled

`PROJECT.json` gives the reason for each part.  In short:

* **Operators, the registry of providers, and some seventy commands** are
  sequential functions of text and values.  They enter the models as their possible
  answers (a line is refused, unknown or ok).  The commands that keep state between two
  awaits are in `FileCommands`, `SelectObject`, `ObjectCommands`, `ChildItems` and
  `ReadCommands`.
* **Static tables**: manifests, help texts, compatibility profiles, the seed image, the
  Unicode tables, the roadmap data.  Nothing happens in them.
* **Tools, tests, pages and build scripts** are run by hand or by a build, one process
  from start to end, with nothing that the shell depends on at run time.

About a quarter of the repository's lines are of the second and third kind, and most of
the rest of the first; the map covers about a seventh of all lines, and what keeps state
between two awaits, two messages or two starts is in it.

## Running

    tlc -workers 2 -config DurableStore_faulty.cfg DurableStore
    tlc -workers 2 -config MCParts_each.cfg MCParts
    tlc -workers 2 -config SeedOverlay_moved.cfg MCOverlay
    tlapm DurableStoreProofs.tla
    tlapm FollowerViewProofs.tla
    tlapm PipelineStagesProofs.tla
    tlapm KernelProcessesProofs.tla
    tlapm KernelTransportProofs.tla
    tlapm StoreMigrationProofs.tla
    tlapm MemoryTreeProofs.tla
    tlapm SessionProofs.tla

`CHECK_DEADLOCK` is off in every configuration because the modelled system may really
stop: a tab may be closed for good, and a page may send nothing more.
