# drill in TLA+

`drill` is a single-user trainer for Go exercises: a Go server keeps an attempt
ledger with a spaced-repetition schedule in SQLite, compiles and tests
submissions in throw-away sandboxes, streams their output to the browser and
polls a directory of tasks. This directory holds its specification: TLA+ modules,
TLC configurations and TLAPS proofs.

    tlc -workers 4 -config Store_ladder.cfg MCJournal   # any run: X.cfg, its MC module
    tlapm StoreProofs.tla                               # the proofs of a component

`PROJECT.json` lists the components, the runs, the mutants that show each
property can fail, the source lines behind every definition, the hazards, the
findings and the theorems.

## 1. Inventory

| Component | State it keeps | Operations | Talks to | Hard parts |
|---|---|---|---|---|
| `internal/srs` | none | `Advance`, `IntervalDays`, `Mastered` | called by the store inside `PassAttempt` | ends of the ladder |
| `internal/store` attempts, reviews | tables `attempts`, `attempt_files`, `drafts`, `reviews` | start / resume, abandon, heartbeat, record run, pass, drafts | called by the handlers, one SQLite connection | order of the calls, stale attempts, a clock set back, midnight |
| `internal/store` tasks | table `tasks` | `SyncTasks`, `TaskStates` | called by the watcher and the screens | vanishing and returning tasks |
| `internal/store` notes, stats | table `notes` | save, delete, aggregates | handlers | aggregates over abandoned and repeated attempts |
| `internal/store` open, migrate | `schema_migrations` | open, migrate | startup | a crash or a second process in the middle |
| `internal/runner` run | event buffer, result, wake-up channel | append, finish, Follow, Wait, Cancel | readers of the command's pipes; SSE handlers; the recorder | truncation, lost wake-ups, reconnects |
| `internal/runner` runner | map of runs, semaphore, wait group, sandboxes, processes | Start, execute, evict, Shutdown | handlers, the operating system | cancel / deadline / exit races, clean-up on every path, shutdown |
| `internal/runner` accumulator | counters and flags of one run's output | note, noteRaw, result | the readers | verdict read from text markers |
| `internal/httpapi` runs, attempts | goroutines: one recorder per run, one follower per stream | submit, stream, cancel, start, restart, heartbeat, draft | all of the above | several transactions per request, crash in between, a browser that leaves |
| `internal/httpapi` tasks, today, review | none | read-only screens | store, catalog | two reads that belong together |
| `internal/catalog` | published snapshot, scan mutex | poll, reload, scan | the directory, `SyncTasks` | edits during a scan, failing scans |
| `internal/textdiff` | none | diff of two texts | review screen | pure algorithm |
| `internal/web/static` | editor state, timers, an EventSource | run, follow, cancel, autosave, flush | the HTTP API | disposal, pending saves, polling after a solve |
| `cmd/drill`, self-check | process life, signal context | startup chain, serve, shutdown | everything | failure at every step, order of the drain, one shared grace period |
| `internal/config`, `internal/web` (embed), `tasks/`, `internal/tasksuite` | none | | | not concurrent, not stateful |

What makes each correct, in short: the *ledger* never has two open attempts of a
task, books each solve once and derives the schedule from the solves; the
*stream* delivers each event once, in order, and always the verdict; the *runner*
never exceeds its slots, always cleans up before it reports, always reports, and
never blames the user for a cancellation; the *handlers* do to the tables only
what the store allows, whatever is interleaved or lost; the *screens* show what
the tables mean and agree with each other; the *catalog* ends up with what is on
the disk; the *verdict* is what the command deserves and always comes; the
*editor* loses neither active time nor text nor its run button; the *process*
leaves a whole schema behind and, when it exits without an error, nothing else;
the *diff* shows both texts and the fewest changes.

## 2. Modules

| Module | Models | Uses |
|---|---|---|
| `Srs` | the ladder | |
| `Store` | attempts, snapshots, schedule; one action per transaction | `Srs` |
| `Practice` | abstract: what the store promises (working on, solves, due) | `Srs` |
| `Screens` | the queries of the home and review screens, and the tasks that vanished | `Store` |
| `Journal` | notes, task lists, series, topics, activity | `Screens` |
| `RunStream` | event buffer, SSE handler with its follower goroutine, EventSource | |
| `Runner` | runs from `Start` to the verdict, semaphore, sandboxes, shutdown | |
| `RunLife` | abstract: a started run reports exactly one verdict | |
| `Verdict` | the two pipes of a command, their readers, the accumulator | |
| `Trainer` | the handlers and the recorder over the store and the runner, with crashes | `Store`, `RunLife` |
| `Catalog` | watcher, reload, scan, snapshot, table `tasks` | |
| `Editor` | the task screen and the router in the browser, against the handlers | |
| `Process` | start-up with migrations and self-check, serving, shutdown | |
| `TextDiff` | the line diff, as a loop and against its definition | |
| `StoreProofs`, `ScreensProofs`, `RunStreamProofs`, `RunnerProofs`, `TrainerProofs`, `CatalogProofs`, `EditorProofs`, `ProcessProofs` | the theorems about the module of that name | that module; `ScreensProofs` is also about `Journal` and `TextDiff`, `RunnerProofs` about `Verdict`; `ScreensProofs` and `TrainerProofs` use the theorems of `StoreProofs` |
| `MC*` | the model values and small sets for TLC | |

How the pieces fit: `Runner` implements `RunLife` and `Trainer` is built from
`RunLife`, so the handlers are checked against every run life the runner can
produce. `Trainer` performs `Store`'s own actions and is checked to implement
`Store`; `Store` is checked to implement `Practice`; `Journal` contains `Store`'s
steps and everything that reads them. `Verdict` refines one run of `Runner` between
the launch of its command and its return: the exit class that `Runner` leaves open
is a function of all the command printed (`RunnerProofs!ReadingImplementsCollect`,
of commands without a line too long for a reader). `Process` refines the step
`DrainServer` and what comes before and after a runner; this connection is by
construction and not checked.

### Store

`now` is the wall clock, read from a set and free to go backwards: the code
compares `time.Now` with times it stored earlier. `attempts` is a sequence, its
index the AUTOINCREMENT id. A transaction is one action because the database is
opened with one connection (`store.go`). `StartAttempt` is split by its branches
(`ResumeAttempt`, `InsertAttempt`), `PassAttempt` likewise (`PassAgain`,
`PassFirst`). `PassFirst` is enabled for an abandoned attempt, as in the code.
A task's review row always exists as a record whose `exists` says whether there
is a row. Days are `now \div DayLength`; time zones and daylight saving are not
modelled. Times compare as numbers; the code compares RFC 3339 strings, whose
order differs within a second when trailing zeros are cut.

### Screens and Journal

`Screens` adds the set of tasks the mirror marks as deleted, which a scan may set
to anything within `Vanishing`. Tasks are numbers in the order of their ids, with
a topic and a difficulty each. `Journal` adds the table of notes, a sequence whose
rows can be removed, and the operators behind the list, journal and statistics
screens. `ORDER BY finished_at DESC LIMIT 1` leaves a choice when two solves end
at the same time, so `LatestOf` is a set. Percentiles and trends are integers: the
rank in tenths, the percent rounded half up. The queries of one screen are one
read of the state.

### RunStream

An event is `[seq, item]`: the number the code gives it and a serial number of
its production, so that what a browser received can be compared with what was
produced. `wakes` counts how often the channel `updated` was closed; a follower
remembers the count it saw under the lock. The follower goroutine, the channel
to the handler (unbuffered: `HandOver`), the handler writing event by event and
the browser reconnecting with `Last-Event-ID` are separate steps. The cap of
20 000 events becomes `MaxEvents`.

### Runner

`phase` is the position of the run's goroutine in `Start` / `guard` / `execute`,
with the deferred calls (`Cleanup`, `Release`) as steps of their own after
whatever return was taken. What the command does is the environment's choice of
an exit class; `Classify` is the precedence of `accumulator.result`. A kill takes
the whole process group along, but nothing is killed when the command ends by
itself (`runner.go:292-295`): a background process that holds neither pipe then
stays behind as one of the `strays`. Until `Wait` is done a late cancellation or
deadline still kills it (`KillStrays`), afterwards nothing does: `FinishedIsClean`
allows it for commands that ended by themselves and for no others, and
`ParallelismBounded` and `ShutdownLeavesNothing` count commands.
Simplifications: the hard deadline is not let pass before `cmd.Start` (it would
have to pass between two consecutive statements); `DrainServer` takes the HTTP
server to be drained before the runner is shut down, with a grace period that
suffices. What happens when it does not is in `Process`.

### Verdict

A command follows a script: the lines it prints on each pipe, its exit, and what
is true of it. A line is a test2json event or raw text; its text is one of the
kinds the accumulator tells apart. A pipe holds `PipeSize` lines and blocks the
command when full; a line of more than 4 MB stops its reader, and the command
cannot exit while such a line sits in the pipe. The user's cancellation and the
deadline come at any time, so kill, exit, reading and `result` interleave freely.

What is true of a command is tied to what it prints by the promises of the
toolchain (`KeepsPromises`), which the code relies on without saying so: the counts
are those of the events of test functions; a raw line on stdout belongs to no test;
the status is zero only if everything passed; a command that ended otherwise has
failed if it started a test or panicked, and was not built if it did neither; only a
failed build has a `build-fail` event or a compiler phrase on stderr; a phrase comes
with every such event; and what else is quoted of the build leaves room for it
(the compiler stops after ten errors, the cap is forty lines). TLC evaluates them on
the fourteen scripts of the run. A program may still print such a phrase, or the
words of a test timeout, itself: `Misleads`.

### Trainer

Each store call of a handler is a step. `recorder[r]` is the position of
`recordWhenDone`; `Dropped` says what is left of it when its goroutine stops where
it stands ("half": run counted, solve not booked), with the process (`Crash`) or
alone (`GiveUp`). A run that was going when the process died is given the verdict
"error", which nobody sees: its recorder is lost. With `Impatient` a recorder may
end at any point - before the verdict, after it, between `RecordRun` and
`PassAttempt` - and a restart after any of its transactions (`RestartFails`): that
over-approximates the five minutes, the shutdown that ends the context, a
`Runner.Start` that refuses, and every store call that fails.

### Catalog

Each edit gives a directory a fresh stamp, standing for sizes and mtimes; the
fingerprint is the set of stamps. A scan lists the root, reads the directories
in order, takes the fingerprint, synchronises the table and publishes; edits
happen between any two of these. A directory is read in one step: several files
of one directory behave like several directories. The fingerprint is one step too,
except that a file may vanish between its listing and the look at it: an edit in
the middle of the walk, upon which `Fingerprint` returns the empty string without an
error (`load.go:299-301`, `Walk`). `draft.seen` and `snap.seen`
are history variables: the stamps that were read.

### Editor

The script is single-threaded, so a step runs to the next `await`, and what
follows an `await` is a step of its own (`AfterFlush`, `Answer`, `Rejected`).
`net` is the set of requests in flight; the server serves them in any order, the
answer comes later, and either may fail. A restart is three transactions, as in
`Trainer`: between them another request is served, another screen opens an attempt,
or the handler fails and leaves what it has done. A text is the number of the keystroke
that made it and a tick of active time the number of the tick, so that "lost" and
"counted twice" can be said. `stale` and `answerLost` remember the faults no
client of this API could repair; the properties name them where they excuse
something. `disposed` screens keep their pending continuations, as closures do;
`location.reload` removes everything. What `TicksAreConserved` says is per screen:
a tick put back on a screen that was left, or that is solved, is on a screen though
nothing will send it, and two screens that run at the same time count the same
minutes twice. `ButtonComesBack` is about the screen's side: whether the run it
follows delivers its verdict is a question to `RunStream`, whose answer past the cap
is no (section 4). A run that does not end green is left going: it makes no
difference to a screen or an attempt. Idle detection, tabs and the editor widget
are left out; an attempt never times out of its resume window here (`Store` has
that).

### Process

`effects` counts how often each migration's script was applied, `recorded` is the
table `schema_migrations`. The list of missing migrations is read once and then
applied one transaction at a time, so two processes can overlap. Start-up may fail
at any step. `Leave` is what the end of a process does to its goroutines, requests
and commands: commands it did not stop become `orphans`. The grace period expires
at any moment of a shutdown. `Procs` are slots for processes, reused after an
exit. The database connection is not closed before the handlers are gone because
`db.Close` is deferred to the return of `run`.

### TextDiff

The loop of `align` is a state machine: one step per line taken, with the pending
deletes and inserts as in the code; the table is computed by the code's recurrence,
as a recursive function. The reference, `LongestCommonLength`, is the definition by
subsequences of the whole texts.

## 3. Runs

| Run | Question | Bounds | States |
|---|---|---|---|
| `Screens_home` | do ledger, snapshots and schedule stay consistent, and do all screens agree? | 3 tasks, 2 topics, 2 attempts, both sides of a midnight, 1 run, 1 unit of activity, 1 note, 1 task that vanishes | 624 k |
| `Store_ladder` | does the schedule follow the ladder, do only solves move it, is the streak right? | 1 task, 4 attempts: all rungs; 3 days | 611 k |
| `Stream_buffer` | is every event delivered once below the cap, what survives above it, does the verdict come? | 2 browsers, cap 2, 4 lines, 1 lost connection | 198 k |
| `Runner_all` | slots, clean-up, verdicts, addressability and shutdown under every fault; does every run report, does shutdown end? | 2 runs, 1 slot | 1.2 M |
| `Verdict_reading` | is the verdict the true one, and does it come? | 14 commands, pipes of 2 lines, 2 quoted lines | 6.4 k |
| `Trainer_crash` | are solves and counters right with crashes, restarts, drafts and recorders that end at any point, and is every other green run booked? | 1 task, 2 attempts, 2 runs, 1 crash | 239 k |
| `Catalog_scans` | overlapping scans, failures, edits at any point; does polling converge? | 2 directories, 2 edits, 1 reload, 1 failure | 936 k |
| `Editor_session` | are active time, text and run button safe? | 2 screens, 1 keystroke, 2 ticks, 1 tick per heartbeat, 1 run, 2 requests in flight before another is sent, 2 attempts or 1 attempt and 1 failed request | 7.9 M |
| `Process_life` | is the schema whole, a clean exit clean, a stop prompt? | 2 processes, 2 starts, 2 requests, 2 binaries, 3 migrations | 467 k |
| `Diff_lines` | are both texts shown, with the fewest changes? | all pairs of texts of up to 6 symbols, 5 lines alignable | 111 k |

`Stream_lost_verdict` and `Editor_lost_draft` are the two runs that fail; section 4.

The bounds are constants (`MaxAttempts`, `MaxRuns`, `MaxActive`, `MaxLines`,
`MaxDrops`, `MaxCrashes`, `MaxEdits`, `MaxReloads`, `MaxFailures`, `MaxNotes`,
`MaxTicks`, `MaxFlight`, `MaxTrouble`, `MaxStarts`, `Times`), and in `Editor` the guard
`MayRun`: one run reaches the server. They are enough for the interesting cases:
two attempts of a task for a stale and a fresh one, two tasks of one topic and one
of another for the order of the offered task, four solves for the whole ladder
and its repetition, two runs and one slot for contention, twice the cap for
numbers that repeat, two directories for an edit that falls between two reads, two
screens for a disposed one next to a mounted one, a heartbeat that may carry one
of two ticks for the refused one, two requests of screens in use next to the
flushes of screens that are left and the submissions of runs that waited, which the
bound leaves alone, a binary whose migrations skip a number for a
later one that fills it in. Two notes would be needed to see the order of the
journal; the property is about their presence. In `Trainer_crash` there is one
content of a submission; a draft that has moved on is one that was cleared. The
two screens of `Editor_session`, whose properties are invariants, are symmetric.

Deadlock is checked in the runs of `MCJournal` and `MCTrainer`, where the clock
can always move. It is switched off where the system stops by design: a run whose
browsers all have the verdict, a runner that is down, a command that has reported,
a catalog whose edits are used up, a session without requests and bounds left, a
process with no starts left, a finished diff.

### Fairness

- `RunStream!FairSpec`: the run ends (hard timeout), the goroutines are
  scheduled, EventSource reconnects. Losing connections has no fairness and is
  bounded.
- `Runner!FairSpec`: goroutines run, the deadline timer fires, SIGKILL works.
  `ProcessExits` has no fairness: a submission may loop for ever. Weak fairness
  of `Acquire` is enough since every run asks once and there are finitely many.
- `Trainer!FairSpec`: the submit handler, the runner's report and the recorder
  proceed; users owe nothing.
- `Catalog!FairSpec`: the ticker fires, scans proceed, and a waiter gets the
  mutex in the end (strong fairness: Go's mutex hands over to a starving
  waiter).
- `Verdict!VerdictFairSpec`: each reader and the run's goroutine are scheduled, a command
  that can write or end does, SIGKILL works. Neither the deadline nor the user
  owes anything: `EveryRunReports` promises an answer to commands that end, and
  to the others once one of the two has come.
- `Process!FairSpec`: the shutdown sequence, the watcher, the handlers and the
  streams proceed, and a command of a canceled run dies (`Runner` shows that).
  The grace period's timer owes nothing: `StopsWithoutTimer` is the claim that it
  is not needed.
- `Editor` has no fairness: nothing makes a user return or a network heal.

## 4. What the runs that fail show

Each of these runs checks one statement of the repository that the code does not
keep; `PROJECT.json` quotes the line under "findings".

- `Stream_lost_verdict`: numbering by buffer length recycles numbers after a
  truncation; a live browser misses all later output and the verdict, and
  reconnects for ever. (`Stream_buffer` shows exact delivery below the cap, and
  past it that a browser that opens the stream afterwards still gets the verdict.)
- `Editor_lost_draft`: `dispose` sets `disposed` before it calls `save`, which
  returns at once when it is set: a text typed less than 1.2 s before leaving the
  task is lost, although `task.js:438` says the draft is kept.

Three more configurations beside the runs fail in the same way and are kept for
the same purpose:

    tlc -config Runner_cancel_error.cfg MCRunner    # ErrorMeansHarnessBroke
    tlc -config Trainer_abandoned.cfg MCTrainer     # AbandonedIsFinal
    tlc -config Catalog_missed_edit.cfg MCCatalog   # CatalogCatchesUp

- `Runner_cancel_error`: a cancellation before `cmd.Start` ends as "error", of
  which `event.go:22` says "the harness itself broke", and is then counted as a
  failed run although `runs.go:99` excludes canceled ones.
- `Trainer_abandoned`: a green run of an abandoned attempt turns it into a solve;
  `attempts.go:91` says that an abandoned attempt is closed without one.
- `Catalog_missed_edit`: an edit between the reading of a task and the taking of
  the fingerprint is missed by every later poll, although `README.md:243` promises
  two seconds; a manual reload cures it (`ReloadSeesTheEdits`).

Some further places where the code and its texts differ are modelled as the code
has them, without a configuration of their own:

- runs after the solve keep raising the counter that `attempts.go:117` calls the
  rounds the solve took (`Store!RecordRun` has no guard on the status);
- a solve after midnight counts on the day its attempt was started, although
  `reviews.go:72` speaks of tasks solved on the given day (`Screens!SolvedToday`);
- on the top rung the review screen says "in 7 days" next to a date 21 days away
  (`Journal!ReviewAgrees` ends there);
- `onSolved` sets `solved` before it flushes the remaining activity
  (`task.js:341-342`), and `flushActivity` sends nothing once `solved` is set, so
  up to 15 s of active time of a solve are not sent (`Editor!MayFlush`;
  `TicksAreConserved` speaks of open attempts only);
- `run` does not look at `disposed` when its awaited flush returns, so leaving the
  screen at that moment still starts the run and opens a stream nobody closes
  (`Editor!AfterFlush`);
- two overlapping renders leave the screen that finishes first without a disposal,
  although `app.js:17-18` says that every screen registers one (`Editor!Route`);
- a heartbeat that grew past two minutes by failed flushes is refused and put
  back for ever (`Editor!PutBack`, `Refuse`);
- a `build-output` event with a compiler phrase is quoted twice
  (`Verdict!Quoted`: `accumulate.go:43` and `57`);
- text that imitates the toolchain decides the verdict of a program that prints
  it at package level ("build_failed") or anywhere ("timeout"), never towards
  green (`Verdict!Misleads`, `NoFalseGreen`);
- the latest time is never better than the best one, so the negative trend that
  `stats.go:33-34` mentions cannot occur (`Journal!TimesAgree`);
- a task that vanished is listed as not mastered whatever its schedule says
  (`httpapi/tasks.go:69-74`, `Journal!Summary`);
- two texts that differ in the final newline only are shown as different with no
  changed line (`TextDiff!FewestChanges` counts lines);
- a self-check that is interrupted returns from `run` with its command still going
  (`Process!StartupFails`), and so does an error of `srv.Serve` with every command
  (`Process!ServeFails`); `CleanExit` is about exits without an error;
- a transient error in the first scan of `Watcher.Run`, after startup has
  succeeded, ends the polling, although `watch.go:55` says that such an error
  must not kill the watcher (`Catalog!WatcherReturns`);
- the flag "task changed" (`httpapi/tasks.go:95`) compares the catalog with a
  table every scan makes equal to it (`Catalog!MirrorMatches`);
- a malformed number in the environment is said to be reported by the flag package
  (`config.go:248-249`) but is replaced by the default.

## 5. What is proved

Eight modules hold proofs that TLAPS checks, each for every value of the constants
that satisfies the named assumptions of its component (`StoreAssumption`,
`RunnerAssumption`, `ToolchainAssumption`, ...); nothing else is taken on trust.
Every invariant and every action property a passing run checks is among them. Most
follow one scheme: an inductive invariant `IInv` that is stronger than the property
(TLC checked each one on the component's run, all but `DiffInv`, which speaks of every
number), the theorem `Invariance` that every reachable state satisfies it, and the
properties as its consequences. One lemma per action, or per group of actions that
disturb the same part, says that the step keeps it.

| Module | Theorem | States |
|---|---|---|
| `StoreProofs` | `TypeCorrect` | `TypeOK` of the tables; it needs the clamp of negative durations |
| | `OneOpen` | `OneOpenAttempt` |
| | `SolvesAreCounted` | `ReviewCountsSolves` |
| | `LadderFollowed` | `ScheduleFollowsLadder` |
| | `SnapshotsMatch` | `SnapshotIffSolved` |
| | `SolvesAreFinal` | `SolveIsFrozen`, an action property |
| | `KeepsThePromise` | `ImplementsPractice`: `Store` refines `Practice` |
| `ScreensProofs` | `SolvedTasksSleep` | `SolvedTasksRest` |
| | `PickStays` | `PickIsStable`, an action property |
| | `LongestStreak` | `StreakIsLongest` |
| | `SolvedEverywhere`, `ReviewsAsShown` | `SolvedIsSolved` and `ReviewAgrees`, two parts of `ScreensAgree` |
| | `OneStory` | `ScreensAgree` of `Journal`, sums, percentiles and orders included |
| | `BothSidesReadable` | `BothSidesShown` of `TextDiff` |
| | `NoNeedlessChange` | `FewestChanges` of `TextDiff` |
| `RunStreamProofs` | `NewestKept` | `KeepsTheTail` |
| | `NothingTwice` | `ReceivedExactly` |
| | `NobodyOversleeps` | `NoLostWakeUp`, the safety half of `VerdictArrives` |
| `RunnerProofs` | `BoundedParallelism` | `ParallelismBounded` |
| | `CleanFinish` | `FinishedIsClean` |
| | `TruthfulVerdict` | `VerdictIsTruthful` |
| | `Addressable` | `LiveRunsAddressable` |
| | `NothingLeft` | `ShutdownLeavesNothing`, the safety half of `ShutdownCompletes` |
| | `ImplementsLifeSafety` | `Runner` refines `RunLife` without its fairness |
| | `GreenIsTrue` | `NoFalseGreen` of `Verdict` |
| | `VerdictIsTrue` | `TrueVerdict` of `Verdict` |
| | `NobodyWaitsInACircle` | `NobodyBlocks`, the safety half of `EveryRunReports` |
| | `ReadingImplementsCollect` | `Verdict` refines a run of `Runner` from its launch to its return |
| `TrainerProofs` | `SolvedByGreen` | `SolvedByItsRun` |
| | `CountedOnce` | `RunsCountedOnce` |
| | `GreenIsNotForgotten` | `GreenIsOwed`, the safety half of `GreenIsBooked` |
| | `StoreIsImplemented` | `ImplementsStore`: `Trainer` refines `Store` |
| | `StoreHolds` | the theorems of `StoreProofs`, of the tables the handlers write |
| `CatalogProofs` | `ReloadIsFresh` | `ReloadSeesTheEdits` |
| | `TableIsTheCatalog` | `MirrorMatches` |
| | `OnlyYounger` | `NeverOlder`, an action property |
| `EditorProofs` | `TimeIsConserved` | `TicksAreConserved` |
| | `DraftKept` | `DraftIsSaved` |
| | `ButtonReturns` | `ButtonComesBack` |
| `ProcessProofs` | `WholeSchema` | `SchemaIsWhole` |
| | `NothingCutOff` | `CleanExit`, an action property |
| | `NothingHoldsUp` | `WaitsForWhatEnds`, the safety half of `StopsWithoutTimer` |

The modules about `RunStream`, `Runner`, `Trainer`, `Catalog`, `Editor` and `Process`
prove `TypeCorrect` as well.

### The arguments

- **Store.** `TypeOK` alone carries most of it. An attempt is only added in a step
  that closes every open one of its task. Counting is about cardinalities: each
  step leaves `PassedOf(t)` alone except `PassFirst`, which adds one id. Snapshots
  also need that rows beyond the end of the table have none. The refinement needs
  `OneOpenAttempt` and the ladder: two open attempts of a task, one of them closed,
  would look like a task that is still worked on.
- **Screens.** A behaviour of `Journal` is one of `Screens`, and that is one of the
  store, so the store's theorems are used as they are. The ladder has no interval of
  zero days, hence `SolvedTasksRest`. The streak's loop is a recursive function; that it
  counts the days in a row is shown by the least day on which it would not
  (the numbers are well-founded), and that the result is the largest stretch by
  comparing the days where stretches end.
- **Journal.** `Sorted` gives each row its rank, the number of rows before it; in a
  strict total order on a finite set that is a bijection onto 1 .. n, so what is
  listed is the set, once each, in that order. Sums are folds over sets, known by
  what they are of the empty set and of one element more; that the topics' totals are
  the total follows by adding one topic at a time. An attempt has one note at most,
  also after rows were removed (`OneNoteEach`). Equal times, repeats, vanished tasks
  and abandoned attempts are no exceptions.
- **TextDiff.** `DiffInv` says of the rows so far that they tell a stretch of each
  file and how many lines the two have in common, and of the table that it holds the
  longest common part of what is left: by the recurrence, from the back, with
  subsequences as ascending lists of places. A step takes a row the table calls for
  and loses nothing common; trimming head and tail loses nothing either.
- **RunStream.** The numbers are a function of how many events were produced
  (`SeqOf`): the truncated buffer stays full, so every later event gets the same
  number. The invariant reads what a browser has, what is being written to it and
  what its follower holds as one ascending sequence, gapless while nothing was cut
  off, whose two ends are `Last-Event-ID` and the follower's position. Followers'
  arithmetic on a truncated buffer (`EventsAfter`) is the hard lemma. A follower
  that sleeps on a channel nobody has closed yet has taken everything: the look at
  the buffer and at the channel are one step, and every event is counted in `wakes`.
- **Runner.** What a run holds follows from its phase; a command is killed for a
  reason only, and leaves a stray process only if it ended by itself; after the
  server has drained nobody is between the map and the wait group. `Acquire` is the
  one step that takes a slot, and it takes a free one.
- **Verdict.** `ReadingInv`: a pipe holds, in order, the lines printed last, so the
  accumulator is what was heard of the first `k` lines of one stream and the first
  `l` of the other, whatever the interleaving; every flag and counter depends on the
  two prefixes alone. Either a compiler phrase has been quoted or none was read and
  there is room for one. A reader is done only when nothing can come any more, so a
  result nobody interfered with is drawn from the whole output, and the promises of
  the toolchain say what it deserves. The same reading maps the states of `Verdict`
  to those of one run of `Runner`. A line too long for its reader ends all this, and
  only the parts of `NoFalseGreen` that do not need it are claimed then.
- **Trainer.** How far a recorder is determines what its run has reported; the
  counters of an attempt are the numbers of its counted runs and of the red ones
  among them; and a passed attempt has a booked run with the files of the snapshot;
  conversely, what a recorder booked stays solved, since the store rewrites no solve.
  A crash, or a call that fails, turns a recorder that had counted and not booked into
  "half". Each step
  is shown to be a step of the store, or to leave its tables alone, in the same
  lemma.
- **Catalog.** One scan at a time holds the mutex. A draft is no older than what is
  published and no younger than the disk, and a forced scan that a client waits
  for has read nothing older than the disk at its call. Between the transaction
  and the publication the table is the draft's, otherwise the snapshot's.
- **Editor.** Every tick that is still owed is credited, on a screen or on the
  wire; unless the answer to a heartbeat was lost it is in exactly one of these
  places, and no two heartbeats carry it. The newest text is scheduled, under way or
  the draft. The position of `run()` on a mounted screen is where its request is. All
  three need what screens, requests and ticks know of each other (`Fits`).
- **Process.** A script and its row are one transaction. While a process migrates,
  what it knows is recorded or still on its list, though another process may be
  applying the same list. What the waits of a shutdown have seen stays true, since
  no step adds to what they wait for; and what they wait for ends without the timer,
  because the self-check is over before anything is served and the watcher shares
  the context whose end began the shutdown.

Assumptions on constants beyond types: sets that are counted are finite, the
values that stand for "none" are not members of what they stand beside (in
`Editor`, the page that is no task is no task screen), there is at least one slot,
one place in the buffer and one line in a pipe, a text is a sequence, and the
toolchain keeps the promises named in section 2.

### Only model-checked

- Liveness under fairness (`VerdictArrives`, `LateBrowserGetsVerdict`,
  `ShutdownCompletes`, `GreenIsBooked`, `FingerprintCatchesUp`, `EveryRunReports`,
  `StopsWithoutTimer`, the second half of `ImplementsLife`) and everything that
  needs ENABLED are out of the prover's reach.
  Of six of them the safety half is proved: a state in which something is owed has
  somebody who can go on (`NoLostWakeUp`, `GreenIsOwed`, `NobodyBlocks`,
  `WaitsForWhatEnds`), nothing is left when it is over (`ShutdownLeavesNothing`), or
  the steps are the right ones (`ImplementsLifeSafety`).
- `Verdict!VerdictTypeOK` and `TextDiff!DiffTypeOK` state the types of the variables;
  no run and no theorem is about them. `ReadingInv` and `DiffInv` contain what the
  proofs need of them, as `JournalInv` contains `JournalTypeOK`.
- The promises of the toolchain are an assumption about a program outside the
  repository; on real output they are not checked here.

## 6. The plan, and what is not modelled

The plan of modules and runs is done. Proofs worth having next: that the shutdown of
`Process` is what `Runner!DrainServer` and the steps after it stand for, as `Verdict`
is for the launch to the return of a run; the safety half of `FingerprintCatchesUp`,
that a watcher whose snapshot is behind has a step to take.

### Not modelled

- `internal/config`: straight-line parsing at start-up, no state.
- Routing, JSON, logging, error responses (`respond.go`, most of `server.go`), the
  validation of paths and sizes, embedding (`internal/web`), rendering, the chart
  and the editor widget with its fallback (`editor.js`, `stats.js`, `util.js`):
  input and output without state a property could be about.
- SQLite, its pragmas and locking; `go test` itself; gofmt's formatter; the
  content of the exercises and `internal/tasksuite`.
- Two behaviours of the environment are taken as given: SIGKILL to the process
  group ends every process that holds the pipes (a process that left the group
  could block `execute`, which waits for the readers before `WaitDelay` counts; one
  that holds neither pipe blocks nothing and is one of the `strays` of `Runner`),
  and the pipe readers do not panic (they run outside `guard`).
- Two reads of one screen with a solve in between: the next reload shows it.
