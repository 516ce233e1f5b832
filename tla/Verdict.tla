-------------------------------- MODULE Verdict --------------------------------
(***************************************************************************)
(* From the output of one go test command to the verdict: the two pipes    *)
(* and their readers (readJSON and readRaw of internal/runner/runner.go)   *)
(* and the accumulator of accumulate.go that both write to.                *)
(*                                                                         *)
(* The command is outside the repository: it follows one of Scripts, which *)
(* says what it prints where, how it ends and what is true of it.  A line  *)
(* is a test2json event or raw text, and its text is of a kind the         *)
(* accumulator tells apart.  The lines are also appended to the run's      *)
(* event buffer, which is RunStream's subject.                             *)
(***************************************************************************)
EXTENDS Integers, Sequences, SequencesExt, FiniteSetsExt

CONSTANTS
  Scripts,  \* what the command may do: see Script
  PipeSize, \* lines a pipe holds before a write blocks
  MaxLines  \* maxDiagnosticLines

VARIABLES
  script,   \* the script of this command
  printed,  \* lines written so far, per stream
  pipe,     \* lines in each pipe
  reader,   \* "reading", "done", or "stopped" by a line it cannot hold
  process,  \* "alive", "zero", "nonzero" or "killed"
  canceled, \* ctx is done: canceled by the user or by the shutdown
  overdue,  \* hardCtx passed its own deadline
  acc,      \* the accumulator
  result    \* what acc.result returned, or NoResult

verdictVars == <<script, printed, pipe, reader, process, canceled, overdue, acc, result>>

Streams == {"stdout", "stderr"}

\* "compile" contains one of compileMarkers, "long" does not fit the 4 MB buffer.
Texts == {"none", "blank", "plain", "compile", "panic", "testTimeout", "long"}

Line == [json : BOOLEAN, action : STRING, test : {"", "T", "U", "T/s"}, text : Texts]

Script ==
  [says : [Streams -> Seq(Line)],       \* what it prints
   ends : {"zero", "nonzero", "never"}, \* its exit status
   verdict : STRING, passed : Nat, failed : Nat, skipped : Nat]  \* what is true of it

ASSUME VerdictAssumption ==
  /\ PipeSize \in Nat \ {0}
  /\ MaxLines \in Nat \ {0}
  /\ \A s \in Scripts : s \in Script

NoResult == [outcome |-> "none"]

------------------------------------------------------------------------------
(* The accumulator. *)

Empty ==
  [passed |-> 0, failed |-> 0, skipped |-> 0, failedTests |-> << >>,
   buildFailed |-> FALSE, buildOutput |-> << >>, raw |-> << >>,
   sawTestTimeout |-> FALSE, sawPanic |-> FALSE, sawTests |-> FALSE]

IsSub(test) == test = "T/s"

AppendCapped(lines, text) ==
  IF text \in {"none", "blank"} \/ Len(lines) = MaxLines THEN lines ELSE Append(lines, text)

\* Mutant: a marker counts whoever prints it.
BuildLine_AnyTest(ev) == ev.text = "compile"

\* Package level output with a compiler phrase in it.
BuildLine(ev) == ev.test = "" /\ ev.text = "compile"

\* buildOutput after one event: a build-output event with a compiler phrase adds
\* its text twice.
Quoted(lines, ev) ==
  LET first == IF ev.action = "build-output" THEN AppendCapped(lines, ev.text) ELSE lines
  IN  IF BuildLine(ev) THEN AppendCapped(first, ev.text) ELSE first

\* Mutant: table rows are counted as tests.
Counts_Subtests(ev, action) == ev.test # "" /\ ev.action = action

\* Only test functions count, not their subtests.
Counts(ev, action) == ev.test # "" /\ ~IsSub(ev.test) /\ ev.action = action

One(condition) == IF condition THEN 1 ELSE 0

Note(a, ev) ==
  [passed  |-> a.passed + One(Counts(ev, "pass")),
   failed  |-> a.failed + One(Counts(ev, "fail")),
   skipped |-> a.skipped + One(Counts(ev, "skip")),
   failedTests |-> IF ev.test # "" /\ ev.action = "fail" THEN Append(a.failedTests, ev.test)
                   ELSE a.failedTests,
   buildFailed |-> a.buildFailed \/ ev.action = "build-fail" \/ BuildLine(ev),
   buildOutput |-> Quoted(a.buildOutput, ev),
   raw |-> a.raw,
   sawTestTimeout |-> a.sawTestTimeout \/ ev.text = "testTimeout",
   sawPanic |-> a.sawPanic \/ ev.text = "panic",
   sawTests |-> a.sawTests \/ ev.test # ""]

NoteRaw(a, line) ==
  [a EXCEPT !.raw = AppendCapped(@, line.text),
            !.buildFailed = @ \/ line.text = "compile",
            !.buildOutput = IF line.text = "compile" THEN AppendCapped(@, line.text) ELSE @]

Diagnostic(a) == IF a.buildOutput # << >> THEN a.buildOutput ELSE a.raw

\* Mutant: the exit status is asked before anything else.
Outcome_ExitFirst(a) ==
  CASE process = "zero"            -> "passed"
    [] canceled                    -> "canceled"
    [] ~canceled /\ overdue        -> "timeout"
    [] ~canceled /\ ~overdue /\ a.sawTestTimeout -> "timeout"
    [] OTHER -> IF a.buildFailed \/ (~a.sawTests /\ ~a.sawPanic) THEN "build_failed" ELSE "failed"

\* The order of the cases is the code's: what was done to the command first, then
\* what it printed, then its status.  Its branch for a Wait error that is no exit
\* status is left out: such an error comes with a done context, caught first.
Outcome(a) ==
  IF canceled THEN "canceled"
  ELSE IF overdue \/ a.sawTestTimeout THEN "timeout"
  ELSE IF a.buildFailed THEN "build_failed"
  ELSE IF process = "zero" THEN "passed"
  ELSE IF ~a.sawTests /\ ~a.sawPanic THEN "build_failed"
  ELSE "failed"

ResultOf(a) ==
  [outcome |-> Outcome(a), passed |-> a.passed, failed |-> a.failed, skipped |-> a.skipped,
   failedTests |-> a.failedTests,
   quotes |-> IF Outcome(a) = "build_failed" \/ (Outcome(a) = "failed" /\ ~a.sawTests)
              THEN Diagnostic(a) ELSE << >>]

------------------------------------------------------------------------------
(* What go test -json promises of the commands it runs. *)

\* Where the output has an event of a test function with this action, an event with
\* this action, an event with this text, and an event of any test.
Reports(s, action) ==
  {n \in DOMAIN s.says["stdout"] : s.says["stdout"][n].json /\ Counts(s.says["stdout"][n], action)}
Acts(s, action) ==
  {n \in DOMAIN s.says["stdout"] : s.says["stdout"][n].json /\ s.says["stdout"][n].action = action}
Shows(s, text) ==
  {n \in DOMAIN s.says["stdout"] : s.says["stdout"][n].json /\ s.says["stdout"][n].text = text}
Tests(s) ==
  {n \in DOMAIN s.says["stdout"] : s.says["stdout"][n].json /\ s.says["stdout"][n].test # ""}

\* Where it has a compiler phrase outside of all tests, and where outside of all events.
BuildLines(s) == Shows(s, "compile") \ Tests(s)
RawBuildLines(s, stream) ==
  {n \in DOMAIN s.says[stream] :
    /\ s.says[stream][n].text = "compile"
    /\ stream = "stdout" => ~s.says[stream][n].json}

SaysBuildFailed(s) ==
  Acts(s, "build-fail") \cup BuildLines(s) \cup RawBuildLines(s, "stdout")
    \cup RawBuildLines(s, "stderr") # {}

\* The counts are those of the events, and what is no event belongs to no test.  The
\* status is zero only if everything passed; otherwise a command that started tests,
\* or panicked before any, failed, and one that did neither was not built.  Only a
\* failed build has a build-fail event or a compiler phrase on stderr, which is the
\* toolchain's own; such a phrase comes with every build-fail event, and what else
\* is quoted of the build leaves room for it.
KeepsPromises(s) ==
  /\ s.passed = Cardinality(Reports(s, "pass"))
  /\ s.failed = Cardinality(Reports(s, "fail"))
  /\ s.skipped = Cardinality(Reports(s, "skip"))
  /\ \A n \in DOMAIN s.says["stdout"] : ~s.says["stdout"][n].json => s.says["stdout"][n].test = ""
  /\ s.ends = "zero" => s.verdict = "passed" /\ s.failed = 0
  /\ s.ends = "nonzero" /\ Shows(s, "testTimeout") = {} /\ ~SaysBuildFailed(s) =>
       s.verdict = IF Tests(s) \cup Shows(s, "panic") = {} THEN "build_failed" ELSE "failed"
  /\ Acts(s, "build-fail") \cup RawBuildLines(s, "stderr") # {} => s.verdict = "build_failed"
  /\ Acts(s, "build-fail") # {} =>
       (Acts(s, "build-output") \cap Shows(s, "compile")) \cup BuildLines(s)
         \cup RawBuildLines(s, "stdout") \cup RawBuildLines(s, "stderr") # {}
  /\ Cardinality(Acts(s, "build-output") \ Shows(s, "compile")) < MaxLines

ASSUME ToolchainAssumption == \A s \in Scripts : KeepsPromises(s)

------------------------------------------------------------------------------
(* The command. *)

VerdictInit ==
  /\ script \in Scripts
  /\ printed = [s \in Streams |-> 0]
  /\ pipe = [s \in Streams |-> << >>]
  /\ reader = [s \in Streams |-> "reading"]
  /\ process = "alive"
  /\ canceled = FALSE /\ overdue = FALSE
  /\ acc = Empty
  /\ result = NoResult

\* A write to a full pipe blocks until its reader takes something.
Write(s) ==
  /\ process = "alive"
  /\ printed[s] < Len(script.says[s])
  /\ Len(pipe[s]) < PipeSize
  /\ pipe' = [pipe EXCEPT ![s] = Append(@, script.says[s][printed[s] + 1])]
  /\ printed' = [printed EXCEPT ![s] = @ + 1]
  /\ UNCHANGED <<script, reader, process, canceled, overdue, acc, result>>

\* A line of megabytes is still being written while it sits in the pipe.
Exit ==
  /\ process = "alive"
  /\ script.ends # "never"
  /\ \A s \in Streams : /\ printed[s] = Len(script.says[s])
                        /\ \A n \in DOMAIN pipe[s] : pipe[s][n].text # "long"
  /\ process' = script.ends
  /\ UNCHANGED <<script, printed, pipe, reader, canceled, overdue, acc, result>>

Command == Exit \/ \E s \in Streams : Write(s)

\* cmd.Cancel when the context of the command is done.
Kill ==
  /\ process = "alive"
  /\ canceled \/ overdue
  /\ process' = "killed"
  /\ UNCHANGED <<script, printed, pipe, reader, canceled, overdue, acc, result>>

CancelRun ==
  /\ result = NoResult /\ ~canceled
  /\ canceled' = TRUE
  /\ UNCHANGED <<script, printed, pipe, reader, process, overdue, acc, result>>

PassDeadline ==
  /\ result = NoResult /\ ~overdue /\ ~canceled
  /\ overdue' = TRUE
  /\ UNCHANGED <<script, printed, pipe, reader, process, canceled, acc, result>>

------------------------------------------------------------------------------
(* The two readers; the accumulator's mutex makes each line one step. *)

Noted(s, line) == IF s = "stdout" /\ line.json THEN Note(acc, line) ELSE NoteRaw(acc, line)

\* Mutant: one goroutine reads the pipes, one after the other.
Read_InTurn(s) ==
  /\ reader[s] = "reading" /\ pipe[s] # << >>
  /\ s = "stderr" => reader["stdout"] # "reading"
  /\ Head(pipe[s]).text # "long"
  /\ acc' = Noted(s, Head(pipe[s]))
  /\ pipe' = [pipe EXCEPT ![s] = Tail(@)]
  /\ UNCHANGED <<script, printed, reader, process, canceled, overdue, result>>

Read(s) ==
  /\ reader[s] = "reading" /\ pipe[s] # << >>
  /\ Head(pipe[s]).text # "long"
  /\ acc' = Noted(s, Head(pipe[s]))
  /\ pipe' = [pipe EXCEPT ![s] = Tail(@)]
  /\ UNCHANGED <<script, printed, reader, process, canceled, overdue, result>>

\* bufio.ErrTooLong: the scanner gives up; what is left of the line may or may
\* not fit in the pipe.
ReadTooLong(s) ==
  /\ reader[s] = "reading" /\ pipe[s] # << >>
  /\ Head(pipe[s]).text = "long"
  /\ reader' = [reader EXCEPT ![s] = "stopped"]
  /\ \E left \in {pipe[s], Tail(pipe[s])} : pipe' = [pipe EXCEPT ![s] = left]
  /\ UNCHANGED <<script, printed, process, canceled, overdue, acc, result>>

ReadEnd(s) ==
  /\ reader[s] = "reading" /\ pipe[s] = << >>
  /\ process # "alive"
  /\ reader' = [reader EXCEPT ![s] = "done"]
  /\ UNCHANGED <<script, printed, pipe, process, canceled, overdue, acc, result>>

Reader(s) == Read(s) \/ ReadTooLong(s) \/ ReadEnd(s)

\* Mutant: cmd.Wait, which closes the pipes, does not wait for the readers.
Conclude_WithoutReaders ==
  /\ result = NoResult
  /\ process # "alive"
  /\ result' = ResultOf(acc)
  /\ UNCHANGED <<script, printed, pipe, reader, process, canceled, overdue, acc>>

\* wg.Wait, cmd.Wait, acc.result.
Conclude ==
  /\ result = NoResult
  /\ \A s \in Streams : reader[s] # "reading"
  /\ process # "alive"
  /\ result' = ResultOf(acc)
  /\ UNCHANGED <<script, printed, pipe, reader, process, canceled, overdue, acc>>

VerdictNext ==
  \/ Command \/ Kill \/ CancelRun \/ PassDeadline
  \/ \E s \in Streams : Reader(s)
  \/ Conclude

VerdictSpec == VerdictInit /\ [][VerdictNext]_verdictVars

\* Goroutines run, a command that can write or end does, and SIGKILL works.  No
\* clock is assumed: the deadline may come early, late or never.
VerdictFairSpec ==
  /\ VerdictSpec
  /\ WF_verdictVars(Command) /\ WF_verdictVars(Kill) /\ WF_verdictVars(Conclude)
  /\ \A s \in Streams : WF_verdictVars(Reader(s))

------------------------------------------------------------------------------
(* Properties. *)

VerdictTypeOK ==
  /\ script \in Scripts
  /\ \A s \in Streams : printed[s] \in 0 .. Len(script.says[s]) /\ Len(pipe[s]) <= PipeSize
  /\ reader \in [Streams -> {"reading", "done", "stopped"}]
  /\ process \in {"alive", "zero", "nonzero", "killed"}
  /\ canceled \in BOOLEAN /\ overdue \in BOOLEAN
  /\ Len(acc.buildOutput) <= MaxLines /\ Len(acc.raw) <= MaxLines

\* The script prints something too long for a scanner.
HasLongLine == \E s \in Streams : \E n \in DOMAIN script.says[s] : script.says[s][n].text = "long"

\* The script prints, on behalf of the program, what only the toolchain should say.
Misleads ==
  \E n \in DOMAIN script.says["stdout"] :
    LET line == script.says["stdout"][n]
    IN  \/ /\ line.text = "compile" /\ line.test = ""
           /\ script.verdict # "build_failed"
        \/ line.text = "testTimeout" /\ script.verdict # "timeout"

\* A green verdict is never wrong: whatever the command prints, however the pipes
\* interleave and whenever it is canceled or killed, "passed" means that the
\* command ended by itself, with status zero, and nothing was done to it before
\* its output was read.
NoFalseGreen ==
  result.outcome = "passed" =>
    /\ script.verdict = "passed"
    /\ process = "zero" /\ ~canceled /\ ~overdue
    /\ HasLongLine \/ (result.failed = 0 /\ result.passed = script.passed)

\* A command that nobody interfered with gets the verdict it deserves and the
\* counts of its test functions, in every interleaving of the two streams; when
\* the build failed, the message quotes what the compiler said.
TrueVerdict ==
  result # NoResult /\ ~canceled /\ ~overdue /\ ~HasLongLine /\ ~Misleads =>
    /\ result.outcome = script.verdict
    /\ <<result.passed, result.failed, result.skipped>>
         = <<script.passed, script.failed, script.skipped>>
    /\ acc.buildFailed /\ result.outcome = "build_failed" => Contains(result.quotes, "compile")

\* No output wedges the runner: a command that ends reports without any help from
\* the deadline, and one that hangs, or fills a pipe whose reader gave up on an
\* over-long line, reports once the deadline or a cancellation comes.
EveryRunReports ==
  (script.ends # "never" /\ ~HasLongLine) \/ canceled \/ overdue ~> result # NoResult
==============================================================================
