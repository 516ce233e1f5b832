------------------------------- MODULE Trainer -------------------------------
(***************************************************************************)
(* The HTTP handlers of internal/httpapi around the store and the runner:  *)
(* starting and restarting attempts, submitting runs, and the goroutine    *)
(* (recordWhenDone) that books a verdict once the run reports it.          *)
(*                                                                         *)
(* A handler that makes several store calls is several steps: each call is *)
(* its own transaction and the process may die between two of them.  The   *)
(* tables survive a crash; runs, recorders and half-done handlers do not.  *)
(***************************************************************************)
EXTENDS Integers, Sequences, FiniteSets

CONSTANTS
  Tasks, Files, NoFiles, Times, DayLength, ResumeWindow, Beats,
  MaxAttempts, MaxRuns, MaxActive,  \* as in Store
  Runs,       \* run ids that may ever be issued
  NoAttempt,  \* "no attempt": the run was not submitted
  MaxCrashes, \* bound on the crashes of the process
  Impatient   \* whether handlers and recorders may end early: timeouts, failed calls

ASSUME TrainerAssumption ==
  /\ Times \subseteq Nat /\ Times # {}
  /\ DayLength \in Nat \ {0}
  /\ ResumeWindow \in Nat \ {0}
  /\ Beats \subseteq Nat
  /\ MaxAttempts \in Nat
  /\ MaxRuns \in Nat
  /\ MaxActive \in Nat
  /\ NoFiles \notin Files
  /\ IsFiniteSet(Runs)
  /\ NoAttempt \notin Nat
  /\ MaxCrashes \in Nat
  /\ Impatient \in BOOLEAN

VARIABLES
  now, attempts, snapshots, reviews,  \* the tables, as in Store
  drafts,     \* table drafts, by task
  life,       \* per run: its state in the runner (RunLife)
  run,        \* per run: the attempt and the files it was submitted with
  recorder,   \* per run: where recordWhenDone is
  restart,    \* per task: where a handler that starts over is
  crashes

tables == <<now, attempts, snapshots, reviews>>
vars == <<now, attempts, snapshots, reviews, drafts, life, run, recorder, restart, crashes>>

Db == INSTANCE Store
Life == INSTANCE RunLife WITH state <- life

\* "half": the run is counted, the solve it brought is not booked.
RecorderStates == {"none", "waiting", "counted", "booked", "skipped", "lost", "half"}

Init ==
  /\ Db!Init
  /\ Life!Init
  /\ drafts = [t \in Tasks |-> NoFiles]
  /\ run = [r \in Runs |-> [attempt |-> NoAttempt, files |-> NoFiles]]
  /\ recorder = [r \in Runs |-> "none"]
  /\ restart = [t \in Tasks |-> "idle"]
  /\ crashes = 0

------------------------------------------------------------------------------
(* Handlers of one store call. *)

AdvanceClock ==
  /\ Db!AdvanceClock
  /\ UNCHANGED <<drafts, life, run, recorder, restart, crashes>>

\* POST /tasks/{id}/attempts, opening the task.
HandleStart(t) ==
  /\ Db!StartAttempt(t)
  /\ UNCHANGED <<drafts, life, run, recorder, restart, crashes>>

HandleAbandon(i) ==
  /\ Db!AbandonAttempt(i)
  /\ UNCHANGED <<drafts, life, run, recorder, restart, crashes>>

HandleHeartbeat(i, d) ==
  /\ Db!AddActive(i, d)
  /\ UNCHANGED <<drafts, life, run, recorder, restart, crashes>>

\* Drafts belong to the task, whichever attempt the editor had open.
HandleSaveDraft(i, files) ==
  /\ drafts' = [drafts EXCEPT ![attempts[i].task] = files]
  /\ UNCHANGED <<now, attempts, snapshots, reviews, life, run, recorder, restart, crashes>>

------------------------------------------------------------------------------
(* Starting over: abandon, clear the draft, start. *)

RestartAbandons(t) ==
  /\ restart[t] = "idle"
  /\ Db!AbandonOpen(t)
  /\ restart' = [restart EXCEPT ![t] = "abandoned"]
  /\ UNCHANGED <<drafts, life, run, recorder, crashes>>

RestartClears(t) ==
  /\ restart[t] = "abandoned"
  /\ drafts' = [drafts EXCEPT ![t] = NoFiles]
  /\ restart' = [restart EXCEPT ![t] = "cleared"]
  /\ UNCHANGED <<now, attempts, snapshots, reviews, life, run, recorder, crashes>>

\* Mutant: no attempt can be open after AbandonOpen, so a row is just added.
RestartStarts_Unchecked(t) ==
  /\ restart[t] = "cleared"
  /\ Len(attempts) < MaxAttempts
  /\ attempts' = Append(attempts, Db!NewAttempt(t))
  /\ restart' = [restart EXCEPT ![t] = "idle"]
  /\ UNCHANGED <<now, snapshots, reviews, drafts, life, run, recorder, crashes>>

RestartStarts(t) ==
  /\ restart[t] = "cleared"
  /\ Db!StartAttempt(t)
  /\ restart' = [restart EXCEPT ![t] = "idle"]
  /\ UNCHANGED <<drafts, life, run, recorder, crashes>>

\* A call failed, or the browser is gone: the calls before it stand.
RestartFails(t) ==
  /\ Impatient
  /\ restart[t] # "idle"
  /\ restart' = [restart EXCEPT ![t] = "idle"]
  /\ UNCHANGED <<now, attempts, snapshots, reviews, drafts, life, run, recorder, crashes>>

------------------------------------------------------------------------------
(* Runs. *)

\* POST /runs: the attempt must exist - it need not be open - and the buffers
\* are saved before the run starts.
SubmitRun(r, i, files) ==
  /\ run[r].attempt = NoAttempt
  /\ run' = [run EXCEPT ![r] = [attempt |-> i, files |-> files]]
  /\ drafts' = [drafts EXCEPT ![attempts[i].task] = files]
  /\ UNCHANGED <<now, attempts, snapshots, reviews, life, recorder, restart, crashes>>

\* Runner.Start, then the recorder goroutine.
StartRun(r) ==
  /\ run[r].attempt # NoAttempt
  /\ recorder[r] = "none"
  /\ Life!Begin(r)
  /\ recorder' = [recorder EXCEPT ![r] = "waiting"]
  /\ UNCHANGED <<now, attempts, snapshots, reviews, drafts, run, restart, crashes>>

\* Whatever happens to the attempt meanwhile, the run goes on to its verdict.
ReportRun(r) ==
  /\ recorder[r] \in {"waiting", "lost"}
  /\ \E outcome \in Life!Outcomes : Life!Report(r, outcome)
  /\ UNCHANGED <<now, attempts, snapshots, reviews, drafts, run, recorder, restart, crashes>>

Reported(r) == life[r] \in Life!Outcomes

\* recordWhenDone: a canceled run is not counted.
SkipCanceled(r) ==
  /\ recorder[r] = "waiting"
  /\ life[r] = "canceled"
  /\ recorder' = [recorder EXCEPT ![r] = "skipped"]
  /\ UNCHANGED <<now, attempts, snapshots, reviews, drafts, life, run, restart, crashes>>

\* Mutant: canceled runs are counted too.
CountRun_Canceled(r) ==
  /\ recorder[r] = "waiting"
  /\ Reported(r)
  /\ Db!RecordRun(run[r].attempt, life[r] = "passed")
  /\ recorder' = [recorder EXCEPT ![r] =
       IF life[r] = "passed" THEN "counted" ELSE IF life[r] = "canceled" THEN "skipped" ELSE "booked"]
  /\ UNCHANGED <<drafts, life, run, restart, crashes>>

\* Mutant: the recorder stops after counting.
CountRun_NeverBooks(r) ==
  /\ recorder[r] = "waiting"
  /\ Reported(r) /\ life[r] # "canceled"
  /\ Db!RecordRun(run[r].attempt, life[r] = "passed")
  /\ recorder' = [recorder EXCEPT ![r] = "booked"]
  /\ UNCHANGED <<drafts, life, run, restart, crashes>>

CountRun(r) ==
  /\ recorder[r] = "waiting"
  /\ Reported(r) /\ life[r] # "canceled"
  /\ Db!RecordRun(run[r].attempt, life[r] = "passed")
  /\ recorder' = [recorder EXCEPT ![r] = IF life[r] = "passed" THEN "counted" ELSE "booked"]
  /\ UNCHANGED <<drafts, life, run, restart, crashes>>

\* Mutant: the snapshot is taken from the draft, which has moved on.
BookSolve_FromDraft(r) ==
  /\ recorder[r] = "counted"
  /\ Db!PassAttempt(run[r].attempt, drafts[attempts[run[r].attempt].task])
  /\ recorder' = [recorder EXCEPT ![r] = "booked"]
  /\ UNCHANGED <<drafts, life, run, restart, crashes>>

BookSolve(r) ==
  /\ recorder[r] = "counted"
  /\ Db!PassAttempt(run[r].attempt, run[r].files)
  /\ recorder' = [recorder EXCEPT ![r] = "booked"]
  /\ UNCHANGED <<drafts, life, run, restart, crashes>>

\* What is left of a run whose goroutine stops where it stands.
Dropped(r) ==
  CASE recorder[r] = "waiting" -> "lost"
    [] recorder[r] = "counted" -> "half"
    [] recorder[r] = "none" /\ run[r].attempt # NoAttempt -> "lost"
    [] OTHER -> recorder[r]

\* In a living process: the context ends (five minutes, shutdown) or a call fails,
\* before the verdict, after it, between counting and booking, or in Runner.Start.
GiveUp(r) ==
  /\ Impatient
  /\ Dropped(r) # recorder[r]
  /\ recorder' = [recorder EXCEPT ![r] = Dropped(r)]
  /\ UNCHANGED <<now, attempts, snapshots, reviews, drafts, life, run, restart, crashes>>

------------------------------------------------------------------------------
(* The process dies and is started again: only the tables are left. *)

Crash ==
  /\ crashes < MaxCrashes
  /\ crashes' = crashes + 1
  /\ recorder' = [r \in Runs |-> Dropped(r)]
  /\ life' = [r \in Runs |-> IF life[r] = "going" THEN "error" ELSE life[r]]
  /\ restart' = [t \in Tasks |-> "idle"]
  /\ UNCHANGED <<now, attempts, snapshots, reviews, drafts, run>>

------------------------------------------------------------------------------

RecorderStep(r) == SkipCanceled(r) \/ CountRun(r) \/ BookSolve(r)

Next ==
  \/ AdvanceClock
  \/ Crash
  \/ \E t \in Tasks : \/ HandleStart(t) \/ RestartAbandons(t) \/ RestartClears(t)
                       \/ RestartStarts(t) \/ RestartFails(t)
  \/ \E i \in DOMAIN attempts :
       \/ HandleAbandon(i)
       \/ \E d \in Beats : HandleHeartbeat(i, d)
       \/ \E files \in Files : HandleSaveDraft(i, files)
       \/ \E r \in Runs, files \in Files : SubmitRun(r, i, files)
  \/ \E r \in Runs : StartRun(r) \/ ReportRun(r) \/ RecorderStep(r) \/ GiveUp(r)

Spec == Init /\ [][Next]_vars

\* The handler and the recorder are goroutines, and the runner reports every run.
FairSpec ==
  /\ Spec
  /\ \A r \in Runs : /\ WF_vars(StartRun(r))
                     /\ WF_vars(ReportRun(r))
                     /\ WF_vars(RecorderStep(r))

------------------------------------------------------------------------------
(* Properties. *)

TypeOK ==
  /\ Db!TypeOK
  /\ drafts \in [Tasks -> Files \cup {NoFiles}]
  /\ life \in [Runs -> Life!Outcomes \cup {"absent", "going"}]
  /\ run \in [Runs -> [attempt : 1 .. MaxAttempts \cup {NoAttempt}, files : Files \cup {NoFiles}]]
  /\ recorder \in [Runs -> RecorderStates]
  /\ restart \in [Tasks -> {"idle", "abandoned", "cleared"}]
  /\ crashes \in 0 .. MaxCrashes

RunsOf(i) == {r \in Runs : run[r].attempt = i}

\* A task is only ever solved by a green run of that very attempt: the snapshot
\* is what that run was given, and the run was counted first, crash or not.
SolvedByItsRun ==
  \A i \in DOMAIN attempts : attempts[i].status = "passed" =>
    /\ \E r \in RunsOf(i) : life[r] = "passed" /\ snapshots[i] = run[r].files
    /\ attempts[i].runs > attempts[i].fails

\* The counters of an attempt count each reported run once, canceled and lost
\* ones not at all.
RunsCountedOnce ==
  \A i \in DOMAIN attempts :
    LET counted == {r \in RunsOf(i) : recorder[r] \in {"counted", "booked", "half"}}
    IN  /\ attempts[i].runs = Cardinality(counted)
        /\ attempts[i].fails = Cardinality({r \in counted : life[r] # "passed"})

\* The handlers only do to the tables what Store allows, in the orders it allows.
ImplementsStore == Db!Spec

\* A green run solves its attempt even if the browser is gone, unless the attempt
\* was abandoned meanwhile or the recorder died, or gave up, before it was done
\* ("half": between the two transactions).
GreenIsBooked ==
  \A r \in Runs : life[r] = "passed" ~>
    \/ recorder[r] \in {"lost", "half"}
    \/ \E i \in DOMAIN attempts :
         run[r].attempt = i /\ attempts[i].status \in {"passed", "abandoned"}

\* An abandoned attempt is closed without a solve, for good.
AbandonedIsFinal ==
  [][\A i \in DOMAIN attempts :
       attempts[i].status = "abandoned" => attempts'[i].status = "abandoned"]_vars
==============================================================================
