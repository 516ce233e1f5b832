-------------------------------- MODULE Editor --------------------------------
(***************************************************************************)
(* The task screen in the browser (internal/web/static/task.js), the       *)
(* router that opens and closes it (app.js), and the handlers it talks to: *)
(* drafts, heartbeats, runs and restarts of one task.                      *)
(*                                                                         *)
(* The script is single-threaded: a step runs to the next await.  Requests *)
(* are in flight together, are served in any order and may fail before or  *)
(* after the server has acted.  A text is the number of the keystroke that *)
(* made it, a tick of active time the number of the tick.                  *)
(***************************************************************************)
EXTENDS Integers, FiniteSets, Sequences

CONSTANTS
  Screens,     \* task screens that may ever be opened
  NoScreen,    \* disposeCurrent is null
  MaxEdits,    \* bound on keystrokes
  MaxTicks,    \* bound on ticks
  MaxBeat,     \* ticks maxHeartbeat lets one heartbeat carry
  MaxFlight,   \* bound on requests in flight when a screen in use sends another
  MaxTrouble   \* bound on attempts and failed requests, together

Page == "page"  \* any screen that is not a task

ASSUME EditorAssumption ==
  /\ IsFiniteSet(Screens) /\ NoScreen \notin Screens /\ Page \notin Screens
  /\ {MaxEdits, MaxTicks, MaxBeat, MaxFlight, MaxTrouble} \subseteq Nat

VARIABLES
  current,   \* the screen disposeCurrent belongs to
  rendering, \* screens, and possibly another page, whose render is awaited
  phase,     \* "new", "loading", "fetched", "mounted", "disposed" or "gone"
  mine,      \* the attempt a screen was opened for
  content,   \* the text in its editors
  saveTimer, \* an autosave is scheduled
  pending,   \* pendingActiveMs
  running,   \* where run() is: "idle", "flushing", "posting", "following" or "cut"
  solved,    \* the screen knows the attempt is solved
  net,       \* requests in flight
  draft,     \* the text in table drafts, 0 for none
  attempt,   \* the newest attempt
  status,    \* its status: "none", "open" or "closed", which is passed or abandoned
  verdict,   \* the run of a screen, on the server: "none", "going" or "green"
  credited,  \* how often each tick was added to active_ms
  typed,     \* keystrokes so far
  ticks,     \* the attempt each tick was spent on and the screen that saw it
  cleared,   \* the text at the latest restart
  failures,
  stale,     \* a text failed to arrive, or arrived after a newer one or a restart
  answerLost \* a heartbeat failed after the server had counted it

router == <<current, rendering, phase, mine>>
history == <<typed, ticks, cleared>>
faults == <<failures, stale, answerLost>>
server == <<draft, attempt, status, verdict, credited>>
vars == <<current, rendering, phase, mine, content, saveTimer, pending, running, solved, net,
          draft, attempt, status, verdict, credited, typed, ticks, cleared,
          failures, stale, answerLost>>

Ticked == DOMAIN ticks

MayTrouble == attempt + failures < MaxTrouble

MaySend == Cardinality(net) < MaxFlight

Request(kind, s, load, by) ==
  [kind |-> kind, screen |-> s, load |-> load, by |-> by, state |-> "sent"]

Init ==
  /\ current = NoScreen /\ rendering = {}
  /\ phase = [s \in Screens |-> "new"]
  /\ mine = [s \in Screens |-> 0]
  /\ content = [s \in Screens |-> 0]
  /\ saveTimer = [s \in Screens |-> FALSE]
  /\ pending = [s \in Screens |-> {}]
  /\ running = [s \in Screens |-> "idle"]
  /\ solved = [s \in Screens |-> FALSE]
  /\ net = {}
  /\ draft = 0 /\ attempt = 0 /\ status = "none"
  /\ verdict = [s \in Screens |-> "none"]
  /\ credited = [k \in 1 .. MaxTicks |-> 0]
  /\ typed = 0 /\ ticks = << >> /\ cleared = 0
  /\ failures = 0 /\ stale = FALSE /\ answerLost = FALSE

------------------------------------------------------------------------------
(* The router. *)

\* flushActivity up to its await: nothing is left to send once the task is solved.
MayFlush(s) == ~solved[s] /\ pending[s] # {}

Beat(s, by) == Request("heartbeat", s, pending[s], by)

\* dispose: the final flush goes out, but save returns at once because disposed
\* is already set; an open stream is closed.
Dispose(s) ==
  /\ saveTimer' = [saveTimer EXCEPT ![s] = FALSE]
  /\ net' = IF MayFlush(s) THEN net \cup {Beat(s, "timer")} ELSE net
  /\ pending' = IF MayFlush(s) THEN [pending EXCEPT ![s] = {}] ELSE pending
  /\ running' = IF running[s] = "following" THEN [running EXCEPT ![s] = "cut"] ELSE running

\* route() up to the await of the render: only what has finished rendering is
\* disposed of.
Route(target) ==
  /\ rendering' = rendering \cup {target}
  /\ current' = NoScreen
  /\ phase' = [s \in Screens |-> IF s = current THEN "disposed"
                                 ELSE IF s = target THEN "loading" ELSE phase[s]]
  /\ IF current = NoScreen THEN UNCHANGED <<saveTimer, net, pending, running>>
     ELSE Dispose(current)
  /\ UNCHANGED <<mine, content, solved, server, history, faults>>

Open(s) == phase[s] = "new" /\ Route(s)

\* Also while the task still loads: its screen then mounts over the page.
LeaveTask ==
  /\ Page \notin rendering /\ (current # NoScreen \/ rendering # {})
  /\ Route(Page)

PageRendered ==
  /\ Page \in rendering
  /\ rendering' = rendering \ {Page}
  /\ current' = NoScreen
  /\ UNCHANGED <<phase, mine, content, saveTimer, pending, running, solved, net, server, history, faults>>

\* renderTaskScreen: the task with its draft first, then the attempt.
FetchTask(s) ==
  /\ phase[s] = "loading"
  /\ phase' = [phase EXCEPT ![s] = "fetched"]
  /\ content' = [content EXCEPT ![s] = draft]
  /\ UNCHANGED <<current, rendering, mine, saveTimer, pending, running, solved, net, server,
                 history, faults>>

\* store.StartAttempt resumes the open attempt or starts one.
StartAttempt ==
  /\ IF status = "open" THEN UNCHANGED attempt
     ELSE MayTrouble /\ attempt' = attempt + 1
  /\ status' = "open"

Mount(s) ==
  /\ phase[s] = "fetched"
  /\ phase' = [phase EXCEPT ![s] = "mounted"]
  /\ rendering' = rendering \ {s}
  /\ current' = s
  /\ StartAttempt
  /\ mine' = [mine EXCEPT ![s] = attempt']
  /\ UNCHANGED <<content, saveTimer, pending, running, solved, net, draft, verdict, credited, history, faults>>

\* An error box takes the place of the screen.
LoadFails(s) ==
  /\ phase[s] \in {"loading", "fetched"} /\ MayTrouble
  /\ failures' = failures + 1
  /\ phase' = [phase EXCEPT ![s] = "gone"]
  /\ rendering' = rendering \ {s}
  /\ content' = [content EXCEPT ![s] = 0]
  /\ UNCHANGED <<current, mine, saveTimer, pending, running, solved, net, server,
                 history, stale, answerLost>>

------------------------------------------------------------------------------
(* The screen. *)

\* Mutant: the autosave is off while a run is under way.
Type_NoReschedule(s) ==
  /\ phase[s] = "mounted" /\ typed < MaxEdits
  /\ typed' = typed + 1
  /\ content' = [content EXCEPT ![s] = typed']
  /\ saveTimer' = [saveTimer EXCEPT ![s] = running[s] = "idle"]
  /\ UNCHANGED <<router, pending, running, solved, net, server, ticks, cleared, faults>>

\* onChange: the text is kept and the autosave starts over.
Type(s) ==
  /\ phase[s] = "mounted" /\ typed < MaxEdits
  /\ typed' = typed + 1
  /\ content' = [content EXCEPT ![s] = typed']
  /\ saveTimer' = [saveTimer EXCEPT ![s] = TRUE]
  /\ UNCHANGED <<router, pending, running, solved, net, server, ticks, cleared, faults>>

Save(s) ==
  /\ phase[s] = "mounted" /\ saveTimer[s] /\ MaySend
  /\ saveTimer' = [saveTimer EXCEPT ![s] = FALSE]
  /\ net' = net \cup {Request("draft", s, content[s], "timer")}
  /\ UNCHANGED <<router, content, pending, running, solved, server, history, faults>>

Tick(s) ==
  /\ phase[s] = "mounted" /\ ~solved[s]
  /\ Len(ticks) < MaxTicks
  /\ ticks' = Append(ticks, [attempt |-> mine[s], screen |-> s])
  /\ pending' = [pending EXCEPT ![s] = @ \cup {Len(ticks')}]
  /\ UNCHANGED <<router, content, saveTimer, running, solved, net, server, typed, cleared, faults>>

\* Mutant: what is pending is only forgotten when the answer arrives.
Flush_KeepsPending(s) ==
  /\ phase[s] = "mounted" /\ MayFlush(s) /\ MaySend
  /\ net' = net \cup {Beat(s, "timer")}
  /\ UNCHANGED <<router, content, saveTimer, pending, running, solved, server, history, faults>>

\* The timer's flushActivity.
Flush(s) ==
  /\ phase[s] = "mounted" /\ MayFlush(s) /\ MaySend
  /\ net' = net \cup {Beat(s, "timer")}
  /\ pending' = [pending EXCEPT ![s] = {}]
  /\ UNCHANGED <<router, content, saveTimer, running, solved, server, history, faults>>

Post(s) == Request("run", s, content[s], "run")

\* Bound: one run reaches the server, and one is tried at a time.
MayRun == \A s \in Screens : verdict[s] = "none" /\ running[s] = "idle"

\* run(): the flush is awaited before the submission is sent.
Run(s) ==
  /\ phase[s] = "mounted" /\ MayRun /\ MaySend
  /\ IF MayFlush(s)
     THEN /\ net' = net \cup {Beat(s, "run")}
          /\ pending' = [pending EXCEPT ![s] = {}]
          /\ running' = [running EXCEPT ![s] = "flushing"]
     ELSE /\ net' = net \cup {Post(s)}
          /\ running' = [running EXCEPT ![s] = "posting"]
          /\ UNCHANGED pending
  /\ UNCHANGED <<router, content, saveTimer, solved, server, history, faults>>

Restart(s) ==
  /\ phase[s] = "mounted" /\ MayTrouble /\ MaySend
  /\ \A r \in net : r.kind # "restart"
  /\ net' = net \cup {Request("restart", s, 0, "user")}
  /\ UNCHANGED <<router, content, saveTimer, pending, running, solved, server, history, faults>>

\* done, with the verdict, closes the stream; so does a server that stops or that
\* no longer knows the run.  The polling of onSolved only reads.
StreamEnds(s) ==
  /\ running[s] = "following"
  /\ running' = [running EXCEPT ![s] = "idle"]
  /\ \/ verdict[s] = "green" /\ solved' = [solved EXCEPT ![s] = TRUE]
     \/ UNCHANGED solved
  /\ UNCHANGED <<router, content, saveTimer, pending, net, server, history, faults>>

------------------------------------------------------------------------------
(* The server. *)

ServedAs(r, state) == net' = (net \ {r}) \cup {[r EXCEPT !.state = state]}

SaveDraft(text) ==
  /\ draft' = text
  /\ stale' = (stale \/ text < draft \/ text < cleared)

\* handleHeartbeat: too much at once is refused, and only an open attempt counts.
ServeHeartbeat(r) ==
  /\ r.kind = "heartbeat" /\ r.state = "sent"
  /\ ServedAs(r, IF Cardinality(r.load) > MaxBeat THEN "refused" ELSE "served")
  /\ credited' = [k \in 1 .. MaxTicks |->
                    IF /\ k \in r.load /\ Cardinality(r.load) <= MaxBeat
                       /\ status = "open" /\ mine[r.screen] = attempt
                    THEN credited[k] + 1 ELSE credited[k]]
  /\ UNCHANGED <<router, content, saveTimer, pending, running, solved, draft, attempt, status,
                 verdict, history, faults>>

\* Nobody looks at the answer.
ServeDraft(r) ==
  /\ r.kind = "draft"
  /\ net' = net \ {r}
  /\ SaveDraft(r.load)
  /\ UNCHANGED <<router, content, saveTimer, pending, running, solved, attempt, status,
                 verdict, credited, history, failures, answerLost>>

\* handleStartRun saves the buffers first.
ServeRun(r) ==
  /\ r.kind = "run" /\ r.state = "sent"
  /\ ServedAs(r, "served")
  /\ SaveDraft(r.load)
  /\ verdict' = [verdict EXCEPT ![r.screen] = "going"]
  /\ UNCHANGED <<router, content, saveTimer, pending, running, solved, attempt, status,
                 credited, history, failures, answerLost>>

\* handleStartAttempt with restart, a transaction each: AbandonOpen,
RestartAbandons(r) ==
  /\ r.kind = "restart" /\ r.state = "sent"
  /\ ServedAs(r, "abandoned")
  /\ status' = IF status = "open" THEN "closed" ELSE status
  /\ UNCHANGED <<router, content, saveTimer, pending, running, solved, draft, attempt, verdict,
                 credited, history, faults>>

\* ClearDraft,
RestartClears(r) ==
  /\ r.kind = "restart" /\ r.state = "abandoned"
  /\ ServedAs(r, "cleared")
  /\ draft' = 0 /\ cleared' = typed + 1
  /\ UNCHANGED <<router, content, saveTimer, pending, running, solved, attempt, status, verdict,
                 credited, typed, ticks, faults>>

\* and StartAttempt, for which another screen may have opened one by now.
RestartStarts(r) ==
  /\ r.kind = "restart" /\ r.state = "cleared"
  /\ ServedAs(r, "served")
  /\ StartAttempt
  /\ UNCHANGED <<router, content, saveTimer, pending, running, solved, draft, verdict, credited,
                 history, faults>>

\* Any other end is, to a screen and to its attempt, as if the run went on.
RunEnds(s) ==
  /\ verdict[s] = "going"
  /\ verdict' = [verdict EXCEPT ![s] = "green"]
  /\ UNCHANGED <<router, content, saveTimer, pending, running, solved, net, draft, attempt,
                 status, credited, history, faults>>

\* recordWhenDone, at its own pace.
BookSolve ==
  /\ status = "open"
  /\ \E s \in Screens : verdict[s] = "green" /\ mine[s] = attempt
  /\ status' = "closed"
  /\ UNCHANGED <<router, content, saveTimer, pending, running, solved, net, draft, attempt,
                 verdict, credited, history, faults>>

------------------------------------------------------------------------------
(* Answers. *)

\* run() goes on after its flush, whatever became of it - and of the screen.
AfterFlush(r) ==
  IF r.by = "run" /\ phase[r.screen] # "gone"
  THEN /\ net' = (net \ {r}) \cup {Post(r.screen)}
       /\ running' = [running EXCEPT ![r.screen] = "posting"]
  ELSE net' = net \ {r} /\ UNCHANGED running

\* location.reload: the script starts from nothing; what was sent may still arrive.
Reload ==
  /\ net' = {r \in net : r.state \notin {"served", "refused"}}
  /\ current' = NoScreen /\ rendering' = {}
  /\ phase' = [s \in Screens |-> IF phase[s] = "new" THEN "new" ELSE "gone"]
  /\ saveTimer' = [s \in Screens |-> FALSE]
  /\ pending' = [s \in Screens |-> {}]
  /\ running' = [s \in Screens |-> "idle"]
  /\ content' = [s \in Screens |-> 0]
  /\ solved' = [s \in Screens |-> FALSE]

Answer(r) ==
  /\ r.state = "served"
  /\ IF r.kind = "restart" /\ phase[r.screen] # "gone"
     THEN Reload /\ UNCHANGED mine
     ELSE /\ \/ r.kind = "heartbeat" /\ AfterFlush(r)
             \/ r.kind = "restart" /\ net' = net \ {r} /\ UNCHANGED running
             \/ /\ r.kind = "run" /\ net' = net \ {r}
                /\ running' = IF phase[r.screen] = "gone" THEN running
                              ELSE [running EXCEPT ![r.screen] = "following"]
          /\ UNCHANGED <<router, content, saveTimer, pending, solved>>
  /\ UNCHANGED <<server, history, faults>>

\* Mutant: a heartbeat that failed is forgotten.
PutBack_Never(r) == UNCHANGED pending

\* The next flush carries it.
PutBack(r) ==
  pending' = IF phase[r.screen] = "gone" THEN pending
             ELSE [pending EXCEPT ![r.screen] = @ \cup r.load]

\* Mutant: the error path of run() leaves the button disabled.
AfterPostFailed_Stuck(r) == UNCHANGED running

AfterPostFailed(r) ==
  running' = IF phase[r.screen] = "gone" THEN running ELSE [running EXCEPT ![r.screen] = "idle"]

\* What the catch blocks do: a draft is only reported, a restart not even that.
Rejected(r) ==
  \/ r.kind = "heartbeat" /\ AfterFlush(r) /\ PutBack(r)
  \/ r.kind = "run" /\ net' = net \ {r} /\ AfterPostFailed(r) /\ UNCHANGED pending
  \/ r.kind \in {"draft", "restart"} /\ net' = net \ {r} /\ UNCHANGED <<pending, running>>

Refuse(r) ==
  /\ r.state = "refused"
  /\ Rejected(r)
  /\ UNCHANGED <<router, content, saveTimer, solved, server, history, faults>>

\* The connection breaks or the handler fails: before, between or after its steps.
Fail(r) ==
  /\ r.state # "refused" /\ MayTrouble
  /\ Rejected(r)
  /\ failures' = failures + 1
  /\ stale' = (stale \/ (r.kind \in {"draft", "run"} /\ r.state = "sent"))
  /\ answerLost' = (answerLost \/ (r.kind = "heartbeat" /\ r.state = "served"))
  /\ UNCHANGED <<router, content, saveTimer, solved, server, history>>

ServeRestart(r) == RestartAbandons(r) \/ RestartClears(r) \/ RestartStarts(r)

Serve(r) == ServeHeartbeat(r) \/ ServeDraft(r) \/ ServeRun(r) \/ ServeRestart(r)

Next ==
  \/ LeaveTask \/ PageRendered \/ BookSolve
  \/ \E s \in Screens :
       \/ Open(s) \/ FetchTask(s) \/ Mount(s) \/ LoadFails(s)
       \/ Type(s) \/ Save(s) \/ Tick(s) \/ Flush(s) \/ Run(s) \/ Restart(s)
       \/ StreamEnds(s) \/ RunEnds(s)
  \/ \E r \in net : Serve(r) \/ Answer(r) \/ Refuse(r) \/ Fail(r)

Spec == Init /\ [][Next]_vars

------------------------------------------------------------------------------
(* Properties. *)

TypeOK ==
  /\ current \in Screens \cup {NoScreen}
  /\ rendering \subseteq Screens \cup {Page}
  /\ mine \in [Screens -> 0 .. MaxTrouble]
  /\ content \in [Screens -> 0 .. MaxEdits]
  /\ pending \in [Screens -> SUBSET Ticked]
  /\ draft \in 0 .. MaxEdits /\ attempt \in 0 .. MaxTrouble
  /\ \A r \in net : r.screen \in Screens

\* The attempt the tick was spent on can still take it, and the page is the same.
Owed(k) == ticks[k].attempt = attempt /\ status = "open" /\ phase[ticks[k].screen] # "gone"

\* Active time is neither lost nor counted twice, however flushes, failures, runs
\* and screens overlap: while an attempt is open, and until the page is reloaded,
\* every tick spent on it is on a screen, under way or credited, and it is credited
\* once - unless a heartbeat failed after the server had counted it.  A tick put back
\* on a screen that was left, or is solved, is on a screen, though nothing sends it;
\* and two screens that tick at the same time have different ticks.
TicksAreConserved ==
  \A k \in Ticked :
    /\ credited[k] > 1 => answerLost
    /\ Owed(k) => \/ credited[k] > 0
                  \/ \E s \in Screens : k \in pending[s]
                  \/ \E r \in net : r.kind = "heartbeat" /\ k \in r.load

\* Nothing that could still save a text is scheduled or under way.
Saved(s) == ~saveTimer[s] /\ \A r \in net : r.kind \notin {"draft", "run"}

\* Once the autosave has settled, the newest text is the draft, on the screen it
\* was typed on - unless a request failed or an older text overtook it.
DraftIsSaved ==
  \A s \in Screens :
    phase[s] = "mounted" /\ content[s] = typed /\ typed >= cleared /\ Saved(s) =>
      draft = typed \/ stale

\* The run button is never left disabled: while it is, on a screen the user is on,
\* a request of run() is under way whose outcome moves it on, or it follows a run
\* the server knows; that the stream then brings the verdict is RunStream's question.
ButtonComesBack ==
  \A s \in Screens : phase[s] = "mounted" =>
    LET underWay(kind) == \E r \in net : r.screen = s /\ r.kind = kind /\ r.by = "run"
    IN  /\ running[s] = "flushing" => underWay("heartbeat")
        /\ running[s] = "posting" => underWay("run")
        /\ running[s] = "following" => verdict[s] # "none"
        /\ running[s] # "cut"

\* Leaving a task keeps the text that was not flushed yet.
LeavingKeepsDraft ==
  \A s \in Screens :
    phase[s] = "disposed" /\ content[s] = typed /\ typed >= cleared /\ Saved(s) =>
      draft = typed \/ stale
==============================================================================
