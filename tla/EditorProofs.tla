---------------------------- MODULE EditorProofs ----------------------------
(***************************************************************************)
(* Proofs about Editor, for any number of screens, keystrokes, ticks and   *)
(* failed requests.                                                        *)
(***************************************************************************)
EXTENDS Editor, SequenceTheorems, FiniteSetTheorems, TLAPS

------------------------------------------------------------------------------
(* The inductive invariant. *)

\* A screen that has not been shown yet.
Early == {"new", "loading", "fetched"}

\* What the server has made of a request.
Later == {"abandoned", "cleared", "served", "refused"}

Bodies(kinds, loads) ==
  [kind : kinds, screen : Screens, load : loads, by : {"timer", "run", "user"},
   state : {"sent"} \cup Later]

Wire == Bodies({"heartbeat"}, SUBSET (1 .. MaxTicks)) \cup Bodies({"draft", "run", "restart"}, Nat)

Shapes ==
  /\ current \in Screens \cup {NoScreen} /\ rendering \subseteq Screens \cup {Page}
  /\ phase \in [Screens -> Early \cup {"mounted", "disposed", "gone"}]
  /\ mine \in [Screens -> Nat] /\ content \in [Screens -> Nat]
  /\ saveTimer \in [Screens -> BOOLEAN] /\ solved \in [Screens -> BOOLEAN]
  /\ pending \in [Screens -> SUBSET (1 .. MaxTicks)]
  /\ running \in [Screens -> {"idle", "flushing", "posting", "following", "cut"}]
  /\ verdict \in [Screens -> {"none", "going", "green"}]
  /\ net \subseteq Wire
  /\ draft \in Nat /\ cleared \in Nat
  /\ attempt \in 0 .. MaxTrouble /\ failures \in Nat
  /\ status \in {"none", "open", "closed"}
  /\ credited \in [1 .. MaxTicks -> Nat]
  /\ typed \in 0 .. MaxEdits
  /\ ticks \in Seq([attempt : Nat, screen : Screens]) /\ Len(ticks) <= MaxTicks
  /\ stale \in BOOLEAN /\ answerLost \in BOOLEAN

\* A screen holds ticks of its own, and nothing before it is shown.
ScreenFits(s) ==
  /\ content[s] <= typed /\ mine[s] <= attempt
  /\ \A k \in pending[s] : k \in Ticked /\ ticks[k].screen = s
  /\ phase[s] \in Early => pending[s] = {} /\ running[s] = "idle"

\* A request was sent by a screen that was shown; a heartbeat carries its ticks.
RequestFits(r) ==
  /\ phase[r.screen] \notin Early
  /\ r.kind = "heartbeat" => \A k \in r.load : k \in Ticked /\ ticks[k].screen = r.screen
  /\ r.kind \in {"draft", "run"} => r.load \in 0 .. typed
  /\ r.kind = "run" => r.by = "run" /\ (r.state = "served" => verdict[r.screen] # "none")

\* A tick was spent on the attempt of a screen that was shown.
TickFits(k) ==
  phase[ticks[k].screen] \notin Early /\ ticks[k].attempt = mine[ticks[k].screen]

Fits ==
  /\ \A s \in Screens : ScreenFits(s)
  /\ \A r \in net : RequestFits(r)
  /\ \A k \in Ticked : TickFits(k)
  /\ current # NoScreen => phase[current] = "mounted"
  /\ draft <= typed

Beats == {r \in net : r.kind = "heartbeat"}

Carried(k) ==
  \/ \E s \in Screens : k \in pending[s]
  \/ \E r \in Beats : r.state # "served" /\ k \in r.load

\* A tick that is still owed was credited or is on its way to be.
Kept(k) == Owed(k) => credited[k] > 0 \/ Carried(k)

\* A tick is in one place: while it is on a screen or on its way it was not
\* credited, and no second heartbeat carries it.
Once(k) ==
  /\ credited[k] <= 1
  /\ (\E s \in Screens : k \in pending[s]) =>
       credited[k] = 0 /\ \A r \in Beats : k \notin r.load
  /\ \A r \in Beats : k \in r.load /\ r.state # "served" => credited[k] = 0
  /\ \A r1, r2 \in Beats : k \in r1.load /\ k \in r2.load => r1 = r2

Time ==
  /\ \A k \in Ticked : Kept(k) /\ (answerLost \/ Once(k))
  /\ \A k \in (1 .. MaxTicks) \ Ticked : credited[k] = 0

\* Submissions the server has not seen.
Texts == {r \in net : r.kind \in {"draft", "run"} /\ r.state = "sent"}

\* The newest text is on a screen: it will be saved, is under way, or was saved.
Safe(s) ==
  phase[s] \in {"fetched", "mounted"} /\ content[s] = typed /\ typed >= cleared =>
    \/ draft = typed \/ stale
    \/ saveTimer[s]
    \/ \E r \in Texts : r.load = typed

UnderWay(s, kind) == \E r \in net : r.screen = s /\ r.kind = kind /\ r.by = "run"

\* The script of run() is where its request is.
InStep(s) ==
  phase[s] = "mounted" =>
    /\ running[s] = "flushing" => UnderWay(s, "heartbeat")
    /\ running[s] = "posting" => UnderWay(s, "run")
    /\ running[s] = "following" => verdict[s] # "none"
    /\ running[s] # "cut"

IInv ==
  /\ Shapes /\ Fits /\ Time
  /\ \A s \in Screens : Safe(s) /\ InStep(s)

------------------------------------------------------------------------------
(* Every step keeps the shapes and goes on. *)

\* What no step takes back.
Onward ==
  /\ \A s \in Screens : /\ phase'[s] \in Early => phase[s] \in Early
                        /\ phase[s] = "gone" => phase'[s] = "gone"
                        /\ verdict'[s] = "none" => verdict[s] = "none"
                        /\ mine'[s] # mine[s] => phase[s] = "fetched" /\ mine'[s] = attempt'
  /\ \/ attempt' = attempt /\ (status' = "open" => status = "open")
     \/ attempt' > attempt
  /\ typed' >= typed
  /\ answerLost => answerLost'
  /\ stale => stale'
  /\ \A k \in Ticked : k \in Ticked' /\ ticks'[k] = ticks[k]

\* A request with another state is otherwise the same.
LEMMA Marked ==
  ASSUME Shapes, NEW r \in net, NEW state \in Later
  PROVE  LET m == [r EXCEPT !.state = state]
         IN  /\ m.kind = r.kind /\ m.screen = r.screen /\ m.load = r.load /\ m.by = r.by
             /\ m.state = state /\ m \in Wire
BY DEF Shapes, Wire, Bodies, Later

\* The fields of a request in flight.
LEMMA Fields ==
  ASSUME Shapes, NEW r \in net
  PROVE  /\ r.screen \in Screens
         /\ r.kind = "heartbeat" => r.load \in SUBSET (1 .. MaxTicks)
         /\ r.kind # "heartbeat" => r.load \in Nat
         /\ r.kind \in {"heartbeat", "draft", "run", "restart"}
BY DEF Shapes, Wire, Bodies, Later

\* What the script sends has the shape of a request.
LEMMA Sent ==
  ASSUME Shapes, NEW s \in Screens, NEW by \in {"timer", "run"}
  PROVE  /\ Beat(s, by) \in Wire /\ Post(s) \in Wire
         /\ Request("draft", s, content[s], "timer") \in Wire
         /\ Request("restart", s, 0, "user") \in Wire
BY DEF Shapes, Beat, Post, Request, Wire, Bodies, Later

\* Only requests are put on the wire.
LEMMA WireStep ==
  ASSUME Shapes, [Next]_vars
  PROVE  net' \subseteq Wire
<1>1. net \subseteq Wire /\ current \in Screens \cup {NoScreen}
  BY DEF Shapes
<1>2. ASSUME NEW target, Route(target) PROVE net' \subseteq Wire
  BY <1>1, <1>2, Sent DEF Route, Dispose
<1>3. ASSUME NEW s \in Screens,
             Save(s) \/ Flush(s) \/ Run(s) \/ Restart(s)
      PROVE  net' \subseteq Wire
  BY <1>1, <1>3, Sent DEF Save, Flush, Run, Restart
<1>4. ASSUME NEW r \in net, Serve(r) PROVE net' \subseteq Wire
  <2>1. ASSUME NEW state \in Later, ServedAs(r, state) PROVE net' \subseteq Wire
    BY <1>1, <2>1, Marked DEF ServedAs
  <2>2. CASE ServeDraft(r)
    BY <1>1, <2>2 DEF ServeDraft
  <2>3. CASE ServeHeartbeat(r) \/ ServeRun(r) \/ ServeRestart(r)
    BY <2>1, <2>3 DEF ServeHeartbeat, ServeRun, ServeRestart, RestartAbandons, RestartClears,
                      RestartStarts, Later
  <2> QED BY <1>4, <2>2, <2>3 DEF Serve
<1>5. ASSUME NEW r \in net, AfterFlush(r) PROVE net' \subseteq Wire
  BY <1>1, <1>5, Sent, Fields DEF AfterFlush
<1>6. ASSUME NEW r \in net, Answer(r) \/ Refuse(r) \/ Fail(r) PROVE net' \subseteq Wire
  BY <1>1, <1>5, <1>6 DEF Answer, Reload, Refuse, Fail, Rejected
<1>7. CASE UNCHANGED net
  BY <1>1, <1>7
<1> QED BY <1>2, <1>3, <1>4, <1>6, <1>7
        DEF Next, LeaveTask, Open, PageRendered, BookSolve, FetchTask, Mount, LoadFails, Type, Tick,
            StreamEnds, RunEnds, vars, router, history, faults, server

\* Every step keeps the shapes, and none goes back.
LEMMA ShapesStep ==
  ASSUME Shapes, Fits, [Next]_vars
  PROVE  Shapes' /\ Onward
<1>0. net' \subseteq Wire
  BY WireStep
<1> USE <1>0, EditorAssumption DEF Shapes, Onward, Ticked, MayTrouble, router, history, faults, server
<1>1. ASSUME NEW target \in Screens \cup {Page}, Route(target),
             target \in Screens => phase[target] = "new"
      PROVE  Shapes' /\ Onward
  <2>1. pending' \in [Screens -> SUBSET (1 .. MaxTicks)]
    BY <1>1 DEF Route, Dispose
  <2>2. /\ saveTimer' \in [Screens -> BOOLEAN]
        /\ running' \in [Screens -> {"idle", "flushing", "posting", "following", "cut"}]
    BY <1>1 DEF Route, Dispose
  <2>3. /\ phase' \in [Screens -> Early \cup {"mounted", "disposed", "gone"}]
        /\ \A s \in Screens : /\ phase'[s] \in Early => phase[s] \in Early
                              /\ phase[s] = "gone" => phase'[s] = "gone"
    BY <1>1 DEF Route, Early, Fits
  <2>4. UNCHANGED <<mine, content, solved, draft, attempt, status, verdict, credited, typed,
                    ticks, cleared, failures, stale, answerLost>>
        /\ current' = NoScreen /\ rendering' = rendering \cup {target}
    BY <1>1 DEF Route
  <2> QED BY <2>1, <2>2, <2>3, <2>4
<1>2. ASSUME NEW s \in Screens, Open(s) PROVE Shapes' /\ Onward
  BY <1>1, <1>2 DEF Open
<1>3. CASE LeaveTask
  BY <1>1, <1>3 DEF LeaveTask
<1>4. CASE PageRendered
  BY <1>4 DEF PageRendered
<1>5. CASE BookSolve
  BY <1>5 DEF BookSolve
<1>6. ASSUME NEW s \in Screens, FetchTask(s) PROVE Shapes' /\ Onward
  BY <1>6 DEF FetchTask, Early
<1>7. ASSUME NEW s \in Screens, Mount(s) PROVE Shapes' /\ Onward
  BY <1>7 DEF Mount, StartAttempt, Early
<1>8. ASSUME NEW s \in Screens, LoadFails(s) PROVE Shapes' /\ Onward
  BY <1>8 DEF LoadFails, Early
<1>9. ASSUME NEW s \in Screens, Type(s) PROVE Shapes' /\ Onward
  BY <1>9 DEF Type
<1>10. ASSUME NEW s \in Screens, Save(s) PROVE Shapes' /\ Onward
  BY <1>10 DEF Save
<1>11. ASSUME NEW s \in Screens, Tick(s) PROVE Shapes' /\ Onward
  <2>1. /\ UNCHANGED <<router, content, saveTimer, running, solved, net, server, typed, cleared, faults>>
        /\ Len(ticks) < MaxTicks
        /\ ticks' = Append(ticks, [attempt |-> mine[s], screen |-> s])
        /\ pending' = [pending EXCEPT ![s] = @ \cup {Len(ticks')}]
    BY <1>11 DEF Tick
  <2>2. Len(ticks') \in 1 .. MaxTicks /\ ticks' \in Seq([attempt : Nat, screen : Screens])
    <3>1. [attempt |-> mine[s], screen |-> s] \in [attempt : Nat, screen : Screens]
      OBVIOUS
    <3> QED BY <2>1, <3>1
  <2>3. \A k \in Ticked : k \in Ticked' /\ ticks'[k] = ticks[k]
    <3>1. Len(ticks) \in Nat /\ Ticked = 1 .. Len(ticks) /\ Ticked' = 1 .. Len(ticks) + 1
      BY <2>1, <2>2
    <3> QED BY <2>1, <3>1
  <2>4. pending' \in [Screens -> SUBSET (1 .. MaxTicks)]
    BY <2>1, <2>2
  <2> QED BY <2>1, <2>2, <2>3, <2>4
<1>12. ASSUME NEW s \in Screens, Flush(s) PROVE Shapes' /\ Onward
  BY <1>12 DEF Flush
<1>13. ASSUME NEW s \in Screens, Run(s) PROVE Shapes' /\ Onward
  <2>1. pending' \in [Screens -> SUBSET (1 .. MaxTicks)]
    BY <1>13 DEF Run
  <2>2. running' \in [Screens -> {"idle", "flushing", "posting", "following", "cut"}]
    BY <1>13 DEF Run
  <2>3. UNCHANGED <<router, content, saveTimer, solved, server, history, faults>>
    BY <1>13 DEF Run
  <2> QED BY <2>1, <2>2, <2>3
<1>14. ASSUME NEW s \in Screens, Restart(s) PROVE Shapes' /\ Onward
  BY <1>14 DEF Restart
<1>15. ASSUME NEW s \in Screens, StreamEnds(s) PROVE Shapes' /\ Onward
  <2>1. /\ solved' \in [Screens -> BOOLEAN]
        /\ running' \in [Screens -> {"idle", "flushing", "posting", "following", "cut"}]
    BY <1>15 DEF StreamEnds
  <2>2. UNCHANGED <<router, content, saveTimer, pending, net, server, history, faults>>
    BY <1>15 DEF StreamEnds
  <2> QED BY <2>1, <2>2
<1>16. ASSUME NEW s \in Screens, RunEnds(s) PROVE Shapes' /\ Onward
  BY <1>16 DEF RunEnds
<1>17. ASSUME NEW r \in net, ServeHeartbeat(r) PROVE Shapes' /\ Onward
  <2>2. credited' \in [1 .. MaxTicks -> Nat]
    BY <1>17 DEF ServeHeartbeat
  <2>3. UNCHANGED <<router, content, saveTimer, pending, running, solved, draft, attempt, status,
                    verdict, history, faults>>
    BY <1>17 DEF ServeHeartbeat
  <2> QED BY <2>2, <2>3
<1>18. ASSUME NEW r \in net, ServeDraft(r) PROVE Shapes' /\ Onward
  BY <1>18, Fields DEF ServeDraft, SaveDraft
<1>19. ASSUME NEW r \in net, ServeRun(r) PROVE Shapes' /\ Onward
  <2>2. /\ draft' \in Nat /\ stale' \in BOOLEAN /\ (stale => stale')
        /\ verdict' = [verdict EXCEPT ![r.screen] = "going"]
    BY <1>19, Fields DEF ServeRun, SaveDraft
  <2>1. /\ verdict' \in [Screens -> {"none", "going", "green"}]
        /\ \A s \in Screens : verdict'[s] = "none" => verdict[s] = "none"
    BY <2>2
  <2>3. UNCHANGED <<router, content, saveTimer, pending, running, solved, attempt, status,
                    credited, history, failures, answerLost>>
    BY <1>19 DEF ServeRun
  <2> QED BY <2>1, <2>2, <2>3
<1>20. ASSUME NEW r \in net, ServeRestart(r) PROVE Shapes' /\ Onward
  <2>1. CASE RestartAbandons(r)
    BY <2>1 DEF RestartAbandons
  <2>2. CASE RestartClears(r)
    BY <2>2 DEF RestartClears
  <2>3. CASE RestartStarts(r)
    <3>1. /\ IF status = "open" THEN attempt' = attempt
             ELSE attempt + failures < MaxTrouble /\ attempt' = attempt + 1
          /\ status' = "open"
          /\ UNCHANGED <<router, content, saveTimer, pending, running, solved, draft, verdict, credited,
                         history, faults>>
      BY <2>3 DEF RestartStarts, StartAttempt
    <3>2. attempt' \in 0 .. MaxTrouble /\ (attempt' = attempt => status = "open") /\ attempt' >= attempt
      BY <3>1
    <3> QED BY <3>1, <3>2
  <2> QED BY <1>20, <2>1, <2>2, <2>3 DEF ServeRestart
<1>21. ASSUME NEW r \in net, Answer(r) PROVE Shapes' /\ Onward
  <2>1. r.screen \in Screens
    BY Fields
  <2>2. CASE Reload /\ UNCHANGED mine
    BY <1>21, <2>2 DEF Answer, Reload, Early
  <2>3. CASE UNCHANGED <<router, content, saveTimer, pending, solved>>
    <3>2. running' \in [Screens -> {"idle", "flushing", "posting", "following", "cut"}]
      BY <1>21, <2>1, <2>3 DEF Answer, AfterFlush, Reload
    <3> QED BY <1>21, <2>3, <3>2 DEF Answer
  <2> QED BY <1>21, <2>2, <2>3 DEF Answer
<1>22. ASSUME NEW r \in net, Rejected(r), UNCHANGED <<router, content, saveTimer, solved, server, history>>,
              stale' \in BOOLEAN, answerLost' \in BOOLEAN, failures' \in Nat,
              answerLost => answerLost', stale => stale'
       PROVE  Shapes' /\ Onward
  <2>1. r.screen \in Screens /\ (r.kind = "heartbeat" => r.load \in SUBSET (1 .. MaxTicks))
    BY Fields
  <2>3. running' \in [Screens -> {"idle", "flushing", "posting", "following", "cut"}]
    BY <1>22, <2>1 DEF Rejected, AfterFlush, AfterPostFailed
  <2>4. pending' \in [Screens -> SUBSET (1 .. MaxTicks)]
    <3>1. UNCHANGED pending \/ (r.kind = "heartbeat" /\ PutBack(r))
      BY <1>22 DEF Rejected
    <3>2. CASE r.kind = "heartbeat" /\ PutBack(r)
      BY <2>1, <3>2 DEF PutBack
    <3> QED BY <3>1, <3>2
  <2> QED BY <1>22, <2>3, <2>4
<1>23. ASSUME NEW r \in net, Refuse(r) PROVE Shapes' /\ Onward
  BY <1>22, <1>23 DEF Refuse
<1>24. ASSUME NEW r \in net, Fail(r) PROVE Shapes' /\ Onward
  BY <1>22, <1>24 DEF Fail
<1>25. CASE UNCHANGED vars
  BY <1>25 DEF vars
<1> QED BY <1>2, <1>3, <1>4, <1>5, <1>6, <1>7, <1>8, <1>9, <1>10, <1>11, <1>12, <1>13, <1>14,
           <1>15, <1>16, <1>17, <1>18, <1>19, <1>20, <1>21, <1>23, <1>24, <1>25 DEF Next, Serve

------------------------------------------------------------------------------
(* Every step keeps what screens, requests and ticks have to do with each other. *)

\* A request that a screen sends in a step.
FromScreen(m) ==
  \E s \in Screens :
    /\ phase[s] \notin Early
    /\ \/ \E by \in {"timer", "run"} : m = Beat(s, by)
       \/ m = Post(s)
       \/ m = Request("draft", s, content[s], "timer")
       \/ m = Request("restart", s, 0, "user")

\* A request of which the server has made something else.
FromServer(m) ==
  \E r \in net : /\ m.kind = r.kind /\ m.screen = r.screen /\ m.load = r.load /\ m.by = r.by
                 /\ m.kind = "run" => verdict'[m.screen] # "none"

\* Requests come from a screen or from the server.
LEMMA NetStep ==
  ASSUME Shapes, Fits, [Next]_vars
  PROVE  \A m \in net' : m \in net \/ FromScreen(m) \/ FromServer(m)
<1>1. ASSUME NEW target, Route(target) PROVE \A m \in net' : m \in net \/ FromScreen(m)
  BY <1>1 DEF Route, Dispose, FromScreen, Fits, Shapes, Early
<1>2. ASSUME NEW s \in Screens, Save(s) \/ Flush(s) \/ Run(s) \/ Restart(s)
      PROVE  \A m \in net' : m \in net \/ FromScreen(m)
  BY <1>2 DEF Save, Flush, Run, Restart, FromScreen, Early
<1>3. ASSUME NEW r \in net, Serve(r) PROVE \A m \in net' : m \in net \/ FromServer(m)
  <2>0. ASSUME NEW state \in Later, ServedAs(r, state),
               r.kind = "run" => verdict'[r.screen] # "none"
        PROVE  \A m \in net' : m \in net \/ FromServer(m)
    <3>1. PICK m : m = [r EXCEPT !.state = state]
      OBVIOUS
    <3>2. m.kind = r.kind /\ m.screen = r.screen /\ m.load = r.load /\ m.by = r.by
      BY <3>1, Marked
    <3>3. FromServer(m)
      BY <2>0, <3>2 DEF FromServer
    <3> QED BY <2>0, <3>1, <3>3 DEF ServedAs
  <2>1. CASE ServeHeartbeat(r)
    BY <2>0, <2>1 DEF ServeHeartbeat, Later
  <2>2. CASE ServeDraft(r)
    BY <2>2 DEF ServeDraft
  <2>3. CASE ServeRun(r)
    <3>1. verdict'[r.screen] = "going"
      BY <2>3, Fields DEF ServeRun, Shapes
    <3> QED BY <2>0, <2>3, <3>1 DEF ServeRun, Later
  <2>4. CASE ServeRestart(r)
    BY <2>0, <2>4 DEF ServeRestart, RestartAbandons, RestartClears, RestartStarts, Later
  <2> QED BY <1>3, <2>1, <2>2, <2>3, <2>4 DEF Serve
<1>4. ASSUME NEW r \in net, AfterFlush(r) PROVE \A m \in net' : m \in net \/ FromScreen(m)
  <2>1. r.screen \in Screens /\ phase[r.screen] \notin Early
    BY Fields DEF Fits, RequestFits
  <2> QED BY <1>4, <2>1 DEF AfterFlush, FromScreen
<1>5. ASSUME NEW r \in net, Answer(r) \/ Refuse(r) \/ Fail(r)
      PROVE  \A m \in net' : m \in net \/ FromScreen(m)
  BY <1>4, <1>5 DEF Answer, Reload, Refuse, Fail, Rejected
<1>6. CASE UNCHANGED net
  BY <1>6
<1> QED BY <1>1, <1>2, <1>3, <1>5, <1>6
        DEF Next, LeaveTask, Open, PageRendered, BookSolve, FetchTask, Mount, LoadFails, Type, Tick,
            StreamEnds, RunEnds, vars, router, history, faults, server

\* A request fits as long as nothing is taken back.
LEMMA RequestsFit ==
  ASSUME Shapes, Fits, Shapes', Onward, [Next]_vars
  PROVE  \A m \in net' : RequestFits(m)'
<1>1. ASSUME NEW r \in net PROVE RequestFits(r)'
  <2>1. RequestFits(r) /\ r.screen \in Screens
    BY Fields DEF Fits
  <2>2. (r.kind # "heartbeat" => r.load \in Nat) /\ typed \in Nat /\ typed' \in Nat /\ typed' >= typed
    BY Fields DEF Shapes, Onward
  <2> QED BY <2>1, <2>2 DEF RequestFits, Onward
<1>2. ASSUME NEW m \in net', FromServer(m) PROVE RequestFits(m)'
  <2>1. PICK r \in net : /\ m.kind = r.kind /\ m.screen = r.screen /\ m.load = r.load /\ m.by = r.by
                         /\ m.kind = "run" => verdict'[m.screen] # "none"
    BY <1>2 DEF FromServer
  <2> QED BY <1>1, <2>1 DEF RequestFits
<1>3. ASSUME NEW m \in net', FromScreen(m) PROVE RequestFits(m)'
  <2>1. PICK s \in Screens : /\ phase[s] \notin Early
                             /\ \/ \E by \in {"timer", "run"} : m = Beat(s, by)
                                \/ m = Post(s)
                                \/ m = Request("draft", s, content[s], "timer")
                                \/ m = Request("restart", s, 0, "user")
    BY <1>3 DEF FromScreen
  <2>2. m.screen = s /\ phase'[s] \notin Early
    BY <2>1 DEF Beat, Post, Request, Onward
  <2>3. ScreenFits(s) /\ content[s] \in Nat /\ typed \in Nat /\ typed' \in Nat /\ typed' >= typed
    BY DEF Fits, Shapes, Onward
  <2>4. m.kind = "heartbeat" => m.load = pending[s]
    BY <2>1 DEF Beat, Post, Request
  <2>5. m.kind \in {"draft", "run"} => m.load = content[s]
    BY <2>1 DEF Beat, Post, Request
  <2>6. m.kind = "run" => m.by = "run" /\ m.state = "sent"
    BY <2>1 DEF Beat, Post, Request
  <2>7. \A k \in pending[s] : k \in Ticked' /\ ticks'[k].screen = s
    BY <2>3 DEF ScreenFits, Onward
  <2> QED BY <2>2, <2>3, <2>4, <2>5, <2>6, <2>7 DEF RequestFits, ScreenFits
<1> QED BY <1>1, <1>2, <1>3, NetStep

\* The ticks a screen holds after a step are its own.
LEMMA PendingStep ==
  ASSUME Shapes, Fits, Shapes', Onward, [Next]_vars
  PROVE  \A s \in Screens : \A k \in pending'[s] : k \in Ticked' /\ ticks'[k].screen = s
<1> DEFINE Own == \A s \in Screens : \A k \in pending'[s] : k \in Ticked' /\ ticks'[k].screen = s
<1>1. \A s \in Screens : \A k \in pending[s] : k \in Ticked' /\ ticks'[k].screen = s
  BY DEF Fits, ScreenFits, Onward
<1>2. ASSUME \A s \in Screens : pending'[s] \subseteq pending[s] PROVE Own
  BY <1>1, <1>2
<1>3. ASSUME NEW target, Route(target) PROVE Own
  <2>1. UNCHANGED pending \/ pending' = [pending EXCEPT ![current] = {}]
    BY <1>3 DEF Route, Dispose
  <2> QED BY <1>2, <2>1 DEF Shapes
<1>4. ASSUME NEW s \in Screens, Flush(s) \/ Run(s) PROVE Own
  <2>1. UNCHANGED pending \/ pending' = [pending EXCEPT ![s] = {}]
    BY <1>4 DEF Flush, Run
  <2> QED BY <1>2, <2>1 DEF Shapes
<1>5. ASSUME NEW s \in Screens, Tick(s) PROVE Own
  <2>1. /\ ticks' = Append(ticks, [attempt |-> mine[s], screen |-> s])
        /\ pending' = [pending EXCEPT ![s] = @ \cup {Len(ticks')}]
        /\ ticks \in Seq([attempt : Nat, screen : Screens]) /\ mine[s] \in Nat
    BY <1>5 DEF Tick, Shapes
  <2>2. /\ Len(ticks') \in Ticked'
        /\ ticks'[Len(ticks')].screen = s
    <3>1. [attempt |-> mine[s], screen |-> s] \in [attempt : Nat, screen : Screens]
      BY <2>1
    <3>2. Len(ticks') = Len(ticks) + 1 /\ Ticked' = 1 .. Len(ticks')
          /\ ticks'[Len(ticks')] = [attempt |-> mine[s], screen |-> s]
      BY <2>1, <3>1 DEF Ticked
    <3> QED BY <2>1, <3>2
  <2>3. pending'[s] = pending[s] \cup {Len(ticks')}
        /\ \A s2 \in Screens : s2 # s => pending'[s2] = pending[s2]
    BY <2>1 DEF Shapes
  <2> HIDE DEF Own
  <2>4. \A k \in pending'[s] : k \in Ticked' /\ ticks'[k].screen = s
    BY <1>1, <2>2, <2>3
  <2> QED BY <1>1, <2>3, <2>4 DEF Own
<1>6. ASSUME NEW r \in net, r.kind = "heartbeat", PutBack(r) PROVE Own
  <2>1. r.screen \in Screens /\ \A k \in r.load : k \in Ticked' /\ ticks'[k].screen = r.screen
    BY <1>6, Fields DEF Fits, RequestFits, Onward
  <2>2. \A s \in Screens : pending'[s] \subseteq IF s = r.screen THEN pending[s] \cup r.load ELSE pending[s]
    BY <1>6, <2>1 DEF PutBack, Shapes
  <2> QED BY <1>1, <2>1, <2>2
<1>7. ASSUME NEW r \in net, Answer(r) PROVE Own
  BY <1>2, <1>7 DEF Answer, Reload
<1>8. CASE UNCHANGED pending
  BY <1>2, <1>8
<1>9. ASSUME NEW r \in net, Refuse(r) \/ Fail(r) PROVE Own
  BY <1>6, <1>8, <1>9 DEF Refuse, Fail, Rejected
<1>10. ASSUME NEW r \in net, Serve(r) PROVE Own
  BY <1>8, <1>10 DEF Serve, ServeHeartbeat, ServeDraft, ServeRun, ServeRestart, RestartAbandons,
                     RestartClears, RestartStarts
<1>11. ASSUME NEW s \in Screens, \/ PageRendered \/ BookSolve \/ FetchTask(s) \/ Mount(s) \/ LoadFails(s)
                                  \/ Type(s) \/ Save(s) \/ Restart(s) \/ StreamEnds(s) \/ RunEnds(s)
       PROVE  UNCHANGED pending
  BY <1>11 DEF PageRendered, BookSolve, FetchTask, Mount, LoadFails, Type, Save, Restart, StreamEnds, RunEnds
<1> QED BY <1>3, <1>4, <1>5, <1>7, <1>8, <1>9, <1>10, <1>11
        DEF Next, LeaveTask, Open, vars

\* Nothing happens on a screen that was not shown yet.
LEMMA EarlyStep ==
  ASSUME Shapes, Fits, [Next]_vars
  PROVE  \A s \in Screens : phase[s] \in Early => pending'[s] = {} /\ running'[s] = "idle"
<1> DEFINE Still == \A s \in Screens : phase[s] \in Early => pending'[s] = {} /\ running'[s] = "idle"
<1>1. \A s \in Screens : phase[s] \in Early => pending[s] = {} /\ running[s] = "idle"
  BY DEF Fits, ScreenFits
<1>2. ASSUME NEW t \in Screens, phase[t] \notin Early,
             \A s \in Screens : s # t => pending'[s] = pending[s] /\ running'[s] = running[s]
      PROVE  Still
  BY <1>1, <1>2
<1>3. ASSUME NEW target, Route(target) PROVE Still
  <2>1. CASE current = NoScreen
    BY <1>1, <1>3, <2>1 DEF Route
  <2>2. CASE current # NoScreen
    <3>1. current \in Screens /\ phase[current] \notin Early
      BY <2>2 DEF Fits, Early, Shapes
    <3>2. \A s \in Screens : s # current => pending'[s] = pending[s] /\ running'[s] = running[s]
      BY <1>3, <2>2, <3>1 DEF Route, Dispose, Shapes
    <3> QED BY <1>1, <3>1, <3>2
  <2> QED BY <2>1, <2>2
<1>4. ASSUME NEW s \in Screens, Flush(s) \/ Run(s) \/ Tick(s) PROVE Still
  <2>1. phase[s] \notin Early
    BY <1>4 DEF Flush, Run, Tick, Early
  <2>2. \A s2 \in Screens : s2 # s => pending'[s2] = pending[s2] /\ running'[s2] = running[s2]
    BY <1>4 DEF Flush, Run, Tick, Shapes
  <2> QED BY <1>2, <2>1, <2>2
<1>5. ASSUME NEW s \in Screens, StreamEnds(s) PROVE Still
  <2>1. phase[s] \notin Early
    BY <1>1, <1>5 DEF StreamEnds
  <2>2. \A s2 \in Screens : s2 # s => pending'[s2] = pending[s2] /\ running'[s2] = running[s2]
    BY <1>5 DEF StreamEnds, Shapes
  <2> QED BY <1>2, <2>1, <2>2
<1>6. ASSUME NEW r \in net, Reload PROVE Still
  BY <1>6 DEF Reload
<1>7. ASSUME NEW r \in net, UNCHANGED pending \/ PutBack(r),
             UNCHANGED running \/ AfterFlush(r) \/ AfterPostFailed(r)
                \/ running' = [running EXCEPT ![r.screen] = "following"]
      PROVE  Still
  <2>1. r.screen \in Screens /\ phase[r.screen] \notin Early
    BY Fields DEF Fits, RequestFits
  <2>2. \A s \in Screens : s # r.screen => pending'[s] = pending[s]
    BY <1>7, <2>1 DEF PutBack, Shapes
  <2>3. \A s \in Screens : s # r.screen => running'[s] = running[s]
    BY <1>7, <2>1 DEF AfterFlush, AfterPostFailed, Shapes
  <2> QED BY <1>2, <2>1, <2>2, <2>3
<1>8. ASSUME NEW r \in net, Answer(r) PROVE Still
  BY <1>6, <1>7, <1>8 DEF Answer
<1>9. ASSUME NEW r \in net, Refuse(r) \/ Fail(r) PROVE Still
  BY <1>7, <1>9 DEF Refuse, Fail, Rejected
<1>10. CASE UNCHANGED <<pending, running>>
  BY <1>1, <1>10
<1>11. ASSUME NEW r \in net, Serve(r) PROVE Still
  BY <1>10, <1>11 DEF Serve, ServeHeartbeat, ServeDraft, ServeRun, ServeRestart, RestartAbandons,
                      RestartClears, RestartStarts
<1>12. ASSUME NEW s \in Screens, \/ PageRendered \/ BookSolve \/ FetchTask(s) \/ Mount(s) \/ LoadFails(s)
                                  \/ Type(s) \/ Save(s) \/ Restart(s) \/ RunEnds(s)
       PROVE  UNCHANGED <<pending, running>>
  BY <1>12 DEF PageRendered, BookSolve, FetchTask, Mount, LoadFails, Type, Save, Restart, RunEnds
<1> QED BY <1>3, <1>4, <1>5, <1>8, <1>9, <1>10, <1>11, <1>12
        DEF Next, LeaveTask, Open, vars

\* A screen shows what was typed, or what the server kept of it.
LEMMA ContentStep ==
  ASSUME Shapes, Fits, [Next]_vars
  PROVE  /\ \A s \in Screens : content'[s] <= typed'
         /\ draft' <= typed'
         /\ current' # NoScreen => current' \in Screens /\ phase'[current'] = "mounted"
<1> DEFINE Shown == /\ \A s \in Screens : content'[s] <= typed'
                    /\ draft' <= typed'
                    /\ current' # NoScreen => current' \in Screens /\ phase'[current'] = "mounted"
<1> USE EditorAssumption
<1>0. /\ \A s \in Screens : content[s] <= typed /\ content[s] \in Nat
      /\ draft <= typed /\ draft \in Nat /\ typed \in Nat
      /\ current # NoScreen => current \in Screens /\ phase[current] = "mounted"
      /\ content \in [Screens -> Nat]
      /\ phase \in [Screens -> Early \cup {"mounted", "disposed", "gone"}]
  BY DEF Shapes, Fits, ScreenFits
<1>1. ASSUME NEW target, Route(target) PROVE Shown
  BY <1>0, <1>1 DEF Route, server, history
<1>2. ASSUME NEW s \in Screens, FetchTask(s) \/ LoadFails(s) PROVE Shown
  <2>1. phase[s] \in {"loading", "fetched"} /\ UNCHANGED <<current, draft, typed>>
    BY <1>2 DEF FetchTask, LoadFails, server, history
  <2>2. \A s2 \in Screens : content'[s2] = content[s2] \/ content'[s2] \in {draft, 0}
    BY <1>0, <1>2 DEF FetchTask, LoadFails
  <2>3. current # NoScreen => phase'[current] = phase[current]
    BY <1>0, <1>2 DEF FetchTask, LoadFails
  <2> QED BY <1>0, <2>1, <2>2, <2>3
<1>3. ASSUME NEW s \in Screens, Mount(s) PROVE Shown
  BY <1>0, <1>3 DEF Mount, history
<1>4. ASSUME NEW s \in Screens, Type(s) PROVE Shown
  <2>1. /\ typed' = typed + 1 /\ content' = [content EXCEPT ![s] = typed']
        /\ UNCHANGED <<current, phase, draft>>
    BY <1>4 DEF Type, router, server
  <2> QED BY <1>0, <2>1
<1>5. ASSUME NEW r \in net, Serve(r) PROVE Shown
  <2>1. draft' <= typed
    BY <1>0, <1>5 DEF Serve, ServeHeartbeat, ServeDraft, ServeRun, ServeRestart, RestartAbandons,
                      RestartClears, RestartStarts, SaveDraft, Fits, RequestFits
  <2>2. UNCHANGED <<current, phase, content, typed>>
    BY <1>5 DEF Serve, ServeHeartbeat, ServeDraft, ServeRun, ServeRestart, RestartAbandons,
                RestartClears, RestartStarts, router, history
  <2> QED BY <1>0, <2>1, <2>2
<1>6. ASSUME NEW r \in net, Answer(r) PROVE Shown
  <2>1. UNCHANGED <<draft, typed>>
    BY <1>6 DEF Answer, server, history
  <2>2. CASE Reload
    BY <1>0, <2>1, <2>2 DEF Reload
  <2>3. CASE UNCHANGED <<router, content>>
    BY <1>0, <2>1, <2>3 DEF router
  <2> QED BY <1>6, <2>2, <2>3 DEF Answer
<1>7. CASE UNCHANGED <<current, phase, content, typed, draft>>
  BY <1>0, <1>7
<1>8. ASSUME NEW s \in Screens, \/ Save(s) \/ Tick(s) \/ Flush(s) \/ Run(s) \/ Restart(s)
                                \/ StreamEnds(s) \/ RunEnds(s)
      PROVE  Shown
  BY <1>7, <1>8 DEF Save, Tick, Flush, Run, Restart, StreamEnds, RunEnds, router, server, history
<1>9. ASSUME NEW r \in net, Refuse(r) \/ Fail(r) PROVE Shown
  BY <1>7, <1>9 DEF Refuse, Fail, router, server, history
<1>10. CASE PageRendered \/ BookSolve
  BY <1>0, <1>10 DEF PageRendered, BookSolve, server, history, router
<1>11. ASSUME NEW s \in Screens, Open(s) PROVE Shown
  BY <1>1, <1>11 DEF Open
<1>12. CASE LeaveTask
  BY <1>1, <1>12 DEF LeaveTask
<1>13. CASE UNCHANGED vars
  BY <1>7, <1>13 DEF vars
<1> QED BY <1>2, <1>3, <1>4, <1>5, <1>6, <1>8, <1>9, <1>10, <1>11, <1>12, <1>13 DEF Next

\* Only a tick adds to the ticks.
LEMMA TicksStep ==
  ASSUME [Next]_vars
  PROVE  UNCHANGED ticks \/ \E s \in Screens : Tick(s)
<1>1. ASSUME NEW s \in Screens, \/ Open(s) \/ FetchTask(s) \/ Mount(s) \/ LoadFails(s) \/ Type(s) \/ Save(s)
                                  \/ Flush(s) \/ Run(s) \/ Restart(s) \/ StreamEnds(s) \/ RunEnds(s)
      PROVE  UNCHANGED ticks
  BY <1>1 DEF Open, Route, FetchTask, Mount, LoadFails, Type, Save, Flush, Run, Restart, StreamEnds,
                RunEnds, history
<1>2. ASSUME NEW r \in net, Serve(r) \/ Answer(r) \/ Refuse(r) \/ Fail(r) PROVE UNCHANGED ticks
  BY <1>2 DEF Serve, ServeHeartbeat, ServeDraft, ServeRun, ServeRestart, RestartAbandons, RestartClears,
              RestartStarts, Answer, Refuse, Fail, history
<1>3. CASE LeaveTask \/ PageRendered \/ BookSolve
  BY <1>3 DEF LeaveTask, Route, PageRendered, BookSolve, history
<1> QED BY <1>1, <1>2, <1>3 DEF Next, vars

\* A new tick is one of a screen that is shown.
LEMMA TicksFit ==
  ASSUME Shapes, Fits, Shapes', Onward, [Next]_vars
  PROVE  \A k \in Ticked' : TickFits(k)'
<1>1. ASSUME NEW k \in Ticked PROVE TickFits(k)'
  <2>1. ticks'[k] = ticks[k] /\ ticks[k].screen \in Screens
    <3>1. ticks \in Seq([attempt : Nat, screen : Screens])
      BY DEF Shapes
    <3>2. ticks[k] \in [attempt : Nat, screen : Screens]
      <4>1. Ticked = 1 .. Len(ticks)
        BY <3>1 DEF Ticked
      <4>2. k \in 1 .. Len(ticks)
        BY <1>1, <4>1
      <4> QED BY <3>1, <4>2, ElementOfSeq
    <3> QED BY <1>1, <3>2 DEF Onward
  <2>2. TickFits(k)
    BY DEF Fits
  <2> QED BY <2>1, <2>2 DEF TickFits, Onward, Early
<1>2. ASSUME NEW s \in Screens, Tick(s), NEW k \in Ticked', k \notin Ticked PROVE TickFits(k)'
  <2>1. /\ ticks' = Append(ticks, [attempt |-> mine[s], screen |-> s]) /\ phase[s] = "mounted"
        /\ UNCHANGED <<phase, mine>>
        /\ ticks \in Seq([attempt : Nat, screen : Screens]) /\ mine[s] \in Nat
    BY <1>2 DEF Tick, Shapes, router
  <2>2. k = Len(ticks) + 1 /\ ticks'[k] = [attempt |-> mine[s], screen |-> s]
    <3>1. [attempt |-> mine[s], screen |-> s] \in [attempt : Nat, screen : Screens]
      BY <2>1
    <3>2. Ticked = 1 .. Len(ticks) /\ Ticked' = 1 .. Len(ticks) + 1 /\ Len(ticks) \in Nat
      BY <2>1, <3>1 DEF Ticked
    <3>3. k = Len(ticks) + 1
      BY <1>2, <3>2
    <3> QED BY <2>1, <3>1, <3>3
  <2>3. ticks'[k].screen = s /\ ticks'[k].attempt = mine[s]
    BY <2>2
  <2> QED BY <2>1, <2>3 DEF TickFits, Early
<1>4. UNCHANGED ticks => Ticked' = Ticked
  BY DEF Ticked
<1> QED BY <1>1, <1>2, <1>4, TicksStep

\* What screens, requests and ticks know of each other stays true.
LEMMA FitsStep ==
  ASSUME Shapes, Fits, Shapes', Onward, [Next]_vars
  PROVE  Fits'
<1>1. \A s \in Screens : ScreenFits(s)'
  <2>1. \A s \in Screens : mine'[s] <= attempt'
    <3>1. attempt \in Nat /\ attempt' \in Nat /\ attempt' >= attempt
      BY EditorAssumption DEF Shapes, Onward
    <3>2. ASSUME NEW s \in Screens PROVE mine'[s] <= attempt'
      <4>1. mine[s] \in Nat /\ mine[s] <= attempt
        BY DEF Fits, ScreenFits, Shapes
      <4>2. mine'[s] = mine[s] \/ mine'[s] = attempt'
        BY DEF Onward
      <4> QED BY <3>1, <4>1, <4>2
    <3> QED BY <3>2
  <2> QED BY <2>1, PendingStep, EarlyStep, ContentStep DEF ScreenFits, Onward
<1>2. (current # NoScreen)' => (phase[current] = "mounted")'
  BY ContentStep
<1> QED BY <1>1, <1>2, RequestsFit, TicksFit, ContentStep DEF Fits

------------------------------------------------------------------------------
(* Active time. *)

\* A tick that is no longer owed never is again.
LEMMA StillOwed ==
  ASSUME Shapes, Fits, Shapes', Onward, NEW k \in Ticked, Owed(k)'
  PROVE  Owed(k)
<1>1. /\ ticks'[k] = ticks[k] /\ ticks[k].screen \in Screens
      /\ ticks[k].attempt = mine[ticks[k].screen]
  <2>1. ticks \in Seq([attempt : Nat, screen : Screens]) /\ k \in 1 .. Len(ticks)
    <3>1. ticks \in Seq([attempt : Nat, screen : Screens])
      BY DEF Shapes
    <3>2. Ticked = 1 .. Len(ticks)
      BY <3>1 DEF Ticked
    <3> QED BY <3>1, <3>2
  <2>2. ticks[k] \in [attempt : Nat, screen : Screens]
    BY <2>1, ElementOfSeq
  <2> QED BY <2>2 DEF Onward, Fits, TickFits
<1>2. ticks[k].attempt \in Nat /\ ticks[k].attempt <= attempt /\ attempt \in Nat
  BY <1>1, EditorAssumption DEF Fits, ScreenFits, Shapes
<1>3. /\ ticks[k].attempt = attempt' /\ status' = "open" /\ phase'[ticks[k].screen] # "gone"
  BY <1>1 DEF Owed
<1>4. attempt' = attempt /\ status = "open" /\ phase[ticks[k].screen] # "gone"
  BY <1>1, <1>2, <1>3 DEF Onward
<1> QED BY <1>1, <1>3, <1>4 DEF Owed

Steady(k) == Kept(k)' /\ (answerLost' \/ Once(k)')

\* Nothing happens to the ticks.
LEMMA QuietTime ==
  ASSUME Shapes, Fits, Time, Shapes', Onward, NEW k \in Ticked,
         Beats' = Beats, UNCHANGED <<pending, credited>>
  PROVE  Steady(k)
<1>1. Kept(k) /\ (answerLost \/ Once(k))
  BY DEF Time
<1>2. Carried(k)' <=> Carried(k)
  BY DEF Carried
<1>3. Kept(k)'
  BY <1>1, <1>2, StillOwed DEF Kept
<1>4. Once(k) => Once(k)'
  BY DEF Once
<1> QED BY <1>1, <1>3, <1>4 DEF Steady, Onward

\* A flush takes what is pending along.
LEMMA FlushTime ==
  ASSUME Shapes, Fits, Time, Shapes', Onward, NEW k \in Ticked, NEW s \in Screens, NEW by,
         Beats' = Beats \cup {Beat(s, by)}, pending' = [pending EXCEPT ![s] = {}], UNCHANGED credited
  PROVE  Steady(k)
<1>1. Kept(k) /\ (answerLost \/ Once(k))
  BY DEF Time
<1>2. PICK b : b = Beat(s, by)
  OBVIOUS
<1>3. b.load = pending[s] /\ b.state = "sent"
  BY <1>2 DEF Beat, Request
<1>4. pending'[s] = {} /\ \A s2 \in Screens : s2 # s => pending'[s2] = pending[s2]
  BY DEF Shapes
<1>5. Carried(k) => Carried(k)'
  BY <1>2, <1>3, <1>4 DEF Carried
<1>6. Kept(k)'
  BY <1>1, <1>5, StillOwed DEF Kept
<1>7. ASSUME Once(k) PROVE Once(k)'
  <2>1. \A s2 \in Screens : k \in pending'[s2] => k \in pending[s2] /\ k \notin pending[s]
    BY <1>4 DEF Fits, ScreenFits
  <2>2. k \in pending[s] => credited[k] = 0 /\ \A r \in Beats : k \notin r.load
    BY <1>7 DEF Once
  <2>3. (\E s2 \in Screens : k \in pending'[s2]) =>
          credited[k] = 0 /\ \A r \in Beats \cup {b} : k \notin r.load
    BY <1>3, <1>7, <2>1 DEF Once
  <2>4. \A r \in Beats \cup {b} : k \in r.load /\ r.state # "served" => credited[k] = 0
    BY <1>3, <1>7, <2>2 DEF Once
  <2>5. \A r1, r2 \in Beats \cup {b} : k \in r1.load /\ k \in r2.load => r1 = r2
    BY <1>3, <1>7, <2>2 DEF Once
  <2> QED BY <1>2, <1>7, <2>3, <2>4, <2>5 DEF Once
<1> QED BY <1>1, <1>6, <1>7 DEF Steady, Onward

\* A heartbeat that leaves the wire gives its ticks back, or was credited.
LEMMA ReturnTime ==
  ASSUME Shapes, Fits, Time, Shapes', Onward, NEW k \in Ticked, NEW r \in Beats,
         Beats' = Beats \ {r}, UNCHANGED credited,
         \/ UNCHANGED pending /\ r.state = "served"
         \/ PutBack(r) /\ (r.state = "served" => answerLost')
  PROVE  Steady(k)
<1>1. Kept(k) /\ (answerLost \/ Once(k))
  BY DEF Time
<1>2. r \in net /\ r.screen \in Screens /\ (k \in r.load => ticks[k].screen = r.screen)
  BY Fields DEF Beats, Fits, RequestFits
<1>3. /\ \A s \in Screens : pending[s] \subseteq pending'[s] /\ pending'[s] \subseteq pending[s] \cup r.load
      /\ r.state # "served" /\ phase[r.screen] # "gone" => r.load \subseteq pending'[r.screen]
      /\ UNCHANGED pending \/ (r.state = "served" => answerLost')
  <2>1. CASE UNCHANGED pending /\ (r.state = "served" \/ phase[r.screen] = "gone")
    BY <2>1
  <2>2. CASE /\ pending' = [pending EXCEPT ![r.screen] = @ \cup r.load]
             /\ r.state = "served" => answerLost'
    <3>1. pending'[r.screen] = pending[r.screen] \cup r.load
          /\ \A s \in Screens : s # r.screen => pending'[s] = pending[s]
      BY <1>2, <2>2 DEF Shapes
    <3> QED BY <2>2, <3>1
  <2> QED BY <2>1, <2>2 DEF PutBack
<1>4. k \in r.load /\ r.state # "served" /\ phase[r.screen] # "gone" => k \in pending'[r.screen]
  BY <1>3
<1>5. k \in r.load /\ phase[r.screen] = "gone" => ~Owed(k)'
  BY <1>2 DEF Onward, Owed
<1>6. Carried(k) => Carried(k)' \/ ~Owed(k)'
  BY <1>2, <1>3, <1>4, <1>5 DEF Carried
<1>7. Kept(k)'
  BY <1>1, <1>6, StillOwed DEF Kept
<1>8. ASSUME Once(k), ~answerLost' PROVE Once(k)'
  <2>1. ASSUME NEW s \in Screens, k \in pending'[s], k \notin pending[s]
        PROVE  k \in r.load /\ r.state # "served"
    BY <1>3, <1>8, <2>1
  <2>2. (\E s \in Screens : k \in pending'[s]) =>
          credited[k] = 0 /\ \A r2 \in Beats \ {r} : k \notin r2.load
    BY <1>8, <2>1 DEF Once
  <2> QED BY <1>8, <2>2 DEF Once
<1> QED BY <1>1, <1>7, <1>8 DEF Steady, Onward

\* The server credits a heartbeat, or refuses it.
LEMMA ServeTime ==
  ASSUME Shapes, Fits, Time, Shapes', Onward, NEW k \in Ticked, NEW r \in net, ServeHeartbeat(r)
  PROVE  Steady(k)
<1> DEFINE Much == Cardinality(r.load) > MaxBeat
           Counts == status = "open" /\ mine[r.screen] = attempt
<1>1. Kept(k) /\ (answerLost \/ Once(k))
  BY DEF Time
<1>2. /\ r \in Beats /\ r.state = "sent" /\ r.screen \in Screens /\ r.load \in SUBSET (1 .. MaxTicks)
      /\ k \in r.load => ticks[k].screen = r.screen
  BY Fields DEF ServeHeartbeat, Beats, Fits, RequestFits
<1>3. Cardinality(r.load) \in Nat /\ MaxBeat \in Nat /\ k \in 1 .. MaxTicks /\ credited[k] \in Nat
  <2>1. MaxTicks \in Nat /\ MaxBeat \in Nat
    BY EditorAssumption
  <2>2. IsFiniteSet(r.load)
    <3>1. IsFiniteSet(1 .. MaxTicks)
      BY <2>1, FS_Interval
    <3> QED BY <1>2, <3>1, FS_Subset
  <2>3. k \in 1 .. MaxTicks
    <3>1. ticks \in Seq([attempt : Nat, screen : Screens]) /\ Len(ticks) <= MaxTicks
      BY DEF Shapes
    <3>2. Ticked = 1 .. Len(ticks) /\ Len(ticks) \in Nat
      BY <3>1 DEF Ticked
    <3> QED BY <2>1, <3>1, <3>2
  <2> QED BY <2>1, <2>2, <2>3, FS_CardinalityType DEF Shapes
<1>4. ~Much <=> Cardinality(r.load) <= MaxBeat
  BY <1>3
<1>5. credited'[k] = IF k \in r.load /\ ~Much /\ Counts THEN credited[k] + 1 ELSE credited[k]
  BY <1>3, <1>4 DEF ServeHeartbeat
<1>6. PICK m : m = [r EXCEPT !.state = IF Much THEN "refused" ELSE "served"]
  OBVIOUS
<1>7. m.kind = "heartbeat" /\ m.load = r.load /\ m.state = IF Much THEN "refused" ELSE "served"
  <2>1. CASE Much
    BY <1>2, <1>6, <2>1, Marked DEF Beats, Later
  <2>2. CASE ~Much
    BY <1>2, <1>6, <2>2, Marked DEF Beats, Later
  <2> QED BY <2>1, <2>2
<1>8. Beats' = (Beats \ {r}) \cup {m} /\ UNCHANGED <<pending, ticks, mine, attempt, status, answerLost>>
  <2>1. net' = (net \ {r}) \cup {m}
    BY <1>6 DEF ServeHeartbeat, ServedAs
  <2>2. UNCHANGED <<pending, ticks, mine, attempt, status, answerLost>>
    BY DEF ServeHeartbeat, router, history, faults
  <2> QED BY <1>7, <2>1, <2>2 DEF Beats
<1> HIDE DEF Much, Counts
<1>9. k \in r.load /\ Owed(k) => Counts
  <2>1. ticks[k].attempt = mine[ticks[k].screen]
    BY DEF Fits, TickFits
  <2> QED BY <1>2, <2>1 DEF Owed, Counts
<1>10. Kept(k)'
  <2> SUFFICES ASSUME Owed(k)' PROVE credited'[k] > 0 \/ Carried(k)'
    BY DEF Kept
  <2>1. Owed(k) /\ (credited[k] > 0 \/ Carried(k))
    BY <1>1, StillOwed DEF Kept
  <2>2. CASE credited[k] > 0
    BY <1>3, <1>5, <2>2
  <2>3. CASE k \in r.load /\ ~Much
    BY <1>3, <1>5, <1>9, <2>1, <2>3
  <2>4. CASE k \in r.load /\ Much
    BY <1>7, <1>8, <2>4 DEF Carried
  <2>5. CASE k \notin r.load /\ Carried(k)
    BY <1>8, <2>5 DEF Carried
  <2> QED BY <2>1, <2>2, <2>3, <2>4, <2>5
<1>11. ASSUME Once(k) PROVE Once(k)'
  <2>1. k \in r.load => credited[k] = 0 /\ \A s \in Screens : k \notin pending[s]
    BY <1>2, <1>11 DEF Once
  <2>2. \A r2 \in Beats \ {r} : k \in r2.load => k \notin r.load
    BY <1>2, <1>11 DEF Once
  <2>3. credited'[k] <= 1
    BY <1>3, <1>5, <1>11, <2>1 DEF Once
  <2>4. k \notin r.load \/ Much => credited'[k] = credited[k]
    BY <1>5
  <2>5. (\E s \in Screens : k \in pending'[s]) => credited'[k] = 0 /\ \A r2 \in Beats' : k \notin r2.load
    BY <1>2, <1>7, <1>8, <1>11, <2>1, <2>4 DEF Once
  <2>6. \A r2 \in Beats' : k \in r2.load /\ r2.state # "served" => credited'[k] = 0
    BY <1>7, <1>8, <1>11, <2>1, <2>2, <2>4 DEF Once
  <2>7. \A r1, r2 \in Beats' : k \in r1.load /\ k \in r2.load => r1 = r2
    BY <1>7, <1>8, <1>11, <2>2 DEF Once
  <2> QED BY <2>3, <2>5, <2>6, <2>7 DEF Once
<1> QED BY <1>1, <1>8, <1>10, <1>11 DEF Steady

\* After a reload nothing is owed to the screens there were.
LEMMA ReloadTime ==
  ASSUME Shapes, Fits, Time, Shapes', Onward, NEW k \in Ticked, Reload, UNCHANGED credited
  PROVE  Steady(k)
<1>1. (answerLost \/ Once(k)) /\ TickFits(k)
  BY DEF Time, Fits
<1>2. ticks[k].screen \in Screens /\ ticks'[k] = ticks[k]
  <2>1. ticks \in Seq([attempt : Nat, screen : Screens])
    BY DEF Shapes
  <2>2. Ticked = 1 .. Len(ticks)
    BY <2>1 DEF Ticked
  <2>3. ticks[k] \in [attempt : Nat, screen : Screens]
    BY <2>1, <2>2, ElementOfSeq
  <2> QED BY <2>3 DEF Onward
<1>3. phase'[ticks[k].screen] = "gone"
  BY <1>1, <1>2 DEF TickFits, Early, Reload
<1>4. Kept(k)'
  BY <1>2, <1>3 DEF Kept, Owed
<1>5. Beats' \subseteq Beats /\ \A s \in Screens : pending'[s] = {}
  BY DEF Reload, Beats
<1>6. Once(k) => Once(k)'
  BY <1>5 DEF Once
<1> QED BY <1>1, <1>4, <1>6 DEF Steady, Onward

\* A new tick is on the screen that saw it.
LEMMA TickTime ==
  ASSUME Shapes, Fits, Time, Shapes', Onward, NEW s \in Screens, Tick(s), NEW k \in Ticked'
  PROVE  Steady(k)
<1>1. /\ ticks' = Append(ticks, [attempt |-> mine[s], screen |-> s]) /\ Len(ticks) < MaxTicks
      /\ pending' = [pending EXCEPT ![s] = @ \cup {Len(ticks')}]
      /\ UNCHANGED <<net, credited, answerLost>>
  BY DEF Tick, server, faults
<1>2. /\ Ticked = 1 .. Len(ticks) /\ Ticked' = 1 .. Len(ticks) + 1 /\ Len(ticks) \in Nat
      /\ Len(ticks') = Len(ticks) + 1
  <2>1. ticks \in Seq([attempt : Nat, screen : Screens]) /\ mine[s] \in Nat
    BY DEF Shapes
  <2>2. [attempt |-> mine[s], screen |-> s] \in [attempt : Nat, screen : Screens]
    BY <2>1
  <2> QED BY <1>1, <2>1, <2>2 DEF Ticked
<1>3. /\ pending'[s] = pending[s] \cup {Len(ticks) + 1}
      /\ \A s2 \in Screens : s2 # s => pending'[s2] = pending[s2]
  BY <1>1, <1>2 DEF Shapes
<1>4. Beats' = Beats
  BY <1>1 DEF Beats
<1>5. CASE k \in Ticked
  <2>1. k # Len(ticks) + 1
    BY <1>2, <1>5
  <2>2. \A s2 \in Screens : k \in pending'[s2] <=> k \in pending[s2]
    BY <1>3, <2>1
  <2>3. Carried(k)' <=> Carried(k)
    BY <1>4, <2>2 DEF Carried
  <2>4. Kept(k) /\ (answerLost \/ Once(k))
    BY <1>5 DEF Time
  <2>5. Kept(k)'
    BY <1>1, <1>5, <2>3, <2>4, StillOwed DEF Kept
  <2>6. Once(k) => Once(k)'
    BY <1>1, <1>4, <2>2 DEF Once
  <2> QED BY <1>1, <2>4, <2>5, <2>6 DEF Steady
<1>6. CASE k \notin Ticked
  <2>1. k = Len(ticks) + 1
    BY <1>2, <1>6
  <2>2. Carried(k)'
    BY <1>3, <2>1 DEF Carried
  <2>3. credited[k] = 0
    <3>1. MaxTicks \in Nat
      BY EditorAssumption
    <3>2. k \in 1 .. MaxTicks
      BY <1>1, <1>2, <2>1, <3>1
    <3> QED BY <1>6, <3>2 DEF Time
  <2>4. \A r \in Beats : k \notin r.load
    BY <1>6 DEF Beats, Fits, RequestFits
  <2> QED BY <1>1, <1>4, <2>2, <2>3, <2>4 DEF Steady, Kept, Once
<1> QED BY <1>5, <1>6

\* Active time is accounted for in every step.
LEMMA TimeStep ==
  ASSUME Shapes, Fits, Time, Shapes', Onward, [Next]_vars
  PROVE  Time'
<1>1. ASSUME NEW k \in Ticked PROVE Steady(k)
  <2>1. ASSUME Beats' = Beats, UNCHANGED <<pending, credited>> PROVE Steady(k)
    BY <1>1, <2>1, QuietTime
  <2>2. ASSUME NEW target, Route(target) PROVE Steady(k)
    <3>1. UNCHANGED credited
      BY <2>2 DEF Route, server
    <3>2. CASE UNCHANGED <<net, pending>>
      BY <2>1, <3>1, <3>2 DEF Beats
    <3>3. CASE /\ current \in Screens /\ net' = net \cup {Beat(current, "timer")}
               /\ pending' = [pending EXCEPT ![current] = {}]
      <4>1. Beats' = Beats \cup {Beat(current, "timer")}
        BY <3>3 DEF Beats, Beat, Request
      <4> QED BY <1>1, <3>1, <3>3, <4>1, FlushTime
    <3> QED BY <2>2, <3>2, <3>3 DEF Route, Dispose, Shapes
  <2>3. ASSUME NEW s \in Screens, Flush(s) \/ Run(s) PROVE Steady(k)
    <3>1. UNCHANGED credited
      BY <2>3 DEF Flush, Run, server
    <3>2. CASE net' = net \cup {Post(s)} /\ UNCHANGED pending
      <4>1. Beats' = Beats
        BY <3>2 DEF Beats, Post, Request
      <4> QED BY <2>1, <3>1, <3>2, <4>1
    <3>3. ASSUME NEW by, net' = net \cup {Beat(s, by)}, pending' = [pending EXCEPT ![s] = {}]
          PROVE  Steady(k)
      <4>1. Beats' = Beats \cup {Beat(s, by)}
        BY <3>3 DEF Beats, Beat, Request
      <4> QED BY <1>1, <3>1, <3>3, <4>1, FlushTime
    <3> QED BY <2>3, <3>2, <3>3 DEF Flush, Run
  <2>4. ASSUME NEW s \in Screens, Save(s) \/ Restart(s) PROVE Steady(k)
    <3>1. Beats' = Beats
      BY <2>4 DEF Save, Restart, Beats, Request
    <3> QED BY <2>1, <2>4, <3>1 DEF Save, Restart, server
  <2>5. ASSUME NEW s \in Screens, Tick(s) PROVE Steady(k)
    BY <2>5, TickTime DEF Onward
  <2>6. ASSUME NEW r \in net, ServeHeartbeat(r) PROVE Steady(k)
    BY <1>1, <2>6, ServeTime
  <2>7. ASSUME NEW r \in net, ServeDraft(r) PROVE Steady(k)
    <3>1. Beats' = Beats
      BY <2>7 DEF ServeDraft, Beats
    <3> QED BY <2>1, <2>7, <3>1 DEF ServeDraft
  <2>8. ASSUME NEW r \in net, ServeRun(r) \/ ServeRestart(r) PROVE Steady(k)
    <3>1. ASSUME NEW state \in Later, ServedAs(r, state), r.kind # "heartbeat" PROVE Beats' = Beats
      <4>1. PICK m : m = [r EXCEPT !.state = state]
        OBVIOUS
      <4>2. m.kind = r.kind
        BY <3>1, <4>1, Marked
      <4> QED BY <3>1, <4>1, <4>2 DEF ServedAs, Beats
    <3>2. Beats' = Beats
      BY <2>8, <3>1 DEF ServeRun, ServeRestart, RestartAbandons, RestartClears, RestartStarts, Later
    <3> QED BY <2>1, <2>8, <3>2 DEF ServeRun, ServeRestart, RestartAbandons, RestartClears, RestartStarts
  <2>9. ASSUME NEW r \in net, net' = net \ {r}, r.kind # "heartbeat" PROVE Beats' = Beats
    BY <2>9 DEF Beats
  <2>10. ASSUME NEW r \in net, AfterFlush(r), r.kind = "heartbeat" PROVE Beats' = Beats \ {r} /\ r \in Beats
    BY <2>10 DEF AfterFlush, Beats, Post, Request
  <2>11. ASSUME NEW r \in net, Answer(r) PROVE Steady(k)
    <3>1. UNCHANGED credited /\ r.state = "served"
      BY <2>11 DEF Answer, server
    <3>2. CASE Reload
      BY <1>1, <3>1, <3>2, ReloadTime
    <3>3. CASE UNCHANGED pending /\ r.kind = "heartbeat" /\ AfterFlush(r)
      <4>1. Beats' = Beats \ {r} /\ r \in Beats
        BY <2>10, <3>3
      <4> QED BY <1>1, <3>1, <3>3, <4>1, ReturnTime
    <3>4. CASE UNCHANGED pending /\ r.kind # "heartbeat" /\ net' = net \ {r}
      BY <2>1, <2>9, <3>1, <3>4
    <3> QED BY <2>11, <3>2, <3>3, <3>4 DEF Answer
  <2>12. ASSUME NEW r \in net, Refuse(r) \/ Fail(r) PROVE Steady(k)
    <3>1. UNCHANGED credited /\ Rejected(r) /\ (r.kind = "heartbeat" /\ r.state = "served" => answerLost')
      BY <2>12 DEF Refuse, Fail, server
    <3>2. CASE r.kind = "heartbeat" /\ AfterFlush(r) /\ PutBack(r)
      <4>1. Beats' = Beats \ {r} /\ r \in Beats
        BY <2>10, <3>2
      <4> QED BY <1>1, <3>1, <3>2, <4>1, ReturnTime
    <3>3. CASE UNCHANGED pending /\ r.kind # "heartbeat" /\ net' = net \ {r}
      BY <2>1, <2>9, <3>1, <3>3
    <3> QED BY <3>1, <3>2, <3>3 DEF Rejected
  <2>13. CASE UNCHANGED <<net, pending, credited>>
    BY <2>1, <2>13 DEF Beats
  <2>14. ASSUME NEW s \in Screens, \/ FetchTask(s) \/ Mount(s) \/ LoadFails(s) \/ Type(s)
                                   \/ StreamEnds(s) \/ RunEnds(s)
         PROVE  UNCHANGED <<net, pending, credited>>
    BY <2>14 DEF FetchTask, Mount, LoadFails, Type, StreamEnds, RunEnds, server
  <2>15. PageRendered \/ BookSolve \/ UNCHANGED vars => UNCHANGED <<net, pending, credited>>
    BY DEF PageRendered, BookSolve, vars, server
  <2> QED BY <2>2, <2>3, <2>4, <2>5, <2>6, <2>7, <2>8, <2>11, <2>12, <2>13, <2>14, <2>15
          DEF Next, Open, LeaveTask, Serve
<1>2. \A k \in Ticked' : Steady(k)
  <2>1. CASE UNCHANGED ticks
    BY <1>1, <2>1 DEF Ticked
  <2>2. ASSUME NEW s \in Screens, Tick(s) PROVE \A k \in Ticked' : Steady(k)
    BY <2>2, TickTime
  <2> QED BY <2>1, <2>2, TicksStep
<1>3. \A k \in (1 .. MaxTicks) \ Ticked' : credited'[k] = 0
  <2>1. \A k \in (1 .. MaxTicks) \ Ticked : credited[k] = 0
    BY DEF Time
  <2>2. Ticked \subseteq Ticked'
    BY DEF Onward
  <2>3. UNCHANGED credited \/ \E r \in net : ServeHeartbeat(r)
    <3>1. ASSUME NEW s \in Screens, \/ Open(s) \/ FetchTask(s) \/ Mount(s) \/ LoadFails(s) \/ Type(s) \/ Save(s)
                                    \/ Tick(s) \/ Flush(s) \/ Run(s) \/ Restart(s) \/ StreamEnds(s) \/ RunEnds(s)
          PROVE  UNCHANGED credited
      BY <3>1 DEF Open, Route, FetchTask, Mount, LoadFails, Type, Save, Tick, Flush, Run, Restart, StreamEnds,
                  RunEnds, server
    <3>2. ASSUME NEW r \in net, ServeDraft(r) \/ ServeRun(r) \/ ServeRestart(r) \/ Answer(r) \/ Refuse(r) \/ Fail(r)
          PROVE  UNCHANGED credited
      BY <3>2 DEF ServeDraft, ServeRun, ServeRestart, RestartAbandons, RestartClears, RestartStarts,
                  Answer, Refuse, Fail, server
    <3>3. LeaveTask \/ PageRendered \/ BookSolve \/ UNCHANGED vars => UNCHANGED credited
      BY DEF LeaveTask, Route, PageRendered, BookSolve, vars, server
    <3> QED BY <3>1, <3>2, <3>3 DEF Next, Serve
  <2>4. ASSUME NEW r \in net, ServeHeartbeat(r), NEW k \in (1 .. MaxTicks) \ Ticked PROVE credited'[k] = 0
    <3>1. k \notin r.load
      BY <2>4 DEF Fits, RequestFits, ServeHeartbeat
    <3> QED BY <2>1, <2>4, <3>1 DEF ServeHeartbeat
  <2> QED BY <2>1, <2>2, <2>3, <2>4
<1> QED BY <1>2, <1>3 DEF Time, Steady

------------------------------------------------------------------------------
(* The newest text. *)

\* The text stays where it is, or a submission was lost.
LEMMA QuietText ==
  ASSUME NEW s \in Screens, Safe(s), UNCHANGED <<typed, cleared, draft>>,
         phase'[s] \in {"fetched", "mounted"} =>
           /\ phase[s] \in {"fetched", "mounted"} /\ content'[s] = content[s]
           /\ saveTimer[s] => saveTimer'[s],
         stale => stale', stale' \/ Texts \subseteq Texts'
  PROVE  Safe(s)'
BY DEF Safe

\* The server keeps a text: a text that is not the newest makes it stale.
LEMMA SavedText ==
  ASSUME Shapes, Fits, NEW s \in Screens, Safe(s), NEW r \in net, r.kind \in {"draft", "run"},
         SaveDraft(r.load), Texts \ {r} \subseteq Texts',
         UNCHANGED <<typed, cleared, phase, content, saveTimer>>
  PROVE  Safe(s)'
<1>1. r.load \in Nat /\ r.load <= typed /\ typed \in Nat /\ cleared \in Nat /\ draft \in Nat
  BY EditorAssumption DEF Shapes, Fits, RequestFits
<1>2. draft' = r.load /\ stale' = (stale \/ r.load < draft \/ r.load < cleared)
  BY DEF SaveDraft
<1>3. CASE r.load = typed
  BY <1>2, <1>3 DEF Safe
<1>4. CASE r.load # typed
  <2>1. draft = typed => stale'
    <3>1. draft = typed => r.load < draft
      BY <1>1, <1>4
    <3> QED BY <1>2, <3>1
  <2>2. stale => stale'
    BY <1>2
  <2>3. (\E r2 \in Texts : r2.load = typed) => \E r2 \in Texts' : r2.load = typed
    BY <1>4
  <2> QED BY <2>1, <2>2, <2>3 DEF Safe
<1> QED BY <1>3, <1>4

\* The newest text is never lost in a step.
LEMMA TextStep ==
  ASSUME Shapes, Fits, Onward, [Next]_vars, NEW s \in Screens, Safe(s)
  PROVE  Safe(s)'
<1>0. /\ content[s] \in Nat /\ content[s] <= typed /\ typed \in Nat /\ cleared \in Nat
      /\ phase \in [Screens -> Early \cup {"mounted", "disposed", "gone"}]
      /\ content \in [Screens -> Nat] /\ saveTimer \in [Screens -> BOOLEAN]
      /\ stale => stale'
  BY EditorAssumption DEF Shapes, Fits, ScreenFits, Onward
<1>1. ASSUME NEW target, Route(target) PROVE Safe(s)'
  <2>1. Texts \subseteq Texts'
    BY <1>1 DEF Route, Dispose, Texts
  <2>2. UNCHANGED <<typed, cleared, draft, content>>
    BY <1>1 DEF Route, history, server
  <2>3. phase'[s] \in {"fetched", "mounted"} => phase[s] = phase'[s] /\ s # current
    BY <1>0, <1>1 DEF Route
  <2>4. s # current => saveTimer'[s] = saveTimer[s]
    BY <1>0, <1>1 DEF Route, Dispose
  <2> QED BY <1>0, <2>1, <2>2, <2>3, <2>4, QuietText
<1>2. ASSUME NEW t \in Screens, FetchTask(t) PROVE Safe(s)'
  <2>1. UNCHANGED <<typed, cleared, draft, saveTimer, net>> /\ content' = [content EXCEPT ![t] = draft]
        /\ phase' = [phase EXCEPT ![t] = "fetched"]
    BY <1>2 DEF FetchTask, history, server
  <2>2. CASE s = t
    BY <1>0, <2>1, <2>2 DEF Safe
  <2>3. CASE s # t
    <3>1. phase'[s] = phase[s] /\ content'[s] = content[s]
      BY <1>0, <2>1, <2>3
    <3>2. Texts' = Texts
      BY <2>1 DEF Texts
    <3> QED BY <1>0, <2>1, <3>1, <3>2, QuietText
  <2> QED BY <2>2, <2>3
<1>3. ASSUME NEW t \in Screens, Mount(t) \/ LoadFails(t) PROVE Safe(s)'
  <2>1. Texts' = Texts /\ UNCHANGED <<typed, cleared, draft, saveTimer>>
    BY <1>3 DEF Mount, LoadFails, Texts, history, server
  <2>2. phase'[s] \in {"fetched", "mounted"} =>
          phase[s] \in {"fetched", "mounted"} /\ content'[s] = content[s]
    BY <1>0, <1>3 DEF Mount, LoadFails
  <2> QED BY <1>0, <2>1, <2>2, QuietText
<1>4. ASSUME NEW t \in Screens, Type(t) PROVE Safe(s)'
  <2>1. typed' = typed + 1 /\ content' = [content EXCEPT ![t] = typed'] /\ saveTimer' = [saveTimer EXCEPT ![t] = TRUE]
    BY <1>4 DEF Type
  <2>2. CASE s = t
    BY <1>0, <2>1, <2>2 DEF Safe
  <2>3. CASE s # t
    <3>1. content'[s] # typed'
      BY <1>0, <2>1, <2>3
    <3> QED BY <3>1 DEF Safe
  <2> QED BY <2>2, <2>3
<1>5. ASSUME NEW t \in Screens, Save(t) PROVE Safe(s)'
  <2>1. /\ net' = net \cup {Request("draft", t, content[t], "timer")}
        /\ saveTimer' = [saveTimer EXCEPT ![t] = FALSE]
        /\ UNCHANGED <<typed, cleared, draft, content, phase, stale>>
    BY <1>5 DEF Save, router, history, server, faults
  <2>2. PICK m : m = Request("draft", t, content[t], "timer")
    OBVIOUS
  <2>3. m.kind = "draft" /\ m.state = "sent" /\ m.load = content[t]
    BY <2>2 DEF Request
  <2>4. Texts' = Texts \cup {m}
    BY <2>1, <2>2, <2>3 DEF Texts
  <2>5. CASE s = t
    BY <2>1, <2>3, <2>4, <2>5 DEF Safe
  <2>6. CASE s # t
    <3>1. saveTimer'[s] = saveTimer[s]
      BY <1>0, <2>1, <2>6
    <3> QED BY <2>1, <2>4, <3>1, QuietText
  <2> QED BY <2>5, <2>6
<1>6. ASSUME UNCHANGED <<typed, cleared, draft, phase, content, saveTimer>>, stale' \/ Texts \subseteq Texts'
      PROVE  Safe(s)'
  BY <1>0, <1>6, QuietText
<1>7. ASSUME NEW t \in Screens, Tick(t) \/ Flush(t) \/ Run(t) \/ Restart(t) \/ StreamEnds(t) \/ RunEnds(t)
      PROVE  Safe(s)'
  <2>1. Texts \subseteq Texts'
    BY <1>7 DEF Tick, Flush, Run, Restart, StreamEnds, RunEnds, Texts
  <2> QED BY <1>6, <1>7, <2>1 DEF Tick, Flush, Run, Restart, StreamEnds, RunEnds, router, history, server
<1>8. ASSUME NEW r \in net, ServeHeartbeat(r) PROVE Safe(s)'
  <2>1. Texts \subseteq Texts'
    BY <1>8 DEF ServeHeartbeat, ServedAs, Texts
  <2> QED BY <1>6, <1>8, <2>1 DEF ServeHeartbeat, router, history
<1>9. ASSUME NEW r \in net, ServeDraft(r) \/ ServeRun(r) PROVE Safe(s)'
  <2>1. Texts \ {r} \subseteq Texts'
    BY <1>9 DEF ServeDraft, ServeRun, ServedAs, Texts
  <2> QED BY <1>9, <2>1, SavedText DEF ServeDraft, ServeRun, router, history
<1>10. ASSUME NEW r \in net, ServeRestart(r) PROVE Safe(s)'
  <2>1. CASE RestartClears(r)
    <3>1. cleared' = typed + 1 /\ UNCHANGED typed
      BY <2>1 DEF RestartClears
    <3> QED BY <1>0, <3>1 DEF Safe
  <2>2. CASE RestartAbandons(r) \/ RestartStarts(r)
    <3>1. Texts \subseteq Texts'
      BY <2>2 DEF RestartAbandons, RestartStarts, ServedAs, Texts
    <3> QED BY <1>6, <2>2, <3>1 DEF RestartAbandons, RestartStarts, router, history
  <2> QED BY <1>10, <2>1, <2>2 DEF ServeRestart
<1>11. ASSUME NEW r \in net, Answer(r) PROVE Safe(s)'
  <2>1. UNCHANGED <<typed, cleared, draft>> /\ r.state = "served"
    BY <1>11 DEF Answer, history, server
  <2>2. CASE Reload
    BY <2>2 DEF Reload, Safe
  <2>3. CASE UNCHANGED <<router, content, saveTimer>> /\ (AfterFlush(r) \/ net' = net \ {r})
    <3>1. Texts \subseteq Texts'
      BY <2>1, <2>3 DEF AfterFlush, Texts
    <3> QED BY <1>6, <2>1, <2>3, <3>1 DEF router
  <2> QED BY <1>11, <2>2, <2>3 DEF Answer
<1>12. ASSUME NEW r \in net, Refuse(r) \/ Fail(r) PROVE Safe(s)'
  <2>1. UNCHANGED <<typed, cleared, draft, phase, content, saveTimer>> /\ (AfterFlush(r) \/ net' = net \ {r})
    BY <1>12 DEF Refuse, Fail, Rejected, router, history, server
  <2>2. stale' \/ r \notin Texts
    BY <1>12 DEF Refuse, Fail, Texts
  <2>3. r \notin Texts => Texts \subseteq Texts'
    BY <2>1 DEF AfterFlush, Texts
  <2> QED BY <1>6, <2>1, <2>2, <2>3
<1>13. CASE PageRendered \/ BookSolve \/ UNCHANGED vars
  BY <1>6, <1>13 DEF PageRendered, BookSolve, vars, history, server, router, Texts
<1> QED BY <1>1, <1>2, <1>3, <1>4, <1>5, <1>7, <1>8, <1>9, <1>10, <1>11, <1>12, <1>13
        DEF Next, Open, LeaveTask, Serve

------------------------------------------------------------------------------
(* The run button. *)

\* What run() waits for stays on the wire, whatever becomes of its state.
Awaited(s) ==
  \A r \in net : r.screen = s /\ r.by = "run" =>
    \E m \in net' : m.screen = s /\ m.by = "run" /\ m.kind = r.kind

\* A step that is not about run() leaves it where it is.
LEMMA QuietRun ==
  ASSUME Shapes, Onward, NEW s \in Screens, InStep(s), Awaited(s),
         phase'[s] = "mounted" => phase[s] = "mounted" /\ running'[s] = running[s]
  PROVE  InStep(s)'
BY DEF InStep, UnderWay, Awaited, Onward

\* run() goes on with its submission on the wire, or does not go on.
LEMMA FlushedRun ==
  ASSUME Shapes, Onward, NEW s \in Screens, InStep(s), NEW r \in net, AfterFlush(r), UNCHANGED phase
  PROVE  InStep(s)'
<1>1. r.screen \in Screens /\ running \in [Screens -> {"idle", "flushing", "posting", "following", "cut"}]
  BY Fields DEF Shapes
<1>2. CASE r.by = "run" /\ phase[r.screen] # "gone" /\ s = r.screen
  <2>1. running'[s] = "posting" /\ Post(s) \in net'
    BY <1>1, <1>2 DEF AfterFlush
  <2>2. UnderWay(s, "run")'
    BY <2>1 DEF UnderWay, Post, Request
  <2> QED BY <2>1, <2>2 DEF InStep
<1>3. CASE r.by = "run" /\ phase[r.screen] # "gone" /\ s # r.screen
  <2>1. Awaited(s)
    BY <1>3 DEF AfterFlush, Awaited
  <2>2. running'[s] = running[s]
    BY <1>1, <1>3 DEF AfterFlush
  <2> QED BY <2>1, <2>2, QuietRun
<1>4. CASE ~(r.by = "run" /\ phase[r.screen] # "gone")
  <2>1. net' = net \ {r} /\ UNCHANGED running
    BY <1>4 DEF AfterFlush
  <2>2. CASE phase[s] # "gone"
    <3>1. Awaited(s)
      BY <1>4, <2>1, <2>2 DEF Awaited
    <3> QED BY <2>1, <3>1, QuietRun
  <2>3. CASE phase[s] = "gone"
    BY <2>3 DEF InStep
  <2> QED BY <2>2, <2>3
<1> QED BY <1>2, <1>3, <1>4

\* The button is accounted for in every step.
LEMMA RunStep ==
  ASSUME Shapes, Fits, Onward, [Next]_vars, NEW s \in Screens, InStep(s)
  PROVE  InStep(s)'
<1>0. /\ phase \in [Screens -> Early \cup {"mounted", "disposed", "gone"}]
      /\ running \in [Screens -> {"idle", "flushing", "posting", "following", "cut"}]
  BY DEF Shapes
<1>1. ASSUME net \subseteq net' PROVE Awaited(s)
  BY <1>1 DEF Awaited
<1>2. ASSUME net \subseteq net', phase'[s] = "mounted" => phase[s] = "mounted" /\ running'[s] = running[s]
      PROVE  InStep(s)'
  BY <1>1, <1>2, QuietRun
<1>3. ASSUME NEW target, Route(target) PROVE InStep(s)'
  <2>1. net \subseteq net'
    BY <1>3 DEF Route, Dispose
  <2>2. phase'[s] = "mounted" => phase[s] = "mounted" /\ s # current
    BY <1>0, <1>3 DEF Route
  <2>3. s # current => running'[s] = running[s]
    BY <1>0, <1>3 DEF Route, Dispose
  <2> QED BY <1>2, <2>1, <2>2, <2>3
<1>4. ASSUME NEW t \in Screens, Mount(t) PROVE InStep(s)'
  <2>1. UNCHANGED <<net, running>> /\ phase[t] = "fetched" /\ phase' = [phase EXCEPT ![t] = "mounted"]
    BY <1>4 DEF Mount
  <2>2. running[t] = "idle"
    BY <2>1 DEF Fits, ScreenFits, Early
  <2>3. CASE s = t
    BY <2>1, <2>2, <2>3 DEF InStep
  <2>4. CASE s # t
    BY <1>0, <1>2, <2>1, <2>4
  <2> QED BY <2>3, <2>4
<1>5. ASSUME NEW t \in Screens, FetchTask(t) \/ LoadFails(t) PROVE InStep(s)'
  <2>1. UNCHANGED <<net, running>>
    BY <1>5 DEF FetchTask, LoadFails
  <2>2. phase'[s] = "mounted" => phase[s] = "mounted"
    BY <1>0, <1>5 DEF FetchTask, LoadFails
  <2> QED BY <1>2, <2>1, <2>2
<1>6. ASSUME NEW t \in Screens, \/ Type(t) \/ Save(t) \/ Tick(t) \/ Flush(t) \/ Restart(t) \/ RunEnds(t)
      PROVE  InStep(s)'
  <2>1. net \subseteq net' /\ UNCHANGED <<phase, running>>
    BY <1>6 DEF Type, Save, Tick, Flush, Restart, RunEnds, router
  <2> QED BY <1>2, <2>1
<1>7. ASSUME NEW t \in Screens, Run(t) PROVE InStep(s)'
  <2>1. UNCHANGED phase /\ net \subseteq net'
    BY <1>7 DEF Run, router
  <2>2. CASE s # t
    <3>1. running'[s] = running[s]
      BY <1>0, <1>7, <2>2 DEF Run
    <3> QED BY <1>2, <2>1, <3>1
  <2>3. CASE s = t /\ MayFlush(s)
    <3>1. running'[s] = "flushing" /\ Beat(s, "run") \in net'
      BY <1>0, <1>7, <2>3 DEF Run
    <3>2. UnderWay(s, "heartbeat")'
      BY <3>1 DEF UnderWay, Beat, Request
    <3> QED BY <3>1, <3>2 DEF InStep
  <2>4. CASE s = t /\ ~MayFlush(s)
    <3>1. running'[s] = "posting" /\ Post(s) \in net'
      BY <1>0, <1>7, <2>4 DEF Run
    <3>2. UnderWay(s, "run")'
      BY <3>1 DEF UnderWay, Post, Request
    <3> QED BY <3>1, <3>2 DEF InStep
  <2> QED BY <2>2, <2>3, <2>4
<1>8. ASSUME NEW t \in Screens, StreamEnds(t) PROVE InStep(s)'
  <2>1. UNCHANGED <<phase, net>> /\ running' = [running EXCEPT ![t] = "idle"]
    BY <1>8 DEF StreamEnds, router
  <2>2. CASE s = t
    BY <1>0, <2>1, <2>2 DEF InStep
  <2>3. CASE s # t
    BY <1>0, <1>2, <2>1, <2>3
  <2> QED BY <2>2, <2>3
<1>9. ASSUME NEW r \in net, Serve(r) PROVE InStep(s)'
  <2>1. UNCHANGED <<phase, running>>
    BY <1>9 DEF Serve, ServeHeartbeat, ServeDraft, ServeRun, ServeRestart, RestartAbandons,
                RestartClears, RestartStarts, router
  <2>2. ASSUME NEW state \in Later, ServedAs(r, state) PROVE Awaited(s)
    <3>1. PICK m : m = [r EXCEPT !.state = state]
      OBVIOUS
    <3>2. m.kind = r.kind /\ m.screen = r.screen /\ m.by = r.by
      BY <3>1, Marked
    <3>3. net' = (net \ {r}) \cup {m}
      BY <2>2, <3>1 DEF ServedAs
    <3> QED BY <3>2, <3>3 DEF Awaited
  <2>3. CASE ServeDraft(r)
    BY <2>1, <2>3 DEF ServeDraft, InStep, UnderWay
  <2>4. ~ServeDraft(r) => Awaited(s)
    BY <1>9, <2>2 DEF Serve, ServeHeartbeat, ServeRun, ServeRestart, RestartAbandons, RestartClears,
                      RestartStarts, Later
  <2> QED BY <2>1, <2>3, <2>4, QuietRun
<1>10. ASSUME NEW r \in net, r.kind \notin {"heartbeat", "run"}, net' = net \ {r}, UNCHANGED <<phase, running>>
       PROVE  InStep(s)'
  BY <1>10 DEF InStep, UnderWay, Onward
<1>11. ASSUME NEW r \in net, r.kind = "run", net' = net \ {r}, UNCHANGED phase,
              NEW w, w = "idle" \/ (w = "following" /\ verdict'[r.screen] # "none"),
              running' = IF phase[r.screen] = "gone" THEN running ELSE [running EXCEPT ![r.screen] = w]
       PROVE  InStep(s)'
  <2>1. r.screen \in Screens
    BY Fields
  <2>2. CASE phase[s] = "gone"
    BY <1>11, <2>2 DEF InStep
  <2>3. CASE phase[s] # "gone" /\ s = r.screen
    <3>1. running'[s] = w
      BY <1>0, <1>11, <2>3
    <3> QED BY <1>11, <2>3, <3>1 DEF InStep
  <2>4. CASE s # r.screen
    <3>1. running'[s] = running[s]
      BY <1>0, <1>11, <2>1, <2>4
    <3>2. Awaited(s)
      BY <1>11, <2>4 DEF Awaited
    <3> QED BY <1>11, <3>1, <3>2, QuietRun
  <2> QED BY <2>2, <2>3, <2>4
<1>12. ASSUME NEW r \in net, Answer(r) PROVE InStep(s)'
  <2>1. r.state = "served" /\ UNCHANGED verdict
    BY <1>12 DEF Answer, server
  <2>2. CASE Reload
    BY <2>2 DEF Reload, InStep
  <2>3. CASE UNCHANGED router /\ AfterFlush(r)
    BY <2>3, FlushedRun DEF router
  <2>4. CASE UNCHANGED router /\ r.kind = "restart" /\ net' = net \ {r} /\ UNCHANGED running
    BY <1>10, <2>4 DEF router
  <2>5. CASE /\ UNCHANGED router /\ r.kind = "run" /\ net' = net \ {r}
             /\ running' = IF phase[r.screen] = "gone" THEN running
                           ELSE [running EXCEPT ![r.screen] = "following"]
    <3>1. verdict'[r.screen] # "none"
      BY <2>1, <2>5 DEF Fits, RequestFits
    <3> QED BY <1>11, <2>5, <3>1 DEF router
  <2> QED BY <1>12, <2>2, <2>3, <2>4, <2>5 DEF Answer
<1>13. ASSUME NEW r \in net, Refuse(r) \/ Fail(r) PROVE InStep(s)'
  <2>1. UNCHANGED phase /\ Rejected(r)
    BY <1>13 DEF Refuse, Fail, router
  <2>2. CASE AfterFlush(r)
    BY <2>1, <2>2, FlushedRun
  <2>3. CASE r.kind = "run" /\ net' = net \ {r} /\ AfterPostFailed(r)
    BY <1>11, <2>1, <2>3 DEF AfterPostFailed
  <2>4. CASE r.kind \in {"draft", "restart"} /\ net' = net \ {r} /\ UNCHANGED <<pending, running>>
    BY <1>10, <2>1, <2>4
  <2> QED BY <2>1, <2>2, <2>3, <2>4 DEF Rejected
<1>14. CASE PageRendered \/ BookSolve \/ UNCHANGED vars
  BY <1>2, <1>14 DEF PageRendered, BookSolve, vars, router
<1> QED BY <1>3, <1>4, <1>5, <1>6, <1>7, <1>8, <1>9, <1>12, <1>13, <1>14
        DEF Next, Open, LeaveTask, Serve

------------------------------------------------------------------------------
(* The theorems. *)

\* Every reachable state satisfies the inductive invariant.
THEOREM Invariance == Spec => []IInv
<1>1. Init => IInv
  <2> SUFFICES ASSUME Init PROVE IInv
    OBVIOUS
  <2> USE EditorAssumption DEF Init
  <2>1. Ticked = {}
    BY DEF Ticked
  <2>2. Shapes
    <3>1. ticks \in Seq([attempt : Nat, screen : Screens]) /\ Len(ticks) = 0
      OBVIOUS
    <3>2. {MaxEdits, MaxTicks, MaxTrouble} \subseteq Nat
      BY EditorAssumption
    <3>3. Len(ticks) <= MaxTicks /\ attempt \in 0 .. MaxTrouble /\ typed \in 0 .. MaxEdits
      BY <3>1, <3>2
    <3> QED BY <3>1, <3>3 DEF Shapes, Early
  <2>3. Fits
    BY <2>1 DEF Fits, ScreenFits, Early
  <2>4. Time
    BY <2>1 DEF Time
  <2>5. \A s \in Screens : Safe(s) /\ InStep(s)
    BY DEF Safe, InStep
  <2> QED BY <2>2, <2>3, <2>4, <2>5 DEF IInv
<1>2. IInv /\ [Next]_vars => IInv'
  <2> SUFFICES ASSUME IInv, [Next]_vars PROVE IInv'
    OBVIOUS
  <2>1. Shapes /\ Fits /\ Time /\ \A s \in Screens : Safe(s) /\ InStep(s)
    BY DEF IInv
  <2>2. Shapes' /\ Onward
    BY <2>1, ShapesStep
  <2>3. Fits'
    BY <2>1, <2>2, FitsStep
  <2>4. Time'
    BY <2>1, <2>2, TimeStep
  <2>5. \A s \in Screens : Safe(s)' /\ InStep(s)'
    BY <2>1, <2>2, TextStep, RunStep
  <2> QED BY <2>2, <2>3, <2>4, <2>5 DEF IInv
<1> QED BY <1>1, <1>2, PTL DEF Spec

\* The variables have their types.
THEOREM TypeCorrect == Spec => []TypeOK
<1>1. IInv => TypeOK
  <2> SUFFICES ASSUME IInv PROVE TypeOK
    OBVIOUS
  <2>1. Shapes /\ (\A s \in Screens : ScreenFits(s)) /\ draft <= typed
    BY DEF IInv, Fits
  <2>2. {MaxEdits, MaxTrouble} \subseteq Nat
    BY EditorAssumption
  <2>3. \A s \in Screens : mine[s] \in 0 .. MaxTrouble /\ content[s] \in 0 .. MaxEdits
    BY <2>1, <2>2 DEF Shapes, ScreenFits
  <2>4. draft \in 0 .. MaxEdits
    BY <2>1, <2>2 DEF Shapes
  <2>5. pending \in [Screens -> SUBSET Ticked]
    BY <2>1 DEF Shapes, ScreenFits
  <2>6. \A r \in net : r.screen \in Screens
    BY <2>1, Fields
  <2> QED BY <2>1, <2>3, <2>4, <2>5, <2>6 DEF Shapes, TypeOK
<1> QED BY <1>1, Invariance, PTL

\* Active time is neither lost nor counted twice, however the heartbeats of a
\* task screen overlap, fail and are refused (flushActivity, handleHeartbeat).
THEOREM TimeIsConserved == Spec => []TicksAreConserved
<1>1. IInv => TicksAreConserved
  <2> SUFFICES ASSUME IInv, NEW k \in Ticked
               PROVE  /\ credited[k] > 1 => answerLost
                      /\ Owed(k) => \/ credited[k] > 0
                                    \/ \E s \in Screens : k \in pending[s]
                                    \/ \E r \in net : r.kind = "heartbeat" /\ k \in r.load
    BY DEF TicksAreConserved
  <2>1. Kept(k) /\ (answerLost \/ Once(k))
    BY DEF IInv, Time
  <2>2. Once(k) => ~(credited[k] > 1)
    <3>1. k \in 1 .. MaxTicks => credited[k] \in Nat
      BY DEF IInv, Shapes
    <3>2. ticks \in Seq([attempt : Nat, screen : Screens]) /\ Len(ticks) <= MaxTicks
      BY DEF IInv, Shapes
    <3>3. Ticked = 1 .. Len(ticks) /\ Len(ticks) \in Nat
      BY <3>2 DEF Ticked
    <3>4. MaxTicks \in Nat
      BY EditorAssumption
    <3>5. k \in 1 .. MaxTicks
      BY <3>2, <3>3, <3>4
    <3> QED BY <3>1, <3>5 DEF Once
  <2> QED BY <2>1, <2>2 DEF Kept, Carried, Beats
<1> QED BY <1>1, Invariance, PTL

\* Once the autosave of a screen has settled the newest text is the draft, unless
\* a request failed or an older text overtook it (save, handleSaveDraft).
THEOREM DraftKept == Spec => []DraftIsSaved
<1>1. IInv => DraftIsSaved
  BY DEF IInv, Safe, DraftIsSaved, Saved, Texts
<1> QED BY <1>1, Invariance, PTL

\* The run button is disabled only while something is under way that enables it
\* again (run, follow, finishRun).
THEOREM ButtonReturns == Spec => []ButtonComesBack
<1>1. IInv => ButtonComesBack
  BY DEF IInv, InStep, UnderWay, ButtonComesBack
<1> QED BY <1>1, Invariance, PTL
==============================================================================
