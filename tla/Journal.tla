------------------------------- MODULE Journal -------------------------------
(***************************************************************************)
(* The journal of notes and the history screens: internal/store/notes.go,  *)
(* stats.go and the progress queries of tasks.go, with the handlers that   *)
(* show them (httpapi/notes.go, stats.go, tasks.go).  Every screen runs    *)
(* queries of its own over the tables of Store; what one says of a solve   *)
(* must be what the others say.                                            *)
(*                                                                         *)
(* The text of a note, paging and the order of topics are left out; times  *)
(* are clock units instead of milliseconds.                                *)
(***************************************************************************)
EXTENDS Screens, SequencesExt

CONSTANTS
  ActivityWindow, \* days the activity strip looks back, 90 in the code
  MaxNotes        \* bound on the notes table

ASSUME JournalAssumption ==
  /\ ActivityWindow \in Nat
  /\ MaxNotes \in Nat
  /\ IsFiniteSet(Tasks)  \* the directories of a disk

VARIABLE notes  \* table notes in the order of the ids: attempt and created_at

journalVars == <<screenVars, notes>>

\* ORDER BY, with an order that leaves no ties: the k-th row has k - 1 before it.
Sorted(rows, before(_, _)) ==
  [k \in 1 .. Cardinality(rows) |->
     CHOOSE row \in rows : Cardinality({other \in rows : before(other, row)}) = k - 1]

------------------------------------------------------------------------------
(* The journal. *)

NoteOf(i) == {k \in DOMAIN notes : notes[k].attempt = i}

HasNote(i) == NoteOf(i) # {}

\* An upsert, whatever the status of the attempt: only the text of a note that
\* exists is replaced.
SaveNote(i) ==
  /\ HasNote(i) \/ Len(notes) < MaxNotes
  /\ notes' = IF HasNote(i) THEN notes ELSE Append(notes, [attempt |-> i, created |-> now])
  /\ UNCHANGED screenVars

DeleteNote(k) == notes' = RemoveAt(notes, k) /\ UNCHANGED screenVars

\* Newest first by created_at, then by id, of one topic or of all.
Notes(topics) ==
  LET newer(k, l) == \/ notes[k].created > notes[l].created
                     \/ notes[k].created = notes[l].created /\ k > l
      shown == {k \in DOMAIN notes : Topic[attempts[notes[k].attempt].task] \in topics}
  IN  Sorted(shown, newer)

------------------------------------------------------------------------------
(* The progress of a task: TaskStates, and its summary on the list screens. *)

\* Mutant: the newest row instead of the latest solve.
LatestOf_ById(t) == {i \in PassedOf(t) : \A j \in PassedOf(t) : j <= i}

\* ORDER BY finished_at DESC LIMIT 1: equal times leave the choice to SQLite.
LatestOf(t) == {i \in PassedOf(t) : \A j \in PassedOf(t) : attempts[j].finished <= attempts[i].finished}

ActiveOf(ids) == {attempts[i].active : i \in ids}

BestActive(t) == IF PassedOf(t) = {} THEN 0 ELSE Min(ActiveOf(PassedOf(t)))

LastActive(t) == IF PassedOf(t) = {} THEN {0} ELSE ActiveOf(LatestOf(t))

TaskState(t) ==
  [attempts |-> Cardinality({i \in Ids : attempts[i].task = t /\ attempts[i].status # "abandoned"}),
   passes |-> Cardinality(PassedOf(t)),
   best |-> BestActive(t), last |-> LastActive(t),
   stage |-> reviews[t].stage, scheduled |-> reviews[t].exists]

\* A task that vanished from disk keeps its history, but not its mastery.
Summary(t) ==
  LET st == TaskState(t)
  IN  [attempts |-> st.attempts, best |-> st.best, last |-> st.last,
       solved |-> st.passes > 0,
       mastered |-> t \notin deleted /\ Mastered([stage |-> st.stage, exists |-> st.scheduled]),
       missing |-> t \in deleted]

\* TaskPassed: the reference opens after the first green run.
SolutionOpen(t) == PassedOf(t) # {}

------------------------------------------------------------------------------
(* The statistics screen. *)

\* TaskSeriesAll: the points of a task by finished_at.
Points(t) ==
  Sorted(PassedOf(t), LAMBDA i, j : \/ attempts[i].finished < attempts[j].finished
                                    \/ attempts[i].finished = attempts[j].finished /\ i < j)

SeriesBest(t) == Min(ActiveOf(PassedOf(t)))

SeriesLast(t) == attempts[Last(Points(t))].active

\* Rounded to whole percents; 0 when the best time is 0.
TrendPct(t) ==
  LET best == SeriesBest(t)
      slower == SeriesLast(t) - best
  IN  IF best = 0 THEN 0 ELSE (200 * slower + best) \div (2 * best)

\* Mutant: the rank rounded down.
Percentile_Floor(sorted, tenths) ==
  IF sorted = << >> THEN 0
  ELSE sorted[Min({Max({(tenths * Len(sorted)) \div 10, 1}), Len(sorted)})]

\* The nearest rank, in tenths instead of a float.
Percentile(sorted, tenths) ==
  IF sorted = << >> THEN 0
  ELSE sorted[Min({Max({(tenths * Len(sorted) + 9) \div 10, 1}), Len(sorted)})]

PassedIn(topic) == {i \in Passed : Topic[attempts[i].task] = topic}

\* The active times of a topic, sorted: positions are solves, not values.
Durations(topic) ==
  LET order == Sorted(PassedIn(topic), LAMBDA i, j : \/ attempts[i].active < attempts[j].active
                                                     \/ attempts[i].active = attempts[j].active /\ i < j)
  IN  [k \in DOMAIN order |-> attempts[order[k]].active]

\* Only topics with a task on disk are listed; their solves include those of
\* tasks that vanished.
ListedTopics == {Topic[t] : t \in Tasks \ deleted}

TopicStat(topic) ==
  LET ofTopic == {t \in Tasks \ deleted : Topic[t] = topic}
      failed == MapThenSumSet(LAMBDA i : attempts[i].fails, PassedIn(topic))
  IN  [tasks |-> Cardinality(ofTopic),
       solves |-> Len(Durations(topic)),
       median |-> Percentile(Durations(topic), 5),
       p90 |-> Percentile(Durations(topic), 9),
       failedRuns |-> failed,
       unsolved |-> Cardinality({t \in ofTopic : PassedOf(t) = {}})]

\* DailyActivity from the day handleStatsTasks asks for.
ActivityOn(day) ==
  IF day < Today - ActivityWindow THEN 0
  ELSE Cardinality({i \in Passed : attempts[i].day = day})

\* minutesToday of the home screen, before it is rounded to minutes.
ActiveToday ==
  MapThenSumSet(LAMBDA t : MapThenSumSet(LAMBDA i : IF attempts[i].day = Today THEN attempts[i].active ELSE 0,
                                         PassedOf(t)), Tasks)

------------------------------------------------------------------------------

JournalInit == ScreensInit /\ notes = << >>

JournalNext ==
  \/ ScreensNext /\ UNCHANGED notes
  \/ \E i \in Ids : SaveNote(i)
  \/ \E k \in DOMAIN notes : DeleteNote(k)

JournalSpec == JournalInit /\ [][JournalNext]_journalVars

------------------------------------------------------------------------------
(* Properties. *)

JournalTypeOK ==
  /\ deleted \subseteq Vanishing
  /\ notes \in Seq([attempt : Ids, created : Times])

\* Whether a task was solved is read from the attempts by some screens and from
\* the schedule by others.
SolvedIsSolved ==
  \A t \in Tasks :
    /\ Summary(t).solved <=> reviews[t].exists
    /\ SolutionOpen(t) <=> Summary(t).solved
    /\ t \in Candidates <=> t \notin deleted /\ ~Summary(t).solved

\* The list and the chart agree on the best and the latest time, and the latest
\* is never better than the best.
TimesAgree ==
  \A t \in Tasks : Summary(t).solved =>
    /\ Summary(t).best = SeriesBest(t)
    /\ SeriesLast(t) \in Summary(t).last
    /\ TrendPct(t) >= 0

\* The chart, the topics, the activity strip and the home screen count the same
\* solves, and the percentiles lie between the times of at least so many of them.
CountsAgree ==
  LET all == {Topic[t] : t \in Tasks}
  IN  /\ \A t \in Tasks : Len(Points(t)) = reviews[t].passCount
      /\ MapThenSumSet(LAMBDA topic : Len(Durations(topic)), all) = Cardinality(Passed)
      /\ ActivityOn(Today) = 0 <=> SolvedToday(Today) = 0
      /\ SolvedToday(Today) = 0 => ActiveToday = 0
      /\ ListedTopics \subseteq all
      /\ \A topic \in ListedTopics :
           LET st == TopicStat(topic)
               within(m) == Cardinality({i \in PassedIn(topic) : attempts[i].active <= m})
           IN  /\ st.unsolved > 0 <=> \E t \in Candidates : Topic[t] = topic
               /\ 2 * within(st.median) >= st.solves /\ 10 * within(st.p90) >= 9 * st.solves
               /\ st.median <= st.p90

\* The chart marks a solve as having a note exactly when the journal lists one
\* for it, once, on its own topic's page and on everybody's.
NotesAgree ==
  \A i \in Ids :
    LET listed(topics) == {k \in DOMAIN Notes(topics) : notes[Notes(topics)[k]].attempt = i}
    IN  \A topics \in {{Topic[attempts[i].task]}, {Topic[t] : t \in Tasks}} :
          Cardinality(listed(topics)) = IF HasNote(i) THEN 1 ELSE 0

\* "Next repetition on <date> (in N days)": the two agree until the task is
\* solved once more on the top rung, which repeats.
ReviewAgrees ==
  \A t \in Tasks :
    reviews[t].exists /\ reviews[t].passCount <= TopRung =>
      NextInDays(t) = reviews[t].due - DayOf(reviews[t].lastPassed)

\* Each screen reads the tables with queries of its own, some the attempts, some
\* the schedule; they tell the same story, however solves, repeats, deletions and
\* a clock that is set back interleave.
ScreensAgree == SolvedIsSolved /\ TimesAgree /\ CountsAgree /\ NotesAgree /\ ReviewAgrees
==============================================================================
