---------------------------- MODULE ScreensProofs ----------------------------
(***************************************************************************)
(* Proofs about Screens and Journal, for every set of tasks and contents,  *)
(* every clock, every assignment of topics and difficulties and every      *)
(* bound; and about TextDiff, for every set of texts and every bound.      *)
(***************************************************************************)
EXTENDS Journal, TextDiff, StoreProofs, SequenceTheorems, WellFoundedInduction

\* The screens only read: whatever they show, the store behaves as Store says.
LEMMA ScreensSpecIsSpec == ScreensSpec => Spec
<1>1. ScreensInit => Init
  BY DEF ScreensInit
<1>2. [ScreensNext]_screenVars => [Next]_vars
  BY DEF ScreensNext, SyncTasks, screenVars
<1> QED BY <1>1, <1>2, PTL DEF ScreensSpec, Spec

------------------------------------------------------------------------------
(* Reviews. *)

\* A task that was solved is due on no day up to the day of its last solve
\* (reviews.go's DueReviews after srs.Advance): the ladder has no gap of zero days,
\* and a clock that is set back does not bring a review forward.
THEOREM SolvedTasksSleep == ScreensSpec => []SolvedTasksRest
<1>1. TypeOK /\ ScheduleFollowsLadder => SolvedTasksRest
  <2> SUFFICES ASSUME TypeOK, ScheduleFollowsLadder, NEW t \in Tasks, reviews[t].exists,
                      NEW day \in 0 .. DayOf(reviews[t].lastPassed)
               PROVE  ~(reviews[t].due <= day)
    BY DEF SolvedTasksRest, DueReviews
  <2> DEFINE r == reviews[t]
  <2>1. r \in Review
    BY DEF TypeOK
  <2>2. r.due = DayOf(r.lastPassed) + IntervalDays(r.passCount - 1)
    BY DEF ScheduleFollowsLadder
  <2>3. r.passCount - 1 \in Int /\ r.lastPassed \in Int
    BY <2>1 DEF Review, NoTime
  <2>4. DayOf(r.lastPassed) \in Int
    BY <2>3, StoreAssumption DEF DayOf
  <2>5. IntervalDays(r.passCount - 1) \in Nat \ {0}
    BY <2>3, LadderType
  <2> HIDE DEF r
  <2>6. r.due > DayOf(r.lastPassed)
    BY <2>2, <2>4, <2>5
  <2>7. day \in Int /\ day <= DayOf(r.lastPassed)
    BY <2>4 DEF r
  <2>8. r.due \in Int
    BY <2>1 DEF Review
  <2> QED BY <2>4, <2>6, <2>7, <2>8 DEF r
<1> QED BY <1>1, ScreensSpecIsSpec, TypeCorrect, LadderFollowed, PTL

------------------------------------------------------------------------------
(* The list, the home screen and the review screen. *)

\* Notes are no matter for the other screens.
LEMMA JournalSpecIsSpec == JournalSpec => ScreensSpec
<1>1. JournalInit => ScreensInit
  BY DEF JournalInit
<1>2. [JournalNext]_journalVars => [ScreensNext]_screenVars
  BY DEF JournalNext, journalVars, SaveNote, DeleteNote
<1> QED BY <1>1, <1>2, PTL DEF JournalSpec, ScreensSpec

\* Whether a task was solved, which the list and the reference read from the
\* attempts (TaskStates, TaskPassed) and the home screen from the schedule, is one
\* answer; part of ScreensAgree.
THEOREM SolvedEverywhere == JournalSpec => []SolvedIsSolved
<1>1. TypeOK /\ ReviewCountsSolves => SolvedIsSolved
  <2> SUFFICES ASSUME TypeOK, ReviewCountsSolves, NEW t \in Tasks
               PROVE  /\ Summary(t).solved <=> reviews[t].exists
                      /\ SolutionOpen(t) <=> Summary(t).solved
                      /\ t \in Candidates <=> t \notin deleted /\ ~Summary(t).solved
    BY DEF SolvedIsSolved
  <2>1. Summary(t).solved <=> Cardinality(PassedOf(t)) > 0
    BY DEF Summary, TaskState
  <2>2. Cardinality(PassedOf(t)) > 0 <=> PassedOf(t) # {}
    BY PassedFinite, FS_EmptySet, FS_CardinalityType
  <2>3. reviews[t].exists <=> PassedOf(t) # {}
    BY DEF ReviewCountsSolves
  <2> QED BY <2>1, <2>2, <2>3 DEF SolutionOpen, Candidates
<1> QED BY <1>1, JournalSpecIsSpec, ScreensSpecIsSpec, TypeCorrect, SolvesAreCounted, PTL

\* "Next repetition on <date> (in N days)", from the rung below the task's stage,
\* names the gap the schedule was made with (handleReviews, srs.Advance); part of
\* ScreensAgree.
THEOREM ReviewsAsShown == JournalSpec => []ReviewAgrees
<1>1. TypeOK /\ ScheduleFollowsLadder => ReviewAgrees
  <2> SUFFICES ASSUME TypeOK, ScheduleFollowsLadder, NEW t \in Tasks,
                      reviews[t].exists, reviews[t].passCount <= TopRung
               PROVE  NextInDays(t) = reviews[t].due - DayOf(reviews[t].lastPassed)
    BY DEF ReviewAgrees
  <2> DEFINE r == reviews[t]
             gap == IntervalDays(r.passCount - 1)
             day == DayOf(r.lastPassed)
  <2>1. r \in Review
    BY DEF TypeOK
  <2>2. r.stage = Clamp(r.passCount) /\ r.due = day + gap
    BY DEF ScheduleFollowsLadder
  <2>3. r.passCount \in Nat /\ r.lastPassed \in Int
    BY <2>1 DEF Review, NoTime
  <2>4. r.stage = r.passCount
    BY <2>2, <2>3 DEF Clamp, TopRung
  <2>5. NextInDays(t) = gap
    BY <2>4 DEF NextInDays
  <2>6. day \in Int
    BY <2>3, StoreAssumption DEF DayOf
  <2>7. gap \in Nat
    BY <2>3, LadderType
  <2> HIDE DEF gap, day
  <2> DEFINE due == r.due
  <2>8. due = day + gap /\ due - day = gap
    BY <2>2, <2>6, <2>7
  <2> QED BY <2>5, <2>8 DEF day
<1> QED BY <1>1, JournalSpecIsSpec, ScreensSpecIsSpec, TypeCorrect, LadderFollowed, PTL

------------------------------------------------------------------------------
(* The new task. *)

StablePick == Passed' = Passed /\ deleted' = deleted => PickNewTask' = PickNewTask

\* The offered task depends on the solves and on what has vanished.
LEMMA SamePassesSamePick ==
  ASSUME KeepsRows, reviews' = reviews, Passed' = Passed, deleted' = deleted
  PROVE  PickNewTask' = PickNewTask
<1>1. Candidates' = Candidates
  BY DEF Candidates
<1>2. \A i \in Passed : attempts'[i].task = attempts[i].task
  BY DEF KeepsRows, Passed
<1>3. \A topic : PassesInTopic(topic)' = PassesInTopic(topic)
  BY <1>2 DEF PassesInTopic
<1>4. \A t, u \in Tasks : Before(t, u)' <=> Before(t, u)
  BY <1>3 DEF Before
<1>5. Candidates \subseteq Tasks
  BY DEF Candidates
<1> QED BY <1>1, <1>4, <1>5 DEF PickNewTask

\* A step that moves the schedule adds a solve.
LEMMA PickStep ==
  ASSUME TypeOK, [Next]_vars
  PROVE  StablePick
<1>1. CASE QuietStep
  BY <1>1, StepCases, SamePassesSamePick DEF QuietStep, StablePick
<1>2. ASSUME NEW i \in Ids, NEW files \in Files, PassFirst(i, files)
      PROVE  Passed' # Passed
  BY <1>2, PassStep DEF Passed
<1> QED BY <1>1, <1>2, StepCases DEF StablePick

\* Only a solve or a scan moves the new task the home screen offers (PickNewTask):
\* resuming, abandoning, heartbeats, runs that fail and the clock do not, for any
\* number of tasks, topics and attempts.
THEOREM PickStays == ScreensSpec => PickIsStable
<1>1. TypeOK /\ [ScreensNext]_screenVars => [StablePick]_screenVars
  <2> SUFFICES ASSUME TypeOK, ScreensNext
               PROVE  StablePick
    OBVIOUS
  <2>1. [Next]_vars
    BY DEF ScreensNext, SyncTasks
  <2> QED BY <2>1, PickStep
<1> QED BY <1>1, ScreensSpecIsSpec, TypeCorrect, PTL DEF ScreensSpec, PickIsStable, StablePick

------------------------------------------------------------------------------
(* The streak. *)

\* A set of numbers has its least element.
LEMMA LeastExists ==
  ASSUME NEW S \in SUBSET Nat, S # {}
  PROVE  Min(S) \in S /\ \A v \in S : Min(S) <= v
<1>1. PICK m \in S : \A v \in S : ~(<<v, m>> \in OpToRel(<, Nat))
  BY NatLessThanWellFounded, WFMin
<1>2. \A v \in S : ~(v < m)
  BY <1>1 DEF OpToRel
<1>3. \A v \in S : m <= v
  BY <1>2
<1> QED BY <1>3 DEF Min

\* The number of days in a row that are in S, back from the day given.
InARow(S, end) == Min({n \in Nat : end - n \notin S})

\* Going back day by day ends, at the latest with the first day.
LEMMA InARowType ==
  ASSUME NEW S \in SUBSET Nat, NEW end \in Int
  PROVE  /\ InARow(S, end) \in Nat
         /\ end - InARow(S, end) \notin S
         /\ \A n \in Nat : n < InARow(S, end) => end - n \in S
         /\ InARow(S, end) = 0 \/ InARow(S, end) <= end + 1
<1> DEFINE gaps == {n \in Nat : end - n \notin S}
<1>1. gaps \subseteq Nat /\ gaps # {}
  <2>1. CASE end \in Nat
    <3>1. end + 1 \in Nat /\ end - (end + 1) \notin S
      BY <2>1
    <3> QED BY <3>1
  <2>2. CASE end \notin Nat
    BY <2>2
  <2> QED BY <2>1, <2>2
<1>2. Min(gaps) \in gaps /\ \A n \in gaps : Min(gaps) <= n
  BY <1>1, LeastExists
<1>3. InARow(S, end) = Min(gaps)
  BY DEF InARow
<1>4. end + 1 \in Nat => end + 1 \in gaps
  BY DEF gaps
<1>5. end + 1 \notin Nat => 0 \in gaps
  BY DEF gaps
<1> QED BY <1>2, <1>3, <1>4, <1>5

\* It is what the loop counts: one for the day, if it was solved, and the days
\* before it.
LEMMA RowUnfolds ==
  ASSUME NEW S \in SUBSET Nat, NEW end \in Int
  PROVE  InARow(S, end) = IF end \in S THEN 1 + InARow(S, end - 1) ELSE 0
<1> DEFINE n == InARow(S, end)
           m == InARow(S, end - 1)
<1>1. /\ n \in Nat /\ end - n \notin S /\ \A k \in Nat : k < n => end - k \in S
  BY InARowType
<1>2. /\ m \in Nat /\ (end - 1) - m \notin S /\ \A k \in Nat : k < m => (end - 1) - k \in S
  BY InARowType
<1> HIDE DEF n, m
<1>3. CASE end \in S
  <2>1. n # 0
    BY <1>1, <1>3
  <2>2. ~(n - 1 < m)
    <3>1. (end - 1) - (n - 1) = end - n /\ n - 1 \in Nat
      BY <1>1, <2>1
    <3> QED BY <1>1, <1>2, <3>1
  <2>3. ~(m + 1 < n)
    <3>1. end - (m + 1) = (end - 1) - m /\ m + 1 \in Nat
      BY <1>2
    <3> QED BY <1>1, <1>2, <3>1
  <2>4. n = 1 + m
    BY <1>1, <1>2, <2>2, <2>3
  <2> QED BY <1>3, <2>4 DEF n, m
<1>4. CASE end \notin S
  <2>1. ~(0 < n)
    BY <1>1, <1>4
  <2> QED BY <1>1, <1>4, <2>1 DEF n
<1> QED BY <1>3, <1>4

\* The function the loop is modelled by is that number.
LEMMA LoopCounts ==
  ASSUME NEW T \in Nat, NEW S \in SUBSET (0 .. T), NEW back,
         back = CHOOSE g : g = [d \in -2 .. T |-> IF d \in S THEN 1 + g[d - 1] ELSE 0]
  PROVE  \A d \in -2 .. T : back[d] = InARow(S, d)
<1> DEFINE row == [d \in -2 .. T |-> InARow(S, d)]
<1>0. S \in SUBSET Nat
  OBVIOUS
<1>1. row = [d \in -2 .. T |-> IF d \in S THEN 1 + row[d - 1] ELSE 0]
  <2>1. ASSUME NEW d \in -2 .. T
        PROVE  InARow(S, d) = IF d \in S THEN 1 + row[d - 1] ELSE 0
    <3>1. d \in Int /\ (d \in S => d - 1 \in -2 .. T)
      OBVIOUS
    <3>2. InARow(S, d) = IF d \in S THEN 1 + InARow(S, d - 1) ELSE 0
      BY <1>0, <3>1, RowUnfolds
    <3> QED BY <3>1, <3>2
  <2> QED BY <2>1
<1> HIDE DEF row
<1>2. back = [d \in -2 .. T |-> IF d \in S THEN 1 + back[d - 1] ELSE 0]
  BY <1>1
<1>3. \A d \in -2 .. T : back[d] = IF d \in S THEN 1 + back[d - 1] ELSE 0
  BY <1>2
<1> DEFINE wrong == {n \in Nat : n - 2 <= T /\ back[n - 2] # InARow(S, n - 2)}
<1>4. wrong = {}
  <2> SUFFICES ASSUME wrong # {} PROVE FALSE
    OBVIOUS
  <2> DEFINE n == Min(wrong)
             d == n - 2
  <2>1. n \in wrong /\ \A k \in wrong : n <= k
    BY LeastExists
  <2> HIDE DEF n
  <2>2. n \in Nat /\ d \in -2 .. T /\ back[d] # InARow(S, d)
    BY <2>1
  <2>3. InARow(S, d) = IF d \in S THEN 1 + InARow(S, d - 1) ELSE 0
    BY <1>0, <2>2, RowUnfolds
  <2>4. back[d] = IF d \in S THEN 1 + back[d - 1] ELSE 0
    BY <1>3, <2>2
  <2>5. d \in S /\ back[d - 1] # InARow(S, d - 1)
    BY <2>2, <2>3, <2>4
  <2>6. n - 1 \in Nat /\ (n - 1) - 2 <= T /\ (n - 1) - 2 = d - 1
    BY <2>2, <2>5
  <2>7. n - 1 \in wrong
    BY <2>5, <2>6
  <2>8. n <= n - 1
    BY <2>1, <2>7
  <2> HIDE DEF wrong
  <2> QED BY <2>2, <2>8
<1> SUFFICES ASSUME NEW d \in -2 .. T
             PROVE  back[d] = InARow(S, d)
  OBVIOUS
<1>5. d + 2 \in Nat /\ (d + 2) - 2 = d /\ d <= T
  OBVIOUS
<1> QED BY <1>4, <1>5

\* The lengths of the stretches that end on a day.
LEMMA LongestStretch ==
  ASSUME NEW T \in Nat, NEW S \in SUBSET (0 .. T), NEW end \in -2 .. T
  PROVE  Max({n \in 0 .. T + 1 : \A k \in 0 .. n - 1 : end - k \in S}) = InARow(S, end)
<1> DEFINE m == InARow(S, end)
           stretches == {n \in 0 .. T + 1 : \A k \in 0 .. n - 1 : end - k \in S}
<1>1. m \in Nat /\ end - m \notin S /\ (\A k \in Nat : k < m => end - k \in S) /\ m <= T + 1
  BY InARowType
<1> HIDE DEF m
<1>2. m \in stretches
  BY <1>1
<1>3. \A n \in stretches : n <= m
  BY <1>1
<1>4. \A x \in stretches : (\A n \in stretches : x >= n) => x = m
  BY <1>1, <1>2, <1>3
<1>5. \A n \in stretches : m >= n
  BY <1>1, <1>3
<1> HIDE DEF stretches
<1>6. Max(stretches) = m
  BY <1>2, <1>4, <1>5 DEF Max
<1> QED BY <1>6 DEF m, stretches

\* The larger of a number and nothing.
LEMMA LargerOf ==
  ASSUME NEW m \in Nat
  PROVE  Max({m, 0}) = m /\ Max({0, m}) = m
BY DEF Max

\* The streak on the home screen (Streak's loop over the solved days) is the
\* longest stretch of solved days up to today, or up to yesterday while nothing
\* was solved today yet, for every history, also one with days ahead of a clock
\* that was set back.
THEOREM LongestStreak == ScreensSpec => []StreakIsLongest
<1>1. TypeOK => StreakIsLongest
  <2> SUFFICES ASSUME TypeOK PROVE StreakIsLongest
    OBVIOUS
  <2>1. Today \in Nat
    BY RowTypes, DayType DEF Today
  <2>2. SolvedDays \in SUBSET (0 .. Today)
    <3>1. \A row \in Attempt : row.day \in Nat
      BY DEF Attempt
    <3>2. \A i \in Passed : attempts[i].day \in Nat
      BY <3>1, RowType DEF Passed
    <3> QED BY <2>1, <3>2 DEF SolvedDays
  <2> DEFINE back[d \in -2 .. Today] == IF d \in SolvedDays THEN 1 + back[d - 1] ELSE 0
             stretches(end) == {n \in 0 .. Today + 1 : \A k \in 0 .. n - 1 : end - k \in SolvedDays}
  <2>3. Streak = back[StreakEnd]
    BY DEF Streak
  <2>4. back = CHOOSE g : g = [d \in -2 .. Today |-> IF d \in SolvedDays THEN 1 + g[d - 1] ELSE 0]
    BY DEF back
  <2> HIDE DEF back
  <2>5. StreakEnd \in -2 .. Today
    BY <2>1 DEF StreakEnd
  <2>6. Streak = InARow(SolvedDays, StreakEnd)
    BY <2>1, <2>2, <2>3, <2>4, <2>5, LoopCounts
  <2>7. /\ Max(stretches(Today)) = InARow(SolvedDays, Today)
        /\ Max(stretches(Today - 1)) = InARow(SolvedDays, Today - 1)
    <3> HIDE DEF Max, InARow
    <3>1. Today \in -2 .. Today /\ Today - 1 \in -2 .. Today
      BY <2>1
    <3>2. \A end \in -2 .. Today : Max(stretches(end)) = InARow(SolvedDays, end)
      BY <2>1, <2>2, LongestStretch
    <3> QED BY <3>1, <3>2
  <2>8. InARow(SolvedDays, Today) \in Nat /\ InARow(SolvedDays, Today - 1) \in Nat
    BY <2>1, <2>2, InARowType
  <2>9. Streak = Max({InARow(SolvedDays, Today),
                      IF Today \in SolvedDays THEN 0 ELSE InARow(SolvedDays, Today - 1)})
    <3>1. CASE Today \in SolvedDays
      BY <2>6, <2>8, <3>1, LargerOf DEF StreakEnd
    <3>2. CASE Today \notin SolvedDays
      <4>1. InARow(SolvedDays, Today) = 0
        BY <2>1, <2>2, <3>2, RowUnfolds
      <4> QED BY <2>6, <2>8, <3>2, <4>1, LargerOf DEF StreakEnd
    <3> QED BY <3>1, <3>2
  <2> QED BY <2>7, <2>9 DEF StreakIsLongest
<1> QED BY <1>1, ScreensSpecIsSpec, TypeCorrect, PTL

------------------------------------------------------------------------------
(* Sequences and sorted rows. *)

\* A function on 1 .. n is a sequence of length n.
LEMMA FunctionIsSeq ==
  ASSUME NEW S, NEW n \in Nat, NEW s \in [1 .. n -> S]
  PROVE  s \in Seq(S) /\ Len(s) = n
<1>1. s = [k \in 1 .. n |-> s[k]] /\ \A k \in 1 .. n : s[k] \in S
  OBVIOUS
<1>2. [k \in 1 .. n |-> s[k]] \in Seq(S)
  BY <1>1
<1>3. Len([k \in 1 .. n |-> s[k]]) = n
  OBVIOUS
<1> QED BY <1>1, <1>2, <1>3

\* Rows in a strict total order, first[i] those before row i: each row has another
\* number of rows before it, and a list whose k-th entry has k - 1 before it lists
\* every row, in that order.
LEMMA RowsAreSorted ==
  ASSUME NEW S, IsFiniteSet(S), NEW first \in [S -> SUBSET S], NEW s,
         \A k \in 1 .. Cardinality(S) :
           (\E i \in S : Cardinality(first[i]) = k - 1) => s[k] \in S /\ Cardinality(first[s[k]]) = k - 1,
         \A i \in S : i \notin first[i],
         \A i, j \in S : i # j => i \in first[j] \/ j \in first[i],
         \A i, j \in S : i \in first[j] => first[i] \subseteq first[j]
  PROVE  /\ \A k \in 1 .. Cardinality(S) : s[k] \in S
         /\ \A i \in S : \E k \in 1 .. Cardinality(S) : s[k] = i
         /\ \A k, l \in 1 .. Cardinality(S) : k < l => s[k] \in first[s[l]]
<1> DEFINE n == Cardinality(S)
           rank == [i \in S |-> Cardinality(first[i])]
<1>1. n \in Nat
  BY FS_CardinalityType
<1>2. ASSUME NEW i \in S
      PROVE  IsFiniteSet(first[i]) /\ Cardinality(first[i]) \in 0 .. n - 1
  <2>1. IsFiniteSet(S \ {i}) /\ Cardinality(S \ {i}) = n - 1
    BY FS_RemoveElement
  <2>2. first[i] \in SUBSET (S \ {i})
    OBVIOUS
  <2> HIDE DEF n
  <2>3. IsFiniteSet(first[i]) /\ Cardinality(first[i]) <= n - 1
    BY <2>1, <2>2, FS_Subset
  <2>4. Cardinality(first[i]) \in Nat
    BY <2>3, FS_CardinalityType
  <2> QED BY <1>1, <2>3, <2>4
<1>3. ASSUME NEW i \in S, NEW j \in S, i \in first[j]
      PROVE  Cardinality(first[i]) < Cardinality(first[j])
  <2>1. first[i] \in SUBSET first[j] /\ i \notin first[i]
    BY <1>3
  <2> HIDE DEF n
  <2>2. Cardinality(first[i]) <= Cardinality(first[j]) /\ Cardinality(first[i]) # Cardinality(first[j])
    BY <1>2, <1>3, <2>1, FS_Subset
  <2>3. Cardinality(first[i]) \in 0 .. n - 1 /\ Cardinality(first[j]) \in 0 .. n - 1
    BY <1>2
  <2> QED BY <1>1, <2>2, <2>3
<1>4. n = Cardinality(S) /\ \A i \in S : rank[i] = Cardinality(first[i])
  OBVIOUS
<1>5. rank \in [S -> 0 .. n - 1]
  <2> HIDE DEF n
  <2> QED BY <1>2
<1> HIDE DEF n, rank
<1>6. \A i, j \in S : i # j => rank[i] # rank[j]
  <2> SUFFICES ASSUME NEW i \in S, NEW j \in S, i # j
               PROVE  rank[i] # rank[j]
    OBVIOUS
  <2>1. rank[i] < rank[j] \/ rank[j] < rank[i]
    BY <1>3, <1>4
  <2>2. rank[i] \in 0 .. n - 1 /\ rank[j] \in 0 .. n - 1
    BY <1>5
  <2> QED BY <1>1, <2>1, <2>2
<1>7. ASSUME NEW v \in 0 .. n - 1
      PROVE  \E i \in S : rank[i] = v
  <2>1. rank \in Injection(S, 0 .. n - 1)
    BY <1>5, <1>6 DEF Injection, IsInjective
  <2>2. IsFiniteSet(0 .. n - 1) /\ Cardinality(0 .. n - 1) = n
    <3>1. 0 \in Int /\ n - 1 \in Int
      BY <1>1
    <3>2. /\ IsFiniteSet(0 .. n - 1)
          /\ Cardinality(0 .. n - 1) = IF 0 > n - 1 THEN 0 ELSE (n - 1) - 0 + 1
      BY <3>1, FS_Interval
    <3>3. n = IF 0 > n - 1 THEN 0 ELSE (n - 1) - 0 + 1
      BY <1>1
    <3> QED BY <3>2, <3>3
  <2>3. rank \in Surjection(S, 0 .. n - 1)
    BY <1>4, <2>1, <2>2, FS_Injection
  <2> QED BY <2>3 DEF Surjection
<1>8. ASSUME NEW k \in 1 .. n
      PROVE  s[k] \in S /\ rank[s[k]] = k - 1
  <2>1. k - 1 \in 0 .. n - 1
    BY <1>1
  <2>2. \E i \in S : Cardinality(first[i]) = k - 1
    BY <1>4, <1>7, <2>1
  <2>3. s[k] \in S /\ Cardinality(first[s[k]]) = k - 1
    BY <1>4, <2>2
  <2> QED BY <1>4, <2>3
<1>9. ASSUME NEW i \in S
      PROVE  \E k \in 1 .. n : s[k] = i
  <2> DEFINE k == rank[i] + 1
  <2>1. rank[i] \in 0 .. n - 1
    BY <1>5
  <2>2. k \in 1 .. n /\ k - 1 = rank[i]
    BY <1>1, <2>1
  <2>3. s[k] \in S /\ rank[s[k]] = rank[i]
    BY <1>8, <2>2
  <2> HIDE DEF k
  <2>4. s[k] = i
    BY <1>6, <2>3
  <2> QED BY <2>2, <2>4
<1>10. ASSUME NEW k \in 1 .. n, NEW l \in 1 .. n, k < l
       PROVE  s[k] \in first[s[l]]
  <2>1. s[k] \in S /\ rank[s[k]] = k - 1
    BY <1>8
  <2>2. s[l] \in S /\ rank[s[l]] = l - 1
    BY <1>8
  <2>3. s[k] # s[l] /\ ~(rank[s[l]] < rank[s[k]])
    BY <1>1, <1>10, <2>1, <2>2
  <2>4. s[l] \notin first[s[k]]
    BY <1>3, <1>4, <2>1, <2>2, <2>3
  <2> QED BY <2>1, <2>2, <2>3, <2>4
<1> QED BY <1>4, <1>8, <1>9, <1>10
------------------------------------------------------------------------------
(* Sums over a finite set. *)

\* A sum that is built one element at a time, whichever is taken first, is any
\* function of the subsets that grows by each element's part.
LEMMA SumIs ==
  ASSUME NEW S, IsFiniteSet(S), NEW f \in [S -> Int], NEW total, NEW sum,
         sum[{}] = 0,
         \A s \in SUBSET S : s # {} => \E x \in s : sum[s] = f[x] + sum[s \ {x}],
         total[{}] = 0,
         \A s \in SUBSET S : \A x \in s : total[s] = f[x] + total[s \ {x}]
  PROVE  sum[S] = total[S]
<1>1. \A s \in SUBSET S : IsFiniteSet(s) /\ Cardinality(s) \in Nat
  BY FS_Subset, FS_CardinalityType
<1> DEFINE wrong == {n \in Nat : \E s \in SUBSET S : Cardinality(s) = n /\ sum[s] # total[s]}
<1>2. wrong = {}
  <2> SUFFICES ASSUME wrong # {} PROVE FALSE
    OBVIOUS
  <2> DEFINE n == Min(wrong)
  <2>1. n \in wrong /\ \A k \in wrong : n <= k
    BY LeastExists
  <2> HIDE DEF n
  <2>2. PICK s \in SUBSET S : Cardinality(s) = n /\ sum[s] # total[s]
    BY <2>1
  <2>3. s # {}
    BY <2>2
  <2>4. PICK x \in s : sum[s] = f[x] + sum[s \ {x}]
    BY <2>3
  <2>5. n \in Nat /\ Cardinality(s \ {x}) = n - 1 /\ n - 1 \in Nat
    <3>1. n \in Nat /\ IsFiniteSet(s)
      BY <1>1, <2>2
    <3>2. Cardinality(s \ {x}) = n - 1
      BY <2>2, <2>4, <3>1, FS_RemoveElement
    <3>3. Cardinality(s \ {x}) \in Nat
      BY <1>1, <2>4
    <3> QED BY <3>1, <3>2, <3>3
  <2>6. sum[s \ {x}] # total[s \ {x}]
    <3>1. sum[s] = f[x] + sum[s \ {x}]
      BY <2>4
    <3>2. total[s] = f[x] + total[s \ {x}]
      BY <2>4
    <3> QED BY <2>2, <3>1, <3>2
  <2>7. n - 1 \in wrong
    BY <2>4, <2>5, <2>6
  <2>8. n <= n - 1
    BY <2>1, <2>7
  <2> HIDE DEF wrong
  <2> QED BY <2>5, <2>8
<1> QED BY <1>1, <1>2

------------------------------------------------------------------------------
(* The notes. *)

\* An attempt has one note at most: the unique index of the notes table.
OneNoteEach == \A k, l \in DOMAIN notes : notes[k].attempt = notes[l].attempt => k = l

JournalInv == JournalTypeOK /\ OneNoteEach

\* The table without a row is the rows before it and the rows after it.
LEMMA RemovedRow ==
  ASSUME NEW S, NEW s \in Seq(S), NEW k \in DOMAIN s
  PROVE  LET u == RemoveAt(s, k)
         IN  /\ u \in Seq(S) /\ Len(u) = Len(s) - 1
             /\ \A l \in 1 .. Len(s) - 1 : u[l] = IF l < k THEN s[l] ELSE s[l + 1]
<1> DEFINE before == SubSeq(s, 1, k - 1)
           after == SubSeq(s, k + 1, Len(s))
<1>1. Len(s) \in Nat /\ DOMAIN s = 1 .. Len(s) /\ k \in 1 .. Len(s)
  BY LenProperties
<1>2. \A i \in 1 .. Len(s) : s[i] \in S
  BY ElementOfSeq
<1>3. /\ before \in Seq(S) /\ Len(before) = k - 1
      /\ \A i \in 1 .. k - 1 : before[i] = s[i]
  BY <1>1, <1>2, SubSeqProperties
<1>4. /\ after \in Seq(S) /\ Len(after) = Len(s) - k
      /\ \A i \in 1 .. Len(s) - k : after[i] = s[k + i]
  <2>1. k + 1 \in Int /\ Len(s) \in Int /\ \A i \in k + 1 .. Len(s) : s[i] \in S
    BY <1>1, <1>2
  <2>2. /\ after \in Seq(S)
        /\ Len(after) = IF k + 1 <= Len(s) THEN Len(s) - (k + 1) + 1 ELSE 0
        /\ \A i \in 1 .. Len(s) - (k + 1) + 1 : after[i] = s[(k + 1) + i - 1]
    BY <2>1, SubSeqProperties
  <2> HIDE DEF after
  <2>3. Len(after) = Len(s) - k
    BY <1>1, <2>2
  <2>4. ASSUME NEW i \in 1 .. Len(s) - k
        PROVE  after[i] = s[k + i]
    <3>1. i \in 1 .. Len(s) - (k + 1) + 1 /\ (k + 1) + i - 1 = k + i
      BY <1>1
    <3>2. after[i] = s[(k + 1) + i - 1]
      BY <2>2, <3>1
    <3> QED BY <3>1, <3>2
  <2> QED BY <2>2, <2>3, <2>4
<1> HIDE DEF before, after
<1>5. /\ before \o after \in Seq(S)
      /\ Len(before \o after) = Len(s) - 1
      /\ \A i \in 1 .. Len(s) - 1 : (before \o after)[i] = IF i <= k - 1 THEN before[i] ELSE after[i - (k - 1)]
  <2>1. /\ before \o after \in Seq(S)
        /\ Len(before \o after) = Len(before) + Len(after)
        /\ \A i \in 1 .. Len(before) + Len(after) :
             (before \o after)[i] = IF i <= Len(before) THEN before[i] ELSE after[i - Len(before)]
    BY <1>3, <1>4, ConcatProperties, Zenon
  <2>2. Len(before) + Len(after) = Len(s) - 1 /\ Len(before) = k - 1
    BY <1>1, <1>3, <1>4
  <2> QED BY <2>1, <2>2
<1>6. ASSUME NEW l \in 1 .. Len(s) - 1
      PROVE  (before \o after)[l] = IF l < k THEN s[l] ELSE s[l + 1]
  <2>1. CASE l < k
    BY <1>1, <1>3, <1>5, <2>1
  <2>2. CASE ~(l < k)
    <3>1. l - (k - 1) \in 1 .. Len(s) - k /\ k + (l - (k - 1)) = l + 1 /\ ~(l <= k - 1)
      BY <1>1, <2>2
    <3> QED BY <1>4, <1>5, <2>2, <3>1
  <2> QED BY <2>1, <2>2
<1>7. RemoveAt(s, k) = before \o after
  BY DEF RemoveAt, before, after
<1> QED BY <1>5, <1>6, <1>7

\* The notes keep their type, and an upsert never adds a second one.
LEMMA NotesStep ==
  ASSUME TypeOK, JournalInv, [JournalNext]_journalVars
  PROVE  JournalInv'
<1> DEFINE Note == [attempt : Ids, created : Times]
<1>1. /\ notes \in Seq(Note) /\ deleted \subseteq Vanishing /\ now \in Times
      /\ Len(notes) \in Nat /\ DOMAIN notes = 1 .. Len(notes)
      /\ \A k \in DOMAIN notes : notes[k] \in Note
  BY LenProperties, ElementOfSeq DEF JournalInv, JournalTypeOK, TypeOK
<1>2. CASE notes' = notes /\ [ScreensNext]_screenVars
  <2>1. Ids \subseteq Ids'
    <3>1. [Next]_vars
      BY <1>2 DEF ScreensNext, SyncTasks, screenVars
    <3> QED BY <3>1, StepCases DEF KeepsRows
  <2>2. deleted' \subseteq Vanishing
    BY <1>1, <1>2 DEF ScreensNext, SyncTasks, screenVars
  <2>3. \A k \in DOMAIN notes : notes[k] \in [attempt : Ids', created : Times]
    BY <1>1, <2>1
  <2>4. notes \in Seq([attempt : Ids', created : Times])
    BY <1>1, <2>3, FunctionIsSeq, LenProperties
  <2> QED BY <1>2, <2>2, <2>4 DEF JournalInv, JournalTypeOK, OneNoteEach
<1>3. ASSUME NEW i \in Ids, SaveNote(i)
      PROVE  JournalInv'
  <2>1. Ids' = Ids /\ deleted' = deleted
    BY <1>3 DEF SaveNote, screenVars, vars, Ids
  <2>2. CASE HasNote(i)
    BY <1>1, <1>3, <2>1, <2>2 DEF SaveNote, JournalInv, JournalTypeOK, OneNoteEach
  <2>3. CASE ~HasNote(i)
    <3> DEFINE note == [attempt |-> i, created |-> now]
    <3>1. notes' = Append(notes, note) /\ note \in Note
      BY <1>1, <1>3, <2>3 DEF SaveNote
    <3>2. note.attempt = i
      OBVIOUS
    <3>3. \A k \in DOMAIN notes : notes[k].attempt # i
      BY <2>3 DEF HasNote, NoteOf
    <3> HIDE DEF note, Note
    <3>4. /\ notes' \in Seq(Note) /\ Len(notes') = Len(notes) + 1
          /\ \A k \in 1 .. Len(notes) : notes'[k] = notes[k]
          /\ notes'[Len(notes) + 1] = note
      BY <1>1, <3>1, AppendProperties
    <3>5. DOMAIN notes' = 1 .. Len(notes) + 1
      BY <3>4, LenProperties
    <3>6. OneNoteEach'
      <4> SUFFICES ASSUME NEW k \in 1 .. Len(notes) + 1, NEW l \in 1 .. Len(notes) + 1,
                          notes'[k].attempt = notes'[l].attempt
                   PROVE  k = l
        BY <3>5 DEF OneNoteEach
      <4>1. CASE k = Len(notes) + 1 \/ l = Len(notes) + 1
        BY <1>1, <3>2, <3>3, <3>4, <4>1
      <4>2. CASE k # Len(notes) + 1 /\ l # Len(notes) + 1
        <5>1. k \in 1 .. Len(notes) /\ l \in 1 .. Len(notes)
          BY <1>1, <4>2
        <5> QED BY <1>1, <3>4, <5>1 DEF JournalInv, OneNoteEach
      <4> QED BY <4>1, <4>2
    <3> QED BY <1>1, <2>1, <3>4, <3>6 DEF JournalInv, JournalTypeOK, Note
  <2> QED BY <2>2, <2>3
<1>4. ASSUME NEW k \in DOMAIN notes, DeleteNote(k)
      PROVE  JournalInv'
  <2>1. Ids' = Ids /\ deleted' = deleted /\ notes' = RemoveAt(notes, k)
    BY <1>4 DEF DeleteNote, screenVars, vars, Ids
  <2> HIDE DEF Note
  <2>2. /\ notes' \in Seq(Note) /\ Len(notes') = Len(notes) - 1
        /\ \A l \in 1 .. Len(notes) - 1 : notes'[l] = IF l < k THEN notes[l] ELSE notes[l + 1]
    BY <1>1, <2>1, RemovedRow
  <2>3. DOMAIN notes' = 1 .. Len(notes) - 1
    BY <2>2, LenProperties
  <2>4. OneNoteEach'
    <3> SUFFICES ASSUME NEW l \in 1 .. Len(notes) - 1, NEW m \in 1 .. Len(notes) - 1,
                        notes'[l].attempt = notes'[m].attempt
                 PROVE  l = m
      BY <2>3 DEF OneNoteEach
    <3> DEFINE old(j) == IF j < k THEN j ELSE j + 1
    <3>1. /\ old(l) \in DOMAIN notes /\ old(m) \in DOMAIN notes
          /\ notes'[l] = notes[old(l)] /\ notes'[m] = notes[old(m)]
      BY <1>1, <2>2
    <3>2. old(l) = old(m)
      BY <3>1 DEF JournalInv, OneNoteEach
    <3> QED BY <1>1, <3>2
  <2> QED BY <1>1, <2>1, <2>2, <2>4 DEF JournalInv, JournalTypeOK, Note
<1> QED BY <1>2, <1>3, <1>4 DEF JournalNext, journalVars

\* The notes refer to attempts, each to another one.
LEMMA NotesKeepTheirIndex == JournalSpec => []JournalInv
<1>1. JournalInit => JournalInv
  BY DEF JournalInit, ScreensInit, JournalInv, JournalTypeOK, OneNoteEach
<1>2. TypeOK /\ JournalInv /\ [JournalNext]_journalVars => JournalInv'
  BY NotesStep
<1> QED BY <1>1, <1>2, JournalSpecIsSpec, ScreensSpecIsSpec, TypeCorrect, PTL DEF JournalSpec
------------------------------------------------------------------------------
(* The history screens. *)

\* Rows sorted by a column, ties by id: every row is listed once, and the column
\* does not decrease.
LEMMA SortedByColumn ==
  ASSUME NEW S \in SUBSET Int, IsFiniteSet(S), NEW key \in [S -> Int], NEW s,
         NEW first \in [S -> SUBSET S],
         \A i, j \in S : j \in first[i] <=> key[j] < key[i] \/ (key[j] = key[i] /\ j < i),
         \A k \in 1 .. Cardinality(S) :
           (\E i \in S : Cardinality(first[i]) = k - 1) => s[k] \in S /\ Cardinality(first[s[k]]) = k - 1
  PROVE  /\ \A k \in 1 .. Cardinality(S) : s[k] \in S
         /\ \A i \in S : \E k \in 1 .. Cardinality(S) : s[k] = i
         /\ \A k, l \in 1 .. Cardinality(S) : k < l => s[k] # s[l] /\ key[s[k]] <= key[s[l]]
<1>1. \A i \in S : i \notin first[i]
  OBVIOUS
<1>2. \A i, j \in S : i # j => i \in first[j] \/ j \in first[i]
  OBVIOUS
<1>3. ASSUME NEW i \in S, NEW j \in S, i \in first[j]
      PROVE  first[i] \subseteq first[j]
  <2> SUFFICES ASSUME NEW k \in first[i] PROVE k \in first[j]
    OBVIOUS
  <2>1. k \in S
    OBVIOUS
  <2> QED BY <1>3, <2>1
<1>4. \A i, j \in S : i \in first[j] => i # j /\ key[i] <= key[j]
  OBVIOUS
<1>5. /\ \A k \in 1 .. Cardinality(S) : s[k] \in S
      /\ \A i \in S : \E k \in 1 .. Cardinality(S) : s[k] = i
      /\ \A k, l \in 1 .. Cardinality(S) : k < l => s[k] \in first[s[l]]
  BY <1>1, <1>2, <1>3, RowsAreSorted
<1> QED BY <1>4, <1>5

\* The solves, by task and by topic.
LEMMA SolvedRows ==
  ASSUME TypeOK
  PROVE  /\ Passed \in SUBSET Int /\ IsFiniteSet(Passed)
         /\ \A t \in Tasks : PassedOf(t) = {i \in Passed : attempts[i].task = t}
         /\ \A i \in Passed : attempts[i].task \in Tasks /\ attempts[i].active \in Nat
                              /\ attempts[i].finished \in Int /\ attempts[i].day \in Nat
<1>1. Len(attempts) \in Nat /\ Ids = 1 .. Len(attempts)
  BY DEF TypeOK, Ids
<1>2. IsFiniteSet(1 .. Len(attempts)) /\ Passed \subseteq 1 .. Len(attempts)
  BY <1>1, FS_Interval DEF Passed
<1>3. IsFiniteSet(Passed)
  BY <1>2, FS_Subset
<1>4. \A i \in Passed : attempts[i] \in Attempt
  BY RowType DEF Passed
<1>5. \A row \in Attempt : row.task \in Tasks /\ row.active \in Nat /\ row.finished \in Int /\ row.day \in Nat
  BY DEF Attempt, NoTime
<1> QED BY <1>1, <1>2, <1>3, <1>4, <1>5 DEF PassedOf, Passed

\* The chart's points are the solves of the task, in the order of their times.
LEMMA PointsAreSolves ==
  ASSUME TypeOK, NEW t \in Tasks
  PROVE  LET n == Cardinality(PassedOf(t))
         IN  /\ Points(t) \in Seq(PassedOf(t)) /\ Len(Points(t)) = n
             /\ \A k \in 1 .. n : Points(t)[k] \in PassedOf(t)
             /\ \A i \in PassedOf(t) : \E k \in 1 .. n : Points(t)[k] = i
             /\ \A k, l \in 1 .. n : k < l =>
                  attempts[Points(t)[k]].finished <= attempts[Points(t)[l]].finished
<1> DEFINE S == PassedOf(t)
           key == [i \in S |-> attempts[i].finished]
           s == Points(t)
<1>1. S \in SUBSET Int /\ IsFiniteSet(S) /\ key \in [S -> Int]
  BY SolvedRows, PassedFinite
<1>2. \A i \in S : key[i] = attempts[i].finished
  OBVIOUS
<1> DEFINE first == [i \in S |-> {j \in S : key[j] < key[i] \/ (key[j] = key[i] /\ j < i)}]
<1>3. \A i \in S : {j \in S : \/ attempts[j].finished < attempts[i].finished
                              \/ attempts[j].finished = attempts[i].finished /\ j < i} = first[i]
  OBVIOUS
<1>4. s = [k \in 1 .. Cardinality(S) |->
             CHOOSE i \in S :
               Cardinality({j \in S : \/ attempts[j].finished < attempts[i].finished
                                      \/ attempts[j].finished = attempts[i].finished /\ j < i}) = k - 1]
  BY DEF Points, Sorted
<1>5. /\ first \in [S -> SUBSET S]
      /\ \A i, j \in S : j \in first[i] <=> key[j] < key[i] \/ (key[j] = key[i] /\ j < i)
  OBVIOUS
<1> HIDE DEF S, key, s, first
<1>6. ASSUME NEW k \in 1 .. Cardinality(S), \E i \in S : Cardinality(first[i]) = k - 1
      PROVE  s[k] \in S /\ Cardinality(first[s[k]]) = k - 1
  BY <1>3, <1>4, <1>6
<1>7. /\ \A k \in 1 .. Cardinality(S) : s[k] \in S
      /\ \A i \in S : \E k \in 1 .. Cardinality(S) : s[k] = i
      /\ \A k, l \in 1 .. Cardinality(S) : k < l => s[k] # s[l] /\ key[s[k]] <= key[s[l]]
  BY <1>1, <1>5, <1>6, SortedByColumn
<1>8. s \in Seq(S) /\ Len(s) = Cardinality(S)
  <2>1. s \in [1 .. Cardinality(S) -> S]
    BY <1>4, <1>7
  <2>2. Cardinality(S) \in Nat
    BY <1>1, FS_CardinalityType
  <2> QED BY <2>1, <2>2, FunctionIsSeq
<1> QED BY <1>2, <1>7, <1>8 DEF S, s

\* The times of a topic are those of its solves in ascending order, and as many
\* solves as the position says lie at or below a time.
LEMMA DurationsAreSolves ==
  ASSUME TypeOK, NEW topic
  PROVE  LET n == Cardinality(PassedIn(topic))
             d == Durations(topic)
         IN  /\ IsFiniteSet(PassedIn(topic)) /\ n \in Nat
             /\ d \in Seq(Nat) /\ Len(d) = n
             /\ \A k, l \in 1 .. n : k <= l => d[k] <= d[l]
             /\ \A k \in 1 .. n : Cardinality({i \in PassedIn(topic) : attempts[i].active <= d[k]}) \in k .. n
<1> DEFINE S == PassedIn(topic)
           n == Cardinality(S)
           d == Durations(topic)
           key == [i \in S |-> attempts[i].active]
           first == [i \in S |-> {j \in S : key[j] < key[i] \/ (key[j] = key[i] /\ j < i)}]
           s == [k \in 1 .. Cardinality(S) |->
                   CHOOSE i \in S :
                     Cardinality({j \in S : \/ attempts[j].active < attempts[i].active
                                            \/ attempts[j].active = attempts[i].active /\ j < i}) = k - 1]
           within(k) == {i \in S : attempts[i].active <= d[k]}
<1>1. S \in SUBSET Int /\ IsFiniteSet(S) /\ key \in [S -> Int]
  BY SolvedRows, FS_Subset DEF PassedIn
<1>2. n \in Nat
  BY <1>1, FS_CardinalityType
<1>3. \A i \in S : key[i] = attempts[i].active /\ key[i] \in Nat
  BY SolvedRows DEF PassedIn
<1>4. \A i \in S : {j \in S : \/ attempts[j].active < attempts[i].active
                              \/ attempts[j].active = attempts[i].active /\ j < i} = first[i]
  OBVIOUS
<1>5. d = [k \in DOMAIN s |-> attempts[s[k]].active] /\ DOMAIN s = 1 .. n
  BY DEF Durations, Sorted
<1>6. /\ first \in [S -> SUBSET S]
      /\ \A i, j \in S : j \in first[i] <=> key[j] < key[i] \/ (key[j] = key[i] /\ j < i)
  OBVIOUS
<1>7. s = [k \in 1 .. n |->
             CHOOSE i \in S :
               Cardinality({j \in S : \/ attempts[j].active < attempts[i].active
                                      \/ attempts[j].active = attempts[i].active /\ j < i}) = k - 1]
  OBVIOUS
<1>8. n = Cardinality(S) /\ \A k \in 1 .. n : within(k) = {i \in S : attempts[i].active <= d[k]}
  OBVIOUS
<1> HIDE DEF S, n, d, key, s, first, within
<1>9. ASSUME NEW k \in 1 .. n, \E i \in S : Cardinality(first[i]) = k - 1
      PROVE  s[k] \in S /\ Cardinality(first[s[k]]) = k - 1
  BY <1>4, <1>7, <1>9
<1>10. /\ \A k \in 1 .. n : s[k] \in S
       /\ \A i \in S : \E k \in 1 .. n : s[k] = i
       /\ \A k, l \in 1 .. n : k < l => s[k] # s[l] /\ key[s[k]] <= key[s[l]]
  BY <1>1, <1>6, <1>8, <1>9, SortedByColumn
<1>11. \A k \in 1 .. n : d[k] = key[s[k]] /\ d[k] \in Nat
  BY <1>3, <1>5, <1>10
<1>12. d \in Seq(Nat) /\ Len(d) = n
  <2>1. d \in [1 .. n -> Nat]
    BY <1>5, <1>11
  <2> QED BY <1>2, <2>1, FunctionIsSeq
<1>13. ASSUME NEW k \in 1 .. n, NEW l \in 1 .. n, k <= l
       PROVE  d[k] <= d[l]
  BY <1>10, <1>11, <1>13
<1>14. ASSUME NEW k \in 1 .. n
       PROVE  Cardinality(within(k)) \in k .. n
  <2>1. within(k) \in SUBSET S
    BY <1>8
  <2>2. IsFiniteSet(within(k)) /\ Cardinality(within(k)) <= n
    BY <1>1, <1>8, <2>1, FS_Subset
  <2>3. Cardinality(within(k)) \in Nat
    BY <2>2, FS_CardinalityType
  <2> DEFINE f == [j \in 1 .. k |-> s[j]]
  <2>4. f \in Injection(1 .. k, within(k))
    <3>1. \A j \in 1 .. k : j \in 1 .. n /\ s[j] \in S /\ attempts[s[j]].active <= d[k]
      BY <1>2, <1>3, <1>10, <1>11, <1>13
    <3>2. f \in [1 .. k -> within(k)]
      BY <1>8, <3>1
    <3>3. \A i, j \in 1 .. k : i # j => f[i] # f[j]
      BY <1>2, <1>10
    <3> QED BY <3>2, <3>3 DEF Injection, IsInjective
  <2>5. Cardinality(1 .. k) = k
    <3>1. 1 \in Int /\ k \in Int /\ ~(1 > k) /\ k - 1 + 1 = k
      BY <1>2
    <3> QED BY <3>1, FS_Interval
  <2>6. k <= Cardinality(within(k))
    BY <2>2, <2>4, <2>5, FS_Injection
  <2> QED BY <1>2, <2>2, <2>3, <2>6
<1> QED BY <1>1, <1>2, <1>8, <1>12, <1>13, <1>14 DEF S, n, d, within

\* The journal page lists each note of its topics once.
LEMMA NotesAreListed ==
  ASSUME TypeOK, JournalInv, NEW topics
  PROVE  LET S == {k \in DOMAIN notes : Topic[attempts[notes[k].attempt].task] \in topics}
             n == Cardinality(S)
         IN  /\ n \in Nat /\ Notes(topics) \in Seq(S) /\ Len(Notes(topics)) = n
             /\ \A k \in 1 .. n : Notes(topics)[k] \in S
             /\ \A i \in S : \E k \in 1 .. n : Notes(topics)[k] = i
             /\ \A k, l \in 1 .. n : k # l => Notes(topics)[k] # Notes(topics)[l]
<1> DEFINE S == {k \in DOMAIN notes : Topic[attempts[notes[k].attempt].task] \in topics}
           n == Cardinality(S)
           s == Notes(topics)
           newer(k, l) == \/ notes[k].created > notes[l].created
                          \/ notes[k].created = notes[l].created /\ k > l
           first == [i \in S |-> {j \in S : newer(j, i)}]
<1>1. /\ Len(notes) \in Nat /\ DOMAIN notes = 1 .. Len(notes)
      /\ \A k \in DOMAIN notes : notes[k].created \in Int
  <2>1. notes \in Seq([attempt : Ids, created : Times])
    BY DEF JournalInv, JournalTypeOK
  <2>2. \A k \in 1 .. Len(notes) : notes[k] \in [attempt : Ids, created : Times]
    BY <2>1, ElementOfSeq
  <2>3. Len(notes) \in Nat /\ DOMAIN notes = 1 .. Len(notes)
    BY <2>1, LenProperties
  <2>4. \A k \in 1 .. Len(notes) : notes[k].created \in Times
    BY <2>2
  <2>5. \A u \in Times : u \in Int
    BY StoreAssumption
  <2> QED BY <2>3, <2>4, <2>5
<1>2. IsFiniteSet(S) /\ n \in Nat
  <2>1. IsFiniteSet(1 .. Len(notes)) /\ S \in SUBSET (1 .. Len(notes))
    BY <1>1, FS_Interval
  <2> QED BY <2>1, FS_Subset, FS_CardinalityType
<1>3. \A k \in S : k \in Int /\ notes[k].created \in Int
  BY <1>1
<1>4. first \in [S -> SUBSET S]
  OBVIOUS
<1>5. \A i, j \in S : j \in first[i] <=> newer(j, i)
  OBVIOUS
<1>6. s = [k \in 1 .. n |-> CHOOSE i \in S : Cardinality({j \in S : newer(j, i)}) = k - 1]
  BY DEF Notes, Sorted
<1>7. \A i \in S : first[i] = {j \in S : newer(j, i)}
  OBVIOUS
<1>8. \A i \in S : ~newer(i, i)
  BY <1>3
<1>9. \A i, j \in S : i # j => newer(i, j) \/ newer(j, i)
  BY <1>3
<1>10. \A i, j, k \in S : newer(i, j) /\ newer(j, k) => newer(i, k)
  BY <1>3
<1>11. n = Cardinality(S)
  OBVIOUS
<1> HIDE DEF S, n, s, newer, first
<1>12. ASSUME NEW k \in 1 .. n, \E i \in S : Cardinality(first[i]) = k - 1
       PROVE  s[k] \in S /\ Cardinality(first[s[k]]) = k - 1
  BY <1>6, <1>7, <1>12
<1>13. \A i \in S : i \notin first[i]
  BY <1>5, <1>8
<1>14. \A i, j \in S : i # j => i \in first[j] \/ j \in first[i]
  BY <1>5, <1>9
<1>15. ASSUME NEW i \in S, NEW j \in S, i \in first[j]
       PROVE  first[i] \subseteq first[j]
  <2> SUFFICES ASSUME NEW k \in first[i] PROVE k \in first[j]
    OBVIOUS
  <2>1. k \in S
    BY <1>4
  <2> QED BY <1>5, <1>10, <1>15, <2>1
<1>16. /\ \A k \in 1 .. n : s[k] \in S
       /\ \A i \in S : \E k \in 1 .. n : s[k] = i
       /\ \A k, l \in 1 .. n : k < l => s[k] \in first[s[l]]
  BY <1>2, <1>4, <1>11, <1>12, <1>13, <1>14, <1>15, RowsAreSorted
<1>17. ASSUME NEW k \in 1 .. n, NEW l \in 1 .. n, k # l
       PROVE  s[k] # s[l]
  <2>1. k < l \/ l < k
    BY <1>2, <1>17
  <2> QED BY <1>13, <1>16, <2>1
<1>18. s \in Seq(S) /\ Len(s) = n
  <2>1. s \in [1 .. n -> S]
    BY <1>6, <1>16
  <2> QED BY <1>2, <2>1, FunctionIsSeq
<1> QED BY <1>2, <1>16, <1>17, <1>18 DEF S, n, s

\* The chart marks a solve as having a note exactly when the journal lists one for
\* it, once, on its own topic's page and on everybody's.
LEMMA NotesAgreeStep == TypeOK /\ JournalInv => NotesAgree
<1> SUFFICES ASSUME TypeOK, JournalInv, NEW i \in Ids,
                    NEW topics \in {{Topic[attempts[i].task]}, {Topic[t] : t \in Tasks}}
             PROVE  Cardinality({k \in DOMAIN Notes(topics) : notes[Notes(topics)[k]].attempt = i})
                      = IF HasNote(i) THEN 1 ELSE 0
  BY DEF NotesAgree
<1> DEFINE S == {k \in DOMAIN notes : Topic[attempts[notes[k].attempt].task] \in topics}
           n == Cardinality(S)
           s == Notes(topics)
           listed == {k \in DOMAIN s : notes[s[k]].attempt = i}
<1>1. /\ n \in Nat /\ s \in Seq(S) /\ Len(s) = n
      /\ \A k \in 1 .. n : s[k] \in S
      /\ \A m \in S : \E k \in 1 .. n : s[k] = m
      /\ \A k, l \in 1 .. n : k # l => s[k] # s[l]
  BY NotesAreListed
<1>2. DOMAIN s = 1 .. n
  BY <1>1, LenProperties
<1>3. \A k \in S : k \in DOMAIN notes
  OBVIOUS
<1>4. \A k \in DOMAIN notes : notes[k].attempt = i => k \in S
  <2>1. attempts[i].task \in Tasks
    BY RowType DEF Attempt
  <2> QED BY <2>1
<1> HIDE DEF S, n, s
<1>5. CASE HasNote(i)
  <2>1. PICK m \in DOMAIN notes : notes[m].attempt = i
    BY <1>5 DEF HasNote, NoteOf
  <2>2. PICK k \in 1 .. n : s[k] = m
    BY <1>1, <1>4, <2>1
  <2>3. \A l \in 1 .. n : notes[s[l]].attempt = i => l = k
    BY <1>1, <1>3, <2>1, <2>2 DEF JournalInv, OneNoteEach
  <2>4. listed = {k}
    BY <1>2, <2>1, <2>2, <2>3
  <2> QED BY <1>5, <2>4, FS_Singleton DEF s
<1>6. CASE ~HasNote(i)
  <2>1. \A m \in DOMAIN notes : notes[m].attempt # i
    BY <1>6 DEF HasNote, NoteOf
  <2>2. listed = {}
    BY <1>1, <1>2, <1>3, <2>1
  <2> QED BY <1>6, <2>2, FS_EmptySet DEF s
<1> QED BY <1>5, <1>6

\* The list and the chart agree on the best and the latest time.
LEMMA TimesAgreeStep == TypeOK => TimesAgree
<1> SUFFICES ASSUME TypeOK, NEW t \in Tasks, Summary(t).solved
             PROVE  /\ Summary(t).best = SeriesBest(t)
                    /\ SeriesLast(t) \in Summary(t).last
                    /\ TrendPct(t) >= 0
  BY DEF TimesAgree
<1> DEFINE S == PassedOf(t)
           n == Cardinality(S)
           p == Points(t)
<1>1. S # {} /\ n \in Nat \ {0}
  <2>1. n > 0
    BY DEF Summary, TaskState
  <2>2. IsFiniteSet(S)
    BY PassedFinite
  <2> QED BY <2>1, <2>2, FS_CardinalityType, FS_EmptySet
<1>2. /\ Len(p) = n /\ \A k \in 1 .. n : p[k] \in S
      /\ \A i \in S : \E k \in 1 .. n : p[k] = i
      /\ \A k, l \in 1 .. n : k < l => attempts[p[k]].finished <= attempts[p[l]].finished
  BY PointsAreSolves
<1>3. \A i \in S : attempts[i].active \in Nat /\ attempts[i].finished \in Int
  BY SolvedRows
<1>4. Last(p) = p[n]
  BY <1>2 DEF Last
<1>5. Last(p) \in S /\ \A j \in S : attempts[j].finished <= attempts[Last(p)].finished
  <2>1. n \in 1 .. n
    BY <1>1
  <2>2. p[n] \in S
    BY <1>2, <2>1
  <2>3. ASSUME NEW j \in S
        PROVE  attempts[j].finished <= attempts[p[n]].finished
    <3>1. PICK k \in 1 .. n : p[k] = j
      BY <1>2
    <3>2. k = n \/ k < n
      BY <1>1
    <3> QED BY <1>2, <1>3, <2>1, <2>2, <3>1, <3>2
  <2> QED BY <1>4, <2>2, <2>3
<1>6. Last(p) \in LatestOf(t)
  BY <1>5 DEF LatestOf
<1>7. SeriesLast(t) \in LastActive(t)
  BY <1>1, <1>6 DEF SeriesLast, LastActive, ActiveOf
<1>8. Summary(t).best = SeriesBest(t) /\ Summary(t).last = LastActive(t)
  BY <1>1 DEF Summary, TaskState, BestActive, SeriesBest
<1>9. TrendPct(t) >= 0
  <2> DEFINE best == SeriesBest(t)
             last == SeriesLast(t)
  <2>1. ActiveOf(S) \in SUBSET Nat /\ ActiveOf(S) # {}
    BY <1>1, <1>3 DEF ActiveOf
  <2>2. best \in ActiveOf(S) /\ \A v \in ActiveOf(S) : best <= v
    BY <2>1, LeastExists DEF SeriesBest
  <2>3. last \in ActiveOf(S)
    BY <1>5 DEF SeriesLast, ActiveOf
  <2>4. best \in Nat /\ last \in Nat /\ best <= last
    BY <2>1, <2>2, <2>3
  <2>5. TrendPct(t) = IF best = 0 THEN 0 ELSE (200 * (last - best) + best) \div (2 * best)
    BY DEF TrendPct
  <2> HIDE DEF best, last
  <2>6. CASE best # 0
    <3>1. 200 * (last - best) + best \in Nat /\ 2 * best \in Nat /\ 2 * best > 0
      BY <2>4, <2>6
    <3>2. \A k, d \in Nat : d > 0 => k \div d >= 0
      OBVIOUS
    <3> QED BY <2>5, <2>6, <3>1, <3>2
  <2> QED BY <2>5, <2>6
<1> QED BY <1>7, <1>8, <1>9

\* Every solve is counted under one topic: the totals of the statistics screen
\* add up to the number of solves.
LEMMA TopicsAddUp ==
  ASSUME TypeOK
  PROVE  MapThenSumSet(LAMBDA topic : Len(Durations(topic)), {Topic[t] : t \in Tasks}) = Cardinality(Passed)
<1> DEFINE S == {Topic[t] : t \in Tasks}
           f == [topic \in S |-> Len(Durations(topic))]
           of(s) == {i \in Passed : Topic[attempts[i].task] \in s}
           total == [s \in SUBSET S |-> Cardinality(of(s))]
           op(topic) == Len(Durations(topic))
<1> DEFINE sum == CHOOSE g : g = [s \in SUBSET S |->
                    IF s = {} THEN 0
                    ELSE op(CHOOSE x \in s : TRUE) + g[s \ {CHOOSE x \in s : TRUE}]]
<1>1. MapThenSumSet(LAMBDA topic : Len(Durations(topic)), S) = sum[S]
  BY DEF MapThenSumSet, MapThenFoldSet
<1>2. IsFiniteSet(S)
  <2>1. [t \in Tasks |-> Topic[t]] \in Surjection(Tasks, S)
    BY DEF Surjection
  <2> QED BY <2>1, JournalAssumption, FS_Surjection
<1>3. IsFiniteSet(Passed) /\ \A i \in Passed : attempts[i].task \in Tasks
  BY SolvedRows
<1>4. \A s : IsFiniteSet(of(s)) /\ Cardinality(of(s)) \in Nat
  <2> SUFFICES ASSUME NEW s PROVE IsFiniteSet(of(s)) /\ Cardinality(of(s)) \in Nat
    OBVIOUS
  <2>1. of(s) \in SUBSET Passed
    OBVIOUS
  <2> QED BY <1>3, <2>1, FS_Subset, FS_CardinalityType
<1>5. total \in [SUBSET S -> Int]
  <2> HIDE DEF of
  <2> QED BY <1>4
<1>6. total[{}] = 0
  <2>1. of({}) = {} /\ {} \in SUBSET S
    OBVIOUS
  <2> HIDE DEF of
  <2> QED BY <2>1, FS_EmptySet
<1>7. ASSUME NEW s \in SUBSET S, NEW x \in s
      PROVE  total[s] = op(x) + total[s \ {x}]
  <2>1. op(x) = Cardinality(PassedIn(x))
    BY DurationsAreSolves
  <2>2. PassedIn(x) = of({x})
    BY DEF PassedIn
  <2>3. of(s) = of({x}) \cup of(s \ {x}) /\ of({x}) \cap of(s \ {x}) = {}
    OBVIOUS
  <2> HIDE DEF of, op
  <2>4. Cardinality(of(s)) = Cardinality(of({x})) + Cardinality(of(s \ {x}))
    <3>1. Cardinality(of({x}) \cup of(s \ {x})) =
            Cardinality(of({x})) + Cardinality(of(s \ {x})) - Cardinality(of({x}) \cap of(s \ {x}))
      BY <1>4, FS_Union
    <3>2. Cardinality(of({x}) \cap of(s \ {x})) = 0
      BY <2>3, FS_EmptySet
    <3>3. Cardinality(of({x})) \in Nat /\ Cardinality(of(s \ {x})) \in Nat
      BY <1>4
    <3> QED BY <2>3, <3>1, <3>2, <3>3
  <2>5. total[s] = Cardinality(of(s)) /\ total[s \ {x}] = Cardinality(of(s \ {x}))
    OBVIOUS
  <2> QED BY <2>1, <2>2, <2>4, <2>5
<1>8. of(S) = Passed
  BY <1>3
<1>9. total[S] = Cardinality(Passed)
  BY <1>8
<1>10. f \in [S -> Int]
  BY DurationsAreSolves
<1>11. sum[S] = total[S]
  <2> DEFINE one(s) == CHOOSE x \in s : TRUE
  <2>1. \A s \in SUBSET S : s # {} => one(s) \in s
    OBVIOUS
  <2>2. sum = CHOOSE g : g = [s \in SUBSET S |-> IF s = {} THEN 0 ELSE op(one(s)) + g[s \ {one(s)}]]
    OBVIOUS
  <2> HIDE DEF S, op, of, total, sum, one
  <2>3. total = [s \in SUBSET S |-> IF s = {} THEN 0 ELSE op(one(s)) + total[s \ {one(s)}]]
    BY <1>5, <1>6, <1>7, <2>1
  <2>4. sum = [s \in SUBSET S |-> IF s = {} THEN 0 ELSE op(one(s)) + sum[s \ {one(s)}]]
    BY <2>2, <2>3
  <2>5. sum[{}] = 0
    BY <2>4
  <2>6. \A s \in SUBSET S : s # {} => sum[s] = op(one(s)) + sum[s \ {one(s)}]
    BY <2>4
  <2>7. \A x \in S : f[x] = op(x)
    BY DEF f, op
  <2> HIDE DEF f
  <2>8. \A s \in SUBSET S : s # {} => \E x \in s : sum[s] = f[x] + sum[s \ {x}]
    BY <2>1, <2>6, <2>7
  <2>9. \A s \in SUBSET S : \A x \in s : total[s] = f[x] + total[s \ {x}]
    BY <1>7, <2>7
  <2> QED BY <1>2, <1>6, <1>10, <2>5, <2>8, <2>9, SumIs
<1> QED BY <1>1, <1>9, <1>11

\* Nothing adds up to nothing: a sum whose elements count zero each.
LEMMA SumOfZeros ==
  ASSUME NEW S, IsFiniteSet(S), NEW sum,
         sum[{}] = 0,
         \A s \in SUBSET S : s # {} => \E x \in s : sum[s] = 0 + sum[s \ {x}]
  PROVE  sum[S] = 0
<1> DEFINE total == [s \in SUBSET S |-> 0]
           f == [x \in S |-> 0]
<1>1. \A s \in SUBSET S : total[s] = 0
  OBVIOUS
<1>2. f \in [S -> Int] /\ \A x \in S : f[x] = 0
  OBVIOUS
<1> HIDE DEF f, total
<1>3. total[{}] = 0 /\ \A s \in SUBSET S : \A x \in s : total[s] = f[x] + total[s \ {x}]
  BY <1>1, <1>2
<1>4. \A s \in SUBSET S : s # {} => \E x \in s : sum[s] = f[x] + sum[s \ {x}]
  BY <1>2
<1>5. sum[S] = total[S]
  BY <1>2, <1>3, <1>4, SumIs
<1> QED BY <1>1, <1>5

\* The minutes of today are those of today's solves: none without one.
LEMMA NoSolveNoMinutes ==
  ASSUME TypeOK, \A i \in Passed : attempts[i].day # Today
  PROVE  ActiveToday = 0
<1> DEFINE minutes(i) == IF attempts[i].day = Today THEN attempts[i].active ELSE 0
           ofTask(t) == MapThenSumSet(LAMBDA i : IF attempts[i].day = Today THEN attempts[i].active ELSE 0,
                                      PassedOf(t))
           one(s) == CHOOSE x \in s : TRUE
<1>1. \A s : s # {} => one(s) \in s
  OBVIOUS
<1>2. ASSUME NEW t \in Tasks
      PROVE  ofTask(t) = 0
  <2> DEFINE S == PassedOf(t)
             sum == CHOOSE g : g = [s \in SUBSET S |->
                      IF s = {} THEN 0 ELSE minutes(one(s)) + g[s \ {one(s)}]]
             zero == [s \in SUBSET S |-> 0]
  <2>1. ofTask(t) = sum[S]
    BY DEF MapThenSumSet, MapThenFoldSet
  <2>2. IsFiniteSet(S) /\ \A i \in S : minutes(i) = 0
    BY SolvedRows, PassedFinite
  <2>3. sum = CHOOSE g : g = [s \in SUBSET S |-> IF s = {} THEN 0 ELSE minutes(one(s)) + g[s \ {one(s)}]]
    OBVIOUS
  <2> HIDE DEF S, one, sum, minutes
  <2>4. zero = [s \in SUBSET S |-> IF s = {} THEN 0 ELSE minutes(one(s)) + zero[s \ {one(s)}]]
    <3>1. \A s \in SUBSET S : s # {} => minutes(one(s)) + zero[s \ {one(s)}] = 0
      BY <1>1, <2>2
    <3> QED BY <3>1
  <2> HIDE DEF zero
  <2>5. sum = [s \in SUBSET S |-> IF s = {} THEN 0 ELSE minutes(one(s)) + sum[s \ {one(s)}]]
    BY <2>3, <2>4
  <2>6. sum[{}] = 0
    BY <2>5
  <2>7. ASSUME NEW s \in SUBSET S, s # {}
        PROVE  \E x \in s : sum[s] = 0 + sum[s \ {x}]
    <3>1. sum[s] = minutes(one(s)) + sum[s \ {one(s)}]
      BY <2>5, <2>7
    <3>2. one(s) \in s /\ minutes(one(s)) = 0
      BY <1>1, <2>2, <2>7
    <3> QED BY <3>1, <3>2
  <2>8. sum[S] = 0
    BY <2>2, <2>6, <2>7, SumOfZeros
  <2> QED BY <2>1, <2>8
<1>3. ActiveToday = MapThenSumSet(LAMBDA t : ofTask(t), Tasks)
  BY DEF ActiveToday
<1> HIDE DEF ofTask, minutes
<1> DEFINE sum == CHOOSE g : g = [s \in SUBSET Tasks |->
                    IF s = {} THEN 0 ELSE ofTask(one(s)) + g[s \ {one(s)}]]
           zero == [s \in SUBSET Tasks |-> 0]
<1>4. ActiveToday = sum[Tasks]
  BY <1>3 DEF MapThenSumSet, MapThenFoldSet
<1>5. sum = CHOOSE g : g = [s \in SUBSET Tasks |-> IF s = {} THEN 0 ELSE ofTask(one(s)) + g[s \ {one(s)}]]
  OBVIOUS
<1> HIDE DEF one, sum
<1>6. zero = [s \in SUBSET Tasks |-> IF s = {} THEN 0 ELSE ofTask(one(s)) + zero[s \ {one(s)}]]
  <2>1. \A s \in SUBSET Tasks : s # {} => ofTask(one(s)) + zero[s \ {one(s)}] = 0
    BY <1>1, <1>2
  <2> QED BY <2>1
<1> HIDE DEF zero
<1>7. sum = [s \in SUBSET Tasks |-> IF s = {} THEN 0 ELSE ofTask(one(s)) + sum[s \ {one(s)}]]
  BY <1>5, <1>6
<1>8. sum[{}] = 0
  BY <1>7
<1>9. ASSUME NEW s \in SUBSET Tasks, s # {}
      PROVE  \E x \in s : sum[s] = 0 + sum[s \ {x}]
  <2>1. sum[s] = ofTask(one(s)) + sum[s \ {one(s)}]
    BY <1>7, <1>9
  <2>2. one(s) \in s /\ ofTask(one(s)) = 0
    BY <1>1, <1>2, <1>9
  <2> QED BY <2>1, <2>2
<1>10. sum[Tasks] = 0
  BY <1>8, <1>9, JournalAssumption, SumOfZeros
<1> QED BY <1>4, <1>10

\* The nearest rank of a topic's times: so many tenths of the solves lie at or
\* below it, and more tenths never give a smaller time.
LEMMA PercentileIsReached ==
  ASSUME TypeOK, NEW topic, NEW tenths \in {5, 9}
  PROVE  LET n == Cardinality(PassedIn(topic))
             m == Percentile(Durations(topic), tenths)
         IN  /\ n \in Nat /\ Len(Durations(topic)) = n
             /\ n = 0 => m = 0
             /\ n > 0 => \E k \in 1 .. n :
                  /\ m = Durations(topic)[k]
                  /\ k = IF (tenths * n + 9) \div 10 > 1 THEN (tenths * n + 9) \div 10 ELSE 1
             /\ Cardinality({i \in PassedIn(topic) : attempts[i].active <= m}) \in 0 .. n
             /\ 10 * Cardinality({i \in PassedIn(topic) : attempts[i].active <= m}) >= tenths * n
<1> DEFINE S == PassedIn(topic)
           n == Cardinality(S)
           d == Durations(topic)
           m == Percentile(d, tenths)
           rank == (tenths * n + 9) \div 10
           within(v) == {i \in S : attempts[i].active <= v}
<1>1. /\ IsFiniteSet(S) /\ n \in Nat /\ d \in Seq(Nat) /\ Len(d) = n
      /\ \A k \in 1 .. n : Cardinality(within(d[k])) \in k .. n
  BY DurationsAreSolves
<1>2. within(m) \in SUBSET S
  OBVIOUS
<1>3. m = IF d = << >> THEN 0 ELSE d[Min({Max({rank, 1}), Len(d)})]
  <2>1. m = IF d = << >> THEN 0 ELSE d[Min({Max({(tenths * Len(d) + 9) \div 10, 1}), Len(d)})]
    BY DEF Percentile
  <2> HIDE DEF d, m, n
  <2> QED BY <1>1, <2>1
<1> HIDE DEF S, d, m, within
<1>4. CASE n = 0
  <2>1. d = << >>
    BY <1>1, <1>4, EmptySeq
  <2>2. Cardinality(within(m)) <= n /\ Cardinality(within(m)) \in Nat
    BY <1>1, <1>2, FS_Subset, FS_CardinalityType
  <2> QED BY <1>1, <1>3, <1>4, <2>1, <2>2 DEF S, d, m, within
<1>5. CASE n # 0
  <2>1. d # << >>
    BY <1>1, <1>5, EmptySeq
  <2> HIDE DEF n
  <2>2. rank \in Nat /\ rank <= n /\ 10 * rank >= tenths * n
    BY <1>1, <1>5
  <2> HIDE DEF rank
  <2> DEFINE k == IF rank > 1 THEN rank ELSE 1
  <2>3. Max({rank, 1}) = k
    BY <2>2 DEF Max
  <2>4. k \in 1 .. n /\ 10 * k >= tenths * n
    BY <1>1, <1>5, <2>2
  <2>5. k = IF rank > 1 THEN rank ELSE 1
    OBVIOUS
  <2> HIDE DEF k
  <2>6. Min({k, n}) = k
    BY <1>1, <2>4 DEF Min
  <2>7. m = d[k]
    BY <1>1, <1>3, <2>1, <2>3, <2>6
  <2>8. Cardinality(within(m)) \in k .. n
    BY <1>1, <2>4, <2>7
  <2>9. 10 * Cardinality(within(m)) >= tenths * n /\ Cardinality(within(m)) \in 0 .. n
    BY <1>1, <2>4, <2>8
  <2> QED BY <1>1, <1>5, <2>4, <2>5, <2>7, <2>9 DEF S, n, d, m, within, rank
<1> QED BY <1>4, <1>5

\* The chart, the topics, the activity strip and the home screen count the same
\* solves, and the percentiles are reached by the solves they speak of.
LEMMA CountsAgreeStep == TypeOK /\ ReviewCountsSolves => CountsAgree
<1> SUFFICES ASSUME TypeOK, ReviewCountsSolves PROVE CountsAgree
  OBVIOUS
<1> DEFINE all == {Topic[t] : t \in Tasks}
<1>1. \A t \in Tasks : Len(Points(t)) = reviews[t].passCount
  BY PointsAreSolves DEF ReviewCountsSolves
<1>2. MapThenSumSet(LAMBDA topic : Len(Durations(topic)), all) = Cardinality(Passed)
  BY TopicsAddUp
<1>3. /\ ActivityOn(Today) = 0 <=> \A i \in Passed : attempts[i].day # Today
      /\ SolvedToday(Today) = 0 <=> \A i \in Passed : attempts[i].day # Today
  <2> DEFINE S == {i \in Passed : attempts[i].day = Today}
             T == {attempts[i].task : i \in S}
  <2>1. Today \in Nat
    BY RowTypes, DayType DEF Today
  <2>2. ActivityOn(Today) = Cardinality(S)
    BY <2>1, JournalAssumption DEF ActivityOn
  <2>3. SolvedToday(Today) = Cardinality(T)
    BY DEF SolvedToday
  <2>4. IsFiniteSet(S)
    BY SolvedRows, FS_Subset
  <2>5. IsFiniteSet(T)
    <3>1. [i \in S |-> attempts[i].task] \in Surjection(S, T)
      BY DEF Surjection
    <3> QED BY <2>4, <3>1, FS_Surjection
  <2>6. Cardinality(S) = 0 <=> S = {}
    BY <2>4, FS_EmptySet
  <2>7. Cardinality(T) = 0 <=> T = {}
    BY <2>5, FS_EmptySet
  <2> QED BY <2>2, <2>3, <2>6, <2>7
<1>4. SolvedToday(Today) = 0 => ActiveToday = 0
  BY <1>3, NoSolveNoMinutes
<1>5. ListedTopics \subseteq all
  BY DEF ListedTopics
<1>6. ASSUME NEW topic \in ListedTopics
      PROVE  TopicStat(topic).unsolved > 0 <=> \E t \in Candidates : Topic[t] = topic
  <2> DEFINE U == {t \in {u \in Tasks \ deleted : Topic[u] = topic} : PassedOf(t) = {}}
  <2>1. TopicStat(topic).unsolved = Cardinality(U)
    BY DEF TopicStat
  <2>2. IsFiniteSet(U)
    BY JournalAssumption, FS_Subset
  <2>3. Cardinality(U) \in Nat /\ (Cardinality(U) = 0 <=> U = {})
    BY <2>2, FS_CardinalityType, FS_EmptySet
  <2>4. U = {t \in Candidates : Topic[t] = topic}
    BY DEF Candidates, ReviewCountsSolves
  <2> QED BY <2>1, <2>3, <2>4
<1>7. ASSUME NEW topic \in ListedTopics
      PROVE  LET st == TopicStat(topic)
                 within(m) == Cardinality({i \in PassedIn(topic) : attempts[i].active <= m})
             IN  /\ 2 * within(st.median) >= st.solves
                 /\ 10 * within(st.p90) >= 9 * st.solves
                 /\ st.median <= st.p90
  <2> DEFINE n == Cardinality(PassedIn(topic))
             d == Durations(topic)
             median == Percentile(d, 5)
             p90 == Percentile(d, 9)
             within(m) == Cardinality({i \in PassedIn(topic) : attempts[i].active <= m})
  <2>1. /\ TopicStat(topic).median = median /\ TopicStat(topic).p90 = p90
        /\ TopicStat(topic).solves = Len(d)
    BY DEF TopicStat
  <2>2. /\ n \in Nat /\ Len(d) = n
        /\ n = 0 => median = 0
        /\ n > 0 => \E k \in 1 .. n :
             median = d[k] /\ k = IF (5 * n + 9) \div 10 > 1 THEN (5 * n + 9) \div 10 ELSE 1
        /\ within(median) \in 0 .. n /\ 10 * within(median) >= 5 * n
    BY PercentileIsReached
  <2>3. /\ n = 0 => p90 = 0
        /\ n > 0 => \E k \in 1 .. n :
             p90 = d[k] /\ k = IF (9 * n + 9) \div 10 > 1 THEN (9 * n + 9) \div 10 ELSE 1
        /\ within(p90) \in 0 .. n /\ 10 * within(p90) >= 9 * n
    BY PercentileIsReached
  <2>4. \A k, l \in 1 .. n : k <= l => d[k] <= d[l]
    BY DurationsAreSolves
  <2> HIDE DEF n, d, median, p90, within
  <2>5. median <= p90
    <3>1. CASE n = 0
      BY <2>2, <2>3, <3>1
    <3>2. CASE n > 0
      <4>1. PICK k \in 1 .. n :
              median = d[k] /\ k = IF (5 * n + 9) \div 10 > 1 THEN (5 * n + 9) \div 10 ELSE 1
        BY <2>2, <3>2
      <4>2. PICK l \in 1 .. n :
              p90 = d[l] /\ l = IF (9 * n + 9) \div 10 > 1 THEN (9 * n + 9) \div 10 ELSE 1
        BY <2>3, <3>2
      <4>3. k <= l
        BY <2>2, <4>1, <4>2
      <4> QED BY <2>4, <4>1, <4>2, <4>3
    <3> QED BY <2>2, <3>1, <3>2
  <2>6. 2 * within(median) >= n
    BY <2>2
  <2> QED BY <2>1, <2>2, <2>3, <2>5, <2>6 DEF within
<1> QED BY <1>1, <1>2, <1>3, <1>4, <1>5, <1>6, <1>7 DEF CountsAgree

\* Each screen reads the tables with queries of its own, the list (TaskStates), the
\* chart (TaskSeriesAll), the statistics (TopicStats, DailyActivity), the journal
\* (Notes), the home screen and the reviews; in every reachable state they tell the
\* same story, for any number of tasks, attempts and notes.
THEOREM OneStory == JournalSpec => []ScreensAgree
<1>1. TypeOK /\ ReviewCountsSolves /\ JournalInv => TimesAgree /\ CountsAgree /\ NotesAgree
  BY TimesAgreeStep, CountsAgreeStep, NotesAgreeStep
<1>2. JournalSpec => [](TimesAgree /\ CountsAgree /\ NotesAgree)
  BY <1>1, JournalSpecIsSpec, ScreensSpecIsSpec, TypeCorrect, SolvesAreCounted,
     NotesKeepTheirIndex, PTL
<1>3. SolvedIsSolved /\ ReviewAgrees /\ (TimesAgree /\ CountsAgree /\ NotesAgree) => ScreensAgree
  BY DEF ScreensAgree
<1> QED BY <1>2, <1>3, SolvedEverywhere, ReviewsAsShown, PTL
------------------------------------------------------------------------------
(* The side-by-side diff. *)

\* How the members of a set of numbers are enumerated.
LEMMA InOrderIs ==
  \A S : InOrder(S)
           = [n \in 1 .. Cardinality(S) |-> CHOOSE i \in S : Cardinality({j \in S : j < i}) = n - 1]
BY DEF InOrder

------------------------------------------------------------------------------
(* Common lines of two files. *)

Climbs(f, n) == \A k, l \in 1 .. n : k < l => f[k] < f[l]

\* n lines of s after line i up to m, and as many of t after j up to p, are the same
\* one by one, read from top to bottom.
Common(s, t, n, i, m, j, p) ==
  \E f \in [1 .. n -> i + 1 .. m], g \in [1 .. n -> j + 1 .. p] :
    Climbs(f, n) /\ Climbs(g, n) /\ \A k \in 1 .. n : s[f[k]] = t[g[k]]

\* In a stretch with no line on one side, nothing is common.
LEMMA EmptyWindow ==
  ASSUME NEW s, NEW t, NEW n \in Nat, NEW i \in Nat, NEW m \in Nat, NEW j \in Nat, NEW p \in Nat,
         i >= m \/ j >= p
  PROVE  Common(s, t, n, i, m, j, p) <=> n = 0
<1>1. ASSUME n = 0
      PROVE  Common(s, t, n, i, m, j, p)
  <2> DEFINE f == [k \in 1 .. n |-> i + 1]
             g == [k \in 1 .. n |-> j + 1]
  <2>1. f \in [1 .. n -> i + 1 .. m] /\ g \in [1 .. n -> j + 1 .. p]
    BY <1>1
  <2>2. Climbs(f, n) /\ Climbs(g, n) /\ \A k \in 1 .. n : s[f[k]] = t[g[k]]
    BY <1>1 DEF Climbs
  <2> QED BY <2>1, <2>2 DEF Common
<1>2. ASSUME Common(s, t, n, i, m, j, p), n > 0
      PROVE  FALSE
  <2>1. PICK f \in [1 .. n -> i + 1 .. m], g \in [1 .. n -> j + 1 .. p] : TRUE
    BY <1>2 DEF Common
  <2>2. f[1] \in i + 1 .. m /\ g[1] \in j + 1 .. p
    BY <1>2, <2>1
  <2> QED BY <2>2
<1> QED BY <1>1, <1>2

\* Where nothing is taken nothing has to match.
LEMMA NothingCommon ==
  ASSUME NEW s, NEW t, NEW i \in Nat, NEW m \in Nat, NEW j \in Nat, NEW p \in Nat
  PROVE  Common(s, t, 0, i, m, j, p)
<1> DEFINE f == [k \in 1 .. 0 |-> i + 1]
           g == [k \in 1 .. 0 |-> j + 1]
<1>1. f \in [1 .. 0 -> i + 1 .. m] /\ g \in [1 .. 0 -> j + 1 .. p]
  OBVIOUS
<1>2. Climbs(f, 0) /\ Climbs(g, 0) /\ \A k \in 1 .. 0 : s[f[k]] = t[g[k]]
  BY DEF Climbs
<1> QED BY <1>1, <1>2 DEF Common

\* A stretch inside another has no more in common.
LEMMA CommonWidens ==
  ASSUME NEW s, NEW t, NEW n \in Nat, NEW i \in Nat, NEW m \in Nat, NEW j \in Nat, NEW p \in Nat,
         NEW ii \in Nat, NEW mm \in Nat, NEW jj \in Nat, NEW pp \in Nat,
         ii <= i, m <= mm, jj <= j, p <= pp, Common(s, t, n, i, m, j, p)
  PROVE  Common(s, t, n, ii, mm, jj, pp)
<1>1. PICK f \in [1 .. n -> i + 1 .. m], g \in [1 .. n -> j + 1 .. p] :
        Climbs(f, n) /\ Climbs(g, n) /\ \A k \in 1 .. n : s[f[k]] = t[g[k]]
  BY DEF Common
<1>2. i + 1 .. m \subseteq ii + 1 .. mm /\ j + 1 .. p \subseteq jj + 1 .. pp
  OBVIOUS
<1>3. f \in [1 .. n -> ii + 1 .. mm] /\ g \in [1 .. n -> jj + 1 .. pp]
  BY <1>2
<1> QED BY <1>1, <1>3 DEF Common

\* A line that both stretches begin with belongs to a longest common part.
LEMMA FrontEqual ==
  ASSUME NEW s, NEW t, NEW n \in Nat, NEW i \in Nat, NEW m \in Nat, NEW j \in Nat, NEW p \in Nat,
         i < m, j < p, s[i + 1] = t[j + 1]
  PROVE  Common(s, t, n + 1, i, m, j, p) <=> Common(s, t, n, i + 1, m, j + 1, p)
<1>1. ASSUME Common(s, t, n + 1, i, m, j, p)
      PROVE  Common(s, t, n, i + 1, m, j + 1, p)
  <2>1. PICK f \in [1 .. n + 1 -> i + 1 .. m], g \in [1 .. n + 1 -> j + 1 .. p] :
          Climbs(f, n + 1) /\ Climbs(g, n + 1) /\ \A k \in 1 .. n + 1 : s[f[k]] = t[g[k]]
    BY <1>1 DEF Common
  <2> DEFINE ff == [k \in 1 .. n |-> f[k + 1]]
             gg == [k \in 1 .. n |-> g[k + 1]]
  <2>2. ASSUME NEW k \in 1 .. n
        PROVE  f[k + 1] \in i + 1 + 1 .. m /\ g[k + 1] \in j + 1 + 1 .. p
    <3>1. f[1] \in i + 1 .. m /\ g[1] \in j + 1 .. p /\ f[k + 1] \in i + 1 .. m /\ g[k + 1] \in j + 1 .. p
      BY <2>1
    <3>2. f[1] < f[k + 1] /\ g[1] < g[k + 1]
      BY <2>1 DEF Climbs
    <3> QED BY <3>1, <3>2
  <2>3. ff \in [1 .. n -> i + 1 + 1 .. m] /\ gg \in [1 .. n -> j + 1 + 1 .. p]
    BY <2>2
  <2>4. Climbs(ff, n) /\ Climbs(gg, n)
    BY <2>1 DEF Climbs
  <2>5. \A k \in 1 .. n : s[ff[k]] = t[gg[k]]
    BY <2>1
  <2> HIDE DEF ff, gg
  <2> QED BY <2>3, <2>4, <2>5 DEF Common
<1>2. ASSUME Common(s, t, n, i + 1, m, j + 1, p)
      PROVE  Common(s, t, n + 1, i, m, j, p)
  <2>1. PICK f \in [1 .. n -> i + 1 + 1 .. m], g \in [1 .. n -> j + 1 + 1 .. p] :
          Climbs(f, n) /\ Climbs(g, n) /\ \A k \in 1 .. n : s[f[k]] = t[g[k]]
    BY <1>2 DEF Common
  <2> DEFINE ff == [k \in 1 .. n + 1 |-> IF k = 1 THEN i + 1 ELSE f[k - 1]]
             gg == [k \in 1 .. n + 1 |-> IF k = 1 THEN j + 1 ELSE g[k - 1]]
  <2>2. ff[1] = i + 1 /\ gg[1] = j + 1
    OBVIOUS
  <2>3. ASSUME NEW k \in 1 .. n + 1, k # 1
        PROVE  /\ k - 1 \in 1 .. n /\ ff[k] = f[k - 1] /\ gg[k] = g[k - 1]
               /\ ff[k] \in i + 1 + 1 .. m /\ gg[k] \in j + 1 + 1 .. p
    BY <2>1, <2>3
  <2>4. ff \in [1 .. n + 1 -> i + 1 .. m] /\ gg \in [1 .. n + 1 -> j + 1 .. p]
    <3> SUFFICES ASSUME NEW k \in 1 .. n + 1
                 PROVE  ff[k] \in i + 1 .. m /\ gg[k] \in j + 1 .. p
      OBVIOUS
    <3> HIDE DEF ff, gg
    <3> QED BY <2>2, <2>3
  <2> HIDE DEF ff, gg
  <2>5. ASSUME NEW k \in 1 .. n + 1, NEW l \in 1 .. n + 1, k < l
        PROVE  ff[k] < ff[l] /\ gg[k] < gg[l]
    <3>1. CASE k = 1
      <4>1. l # 1
        BY <2>5, <3>1
      <4> QED BY <2>2, <2>3, <3>1, <4>1
    <3>2. CASE k # 1
      <4>1. l # 1 /\ k - 1 < l - 1
        BY <2>5, <3>2
      <4>2. f[k - 1] < f[l - 1] /\ g[k - 1] < g[l - 1]
        BY <2>1, <2>3, <3>2, <4>1 DEF Climbs
      <4> QED BY <2>3, <3>2, <4>1, <4>2
    <3> QED BY <3>1, <3>2
  <2>6. ASSUME NEW k \in 1 .. n + 1
        PROVE  s[ff[k]] = t[gg[k]]
    BY <2>1, <2>2, <2>3
  <2>7. Climbs(ff, n + 1) /\ Climbs(gg, n + 1)
    BY <2>5 DEF Climbs
  <2> QED BY <2>4, <2>6, <2>7 DEF Common
<1> QED BY <1>1, <1>2

\* So does a line that both end with.
LEMMA BackEqual ==
  ASSUME NEW s, NEW t, NEW n \in Nat, NEW i \in Nat, NEW m \in Nat, NEW j \in Nat, NEW p \in Nat,
         i < m, j < p, s[m] = t[p]
  PROVE  Common(s, t, n + 1, i, m, j, p) <=> Common(s, t, n, i, m - 1, j, p - 1)
<1>1. ASSUME Common(s, t, n + 1, i, m, j, p)
      PROVE  Common(s, t, n, i, m - 1, j, p - 1)
  <2>1. PICK f \in [1 .. n + 1 -> i + 1 .. m], g \in [1 .. n + 1 -> j + 1 .. p] :
          Climbs(f, n + 1) /\ Climbs(g, n + 1) /\ \A k \in 1 .. n + 1 : s[f[k]] = t[g[k]]
    BY <1>1 DEF Common
  <2> DEFINE ff == [k \in 1 .. n |-> f[k]]
             gg == [k \in 1 .. n |-> g[k]]
  <2>2. ASSUME NEW k \in 1 .. n
        PROVE  f[k] \in i + 1 .. m - 1 /\ g[k] \in j + 1 .. p - 1
    <3>1. /\ f[k] \in i + 1 .. m /\ g[k] \in j + 1 .. p
          /\ f[n + 1] \in i + 1 .. m /\ g[n + 1] \in j + 1 .. p
      BY <2>1
    <3>2. f[k] < f[n + 1] /\ g[k] < g[n + 1]
      BY <2>1 DEF Climbs
    <3> QED BY <3>1, <3>2
  <2>3. ff \in [1 .. n -> i + 1 .. m - 1] /\ gg \in [1 .. n -> j + 1 .. p - 1]
    BY <2>2
  <2>4. Climbs(ff, n) /\ Climbs(gg, n)
    BY <2>1 DEF Climbs
  <2>5. \A k \in 1 .. n : s[ff[k]] = t[gg[k]]
    BY <2>1
  <2> HIDE DEF ff, gg
  <2> QED BY <2>3, <2>4, <2>5 DEF Common
<1>2. ASSUME Common(s, t, n, i, m - 1, j, p - 1)
      PROVE  Common(s, t, n + 1, i, m, j, p)
  <2>1. PICK f \in [1 .. n -> i + 1 .. m - 1], g \in [1 .. n -> j + 1 .. p - 1] :
          Climbs(f, n) /\ Climbs(g, n) /\ \A k \in 1 .. n : s[f[k]] = t[g[k]]
    BY <1>2 DEF Common
  <2> DEFINE ff == [k \in 1 .. n + 1 |-> IF k = n + 1 THEN m ELSE f[k]]
             gg == [k \in 1 .. n + 1 |-> IF k = n + 1 THEN p ELSE g[k]]
  <2>2. ff[n + 1] = m /\ gg[n + 1] = p
    OBVIOUS
  <2>3. ASSUME NEW k \in 1 .. n + 1, k # n + 1
        PROVE  /\ k \in 1 .. n /\ ff[k] = f[k] /\ gg[k] = g[k]
               /\ ff[k] \in i + 1 .. m - 1 /\ gg[k] \in j + 1 .. p - 1
    BY <2>1, <2>3
  <2>4. ff \in [1 .. n + 1 -> i + 1 .. m] /\ gg \in [1 .. n + 1 -> j + 1 .. p]
    <3> SUFFICES ASSUME NEW k \in 1 .. n + 1
                 PROVE  ff[k] \in i + 1 .. m /\ gg[k] \in j + 1 .. p
      OBVIOUS
    <3> HIDE DEF ff, gg
    <3> QED BY <2>2, <2>3
  <2> HIDE DEF ff, gg
  <2>5. ASSUME NEW k \in 1 .. n + 1, NEW l \in 1 .. n + 1, k < l
        PROVE  ff[k] < ff[l] /\ gg[k] < gg[l]
    <3>0. k # n + 1
      BY <2>5
    <3>1. CASE l = n + 1
      BY <2>2, <2>3, <3>0, <3>1
    <3>2. CASE l # n + 1
      <4>1. f[k] < f[l] /\ g[k] < g[l]
        BY <2>1, <2>3, <2>5, <3>0, <3>2 DEF Climbs
      <4> QED BY <2>3, <3>0, <3>2, <4>1
    <3> QED BY <3>1, <3>2
  <2>6. ASSUME NEW k \in 1 .. n + 1
        PROVE  s[ff[k]] = t[gg[k]]
    BY <2>1, <2>2, <2>3
  <2>7. Climbs(ff, n + 1) /\ Climbs(gg, n + 1)
    BY <2>5 DEF Climbs
  <2> QED BY <2>4, <2>6, <2>7 DEF Common
<1> QED BY <1>1, <1>2

\* Where the first lines differ one of them is in no longest common part.
LEMMA FrontDiffers ==
  ASSUME NEW s, NEW t, NEW n \in Nat, NEW i \in Nat, NEW m \in Nat, NEW j \in Nat, NEW p \in Nat,
         i < m, j < p, s[i + 1] # t[j + 1]
  PROVE  Common(s, t, n, i, m, j, p) <=> Common(s, t, n, i + 1, m, j, p) \/ Common(s, t, n, i, m, j + 1, p)
<1>1. ASSUME Common(s, t, n, i, m, j, p)
      PROVE  Common(s, t, n, i + 1, m, j, p) \/ Common(s, t, n, i, m, j + 1, p)
  <2>1. PICK f \in [1 .. n -> i + 1 .. m], g \in [1 .. n -> j + 1 .. p] :
          Climbs(f, n) /\ Climbs(g, n) /\ \A k \in 1 .. n : s[f[k]] = t[g[k]]
    BY <1>1 DEF Common
  <2>2. CASE n = 0
    BY <2>2, NothingCommon
  <2>3. CASE n # 0 /\ f[1] # i + 1
    <3>1. ASSUME NEW k \in 1 .. n
          PROVE  f[k] \in i + 1 + 1 .. m
      <4>1. f[k] \in i + 1 .. m /\ f[1] \in i + 1 .. m
        BY <2>1, <2>3
      <4>2. k = 1 \/ f[1] < f[k]
        BY <2>1, <2>3 DEF Climbs
      <4> QED BY <2>3, <4>1, <4>2
    <3>2. f \in [1 .. n -> i + 1 + 1 .. m]
      BY <3>1
    <3> QED BY <2>1, <3>2 DEF Common
  <2>4. CASE n # 0 /\ f[1] = i + 1
    <3>1. g[1] # j + 1
      BY <2>1, <2>4
    <3>2. ASSUME NEW k \in 1 .. n
          PROVE  g[k] \in j + 1 + 1 .. p
      <4>1. g[k] \in j + 1 .. p /\ g[1] \in j + 1 .. p
        BY <2>1, <2>4
      <4>2. k = 1 \/ g[1] < g[k]
        BY <2>1, <2>4 DEF Climbs
      <4> QED BY <3>1, <4>1, <4>2
    <3>3. g \in [1 .. n -> j + 1 + 1 .. p]
      BY <3>2
    <3> QED BY <2>1, <3>3 DEF Common
  <2> QED BY <2>2, <2>3, <2>4
<1>2. ASSUME Common(s, t, n, i + 1, m, j, p)
      PROVE  Common(s, t, n, i, m, j, p)
  BY <1>2, CommonWidens
<1>3. ASSUME Common(s, t, n, i, m, j + 1, p)
      PROVE  Common(s, t, n, i, m, j, p)
  BY <1>3, CommonWidens
<1> QED BY <1>1, <1>2, <1>3

\* The members of a finite set of numbers, listed the smallest first.
LEMMA InOrderAscends ==
  ASSUME NEW S \in SUBSET Nat, IsFiniteSet(S)
  PROVE  /\ Cardinality(S) \in Nat
         /\ InOrder(S) \in [1 .. Cardinality(S) -> S]
         /\ \A i \in S : \E k \in 1 .. Cardinality(S) : InOrder(S)[k] = i
         /\ Climbs(InOrder(S), Cardinality(S))
<1> DEFINE first == [i \in S |-> {j \in S : j < i}]
           s == InOrder(S)
<1>1. Cardinality(S) \in Nat
  BY FS_CardinalityType
<1>2. \A k \in 1 .. Cardinality(S) : s[k] = CHOOSE i \in S : Cardinality({j \in S : j < i}) = k - 1
  BY InOrderIs
<1>4. \A i \in S : first[i] = {j \in S : j < i}
  OBVIOUS
<1>5. first \in [S -> SUBSET S]
  OBVIOUS
<1> HIDE DEF first, s
<1>6. ASSUME NEW k \in 1 .. Cardinality(S), \E i \in S : Cardinality(first[i]) = k - 1
      PROVE  s[k] \in S /\ Cardinality(first[s[k]]) = k - 1
  <2>1. \E i \in S : Cardinality({j \in S : j < i}) = k - 1
    BY <1>4, <1>6
  <2>2. s[k] \in S /\ Cardinality({j \in S : j < s[k]}) = k - 1
    BY <1>2, <2>1
  <2> QED BY <1>4, <2>2
<1>7. \A i \in S : i \notin first[i]
  BY <1>4
<1>8. \A i, j \in S : i # j => i \in first[j] \/ j \in first[i]
  BY <1>4
<1>9. \A i, j \in S : i \in first[j] => first[i] \subseteq first[j]
  <2> SUFFICES ASSUME NEW i \in S, NEW j \in S, i \in first[j], NEW x \in first[i]
               PROVE  x \in first[j]
    OBVIOUS
  <2>1. x \in S /\ x < i /\ i < j
    BY <1>4
  <2> QED BY <1>4, <2>1
<1>10. /\ \A k \in 1 .. Cardinality(S) : s[k] \in S
       /\ \A i \in S : \E k \in 1 .. Cardinality(S) : s[k] = i
       /\ \A k, l \in 1 .. Cardinality(S) : k < l => s[k] \in first[s[l]]
  BY <1>5, <1>6, <1>7, <1>8, <1>9, RowsAreSorted
<1>11. s \in [1 .. Cardinality(S) -> S]
  <2>1. \A k \in 1 .. Cardinality(S) : (CHOOSE i \in S : Cardinality({j \in S : j < i}) = k - 1) \in S
    BY <1>2, <1>10
  <2>2. [k \in 1 .. Cardinality(S) |-> CHOOSE i \in S : Cardinality({j \in S : j < i}) = k - 1]
          \in [1 .. Cardinality(S) -> S]
    BY <2>1, Zenon
  <2> QED BY <2>2, InOrderIs DEF s
<1>12. \A k, l \in 1 .. Cardinality(S) : k < l => s[k] < s[l]
  BY <1>4, <1>10
<1>13. s = InOrder(S)
  BY DEF s
<1> QED BY <1>1, <1>10, <1>11, <1>12, <1>13 DEF Climbs

\* An ascending list of numbers is its members in order.
LEMMA AscendingIsInOrder ==
  ASSUME NEW n \in Nat, NEW m \in Nat, NEW f \in [1 .. n -> 1 .. m], Climbs(f, n)
  PROVE  LET keep == {f[k] : k \in 1 .. n} IN
         /\ keep \in SUBSET (1 .. m)
         /\ Cardinality(keep) = n
         /\ \A k \in 1 .. n : InOrder(keep)[k] = f[k]
<1> DEFINE keep == {f[k] : k \in 1 .. n}
<1>1. keep \in SUBSET (1 .. m)
  OBVIOUS
<1>2. ASSUME NEW x \in 1 .. n, NEW y \in 1 .. n, f[x] = f[y]
      PROVE  x = y
  <2>1. f[x] \in 1 .. m /\ f[y] \in 1 .. m
    OBVIOUS
  <2>2. ~(x < y) /\ ~(y < x)
    BY <1>2, <2>1 DEF Climbs
  <2> QED BY <2>2
<1>3. ASSUME NEW c \in 0 .. n
      PROVE  /\ IsFiniteSet({f[k] : k \in 1 .. c}) /\ Cardinality({f[k] : k \in 1 .. c}) = c
  <2> DEFINE part == {f[k] : k \in 1 .. c}
             g == [k \in 1 .. c |-> f[k]]
  <2>1. g \in Bijection(1 .. c, part)
    <3>1. g \in Surjection(1 .. c, part)
      BY DEF Surjection
    <3>2. \A x, y \in 1 .. c : g[x] = g[y] => x = y
      BY <1>2
    <3>3. g \in Injection(1 .. c, part)
      <4>1. g \in [1 .. c -> part]
        OBVIOUS
      <4> HIDE DEF g, part
      <4> QED BY <3>2, <4>1 DEF Injection, IsInjective
    <3> QED BY <3>1, <3>3 DEF Bijection
  <2>2. c \in Nat
    OBVIOUS
  <2>3. IsFiniteSet(1 .. c) /\ Cardinality(1 .. c) = c
    BY <2>2, FS_Interval
  <2>4. ExistsBijection(1 .. c, part)
    BY <2>1 DEF ExistsBijection
  <2> HIDE DEF part
  <2>5. IsFiniteSet(part) /\ Cardinality(part) = c
    BY <2>3, <2>4, FS_Bijection
  <2> QED BY <2>5 DEF part
<1>4. IsFiniteSet(keep) /\ Cardinality(keep) = n
  <2>1. n \in 0 .. n
    OBVIOUS
  <2> QED BY <1>3, <2>1
<1>5. ASSUME NEW k \in 1 .. n
      PROVE  InOrder(keep)[k] = f[k]
  <2> DEFINE Earlier(i) == {j \in keep : j < i}
  <2>1. ASSUME NEW l \in 1 .. n
        PROVE  Cardinality(Earlier(f[l])) = l - 1
    <3>1. Earlier(f[l]) = {f[x] : x \in 1 .. l - 1}
      <4>1. ASSUME NEW x \in 1 .. n
            PROVE  f[x] < f[l] <=> x \in 1 .. l - 1
        <5>1. f[x] \in 1 .. m /\ f[l] \in 1 .. m
          OBVIOUS
        <5> QED BY <5>1 DEF Climbs
      <4>2. \A x \in 1 .. l - 1 : x \in 1 .. n
        OBVIOUS
      <4> QED BY <4>1, <4>2
    <3>2. l - 1 \in 0 .. n
      OBVIOUS
    <3> QED BY <1>3, <3>1, <3>2
  <2>2. InOrder(keep)[k] = CHOOSE i \in keep : Cardinality({j \in keep : j < i}) = k - 1
    <3> HIDE DEF keep
    <3> QED BY <1>4, InOrderIs
  <2>3. f[k] \in keep /\ Cardinality(Earlier(f[k])) = k - 1
    BY <2>1
  <2>4. \A i \in keep : Cardinality(Earlier(i)) = k - 1 => i = f[k]
    <3> SUFFICES ASSUME NEW l \in 1 .. n, Cardinality(Earlier(f[l])) = k - 1
                 PROVE  f[l] = f[k]
      OBVIOUS
    <3>1. Cardinality(Earlier(f[l])) = l - 1
      BY <2>1
    <3>2. l - 1 = k - 1
      BY <3>1
    <3> HIDE DEF Earlier
    <3> QED BY <3>2
  <2> HIDE DEF keep
  <2> QED BY <2>2, <2>3, <2>4
<1> HIDE DEF keep
<1>6. /\ keep \in SUBSET (1 .. m) /\ Cardinality(keep) = n
      /\ \A k \in 1 .. n : InOrder(keep)[k] = f[k]
  BY <1>1, <1>4, <1>5
<1> QED BY <1>6 DEF keep

\* The lengths of the common subsequences of two files.
LEMMA CommonSubsequences ==
  ASSUME NEW L, NEW s \in Seq(L), NEW t \in Seq(L)
  PROVE  {Len(u) : u \in Subsequences(s) \cap Subsequences(t)}
           = {n \in Nat : Common(s, t, n, 0, Len(s), 0, Len(t))}
<1> DEFINE Struck(v, keep) == [k \in DOMAIN InOrder(keep) |-> v[InOrder(keep)[k]]]
<1>1. \A v : Subsequences(v) = {Struck(v, keep) : keep \in SUBSET DOMAIN v}
  BY DEF Subsequences
<1>2. DOMAIN s = 1 .. Len(s) /\ DOMAIN t = 1 .. Len(t) /\ Len(s) \in Nat /\ Len(t) \in Nat
  BY LenProperties
<1>3. ASSUME NEW v \in {s, t}, NEW keep \in SUBSET DOMAIN v
      PROVE  LET n == Cardinality(keep) IN
             /\ n \in Nat /\ InOrder(keep) \in [1 .. n -> 0 + 1 .. Len(v)]
             /\ Climbs(InOrder(keep), n)
             /\ Len(Struck(v, keep)) = n
             /\ \A k \in 1 .. n : Struck(v, keep)[k] = v[InOrder(keep)[k]]
  <2>1. DOMAIN v = 1 .. Len(v) /\ Len(v) \in Nat
    BY <1>2
  <2>2. keep \in SUBSET Nat /\ keep \in SUBSET (0 + 1 .. Len(v)) /\ keep \in SUBSET (1 .. Len(v))
    BY <2>1
  <2>3. IsFiniteSet(1 .. Len(v))
    BY <2>1, FS_Interval
  <2>4. IsFiniteSet(keep)
    BY <2>2, <2>3, FS_Subset
  <2>5. /\ Cardinality(keep) \in Nat /\ InOrder(keep) \in [1 .. Cardinality(keep) -> keep]
        /\ Climbs(InOrder(keep), Cardinality(keep))
    BY <2>2, <2>4, InOrderAscends
  <2>6. InOrder(keep) \in [1 .. Cardinality(keep) -> 0 + 1 .. Len(v)]
    BY <2>2, <2>5
  <2>7. DOMAIN InOrder(keep) = 1 .. Cardinality(keep)
    BY <2>5
  <2>8. Struck(v, keep) = [k \in 1 .. Cardinality(keep) |-> v[InOrder(keep)[k]]]
    BY <2>7
  <2>9. Len([k \in 1 .. Cardinality(keep) |-> v[InOrder(keep)[k]]]) = Cardinality(keep)
    BY <2>5
  <2>10. \A k \in 1 .. Cardinality(keep) : Struck(v, keep)[k] = v[InOrder(keep)[k]]
    BY <2>8
  <2> HIDE DEF Struck
  <2> QED BY <2>5, <2>6, <2>8, <2>9, <2>10
<1>4. ASSUME NEW v \in {s, t}, NEW n \in Nat, NEW f \in [1 .. n -> 0 + 1 .. Len(v)], Climbs(f, n)
      PROVE  [k \in 1 .. n |-> v[f[k]]] \in Subsequences(v)
  <2> DEFINE keep == {f[k] : k \in 1 .. n}
  <2>1. f \in [1 .. n -> 1 .. Len(v)] /\ Len(v) \in Nat /\ DOMAIN v = 1 .. Len(v)
    BY <1>2
  <2>2. /\ keep \in SUBSET (1 .. Len(v)) /\ Cardinality(keep) = n
        /\ \A k \in 1 .. n : InOrder(keep)[k] = f[k]
    BY <1>4, <2>1, AscendingIsInOrder
  <2> HIDE DEF keep
  <2>3. keep \in SUBSET DOMAIN v
    BY <2>1, <2>2
  <2>4. DOMAIN InOrder(keep) = 1 .. n
    BY <2>2, InOrderIs
  <2>5. Struck(v, keep) = [k \in 1 .. n |-> v[f[k]]]
    BY <2>2, <2>4
  <2> HIDE DEF Struck
  <2> QED BY <1>1, <2>3, <2>5
<1> HIDE DEF Struck
<1>5. ASSUME NEW u \in Subsequences(s) \cap Subsequences(t)
      PROVE  Len(u) \in Nat /\ Common(s, t, Len(u), 0, Len(s), 0, Len(t))
  <2>1. PICK keep \in SUBSET DOMAIN s : u = Struck(s, keep)
    BY <1>1
  <2>2. PICK kept \in SUBSET DOMAIN t : u = Struck(t, kept)
    BY <1>1
  <2> DEFINE f == InOrder(keep)
             g == InOrder(kept)
             n == Len(u)
  <2>3. /\ n \in Nat /\ f \in [1 .. n -> 0 + 1 .. Len(s)] /\ Climbs(f, n)
        /\ \A k \in 1 .. n : u[k] = s[f[k]]
    BY <1>3, <2>1
  <2>4. /\ n \in Nat /\ g \in [1 .. n -> 0 + 1 .. Len(t)] /\ Climbs(g, n)
        /\ \A k \in 1 .. n : u[k] = t[g[k]]
    BY <1>3, <2>2
  <2> HIDE DEF f, g, n
  <2>5. \A k \in 1 .. n : s[f[k]] = t[g[k]]
    BY <2>3, <2>4
  <2>6. Common(s, t, n, 0, Len(s), 0, Len(t))
    BY <2>3, <2>4, <2>5 DEF Common
  <2> QED BY <2>3, <2>6 DEF n
<1>6. ASSUME NEW n \in Nat, Common(s, t, n, 0, Len(s), 0, Len(t))
      PROVE  \E u \in Subsequences(s) \cap Subsequences(t) : n = Len(u)
  <2>1. PICK f \in [1 .. n -> 0 + 1 .. Len(s)], g \in [1 .. n -> 0 + 1 .. Len(t)] :
          Climbs(f, n) /\ Climbs(g, n) /\ \A k \in 1 .. n : s[f[k]] = t[g[k]]
    BY <1>6 DEF Common
  <2> DEFINE u == [k \in 1 .. n |-> s[f[k]]]
             w == [k \in 1 .. n |-> t[g[k]]]
  <2>2. u = w
    BY <2>1
  <2>3. u \in Subsequences(s) /\ w \in Subsequences(t)
    BY <1>4, <2>1
  <2>4. Len(u) = n
    OBVIOUS
  <2> HIDE DEF u, w
  <2> QED BY <2>2, <2>3, <2>4
<1> QED BY <1>5, <1>6

\* An ascending list of all the lines there are is those lines.
LEMMA AllCommon ==
  ASSUME NEW s, NEW t, NEW n \in Nat, Common(s, t, n, 0, n, 0, n)
  PROVE  \A k \in 1 .. n : s[k] = t[k]
<1>1. PICK f \in [1 .. n -> 0 + 1 .. n], g \in [1 .. n -> 0 + 1 .. n] :
        Climbs(f, n) /\ Climbs(g, n) /\ \A k \in 1 .. n : s[f[k]] = t[g[k]]
  BY DEF Common
<1>2. ASSUME NEW e \in [1 .. n -> 0 + 1 .. n], Climbs(e, n)
      PROVE  \A k \in 1 .. n : e[k] = k
  <2> DEFINE low == {k \in 1 .. n : e[k] < k}
             high == {k \in 1 .. n : e[k] > k}
             above == {n - k : k \in high}
  <2>0. \A k \in 1 .. n : e[k] \in 1 .. n
    OBVIOUS
  <2>1. low = {}
    <3> SUFFICES ASSUME low # {}
                 PROVE  FALSE
      OBVIOUS
    <3>1. low \in SUBSET Nat
      OBVIOUS
    <3>2. Min(low) \in low /\ \A v \in low : Min(low) <= v
      BY <3>1, LeastExists
    <3> DEFINE k == Min(low)
    <3> HIDE DEF k
    <3>3. k \in 1 .. n /\ e[k] < k /\ e[k] \in 1 .. n /\ k - 1 \notin low
      <4>1. k \in low /\ \A v \in low : k <= v
        BY <3>2 DEF k
      <4>2. k \in 1 .. n /\ e[k] < k
        BY <4>1
      <4>3. k - 1 \notin low
        BY <4>1, <4>2
      <4> QED BY <2>0, <4>2, <4>3
    <3>4. k - 1 \in 1 .. n /\ e[k - 1] \in 1 .. n
      BY <3>3
    <3>5. e[k - 1] < e[k]
      BY <1>2, <3>3, <3>4 DEF Climbs
    <3>6. ~(e[k - 1] < k - 1)
      BY <3>3, <3>4
    <3> QED BY <3>3, <3>4, <3>5, <3>6
  <2>2. high = {}
    <3> SUFFICES ASSUME high # {}
                 PROVE  FALSE
      OBVIOUS
    <3>1. above \in SUBSET Nat /\ above # {}
      <4>1. \A k \in high : n - k \in Nat
        OBVIOUS
      <4> HIDE DEF high
      <4> QED BY <4>1
    <3>2. Min(above) \in above /\ \A v \in above : Min(above) <= v
      BY <3>1, LeastExists
    <3>3. PICK k \in high : \A l \in high : n - k <= n - l
      BY <3>2
    <3>4. k \in 1 .. n /\ e[k] > k /\ e[k] \in 1 .. n /\ k + 1 \notin high
      BY <3>3
    <3>5. k + 1 \in 1 .. n /\ e[k + 1] \in 1 .. n
      BY <3>4
    <3>6. e[k] < e[k + 1]
      BY <1>2, <3>4, <3>5 DEF Climbs
    <3>7. ~(e[k + 1] > k + 1)
      BY <3>4, <3>5
    <3> QED BY <3>4, <3>5, <3>6, <3>7
  <2>3. ASSUME NEW k \in 1 .. n
        PROVE  e[k] \in Int /\ ~(e[k] < k) /\ ~(e[k] > k)
    <3>1. e[k] \in Int
      BY <2>0
    <3>2. k \notin low /\ k \notin high
      BY <2>1, <2>2
    <3> QED BY <3>1, <3>2
  <2> QED BY <2>3
<1>3. \A k \in 1 .. n : f[k] = k /\ g[k] = k
  BY <1>1, <1>2
<1> QED BY <1>1, <1>3

\* The number of lines of a longest common part of two stretches.
IsLongest(s, t, c, i, m, j, p) ==
  c \in Nat /\ \A n \in Nat : Common(s, t, n, i, m, j, p) <=> n <= c

\* There is one such number.
LEMMA LongestIsUnique ==
  ASSUME NEW s, NEW t, NEW i, NEW m, NEW j, NEW p, NEW c, NEW d,
         IsLongest(s, t, c, i, m, j, p), IsLongest(s, t, d, i, m, j, p)
  PROVE  c = d
<1>1. c \in Nat /\ d \in Nat /\ c <= c /\ d <= d
  BY DEF IsLongest
<1>2. c <= d /\ d <= c
  BY <1>1 DEF IsLongest
<1> QED BY <1>1, <1>2

\* It is found going back line by line, as the table does.
LEMMA LongestBack ==
  ASSUME NEW s, NEW t, NEW i \in Nat, NEW m \in Nat, NEW j \in Nat, NEW p \in Nat
  PROVE  /\ i >= m \/ j >= p => IsLongest(s, t, 0, i, m, j, p)
         /\ i < m /\ j < p /\ s[i + 1] = t[j + 1] =>
              \A c : IsLongest(s, t, c, i + 1, m, j + 1, p) => IsLongest(s, t, c + 1, i, m, j, p)
         /\ i < m /\ j < p /\ s[i + 1] # t[j + 1] =>
              \A c, d : IsLongest(s, t, c, i + 1, m, j, p) /\ IsLongest(s, t, d, i, m, j + 1, p) =>
                IsLongest(s, t, IF c >= d THEN c ELSE d, i, m, j, p)
<1>1. ASSUME i >= m \/ j >= p
      PROVE  IsLongest(s, t, 0, i, m, j, p)
  <2>1. \A n \in Nat : Common(s, t, n, i, m, j, p) <=> n = 0
    BY <1>1, EmptyWindow
  <2> QED BY <2>1 DEF IsLongest
<1>2. ASSUME i < m, j < p, s[i + 1] = t[j + 1], NEW c, IsLongest(s, t, c, i + 1, m, j + 1, p)
      PROVE  IsLongest(s, t, c + 1, i, m, j, p)
  <2>1. c \in Nat /\ \A n \in Nat : Common(s, t, n, i + 1, m, j + 1, p) <=> n <= c
    BY <1>2 DEF IsLongest
  <2>2. ASSUME NEW n \in Nat
        PROVE  Common(s, t, n, i, m, j, p) <=> n <= c + 1
    <3>1. CASE n = 0
      BY <2>1, <3>1, NothingCommon
    <3>2. CASE n # 0
      <4>1. n - 1 \in Nat /\ n - 1 + 1 = n
        BY <3>2
      <4>2. Common(s, t, n - 1 + 1, i, m, j, p) <=> Common(s, t, n - 1, i + 1, m, j + 1, p)
        BY <1>2, <4>1, FrontEqual
      <4> QED BY <2>1, <4>1, <4>2
    <3> QED BY <3>1, <3>2
  <2> QED BY <2>1, <2>2 DEF IsLongest
<1>3. ASSUME i < m, j < p, s[i + 1] # t[j + 1], NEW c, NEW d,
             IsLongest(s, t, c, i + 1, m, j, p), IsLongest(s, t, d, i, m, j + 1, p)
      PROVE  IsLongest(s, t, IF c >= d THEN c ELSE d, i, m, j, p)
  <2>1. /\ c \in Nat /\ \A n \in Nat : Common(s, t, n, i + 1, m, j, p) <=> n <= c
        /\ d \in Nat /\ \A n \in Nat : Common(s, t, n, i, m, j + 1, p) <=> n <= d
    BY <1>3 DEF IsLongest
  <2>2. ASSUME NEW n \in Nat
        PROVE  Common(s, t, n, i, m, j, p) <=> n <= c \/ n <= d
    <3>1. Common(s, t, n, i, m, j, p)
            <=> Common(s, t, n, i + 1, m, j, p) \/ Common(s, t, n, i, m, j + 1, p)
      BY <1>3, FrontDiffers
    <3> QED BY <2>1, <3>1
  <2>3. \A n \in Nat : n <= c \/ n <= d <=> n <= IF c >= d THEN c ELSE d
    BY <2>1
  <2> QED BY <2>1, <2>2, <2>3 DEF IsLongest
<1> QED BY <1>1, <1>2, <1>3

\* A line that both end with is one more.
LEMMA LongestEnd ==
  ASSUME NEW s, NEW t, NEW i \in Nat, NEW m \in Nat, NEW j \in Nat, NEW p \in Nat,
         i < m, j < p, s[m] = t[p], NEW c, IsLongest(s, t, c, i, m - 1, j, p - 1)
  PROVE  IsLongest(s, t, c + 1, i, m, j, p)
<1>1. c \in Nat /\ \A n \in Nat : Common(s, t, n, i, m - 1, j, p - 1) <=> n <= c
  BY DEF IsLongest
<1>2. ASSUME NEW n \in Nat
      PROVE  Common(s, t, n, i, m, j, p) <=> n <= c + 1
  <2>1. CASE n = 0
    BY <1>1, <2>1, NothingCommon
  <2>2. CASE n # 0
    <3>1. n - 1 \in Nat /\ n - 1 + 1 = n
      BY <2>2
    <3>2. Common(s, t, n - 1 + 1, i, m, j, p) <=> Common(s, t, n - 1, i, m - 1, j, p - 1)
      BY <3>1, BackEqual
    <3> QED BY <1>1, <3>1, <3>2
  <2> QED BY <2>1, <2>2
<1> QED BY <1>1, <1>2 DEF IsLongest

\* The lines both files start with belong to a longest common part.
LEMMA LongestHead ==
  ASSUME NEW s, NEW t, NEW h \in Nat, NEW m \in Nat, NEW p \in Nat,
         h <= m, h <= p, \A k \in 1 .. h : s[k] = t[k],
         NEW c \in Nat, IsLongest(s, t, c, h, m, h, p)
  PROVE  IsLongest(s, t, c + h, 0, m, 0, p)
<1> DEFINE bad == {k \in 0 .. h : ~IsLongest(s, t, c + (h - k), k, m, k, p)}
           away == {h - k : k \in bad}
<1>1. bad = {}
  <2>1. SUFFICES ASSUME bad # {}
                 PROVE  FALSE
    OBVIOUS
  <2>2. away \in SUBSET Nat /\ away # {}
    BY <2>1
  <2>3. PICK k \in bad : \A l \in bad : h - k <= h - l
    <3>1. Min(away) \in away /\ \A v \in away : Min(away) <= v
      BY <2>2, LeastExists
    <3> QED BY <3>1
  <2>4. k \in 0 .. h
    OBVIOUS
  <2>5. k # h
    OBVIOUS
  <2>6. k + 1 \in 0 .. h /\ k + 1 \notin bad
    BY <2>3, <2>4, <2>5
  <2>7. IsLongest(s, t, c + (h - (k + 1)), k + 1, m, k + 1, p)
    BY <2>6
  <2>8. c + (h - k) = c + (h - (k + 1)) + 1 /\ k < m /\ k < p /\ s[k + 1] = t[k + 1]
    BY <2>4, <2>5
  <2> DEFINE d == c + (h - (k + 1))
  <2>9. IsLongest(s, t, d + 1, k, m, k, p)
    <3> HIDE DEF d
    <3>1. IsLongest(s, t, d, k + 1, m, k + 1, p)
      BY <2>7 DEF d
    <3> QED BY <2>4, <2>8, <3>1, LongestBack
  <2> QED BY <2>4, <2>8, <2>9
<1>2. 0 \in 0 .. h /\ h - 0 = h
  OBVIOUS
<1> QED BY <1>1, <1>2

\* So do the lines both end with.
LEMMA LongestTail ==
  ASSUME NEW s, NEW t, NEW q \in Nat, NEW i \in Nat, NEW m \in Nat, NEW j \in Nat,
         NEW p \in Nat, i + q <= m, j + q <= p, \A k \in 0 .. q - 1 : s[m - k] = t[p - k],
         NEW c \in Nat, IsLongest(s, t, c, i, m - q, j, p - q)
  PROVE  IsLongest(s, t, c + q, i, m, j, p)
<1> DEFINE bad == {k \in 0 .. q : ~IsLongest(s, t, c + (q - k), i, m - k, j, p - k)}
           away == {q - k : k \in bad}
<1>1. bad = {}
  <2>1. SUFFICES ASSUME bad # {}
                 PROVE  FALSE
    OBVIOUS
  <2>2. away \in SUBSET Nat /\ away # {}
    BY <2>1
  <2>3. PICK k \in bad : \A l \in bad : q - k <= q - l
    <3>1. Min(away) \in away /\ \A v \in away : Min(away) <= v
      BY <2>2, LeastExists
    <3> QED BY <3>1
  <2>4. k \in 0 .. q
    OBVIOUS
  <2>5. k # q
    OBVIOUS
  <2>6. k + 1 \in 0 .. q /\ k + 1 \notin bad
    BY <2>3, <2>4, <2>5
  <2>7. IsLongest(s, t, c + (q - (k + 1)), i, m - (k + 1), j, p - (k + 1))
    BY <2>6
  <2>8. /\ c + (q - k) = c + (q - (k + 1)) + 1
        /\ i < m - k /\ j < p - k /\ m - k \in Nat /\ p - k \in Nat
        /\ m - (k + 1) = m - k - 1 /\ p - (k + 1) = p - k - 1
    BY <2>4, <2>5
  <2>9. s[m - k] = t[p - k]
    BY <2>4, <2>5
  <2>10. IsLongest(s, t, c + (q - (k + 1)) + 1, i, m - k, j, p - k)
    BY <2>7, <2>8, <2>9, LongestEnd
  <2> QED BY <2>4, <2>8, <2>10
<1>2. 0 \in 0 .. q /\ q - 0 = q /\ m - 0 = m /\ p - 0 = p
  OBVIOUS
<1> QED BY <1>1, <1>2

\* The larger of two.
LEMMA LargerNumber ==
  ASSUME NEW c \in Nat, NEW d \in Nat
  PROVE  Max({c, d}) = IF c >= d THEN c ELSE d
BY DEF Max

\* Two numbers counted down together: what holds of a pair when it holds of those
\* with less to go holds of every pair.
LEMMA PairsCountDown ==
  ASSUME NEW I \in Nat, NEW J \in Nat, NEW good,
         \A x \in 0 .. I, y \in 0 .. J :
           (\A xx \in 0 .. I, yy \in 0 .. J : xx + yy > x + y => <<xx, yy>> \in good) => <<x, y>> \in good
  PROVE  \A x \in 0 .. I, y \in 0 .. J : <<x, y>> \in good
<1> DEFINE bad == {z \in (0 .. I) \X (0 .. J) : z \notin good}
           left == {I + J - (z[1] + z[2]) : z \in bad}
<1>1. SUFFICES ASSUME NEW x \in 0 .. I, NEW y \in 0 .. J, <<x, y>> \notin good
               PROVE  FALSE
  OBVIOUS
<1>2. <<x, y>> \in bad
  BY <1>1
<1>3. \A z \in bad : z[1] \in 0 .. I /\ z[2] \in 0 .. J /\ z = <<z[1], z[2]>> /\ z \notin good
  OBVIOUS
<1>4. \A xx \in 0 .. I, yy \in 0 .. J : <<xx, yy>> \notin good => <<xx, yy>> \in bad
  OBVIOUS
<1> HIDE DEF bad
<1>5. left \in SUBSET Nat /\ left # {}
  <2>1. \A z \in bad : I + J - (z[1] + z[2]) \in Nat
    BY <1>3
  <2> QED BY <1>2, <2>1
<1>6. Min(left) \in left /\ \A w \in left : Min(left) <= w
  BY <1>5, LeastExists
<1>7. PICK z \in bad : \A zz \in bad : I + J - (z[1] + z[2]) <= I + J - (zz[1] + zz[2])
  BY <1>6
<1>8. z[1] \in 0 .. I /\ z[2] \in 0 .. J /\ <<z[1], z[2]>> \notin good
  BY <1>3
<1>9. ASSUME NEW xx \in 0 .. I, NEW yy \in 0 .. J, xx + yy > z[1] + z[2]
      PROVE  <<xx, yy>> \in good
  <2>1. SUFFICES ASSUME <<xx, yy>> \notin good
                 PROVE  FALSE
    OBVIOUS
  <2>2. <<xx, yy>> \in bad
    BY <1>4, <2>1
  <2>3. I + J - (z[1] + z[2]) <= I + J - (xx + yy)
    BY <1>7, <2>2
  <2> QED BY <1>8, <1>9, <2>3
<1> QED BY <1>8, <1>9

\* Entry i, j of the table is the number of lines of a longest common part of what is
\* left after i and j lines of the middle.
LEMMA TableIsLongest ==
  ASSUME NEW s, NEW t, NEW h \in Nat, NEW L, NEW u \in Seq(L), NEW v \in Seq(L),
         \A k \in 1 .. Len(u) : u[k] = s[h + k], \A k \in 1 .. Len(v) : v[k] = t[h + k]
  PROVE  \A i \in 0 .. Len(u), j \in 0 .. Len(v) :
           IsLongest(s, t, LongestCommon(u, v)[<<i, j>>], h + i, h + Len(u), h + j, h + Len(v))
<1> DEFINE I == Len(u)
           J == Len(v)
           Entry(f, x, y) ==
             IF x = Len(u) \/ y = Len(v) THEN 0
             ELSE IF u[x + 1] = v[y + 1] THEN f[<<x + 1, y + 1>>] + 1
             ELSE Max({f[<<x + 1, y>>], f[<<x, y + 1>>]})
           table == CHOOSE f : f = [z \in (0 .. Len(u)) \X (0 .. Len(v)) |-> Entry(f, z[1], z[2])]
           Longest(c, x, y) == IsLongest(s, t, c, h + x, h + I, h + y, h + J)
           known == [z \in (0 .. Len(u)) \X (0 .. Len(v)) |-> CHOOSE c : Longest(c, z[1], z[2])]
<1>1. LongestCommon(u, v) = table
  BY DEF LongestCommon
<1>2. I \in Nat /\ J \in Nat
  BY LenProperties
<1>3. ASSUME NEW f, NEW x \in 0 .. I, NEW y \in 0 .. J,
             x < I => Longest(f[<<x + 1, y>>], x + 1, y),
             y < J => Longest(f[<<x, y + 1>>], x, y + 1),
             x < I /\ y < J => Longest(f[<<x + 1, y + 1>>], x + 1, y + 1)
      PROVE  Longest(Entry(f, x, y), x, y)
  <2>0. /\ h + x \in Nat /\ h + I \in Nat /\ h + y \in Nat /\ h + J \in Nat
        /\ h + (x + 1) = h + x + 1 /\ h + (y + 1) = h + y + 1
    BY <1>2
  <2>1. CASE x = I \/ y = J
    <3>1. h + x >= h + I \/ h + y >= h + J
      BY <1>2, <2>1
    <3>2. IsLongest(s, t, 0, h + x, h + I, h + y, h + J)
      BY <2>0, <3>1, LongestBack
    <3>3. Entry(f, x, y) = 0
      BY <2>1
    <3> QED BY <3>2, <3>3
  <2>2. CASE x # I /\ y # J /\ u[x + 1] = v[y + 1]
    <3>1. x < I /\ y < J /\ x + 1 \in 1 .. I /\ y + 1 \in 1 .. J
      BY <1>2, <2>2
    <3>2. s[h + x + 1] = t[h + y + 1]
      <4>1. u[x + 1] = s[h + (x + 1)] /\ v[y + 1] = t[h + (y + 1)]
        BY <3>1
      <4> QED BY <2>0, <2>2, <4>1
    <3>3. IsLongest(s, t, f[<<x + 1, y + 1>>], h + x + 1, h + I, h + y + 1, h + J)
      BY <1>3, <2>0, <3>1
    <3>4. h + x < h + I /\ h + y < h + J
      BY <1>2, <3>1
    <3>5. IsLongest(s, t, f[<<x + 1, y + 1>>] + 1, h + x, h + I, h + y, h + J)
      BY <2>0, <3>2, <3>3, <3>4, LongestBack
    <3>6. Entry(f, x, y) = f[<<x + 1, y + 1>>] + 1
      BY <2>2
    <3> QED BY <3>5, <3>6
  <2>3. CASE x # I /\ y # J /\ u[x + 1] # v[y + 1]
    <3>1. x < I /\ y < J /\ x + 1 \in 1 .. I /\ y + 1 \in 1 .. J
      BY <1>2, <2>3
    <3>2. s[h + x + 1] # t[h + y + 1]
      <4>1. u[x + 1] = s[h + (x + 1)] /\ v[y + 1] = t[h + (y + 1)]
        BY <3>1
      <4> QED BY <2>0, <2>3, <4>1
    <3> DEFINE c == f[<<x + 1, y>>]
               d == f[<<x, y + 1>>]
    <3>3. /\ IsLongest(s, t, c, h + x + 1, h + I, h + y, h + J)
          /\ IsLongest(s, t, d, h + x, h + I, h + y + 1, h + J)
      BY <1>3, <2>0, <3>1
    <3>4. h + x < h + I /\ h + y < h + J
      BY <1>2, <3>1
    <3>5. Entry(f, x, y) = Max({c, d})
      BY <2>3
    <3> HIDE DEF c, d, Entry
    <3>6. IsLongest(s, t, IF c >= d THEN c ELSE d, h + x, h + I, h + y, h + J)
      BY <2>0, <3>2, <3>3, <3>4, LongestBack
    <3>7. c \in Nat /\ d \in Nat
      BY <3>3 DEF IsLongest
    <3>8. Max({c, d}) = IF c >= d THEN c ELSE d
      BY <3>7, LargerNumber
    <3> QED BY <3>5, <3>6, <3>8
  <2> HIDE DEF Entry, Longest
  <2> QED BY <2>1, <2>2, <2>3
<1> HIDE DEF Entry
<1>4. \A x \in 0 .. I, y \in 0 .. J : \E c : Longest(c, x, y)
  <2> DEFINE good == {z \in (0 .. I) \X (0 .. J) : \E c : Longest(c, z[1], z[2])}
  <2>1. ASSUME NEW x \in 0 .. I, NEW y \in 0 .. J,
               \A xx \in 0 .. I, yy \in 0 .. J : xx + yy > x + y => <<xx, yy>> \in good
        PROVE  <<x, y>> \in good
    <3>1. \A xx \in 0 .. I, yy \in 0 .. J : xx + yy > x + y => \E c : Longest(c, xx, yy)
      BY <2>1
    <3> HIDE DEF Longest
    <3> DEFINE f == [z \in (0 .. Len(u)) \X (0 .. Len(v)) |-> CHOOSE c : Longest(c, z[1], z[2])]
    <3>2. \A xx \in 0 .. I, yy \in 0 .. J : f[<<xx, yy>>] = CHOOSE c : Longest(c, xx, yy)
      OBVIOUS
    <3> HIDE DEF f, I, J
    <3>3. \A xx \in 0 .. I, yy \in 0 .. J : xx + yy > x + y => Longest(f[<<xx, yy>>], xx, yy)
      BY <3>1, <3>2
    <3>4. /\ x < I => x + 1 \in 0 .. I /\ x + 1 + y > x + y
          /\ y < J => y + 1 \in 0 .. J /\ x + (y + 1) > x + y
          /\ x + 1 + (y + 1) > x + y
      BY <1>2
    <3>5. x < I => Longest(f[<<x + 1, y>>], x + 1, y)
      BY <3>3, <3>4
    <3>6. y < J => Longest(f[<<x, y + 1>>], x, y + 1)
      BY <3>3, <3>4
    <3>7. x < I /\ y < J => Longest(f[<<x + 1, y + 1>>], x + 1, y + 1)
      BY <3>3, <3>4
    <3>8. Longest(Entry(f, x, y), x, y)
      BY <1>3, <3>5, <3>6, <3>7
    <3> QED BY <3>8
  <2> HIDE DEF Longest, I, J
  <2>2. \A x \in 0 .. I, y \in 0 .. J :
          (\A xx \in 0 .. I, yy \in 0 .. J : xx + yy > x + y => <<xx, yy>> \in good) => <<x, y>> \in good
    BY <2>1
  <2>3. \A x \in 0 .. I, y \in 0 .. J : <<x, y>> \in good
    <3> HIDE DEF good
    <3> QED BY <1>2, <2>2, PairsCountDown
  <2> QED BY <2>3
<1>5. \A x \in 0 .. I, y \in 0 .. J : known[<<x, y>>] = CHOOSE c : Longest(c, x, y)
  OBVIOUS
<1>6. known = [z \in (0 .. Len(u)) \X (0 .. Len(v)) |-> known[z]]
  OBVIOUS
<1> HIDE DEF known, Longest
<1>7. \A x \in 0 .. I, y \in 0 .. J : Longest(known[<<x, y>>], x, y)
  BY <1>4, <1>5
<1>8. \A x \in 0 .. I, y \in 0 .. J : known[<<x, y>>] = Entry(known, x, y)
  <2> SUFFICES ASSUME NEW x \in 0 .. I, NEW y \in 0 .. J
               PROVE  known[<<x, y>>] = Entry(known, x, y)
    OBVIOUS
  <2> HIDE DEF I, J
  <2>0. /\ x < I => x + 1 \in 0 .. I
        /\ y < J => y + 1 \in 0 .. J
    BY <1>2
  <2>1. x < I => Longest(known[<<x + 1, y>>], x + 1, y)
    BY <1>7, <2>0
  <2>2. y < J => Longest(known[<<x, y + 1>>], x, y + 1)
    BY <1>7, <2>0
  <2>3. x < I /\ y < J => Longest(known[<<x + 1, y + 1>>], x + 1, y + 1)
    <3> SUFFICES ASSUME x < I, y < J
                 PROVE  Longest(known[<<x + 1, y + 1>>], x + 1, y + 1)
      OBVIOUS
    <3> QED BY <1>7, <2>0
  <2>4. Longest(Entry(known, x, y), x, y)
    BY <1>3, <2>1, <2>2, <2>3
  <2>5. Longest(known[<<x, y>>], x, y)
    BY <1>7
  <2> QED BY <2>4, <2>5, LongestIsUnique DEF Longest
<1>9. known = [z \in (0 .. Len(u)) \X (0 .. Len(v)) |-> Entry(known, z[1], z[2])]
  <2>1. \A z \in (0 .. Len(u)) \X (0 .. Len(v)) : known[z] = Entry(known, z[1], z[2])
    <3> SUFFICES ASSUME NEW z \in (0 .. Len(u)) \X (0 .. Len(v))
                 PROVE  known[z] = Entry(known, z[1], z[2])
      OBVIOUS
    <3>1. z[1] \in 0 .. I /\ z[2] \in 0 .. J /\ z = <<z[1], z[2]>>
      OBVIOUS
    <3> QED BY <1>8, <3>1
  <2> QED BY <1>6, <2>1
<1>10. table = [z \in (0 .. Len(u)) \X (0 .. Len(v)) |-> Entry(table, z[1], z[2])]
  BY <1>9
<1> HIDE DEF table
<1>11. \A x \in 0 .. I, y \in 0 .. J : table[<<x, y>>] = Entry(table, x, y)
  BY <1>10
<1>12. \A x \in 0 .. I, y \in 0 .. J : Longest(table[<<x, y>>], x, y)
  <2> DEFINE good == {z \in (0 .. I) \X (0 .. J) : Longest(table[z], z[1], z[2])}
  <2>1. ASSUME NEW x \in 0 .. I, NEW y \in 0 .. J,
               \A xx \in 0 .. I, yy \in 0 .. J : xx + yy > x + y => <<xx, yy>> \in good
        PROVE  <<x, y>> \in good
    <3> HIDE DEF I, J
    <3>1. \A xx \in 0 .. I, yy \in 0 .. J : xx + yy > x + y => Longest(table[<<xx, yy>>], xx, yy)
      BY <2>1
    <3>2. /\ x < I => x + 1 \in 0 .. I /\ x + 1 + y > x + y
          /\ y < J => y + 1 \in 0 .. J /\ x + (y + 1) > x + y
          /\ x + 1 + (y + 1) > x + y
      BY <1>2
    <3>3. x < I => Longest(table[<<x + 1, y>>], x + 1, y)
      BY <3>1, <3>2
    <3>4. y < J => Longest(table[<<x, y + 1>>], x, y + 1)
      BY <3>1, <3>2
    <3>5. x < I /\ y < J => Longest(table[<<x + 1, y + 1>>], x + 1, y + 1)
      BY <3>1, <3>2
    <3>6. Longest(Entry(table, x, y), x, y)
      BY <1>3, <3>3, <3>4, <3>5
    <3>7. table[<<x, y>>] = Entry(table, x, y)
      BY <1>11
    <3> QED BY <3>6, <3>7
  <2> HIDE DEF I, J
  <2>2. \A x \in 0 .. I, y \in 0 .. J :
          (\A xx \in 0 .. I, yy \in 0 .. J : xx + yy > x + y => <<xx, yy>> \in good) => <<x, y>> \in good
    BY <2>1
  <2>3. \A x \in 0 .. I, y \in 0 .. J : <<x, y>> \in good
    <3> HIDE DEF good
    <3> QED BY <1>2, <2>2, PairsCountDown
  <2> QED BY <2>3
<1> QED BY <1>1, <1>12 DEF Longest

\* The smaller of two.
LEMMA SmallerNumber ==
  ASSUME NEW c \in Nat, NEW d \in Nat
  PROVE  Min({c, d}) = IF c <= d THEN c ELSE d
BY DEF Min

\* The shared head of two sequences is shared.
LEMMA SharedIsShared ==
  ASSUME NEW L, NEW s \in Seq(L), NEW t \in Seq(L)
  PROVE  /\ Shared(s, t) \in Nat /\ Shared(s, t) <= Len(s) /\ Shared(s, t) <= Len(t)
         /\ \A k \in 1 .. Shared(s, t) : s[k] = t[k]
<1> DEFINE least == Min({Len(s), Len(t)})
           S == {n \in 0 .. least : \A k \in 1 .. n : s[k] = t[k]}
           left == {least - n : n \in S}
<1>1. Len(s) \in Nat /\ Len(t) \in Nat
  BY LenProperties
<1>2. least \in Nat /\ least <= Len(s) /\ least <= Len(t)
  <2>1. least = IF Len(s) <= Len(t) THEN Len(s) ELSE Len(t)
    BY <1>1, SmallerNumber
  <2> HIDE DEF least
  <2> QED BY <1>1, <2>1
<1>3. Shared(s, t) = Max(S)
  BY DEF Shared
<1> HIDE DEF least
<1>4. 0 \in S
  BY <1>2
<1>5. \A n \in S : n \in 0 .. least /\ \A k \in 1 .. n : s[k] = t[k]
  OBVIOUS
<1> HIDE DEF S
<1>6. left \in SUBSET Nat /\ left # {}
  <2>1. \A n \in S : least - n \in Nat
    BY <1>2, <1>5
  <2> QED BY <1>4, <2>1
<1>7. PICK n \in S : \A l \in S : least - n <= least - l
  <2>1. Min(left) \in left /\ \A w \in left : Min(left) <= w
    BY <1>6, LeastExists
  <2> QED BY <2>1
<1>8. \A l \in S : n >= l
  BY <1>2, <1>5, <1>7
<1>9. Max(S) \in S
  BY <1>7, <1>8 DEF Max
<1> QED BY <1>2, <1>3, <1>5, <1>9

\* The shared tail is shared, and does not reach into the head.
LEMMA SharedTailIsShared ==
  ASSUME NEW L, NEW s \in Seq(L), NEW t \in Seq(L), NEW h \in Nat, h <= Len(s), h <= Len(t),
         NEW q, q = Shared(Reverse(SubSeq(s, h + 1, Len(s))),
                                Reverse(SubSeq(t, h + 1, Len(t))))
  PROVE  /\ q \in Nat /\ h + q <= Len(s) /\ h + q <= Len(t)
         /\ \A k \in 0 .. q - 1 : s[Len(s) - k] = t[Len(t) - k]
<1>1. ASSUME NEW v \in Seq(L), h <= Len(v)
      PROVE  LET back == Reverse(SubSeq(v, h + 1, Len(v))) IN
             /\ back \in Seq(L) /\ Len(back) = Len(v) - h
             /\ \A k \in 1 .. Len(v) - h : back[k] = v[Len(v) - k + 1]
  <2> DEFINE rest == SubSeq(v, h + 1, Len(v))
             back == Reverse(rest)
             n == Len(v) - h
  <2>1. Len(v) \in Nat /\ DOMAIN v = 1 .. Len(v) /\ \A k \in 1 .. Len(v) : v[k] \in L
    BY LenProperties
  <2>2. n \in Nat
    BY <1>1, <2>1
  <2>3. rest = [k \in 1 .. n |-> v[h + k]]
    BY <1>1, <2>1
  <2>4. \A k \in 1 .. n : h + k \in 1 .. Len(v)
    BY <2>1
  <2>5. rest \in [1 .. n -> L] /\ \A k \in 1 .. n : rest[k] = v[h + k]
    BY <2>1, <2>3, <2>4
  <2> HIDE DEF rest, n
  <2>6. Len(rest) = n
    BY <2>2, <2>5, FunctionIsSeq
  <2>7. back = [k \in 1 .. n |-> rest[(n - k) + 1]]
    BY <2>6 DEF Reverse
  <2>8. ASSUME NEW k \in 1 .. n
        PROVE  (n - k) + 1 \in 1 .. n /\ h + ((n - k) + 1) = Len(v) - k + 1
    BY <2>1, <2>2 DEF n
  <2>9. back \in [1 .. n -> L] /\ \A k \in 1 .. n : back[k] = v[Len(v) - k + 1]
    BY <2>5, <2>7, <2>8
  <2> HIDE DEF back
  <2>10. back \in Seq(L) /\ Len(back) = n
    BY <2>2, <2>9, FunctionIsSeq
  <2> QED BY <2>9, <2>10 DEF back, rest, n
<1> DEFINE u == Reverse(SubSeq(s, h + 1, Len(s)))
           v == Reverse(SubSeq(t, h + 1, Len(t)))
<1>2. /\ u \in Seq(L) /\ Len(u) = Len(s) - h
      /\ \A k \in 1 .. Len(s) - h : u[k] = s[Len(s) - k + 1]
  BY <1>1
<1>3. /\ v \in Seq(L) /\ Len(v) = Len(t) - h
      /\ \A k \in 1 .. Len(t) - h : v[k] = t[Len(t) - k + 1]
  BY <1>1
<1>4. q = Shared(u, v)
  OBVIOUS
<1> HIDE DEF u, v
<1>5. /\ q \in Nat /\ q <= Len(s) - h /\ q <= Len(t) - h
      /\ \A k \in 1 .. q : u[k] = v[k]
  <2>0. u \in Seq(L) /\ v \in Seq(L)
    BY <1>2, <1>3
  <2>1. /\ Shared(u, v) \in Nat /\ Shared(u, v) <= Len(u) /\ Shared(u, v) <= Len(v)
        /\ \A k \in 1 .. Shared(u, v) : u[k] = v[k]
    BY <2>0, SharedIsShared, Zenon
  <2> QED BY <1>2, <1>3, <1>4, <2>1
<1>6. Len(s) \in Nat /\ Len(t) \in Nat
  BY LenProperties
<1>7. ASSUME NEW k \in 0 .. q - 1
      PROVE  s[Len(s) - k] = t[Len(t) - k]
  <2>1. k + 1 \in 1 .. q /\ k + 1 \in 1 .. Len(s) - h /\ k + 1 \in 1 .. Len(t) - h
    BY <1>5, <1>6
  <2>2. Len(s) - (k + 1) + 1 = Len(s) - k /\ Len(t) - (k + 1) + 1 = Len(t) - k
    BY <1>6
  <2>3. u[k + 1] = v[k + 1] /\ u[k + 1] = s[Len(s) - (k + 1) + 1] /\ v[k + 1] = t[Len(t) - (k + 1) + 1]
    BY <1>2, <1>3, <1>5, <2>1
  <2> QED BY <2>2, <2>3
<1> QED BY <1>5, <1>6, <1>7

\* A file is a sequence of lines.
LEMMA LinesAreSeq ==
  ASSUME NEW S, NEW s \in Seq(S)
  PROVE  \E L : LinesOf(s) \in Seq(L)
<1>1. CASE s = << >>
  <2>1. LinesOf(s) = << >>
    BY <1>1 DEF LinesOf
  <2> QED BY <2>1
<1>2. CASE s # << >>
  <2> DEFINE body == IF s # << >> /\ s[Len(s)] = Newline THEN SubSeq(s, 1, Len(s) - 1) ELSE s
             cuts == {n \in DOMAIN body : body[n] = Newline} \cup {0, Len(body) + 1}
             ends == InOrder(cuts)
             f == [n \in 1 .. Len(ends) - 1 |-> SubSeq(body, ends[n] + 1, ends[n + 1] - 1)]
  <2>1. LinesOf(s) = f
    BY <1>2 DEF LinesOf
  <2>2. Len(s) \in Nat /\ DOMAIN s = 1 .. Len(s) /\ Len(s) > 0
    BY <1>2, LenProperties, EmptySeq
  <2>3. body \in Seq(S)
    <3>1. SubSeq(s, 1, Len(s) - 1) \in Seq(S)
      BY <2>2, SubSeqProperties
    <3> QED BY <3>1
  <2> HIDE DEF body
  <2>4. Len(body) \in Nat /\ DOMAIN body = 1 .. Len(body)
    BY <2>3, LenProperties
  <2>5. cuts \in SUBSET (0 .. Len(body) + 1) /\ cuts \in SUBSET Nat /\ cuts # {}
    BY <2>4
  <2> HIDE DEF cuts
  <2>6. IsFiniteSet(0 .. Len(body) + 1)
    <3>1. 0 \in Int /\ Len(body) + 1 \in Int
      BY <2>4
    <3> QED BY <3>1, FS_Interval
  <2>7. IsFiniteSet(cuts)
    BY <2>5, <2>6, FS_Subset
  <2>8. Cardinality(cuts) \in Nat /\ ends \in [1 .. Cardinality(cuts) -> cuts]
    BY <2>5, <2>7, InOrderAscends
  <2>9. Cardinality(cuts) # 0
    BY <2>5, <2>7, FS_EmptySet
  <2> HIDE DEF ends
  <2>10. Len(ends) = Cardinality(cuts)
    BY <2>8, FunctionIsSeq
  <2>11. Len(ends) - 1 \in Nat
    BY <2>8, <2>9, <2>10
  <2> DEFINE L == {f[n] : n \in 1 .. Len(ends) - 1}
  <2>12. f \in [1 .. Len(ends) - 1 -> L]
    OBVIOUS
  <2> HIDE DEF f, L
  <2>13. f \in Seq(L)
    BY <2>11, <2>12, FunctionIsSeq
  <2> QED BY <2>1, <2>13
<1> QED BY <1>1, <1>2

------------------------------------------------------------------------------
(* The rows of the diff. *)

RowOps == {"equal", "change", "delete", "insert"}

\* A row is of one of four kinds, with the lines and numbers of its kind.
FitRow(row) ==
  /\ row.op \in RowOps
  /\ row.leftNum \in 0 .. Len(a) /\ row.rightNum \in 0 .. Len(b)
  /\ row.leftNum = 0 <=> row.op = "insert"
  /\ row.rightNum = 0 <=> row.op = "delete"
  /\ row.leftNum > 0 => row.left = a[row.leftNum]
  /\ row.rightNum > 0 => row.right = b[row.rightNum]
  /\ row.op = "equal" => row.left = row.right

DiffRows ==
  {Row(op, l, r) : op \in RowOps, l \in 0 .. Len(a), r \in 0 .. Len(b)}

NumberOf(row, s) == IF s = "left" THEN row.leftNum ELSE row.rightNum

\* The rows show the lines of one side from x + 1 to y, once each and in order.
Covers(rows, s, x, y) ==
  /\ \A k \in DOMAIN rows : NumberOf(rows[k], s) = 0 \/ NumberOf(rows[k], s) \in x + 1 .. y
  /\ \A i \in x + 1 .. y : \E k \in DOMAIN rows : NumberOf(rows[k], s) = i
  /\ \A k, l \in DOMAIN rows :
       k < l /\ NumberOf(rows[k], s) # 0 /\ NumberOf(rows[l], s) # 0
         => NumberOf(rows[k], s) < NumberOf(rows[l], s)

\* The rows tell both files from x + 1 to xx on the left and from y + 1 to yy on the
\* right; e of them are equal, the others count as removed or added.
Tells(rows, x, xx, y, yy, e) ==
  /\ rows \in Seq(DiffRows)
  /\ \A k \in DOMAIN rows : FitRow(rows[k])
  /\ Covers(rows, "left", x, xx) /\ Covers(rows, "right", y, yy)
  /\ e \in Nat /\ Count(rows, {"equal"}) = e
  /\ Count(rows, {"delete", "change"}) = xx - x - e
  /\ Count(rows, {"insert", "change"}) = yy - y - e

\* What shows a stretch of a file, and then what shows the next, shows both.
LEMMA CoversJoin ==
  ASSUME NEW S, NEW P \in Seq(S), NEW Q \in Seq(S), NEW s, NEW x \in Nat, NEW y \in Nat, NEW z \in Nat,
         x <= y, y <= z, Covers(P, s, x, y), Covers(Q, s, y, z)
  PROVE  Covers(P \o Q, s, x, z)
<1> DEFINE R == P \o Q
<1>1. /\ Len(P) \in Nat /\ Len(Q) \in Nat /\ DOMAIN P = 1 .. Len(P) /\ DOMAIN Q = 1 .. Len(Q)
  BY LenProperties
<1>2. /\ DOMAIN R = 1 .. Len(P) + Len(Q)
      /\ \A k \in 1 .. Len(P) : R[k] = P[k]
      /\ \A k \in 1 .. Len(Q) : R[Len(P) + k] = Q[k]
  <2>1. /\ R \in Seq(S) /\ Len(R) = Len(P) + Len(Q)
        /\ \A k \in 1 .. Len(P) + Len(Q) : R[k] = IF k <= Len(P) THEN P[k] ELSE Q[k - Len(P)]
    BY ConcatProperties, Zenon
  <2> HIDE DEF R
  <2>2. DOMAIN R = 1 .. Len(P) + Len(Q)
    BY <2>1, LenProperties
  <2>3. \A k \in 1 .. Len(P) : k \in 1 .. Len(P) + Len(Q) /\ k <= Len(P)
    BY <1>1
  <2>4. \A k \in 1 .. Len(Q) : /\ Len(P) + k \in 1 .. Len(P) + Len(Q) /\ ~(Len(P) + k <= Len(P))
                                /\ Len(P) + k - Len(P) = k
    BY <1>1
  <2> QED BY <2>1, <2>2, <2>3, <2>4
<1> HIDE DEF R
<1>3. ASSUME NEW k \in DOMAIN R
      PROVE  \/ k \in 1 .. Len(P) /\ R[k] = P[k]
             \/ k - Len(P) \in 1 .. Len(Q) /\ k > Len(P) /\ R[k] = Q[k - Len(P)]
  <2>1. CASE k <= Len(P)
    BY <1>1, <1>2, <2>1
  <2>2. CASE k > Len(P)
    <3>1. k - Len(P) \in 1 .. Len(Q) /\ Len(P) + (k - Len(P)) = k
      BY <1>1, <1>2, <2>2
    <3>2. R[Len(P) + (k - Len(P))] = Q[k - Len(P)]
      BY <1>2, <3>1
    <3> QED BY <2>2, <3>1, <3>2
  <2> QED BY <1>1, <1>2, <2>1, <2>2
<1> DEFINE N(row) == NumberOf(row, s)
<1>4. /\ \A k \in 1 .. Len(P) : N(P[k]) = 0 \/ N(P[k]) \in x + 1 .. y
      /\ \A i \in x + 1 .. y : \E k \in 1 .. Len(P) : N(P[k]) = i
      /\ \A k, l \in 1 .. Len(P) : k < l /\ N(P[k]) # 0 /\ N(P[l]) # 0 => N(P[k]) < N(P[l])
  BY <1>1 DEF Covers
<1>5. /\ \A k \in 1 .. Len(Q) : N(Q[k]) = 0 \/ N(Q[k]) \in y + 1 .. z
      /\ \A i \in y + 1 .. z : \E k \in 1 .. Len(Q) : N(Q[k]) = i
      /\ \A k, l \in 1 .. Len(Q) : k < l /\ N(Q[k]) # 0 /\ N(Q[l]) # 0 => N(Q[k]) < N(Q[l])
  BY <1>1 DEF Covers
<1> HIDE DEF N
<1>6. ASSUME NEW k \in DOMAIN R
      PROVE  N(R[k]) = 0 \/ N(R[k]) \in x + 1 .. z
  <2>1. x + 1 .. y \subseteq x + 1 .. z /\ y + 1 .. z \subseteq x + 1 .. z
    OBVIOUS
  <2>2. CASE k \in 1 .. Len(P) /\ R[k] = P[k]
    BY <1>4, <2>1, <2>2
  <2>3. CASE k - Len(P) \in 1 .. Len(Q) /\ R[k] = Q[k - Len(P)]
    BY <1>5, <2>1, <2>3
  <2> QED BY <1>3, <2>2, <2>3
<1>7. ASSUME NEW i \in x + 1 .. z
      PROVE  \E k \in DOMAIN R : N(R[k]) = i
  <2>1. CASE i <= y
    <3>1. PICK k \in 1 .. Len(P) : N(P[k]) = i
      BY <1>4, <2>1
    <3>2. k \in DOMAIN R
      BY <1>1, <1>2, <3>1
    <3> QED BY <1>2, <3>1, <3>2
  <2>2. CASE i > y
    <3>1. PICK k \in 1 .. Len(Q) : N(Q[k]) = i
      BY <1>5, <2>2
    <3>2. Len(P) + k \in DOMAIN R
      BY <1>1, <1>2, <3>1
    <3> QED BY <1>2, <3>1, <3>2
  <2> QED BY <2>1, <2>2
<1>8. ASSUME NEW k \in DOMAIN R, NEW l \in DOMAIN R, k < l, N(R[k]) # 0, N(R[l]) # 0
      PROVE  N(R[k]) < N(R[l])
  <2>0. k \in Nat /\ l \in Nat
    BY <1>1, <1>2
  <2>1. CASE k > Len(P)
    <3>1. /\ k - Len(P) \in 1 .. Len(Q) /\ R[k] = Q[k - Len(P)]
          /\ l - Len(P) \in 1 .. Len(Q) /\ R[l] = Q[l - Len(P)]
      BY <1>1, <1>3, <1>8, <2>0, <2>1
    <3>2. k - Len(P) < l - Len(P)
      BY <1>1, <1>8, <2>0
    <3> QED BY <1>5, <1>8, <3>1, <3>2
  <2>2. CASE l <= Len(P)
    <3>1. k \in 1 .. Len(P) /\ R[k] = P[k] /\ l \in 1 .. Len(P) /\ R[l] = P[l]
      BY <1>1, <1>3, <1>8, <2>0, <2>2
    <3> QED BY <1>4, <1>8, <3>1
  <2>3. CASE k <= Len(P) /\ l > Len(P)
    <3>1. k \in 1 .. Len(P) /\ R[k] = P[k] /\ l - Len(P) \in 1 .. Len(Q) /\ R[l] = Q[l - Len(P)]
      BY <1>1, <1>3, <2>0, <2>3
    <3>2. N(R[k]) \in x + 1 .. y /\ N(R[l]) \in y + 1 .. z
      BY <1>4, <1>5, <1>8, <3>1
    <3> QED BY <3>2
  <2> QED BY <1>1, <2>0, <2>1, <2>2, <2>3
<1> QED BY <1>6, <1>7, <1>8 DEF Covers, N, R

\* How the rows of a kind are counted.
LEMMA CountIs == \A rows, ops : Count(rows, ops) = Cardinality({n \in DOMAIN rows : rows[n].op \in ops})
BY DEF Count

\* Rows are counted part by part.
LEMMA CountJoin ==
  ASSUME NEW S, NEW P \in Seq(S), NEW Q \in Seq(S), NEW ops
  PROVE  /\ Count(P, ops) \in Nat /\ Count(Q, ops) \in Nat
         /\ Count(P \o Q, ops) = Count(P, ops) + Count(Q, ops)
<1> DEFINE R == P \o Q
           A == {n \in DOMAIN P : P[n].op \in ops}
           B == {n \in DOMAIN Q : Q[n].op \in ops}
           C == {n \in DOMAIN R : R[n].op \in ops}
           BB == {Len(P) + n : n \in B}
           shift == [n \in B |-> Len(P) + n]
<1>1. /\ Len(P) \in Nat /\ Len(Q) \in Nat /\ DOMAIN P = 1 .. Len(P) /\ DOMAIN Q = 1 .. Len(Q)
  BY LenProperties
<1>2. /\ DOMAIN R = 1 .. Len(P) + Len(Q)
      /\ \A k \in 1 .. Len(P) : R[k] = P[k]
      /\ \A k \in 1 .. Len(Q) : R[Len(P) + k] = Q[k]
  <2>1. /\ R \in Seq(S) /\ Len(R) = Len(P) + Len(Q)
        /\ \A k \in 1 .. Len(P) + Len(Q) : R[k] = IF k <= Len(P) THEN P[k] ELSE Q[k - Len(P)]
    BY ConcatProperties, Zenon
  <2> HIDE DEF R
  <2>2. DOMAIN R = 1 .. Len(P) + Len(Q)
    BY <2>1, LenProperties
  <2>3. \A k \in 1 .. Len(P) : k \in 1 .. Len(P) + Len(Q) /\ k <= Len(P)
    BY <1>1
  <2>4. \A k \in 1 .. Len(Q) : /\ Len(P) + k \in 1 .. Len(P) + Len(Q) /\ ~(Len(P) + k <= Len(P))
                                /\ Len(P) + k - Len(P) = k
    BY <1>1
  <2> QED BY <2>1, <2>2, <2>3, <2>4
<1> HIDE DEF R
<1>3. /\ IsFiniteSet(1 .. Len(P)) /\ IsFiniteSet(1 .. Len(Q))
  BY <1>1, FS_Interval
<1>4. A \in SUBSET (1 .. Len(P)) /\ B \in SUBSET (1 .. Len(Q))
  BY <1>1
<1>5. \A n \in B : n \in Nat
  BY <1>4
<1>6. C = A \cup BB /\ A \cap BB = {}
  <2>1. ASSUME NEW k \in 1 .. Len(P) + Len(Q)
        PROVE  k \in C <=> k \in A \cup BB
    <3>1. CASE k <= Len(P)
      <4>1. k \in 1 .. Len(P) /\ R[k] = P[k]
        BY <1>1, <1>2, <3>1
      <4>2. k \notin BB
        BY <1>1, <1>4, <3>1
      <4> QED BY <1>1, <1>2, <4>1, <4>2
    <3>2. CASE k > Len(P)
      <4>1. k - Len(P) \in 1 .. Len(Q) /\ Len(P) + (k - Len(P)) = k
        BY <1>1, <3>2
      <4>2. R[k] = Q[k - Len(P)]
        <5>1. R[Len(P) + (k - Len(P))] = Q[k - Len(P)]
          BY <1>2, <4>1
        <5> QED BY <4>1, <5>1
      <4>3. k \in BB <=> k - Len(P) \in B
        <5>1. \A n \in B : Len(P) + n = k => n = k - Len(P)
          BY <1>1, <1>5
        <5> QED BY <4>1, <5>1
      <4>4. k \notin A
        BY <1>1, <3>2
      <4>5. k \in C <=> Q[k - Len(P)].op \in ops
        BY <1>2, <4>2
      <4>6. k - Len(P) \in B <=> Q[k - Len(P)].op \in ops
        BY <1>1, <4>1
      <4> QED BY <4>3, <4>4, <4>5, <4>6
    <3> QED BY <1>1, <3>1, <3>2
  <2>2. C \subseteq 1 .. Len(P) + Len(Q)
    BY <1>2
  <2>3. A \subseteq 1 .. Len(P) + Len(Q)
    BY <1>1
  <2>4. BB \subseteq 1 .. Len(P) + Len(Q)
    BY <1>1
  <2>5. A \cap BB = {}
    <3>1. \A n \in B : Len(P) + n > Len(P)
      BY <1>1
    <3>2. \A n \in A : ~(n > Len(P))
      BY <1>1
    <3> HIDE DEF A, B
    <3> QED BY <3>1, <3>2
  <2> HIDE DEF A, BB, C
  <2> QED BY <2>1, <2>2, <2>3, <2>4, <2>5
<1>7. shift \in Bijection(B, BB)
  <2>1. shift \in Surjection(B, BB)
    BY DEF Surjection
  <2>2. \A n, k \in B : shift[n] = shift[k] => n = k
    BY <1>1, <1>5
  <2>3. shift \in [B -> BB]
    OBVIOUS
  <2> HIDE DEF shift, B, BB
  <2>4. shift \in Injection(B, BB)
    BY <2>2, <2>3 DEF Injection, IsInjective
  <2> QED BY <2>1, <2>4 DEF Bijection
<1>8. /\ Count(P, ops) = Cardinality(A) /\ Count(Q, ops) = Cardinality(B)
      /\ Count(R, ops) = Cardinality(C)
  BY CountIs
<1> HIDE DEF A, B, C, BB, shift
<1>9. IsFiniteSet(A) /\ IsFiniteSet(B) /\ Cardinality(A) \in Nat /\ Cardinality(B) \in Nat
  <2>1. IsFiniteSet(A) /\ IsFiniteSet(B)
    BY <1>3, <1>4, FS_Subset
  <2> QED BY <2>1, FS_CardinalityType
<1>10. IsFiniteSet(BB) /\ Cardinality(BB) = Cardinality(B)
  <2>1. ExistsBijection(B, BB)
    BY <1>7 DEF ExistsBijection
  <2> QED BY <1>9, <2>1, FS_Bijection
<1>11. Cardinality(A \cup BB) = Cardinality(A) + Cardinality(BB) - Cardinality(A \cap BB)
  BY <1>9, <1>10, FS_Union
<1>12. Cardinality(A \cap BB) = 0
  BY <1>6, FS_EmptySet
<1>13. Cardinality(C) = Cardinality(A) + Cardinality(B)
  BY <1>6, <1>9, <1>10, <1>11, <1>12
<1> QED BY <1>8, <1>9, <1>13 DEF R

\* What one stretch of rows tells and what the next one tells.
LEMMA TellsJoin ==
  ASSUME NEW P, NEW Q, NEW x \in Nat, NEW xx \in Nat, NEW xxx \in Nat,
         NEW y \in Nat, NEW yy \in Nat, NEW yyy \in Nat, NEW e, NEW f,
         x <= xx, xx <= xxx, y <= yy, yy <= yyy,
         Tells(P, x, xx, y, yy, e), Tells(Q, xx, xxx, yy, yyy, f)
  PROVE  Tells(P \o Q, x, xxx, y, yyy, e + f)
<1>1. /\ P \in Seq(DiffRows) /\ \A k \in DOMAIN P : FitRow(P[k])
      /\ Covers(P, "left", x, xx) /\ Covers(P, "right", y, yy)
      /\ e \in Nat /\ Count(P, {"equal"}) = e
      /\ Count(P, {"delete", "change"}) = xx - x - e
      /\ Count(P, {"insert", "change"}) = yy - y - e
  BY DEF Tells
<1>2. /\ Q \in Seq(DiffRows) /\ \A k \in DOMAIN Q : FitRow(Q[k])
      /\ Covers(Q, "left", xx, xxx) /\ Covers(Q, "right", yy, yyy)
      /\ f \in Nat /\ Count(Q, {"equal"}) = f
      /\ Count(Q, {"delete", "change"}) = xxx - xx - f
      /\ Count(Q, {"insert", "change"}) = yyy - yy - f
  BY DEF Tells
<1>3. /\ Covers(P \o Q, "left", x, xxx) /\ Covers(P \o Q, "right", y, yyy)
  BY <1>1, <1>2, CoversJoin
<1>4. \A ops : Count(P \o Q, ops) = Count(P, ops) + Count(Q, ops)
  BY <1>1, <1>2, CountJoin
<1>5. /\ P \o Q \in Seq(DiffRows)
      /\ \A k \in DOMAIN (P \o Q) : FitRow((P \o Q)[k])
  <2> DEFINE R == P \o Q
  <2>1. /\ R \in Seq(DiffRows) /\ Len(R) = Len(P) + Len(Q)
        /\ \A k \in 1 .. Len(P) + Len(Q) : R[k] = IF k <= Len(P) THEN P[k] ELSE Q[k - Len(P)]
    BY <1>1, <1>2, ConcatProperties, Zenon
  <2>2. /\ Len(P) \in Nat /\ Len(Q) \in Nat /\ DOMAIN P = 1 .. Len(P) /\ DOMAIN Q = 1 .. Len(Q)
    BY <1>1, <1>2, LenProperties
  <2> HIDE DEF R
  <2>3. DOMAIN R = 1 .. Len(P) + Len(Q)
    BY <2>1, LenProperties
  <2>4. ASSUME NEW k \in DOMAIN R
        PROVE  FitRow(R[k])
    <3>1. CASE k <= Len(P)
      <4>1. k \in DOMAIN P /\ R[k] = P[k]
        BY <2>1, <2>2, <2>3, <3>1
      <4> QED BY <1>1, <4>1
    <3>2. CASE ~(k <= Len(P))
      <4>1. k - Len(P) \in DOMAIN Q /\ R[k] = Q[k - Len(P)]
        BY <2>1, <2>2, <2>3, <3>2
      <4> QED BY <1>2, <4>1
    <3> QED BY <3>1, <3>2
  <2> QED BY <2>1, <2>4 DEF R
<1>6. /\ Count(P \o Q, {"equal"}) = e + f
      /\ Count(P \o Q, {"delete", "change"}) = xxx - x - (e + f)
      /\ Count(P \o Q, {"insert", "change"}) = yyy - y - (e + f)
  BY <1>1, <1>2, <1>4
<1>7. e + f \in Nat
  BY <1>1, <1>2
<1> QED BY <1>3, <1>5, <1>6, <1>7 DEF Tells

\* Counting rows that are all of one kind.
LEMMA CountOfOneKind ==
  ASSUME NEW n \in Nat, NEW S, NEW R \in [1 .. n -> S], NEW op, \A k \in 1 .. n : R[k].op = op, NEW ops
  PROVE  Count(R, ops) = IF op \in ops THEN n ELSE 0
<1>1. Count(R, ops) = Cardinality({k \in 1 .. n : R[k].op \in ops})
  BY CountIs
<1>2. CASE op \in ops
  <2>1. {k \in 1 .. n : R[k].op \in ops} = 1 .. n
    BY <1>2
  <2>2. Cardinality(1 .. n) = n
    BY FS_Interval
  <2> QED BY <1>1, <1>2, <2>1, <2>2
<1>3. CASE op \notin ops
  <2>1. {k \in 1 .. n : R[k].op \in ops} = {}
    BY <1>3
  <2> QED BY <1>1, <1>3, <2>1, FS_EmptySet
<1> QED BY <1>2, <1>3

\* A row of some kind for each of n lines in a row.
LEMMA TellsRun ==
  ASSUME NEW n \in Nat, NEW op \in RowOps, NEW x \in Nat, NEW y \in Nat, NEW R \in [1 .. n -> DiffRows],
         Len(a) \in Nat, Len(b) \in Nat,
         \A k \in 1 .. n :
           R[k] = Row(op, IF op = "insert" THEN 0 ELSE x + k, IF op = "delete" THEN 0 ELSE y + k),
         op # "insert" => x + n <= Len(a),
         op # "delete" => y + n <= Len(b),
         op = "equal" => \A k \in 1 .. n : a[x + k] = b[y + k]
  PROVE  Tells(R, x, IF op = "insert" THEN x ELSE x + n, y, IF op = "delete" THEN y ELSE y + n,
               IF op = "equal" THEN n ELSE 0)
<1> DEFINE l(k) == IF op = "insert" THEN 0 ELSE x + k
           r(k) == IF op = "delete" THEN 0 ELSE y + k
<1>1. ASSUME NEW k \in 1 .. n
      PROVE  /\ R[k].op = op /\ R[k].leftNum = l(k) /\ R[k].rightNum = r(k)
             /\ l(k) > 0 => R[k].left = a[l(k)]
             /\ r(k) > 0 => R[k].right = b[r(k)]
  BY DEF Row
<1>2. DOMAIN R = 1 .. n
  OBVIOUS
<1>3. ASSUME NEW k \in 1 .. n
      PROVE  FitRow(R[k])
  <2>1. x + k \in Nat /\ y + k \in Nat /\ x + k > 0 /\ y + k > 0 /\ x + k <= x + n /\ y + k <= y + n
    OBVIOUS
  <2>2. /\ l(k) \in 0 .. Len(a) /\ (l(k) = 0 <=> op = "insert")
        /\ r(k) \in 0 .. Len(b) /\ (r(k) = 0 <=> op = "delete")
    BY <2>1
  <2>3. op = "equal" => R[k].left = R[k].right
    <3>1. SUFFICES ASSUME op = "equal"
                   PROVE  R[k].left = R[k].right
      OBVIOUS
    <3>2. l(k) = x + k /\ r(k) = y + k
      BY <3>1
    <3> QED BY <1>1, <2>1, <3>1, <3>2
  <2> HIDE DEF l, r
  <2> QED BY <1>1, <2>2, <2>3 DEF FitRow
<1>4. R \in Seq(DiffRows)
  BY FunctionIsSeq
<1>5. Covers(R, "left", x, IF op = "insert" THEN x ELSE x + n)
  <2>1. \A k \in 1 .. n : NumberOf(R[k], "left") = l(k)
    BY <1>1 DEF NumberOf
  <2>2. CASE op = "insert"
    BY <1>2, <2>1, <2>2 DEF Covers
  <2>3. CASE op # "insert"
    <3>1. \A k \in 1 .. n : NumberOf(R[k], "left") = x + k
      BY <2>1, <2>3
    <3>2. \A i \in x + 1 .. x + n : i - x \in 1 .. n /\ x + (i - x) = i
      OBVIOUS
    <3>3. \A i \in x + 1 .. x + n : \E k \in 1 .. n : NumberOf(R[k], "left") = i
      BY <3>1, <3>2
    <3>4. /\ \A k \in 1 .. n : x + k \in x + 1 .. x + n
          /\ \A k, m \in 1 .. n : k < m => x + k < x + m
      OBVIOUS
    <3> HIDE DEF l, r
    <3>5. Covers(R, "left", x, x + n)
      <4>1. \A k \in DOMAIN R : NumberOf(R[k], "left") = 0 \/ NumberOf(R[k], "left") \in x + 1 .. x + n
        BY <1>2, <3>1, <3>4
      <4>2. \A i \in x + 1 .. x + n : \E k \in DOMAIN R : NumberOf(R[k], "left") = i
        BY <1>2, <3>3
      <4>3. \A k, m \in DOMAIN R : k < m => NumberOf(R[k], "left") < NumberOf(R[m], "left")
        BY <1>2, <3>1, <3>4
      <4> QED BY <4>1, <4>2, <4>3 DEF Covers
    <3> QED BY <2>3, <3>5
  <2> QED BY <2>2, <2>3
<1>6. Covers(R, "right", y, IF op = "delete" THEN y ELSE y + n)
  <2>1. \A k \in 1 .. n : NumberOf(R[k], "right") = r(k)
    BY <1>1 DEF NumberOf
  <2>2. CASE op = "delete"
    BY <1>2, <2>1, <2>2 DEF Covers
  <2>3. CASE op # "delete"
    <3>1. \A k \in 1 .. n : NumberOf(R[k], "right") = y + k
      BY <2>1, <2>3
    <3>2. \A i \in y + 1 .. y + n : i - y \in 1 .. n /\ y + (i - y) = i
      OBVIOUS
    <3>3. \A i \in y + 1 .. y + n : \E k \in 1 .. n : NumberOf(R[k], "right") = i
      BY <3>1, <3>2
    <3>4. /\ \A k \in 1 .. n : y + k \in y + 1 .. y + n
          /\ \A k, m \in 1 .. n : k < m => y + k < y + m
      OBVIOUS
    <3> HIDE DEF l, r
    <3>5. Covers(R, "right", y, y + n)
      <4>1. \A k \in DOMAIN R : NumberOf(R[k], "right") = 0 \/ NumberOf(R[k], "right") \in y + 1 .. y + n
        BY <1>2, <3>1, <3>4
      <4>2. \A i \in y + 1 .. y + n : \E k \in DOMAIN R : NumberOf(R[k], "right") = i
        BY <1>2, <3>3
      <4>3. \A k, m \in DOMAIN R : k < m => NumberOf(R[k], "right") < NumberOf(R[m], "right")
        BY <1>2, <3>1, <3>4
      <4> QED BY <4>1, <4>2, <4>3 DEF Covers
    <3> QED BY <2>3, <3>5
  <2> QED BY <2>2, <2>3
<1>7. \A ops : Count(R, ops) = IF op \in ops THEN n ELSE 0
  <2> HIDE DEF l, r
  <2>1. \A k \in 1 .. n : R[k].op = op
    BY <1>1
  <2> QED BY <2>1, CountOfOneKind
<1>8. /\ Count(R, {"equal"}) = IF op = "equal" THEN n ELSE 0
      /\ Count(R, {"delete", "change"}) = IF op \in {"delete", "change"} THEN n ELSE 0
      /\ Count(R, {"insert", "change"}) = IF op \in {"insert", "change"} THEN n ELSE 0
  BY <1>7
<1> HIDE DEF l, r
<1> DEFINE xx == IF op = "insert" THEN x ELSE x + n
           yy == IF op = "delete" THEN y ELSE y + n
           e == IF op = "equal" THEN n ELSE 0
<1>9. /\ e \in Nat
      /\ Count(R, {"delete", "change"}) = xx - x - e
      /\ Count(R, {"insert", "change"}) = yy - y - e
  <2>1. op = "equal" \/ op = "change" \/ op = "delete" \/ op = "insert"
    BY DEF RowOps
  <2> QED BY <1>8, <2>1
<1> QED BY <1>2, <1>3, <1>4, <1>5, <1>6, <1>8, <1>9 DEF Tells

\* The rows that are there, with the pending deletes and inserts flushed after them.
LEMMA FlushedTells ==
  ASSUME NEW rows, NEW x \in Nat, NEW y \in Nat, NEW e, Tells(rows, 0, x, 0, y, e),
         NEW d \in Nat, NEW i \in Nat,
         pending["left"] \in [1 .. d -> DiffRows], pending["right"] \in [1 .. i -> DiffRows],
         \A k \in 1 .. d : pending["left"][k] = Row("delete", x + k, 0),
         \A k \in 1 .. i : pending["right"][k] = Row("insert", 0, y + k),
         Len(a) \in Nat, Len(b) \in Nat, x + d <= Len(a), y + i <= Len(b)
  PROVE  Tells(Flushed(rows), 0, x + d, 0, y + i, e)
<1> DEFINE deletes == pending["left"]
           inserts == pending["right"]
           n == Min({Len(deletes), Len(inserts)})
           changes == [k \in 1 .. n |-> Row("change", deletes[k].leftNum, inserts[k].rightNum)]
           D == SubSeq(deletes, n + 1, Len(deletes))
           I == SubSeq(inserts, n + 1, Len(inserts))
<1>1. Flushed(rows) = rows \o changes \o D \o I
  BY DEF Flushed
<1>2. /\ deletes \in Seq(DiffRows) /\ Len(deletes) = d
      /\ inserts \in Seq(DiffRows) /\ Len(inserts) = i
  BY FunctionIsSeq
<1>3. n \in Nat /\ n <= d /\ n <= i /\ (n = d \/ n = i)
  <2>1. n = IF d <= i THEN d ELSE i
    BY <1>2, SmallerNumber
  <2> HIDE DEF n
  <2> QED BY <2>1
<1>4. /\ \A k \in 1 .. d : deletes[k] \in DiffRows /\ deletes[k] = Row("delete", x + k, 0)
      /\ \A k \in 1 .. i : inserts[k] \in DiffRows /\ inserts[k] = Row("insert", 0, y + k)
  OBVIOUS
<1> HIDE DEF n, deletes, inserts
<1>5. /\ \A k \in 1 .. d : deletes[k].leftNum = x + k
      /\ \A k \in 1 .. i : inserts[k].rightNum = y + k
  <2>1. \A num : /\ Row("delete", num, 0).leftNum = num
                 /\ Row("insert", 0, num).rightNum = num
    BY DEF Row
  <2> QED BY <1>4, <2>1
<1>6. Tells(changes, x, x + n, y, y + n, 0)
  <2>1. \A k \in 1 .. n : changes[k] = Row("change", x + k, y + k)
    BY <1>3, <1>5
  <2>2. changes \in [1 .. n -> DiffRows]
    <3>1. ASSUME NEW k \in 1 .. n
          PROVE  Row("change", deletes[k].leftNum, inserts[k].rightNum) \in DiffRows
      <4>1. deletes[k].leftNum \in 0 .. Len(a) /\ inserts[k].rightNum \in 0 .. Len(b)
        BY <1>3, <1>5
      <4> QED BY <4>1 DEF DiffRows, RowOps
    <3> QED BY <3>1
  <2> HIDE DEF changes
  <2>3. "change" \in RowOps /\ x + n <= Len(a) /\ y + n <= Len(b)
    BY <1>3 DEF RowOps
  <2>4. \A k \in 1 .. n :
          changes[k] = Row("change", IF "change" = "insert" THEN 0 ELSE x + k,
                      IF "change" = "delete" THEN 0 ELSE y + k)
    BY <2>1
  <2>5. Tells(changes, x, IF "change" = "insert" THEN x ELSE x + n, y, IF "change" = "delete" THEN y ELSE y + n,
              IF "change" = "equal" THEN n ELSE 0)
    BY <1>3, <2>2, <2>3, <2>4, TellsRun
  <2> QED BY <2>5
<1>7. Tells(D, x + n, x + d, y + n, y + n, 0)
  <2>1. D = [k \in 1 .. d - n |-> deletes[n + k]]
    BY <1>2, <1>3
  <2>2. \A k \in 1 .. d - n : n + k \in 1 .. d
    BY <1>3
  <2>3. D \in [1 .. d - n -> DiffRows] /\ \A k \in 1 .. d - n : D[k] = Row("delete", x + (n + k), 0)
    BY <1>4, <2>1, <2>2
  <2>4. \A k \in 1 .. d - n : x + (n + k) = x + n + k
    BY <1>3
  <2> HIDE DEF D
  <2>5. "delete" \in RowOps /\ d - n \in Nat /\ x + n \in Nat /\ y + n \in Nat /\ x + n + (d - n) = x + d
    BY <1>3 DEF RowOps
  <2>6. \A k \in 1 .. d - n :
          D[k] = Row("delete", IF "delete" = "insert" THEN 0 ELSE x + n + k,
                      IF "delete" = "delete" THEN 0 ELSE y + n + k)
    BY <2>3, <2>4
  <2>7. Tells(D, x + n, IF "delete" = "insert" THEN x + n ELSE x + n + (d - n),
              y + n, IF "delete" = "delete" THEN y + n ELSE y + n + (d - n),
              IF "delete" = "equal" THEN d - n ELSE 0)
    BY <2>3, <2>5, <2>6, TellsRun
  <2> QED BY <2>5, <2>7
<1>8. Tells(I, x + d, x + d, y + n, y + i, 0)
  <2>1. I = [k \in 1 .. i - n |-> inserts[n + k]]
    BY <1>2, <1>3
  <2>2. \A k \in 1 .. i - n : n + k \in 1 .. i
    BY <1>3
  <2>3. I \in [1 .. i - n -> DiffRows] /\ \A k \in 1 .. i - n : I[k] = Row("insert", 0, y + (n + k))
    BY <1>4, <2>1, <2>2
  <2>4. \A k \in 1 .. i - n : y + (n + k) = y + n + k
    BY <1>3
  <2> HIDE DEF I
  <2>5. "insert" \in RowOps /\ i - n \in Nat /\ x + d \in Nat /\ y + n \in Nat /\ y + n + (i - n) = y + i
    BY <1>3 DEF RowOps
  <2>6. \A k \in 1 .. i - n :
          I[k] = Row("insert", IF "insert" = "insert" THEN 0 ELSE x + d + k,
                      IF "insert" = "delete" THEN 0 ELSE y + n + k)
    BY <2>3, <2>4
  <2>7. Tells(I, x + d, IF "insert" = "insert" THEN x + d ELSE x + d + (i - n),
              y + n, IF "insert" = "delete" THEN y + n ELSE y + n + (i - n),
              IF "insert" = "equal" THEN i - n ELSE 0)
    BY <2>3, <2>5, <2>6, TellsRun
  <2> QED BY <2>5, <2>7
<1> HIDE DEF changes, D, I
<1>9. e \in Nat
  BY DEF Tells
<1> DEFINE p == x + n
           pp == x + d
           q == y + n
           qq == y + i
<1>10. /\ p \in Nat /\ pp \in Nat /\ q \in Nat /\ qq \in Nat
      /\ 0 <= x /\ x <= p /\ p <= pp /\ 0 <= y /\ y <= q /\ q <= qq
      /\ 0 <= p /\ 0 <= pp /\ 0 <= q /\ pp <= pp /\ q <= q /\ 0 \in Nat
  BY <1>3
<1>11. /\ Tells(changes, x, p, y, q, 0) /\ Tells(D, p, pp, q, q, 0) /\ Tells(I, pp, pp, q, qq, 0)
  BY <1>6, <1>7, <1>8
<1> HIDE DEF p, pp, q, qq
<1>12. Tells(rows \o changes, 0, p, 0, q, e)
  <2>1. Tells(rows \o changes, 0, p, 0, q, e + 0)
    BY <1>10, <1>11, TellsJoin
  <2> QED BY <1>9, <2>1
<1>13. Tells((rows \o changes) \o D, 0, pp, 0, q, e)
  <2>1. Tells((rows \o changes) \o D, 0, pp, 0, q, e + 0)
    BY <1>10, <1>12, <1>11, TellsJoin
  <2> QED BY <1>9, <2>1
<1>14. Tells(((rows \o changes) \o D) \o I, 0, pp, 0, qq, e)
  <2>1. Tells(((rows \o changes) \o D) \o I, 0, pp, 0, qq, e + 0)
    BY <1>10, <1>13, <1>11, TellsJoin
  <2> QED BY <1>9, <2>1
<1> QED BY <1>1, <1>14 DEF pp, qq

------------------------------------------------------------------------------
(* The loop of the diff. *)

\* Deletes and inserts that are pending come after the lines already shown.
DeletesFrom == head + taken["left"] - Len(pending["left"])
InsertsFrom == head + taken["right"] - Len(pending["right"])

\* The loop is inside the middle part, the tails agree, and what is pending is the
\* run of lines taken last on each side.
Aligning ==
  /\ head \in Nat /\ tail \in Nat /\ taken \in [Sides -> Nat]
  /\ head + taken["left"] + tail <= Len(a)
  /\ head + taken["right"] + tail <= Len(b)
  /\ \A k \in 0 .. tail - 1 : a[Len(a) - k] = b[Len(b) - k]
  /\ pending \in [Sides -> Seq(DiffRows)]
  /\ DeletesFrom \in Nat /\ InsertsFrom \in Nat
  /\ \A k \in 1 .. Len(pending["left"]) : pending["left"][k] = Row("delete", DeletesFrom + k, 0)
  /\ \A k \in 1 .. Len(pending["right"]) : pending["right"][k] = Row("insert", 0, InsertsFrom + k)

\* The table knows what the rest of the middle has in common.
TableKnows ==
  \A x \in 0 .. Len(a) - tail - head, y \in 0 .. Len(b) - tail - head :
    IsLongest(a, b, lcs[<<x, y>>],
              head + x, Len(a) - tail, head + y, Len(b) - tail)

\* The rows show what is before the pending ones, e lines as equal; with those, the
\* tail and all that the rest of the middle has in common, nothing common is lost.
NothingLost(e) ==
  /\ Tells(diff.rows, 0, DeletesFrom, 0, InsertsFrom, e)
  /\ \A c \in Nat :
       IsLongest(a, b, c, head + taken["left"], Len(a) - tail,
                 head + taken["right"], Len(b) - tail)
         => IsLongest(a, b, c + e + tail, 0, Len(a), 0, Len(b))

\* The finished diff tells both files whole, with a longest common part as equal.
Finished(e) ==
  /\ Tells(diff.rows, 0, Len(a), 0, Len(b), e)
  /\ diff.removed = Len(a) - e /\ diff.added = Len(b) - e
  /\ IsLongest(a, b, e, 0, Len(a), 0, Len(b))

DiffInv ==
  /\ text \in [Sides -> Texts]
  /\ lines = [s \in Sides |-> LinesOf(text[s])]
  /\ DOMAIN diff = {"rows", "added", "removed", "identical", "onlyIn"}
  /\ pc = "compare" => /\ taken = [s \in Sides |-> 0]
                       /\ pending = [s \in Sides |-> << >>]
                       /\ diff.added = 0 /\ diff.removed = 0
  /\ pc = "align" => Aligning /\ TableKnows /\ \E e \in Nat : NothingLost(e)
  /\ pc = "done" => diff.rows = <<TooBig>> \/ \E e \in Nat : Finished(e)

\* Both files are sequences of lines.
LEMMA FilesAreLines ==
  ASSUME DiffInv
  PROVE  /\ \E L : a \in Seq(L) /\ b \in Seq(L)
         /\ Len(a) \in Nat /\ Len(b) \in Nat
<1>1. a = LinesOf(text["left"]) /\ b = LinesOf(text["right"])
  BY DEF DiffInv, a, b, Sides
<1>2. text["left"] \in Seq(Range(text["left"])) /\ text["right"] \in Seq(Range(text["right"]))
  BY TextDiffAssumption DEF DiffInv, Sides
<1>3. PICK K : a \in Seq(K)
  BY <1>1, <1>2, LinesAreSeq
<1>4. PICK M : b \in Seq(M)
  BY <1>1, <1>2, LinesAreSeq
<1>5. /\ Len(a) \in Nat /\ a \in [1 .. Len(a) -> K \cup M]
      /\ Len(b) \in Nat /\ b \in [1 .. Len(b) -> K \cup M]
  BY <1>3, <1>4, LenProperties
<1>6. a \in Seq(K \cup M) /\ b \in Seq(K \cup M)
  BY <1>5, FunctionIsSeq
<1> QED BY <1>5, <1>6

\* What rows tell does not change while the files are the same.
LEMMA TellsStays ==
  ASSUME lines' = lines, NEW rows, NEW x, NEW y, NEW e, Tells(rows, 0, x, 0, y, e)
  PROVE  Tells(rows, 0, x, 0, y, e)'
<1>1. a' = a /\ b' = b
  BY DEF a, b
<1>2. DiffRows' = DiffRows
  BY <1>1 DEF DiffRows, Row
<1>3. \A row : FitRow(row) => FitRow(row)'
  BY <1>1 DEF FitRow
<1> QED BY <1>1, <1>2, <1>3 DEF Tells

\* The rows of n lines that both files share from their first on.
LEMMA EqualTells ==
  ASSUME Len(a) \in Nat, Len(b) \in Nat, NEW n \in Nat, NEW m \in Nat, NEW p \in Nat,
         m + n <= Len(a), p + n <= Len(b), \A k \in 1 .. n : a[m + k] = b[p + k]
  PROVE  Tells([k \in 1 .. n |-> Row("equal", m + k, p + k)], m, m + n, p, p + n, n)
<1> DEFINE R == [k \in 1 .. n |-> Row("equal", m + k, p + k)]
<1>1. ASSUME NEW k \in 1 .. n
      PROVE  Row("equal", m + k, p + k) \in DiffRows
  <2>1. m + k \in 0 .. Len(a) /\ p + k \in 0 .. Len(b)
    OBVIOUS
  <2> QED BY <2>1 DEF DiffRows, RowOps
<1>2. R \in [1 .. n -> DiffRows] /\ \A k \in 1 .. n : R[k] = Row("equal", m + k, p + k)
  BY <1>1
<1> HIDE DEF R
<1>3. "equal" \in RowOps
  BY DEF RowOps
<1>4. \A k \in 1 .. n :
        R[k] = Row("equal", IF "equal" = "insert" THEN 0 ELSE m + k,
                           IF "equal" = "delete" THEN 0 ELSE p + k)
  BY <1>2
<1>5. Tells(R, m, IF "equal" = "insert" THEN m ELSE m + n, p, IF "equal" = "delete" THEN p ELSE p + n,
            IF "equal" = "equal" THEN n ELSE 0)
  BY <1>2, <1>3, <1>4, TellsRun
<1> QED BY <1>5 DEF R

\* Identical texts: every line is equal.
LEMMA CompareIdenticalKeeps ==
  ASSUME DiffInv, CompareIdentical
  PROVE  DiffInv'
<1>1. PICK m \in Nat : m = Len(a)
  BY FilesAreLines
<1>2. /\ text' = text /\ lines' = lines /\ pc = "compare" /\ pc' = "done"
      /\ diff' = [diff EXCEPT !.rows = Equal(m, 0), !.identical = TRUE, !.onlyIn = OnlyIn]
  BY <1>1 DEF CompareIdentical
<1>3. a = b /\ a' = a /\ b' = b
  BY <1>2 DEF DiffInv, a, b, CompareIdentical, Sides
<1>4. /\ DOMAIN diff' = {"rows", "added", "removed", "identical", "onlyIn"}
      /\ diff'.rows = Equal(m, 0) /\ diff'.added = 0 /\ diff'.removed = 0
  BY <1>2 DEF DiffInv
<1>5. Tells(Equal(m, 0), 0, m, 0, m, m)
  <2>1. Tells([k \in 1 .. m |-> Row("equal", 0 + k, 0 + k)], 0, 0 + m, 0, 0 + m, m)
    BY <1>1, <1>3, EqualTells
  <2>2. Equal(m, 0) = [k \in 1 .. m |-> Row("equal", 0 + k, 0 + k)]
    BY DEF Equal
  <2> QED BY <2>1, <2>2
<1>6. IsLongest(a, b, m, 0, m, 0, m)
  <2>1. m >= m /\ m <= m /\ 0 \in Nat /\ \A k \in 1 .. m : a[k] = b[k]
    BY <1>3
  <2>2. IsLongest(a, b, 0, m, m, m, m)
    BY <2>1, LongestBack
  <2>3. IsLongest(a, b, 0 + m, 0, m, 0, m)
    BY <2>1, <2>2, LongestHead
  <2> QED BY <2>3
<1>7. Tells(Equal(m, 0), 0, m, 0, m, m) /\ diff'.rows = Equal(m, 0)
  BY <1>4, <1>5
<1>8. Tells(diff.rows, 0, m, 0, m, m)'
  BY <1>2, <1>7, TellsStays
<1>9. Finished(m)'
  BY <1>1, <1>3, <1>4, <1>6, <1>8 DEF Finished
<1> QED BY <1>2, <1>4, <1>9 DEF DiffInv

\* Files too long to align: one row that says so.
LEMMA GiveUpKeeps ==
  ASSUME DiffInv, GiveUp
  PROVE  DiffInv'
<1>1. /\ text' = text /\ lines' = lines /\ pc' = "done"
      /\ diff' = [diff EXCEPT !.rows = <<TooBig>>, !.onlyIn = OnlyIn]
  BY DEF GiveUp
<1>2. DOMAIN diff' = {"rows", "added", "removed", "identical", "onlyIn"} /\ diff'.rows = <<TooBig>>
  BY <1>1 DEF DiffInv
<1>3. TooBig' = TooBig
  BY DEF TooBig
<1>4. (diff.rows = <<TooBig>>)'
  BY <1>2, <1>3
<1> QED BY <1>1, <1>2, <1>4 DEF DiffInv

\* The head is shown, the table filled: the loop starts.
LEMMA StartAlignKeeps ==
  ASSUME DiffInv, StartAlign
  PROVE  DiffInv'
<1>1. PICK L : a \in Seq(L) /\ b \in Seq(L)
  BY FilesAreLines
<1>2. PICK m \in Nat, p \in Nat : m = Len(a) /\ p = Len(b)
  BY FilesAreLines
<1>3. /\ text' = text /\ lines' = lines /\ pc = "compare" /\ pc' = "align"
      /\ taken' = taken /\ pending' = pending
      /\ head' = Shared(a, b) /\ tail' = SharedTail
      /\ lcs' = LongestCommon(Middle(a), Middle(b))
      /\ diff' = [diff EXCEPT !.rows = Equal(head', 0)]
  BY DEF StartAlign
<1>4. a' = a /\ b' = b
  BY <1>3 DEF a, b
<1>5. PICK h \in Nat : /\ h = head' /\ h <= m /\ h <= p
                       /\ \A k \in 1 .. h : a[k] = b[k]
  BY <1>1, <1>2, <1>3, SharedIsShared
<1>6. PICK q \in Nat : /\ q = tail' /\ h + q <= m /\ h + q <= p
                       /\ \A k \in 0 .. q - 1 : a[m - k] = b[p - k]
  <2>1. tail' = Shared(Reverse(SubSeq(a, h + 1, Len(a))),
                            Reverse(SubSeq(b, h + 1, Len(b))))
    BY <1>3, <1>5 DEF SharedTail
  <2> DEFINE z == Shared(Reverse(SubSeq(a, h + 1, Len(a))),
                              Reverse(SubSeq(b, h + 1, Len(b))))
  <2>2. /\ z \in Nat /\ h + z <= m /\ h + z <= p
        /\ \A k \in 0 .. z - 1 : a[m - k] = b[p - k]
    <3>1. h <= Len(a) /\ h <= Len(b)
      BY <1>2, <1>5
    <3>2. /\ z \in Nat /\ h + z <= Len(a) /\ h + z <= Len(b)
          /\ \A k \in 0 .. z - 1 : a[Len(a) - k] = b[Len(b) - k]
      BY <1>1, <3>1, SharedTailIsShared
    <3> HIDE DEF z
    <3> QED BY <1>2, <3>2
  <2>3. tail' = z
    BY <2>1
  <2> HIDE DEF z
  <2> QED BY <2>2, <2>3
<1>7. /\ taken' = [s \in Sides |-> 0] /\ pending' = [s \in Sides |-> << >>]
      /\ taken'["left"] = 0 /\ taken'["right"] = 0
      /\ pending'["left"] = << >> /\ pending'["right"] = << >>
  BY <1>3 DEF DiffInv, Sides
<1>8. DeletesFrom' = h /\ InsertsFrom' = h
  <2>1. Len(pending'["left"]) = 0 /\ Len(pending'["right"]) = 0
    BY <1>7
  <2>2. h + 0 - 0 = h
    OBVIOUS
  <2> QED BY <1>5, <1>7, <2>1, <2>2 DEF DeletesFrom, InsertsFrom
<1>9. Aligning'
  <2>1. (head \in Nat /\ tail \in Nat /\ taken \in [Sides -> Nat])'
    BY <1>5, <1>6, <1>7 DEF Sides
  <2>2. /\ (head + taken["left"] + tail <= Len(a))'
        /\ (head + taken["right"] + tail <= Len(b))'
    BY <1>2, <1>4, <1>5, <1>6, <1>7
  <2>3. (\A k \in 0 .. tail - 1 : a[Len(a) - k] = b[Len(b) - k])'
    BY <1>2, <1>4, <1>6
  <2>4. (pending \in [Sides -> Seq(DiffRows)])'
    BY <1>7 DEF Sides
  <2>5. Len(pending'["left"]) = 0 /\ Len(pending'["right"]) = 0
    BY <1>7
  <2>6. (DeletesFrom \in Nat /\ InsertsFrom \in Nat)'
    BY <1>8
  <2>7. (\A k \in 1 .. Len(pending["left"]) : pending["left"][k] = Row("delete", DeletesFrom + k, 0))'
    BY <2>5
  <2>8. (\A k \in 1 .. Len(pending["right"]) : pending["right"][k] = Row("insert", 0, InsertsFrom + k))'
    BY <2>5
  <2> QED BY <2>1, <2>2, <2>3, <2>4, <2>6, <2>7, <2>8 DEF Aligning
<1> DEFINE u == Middle(a)
           v == Middle(b)
<1>10. /\ u \in Seq(L) /\ Len(u) = m - q - h /\ \A k \in 1 .. Len(u) : u[k] = a[h + k]
       /\ v \in Seq(L) /\ Len(v) = p - q - h /\ \A k \in 1 .. Len(v) : v[k] = b[h + k]
  <2>1. u = SubSeq(a, h + 1, m - q) /\ v = SubSeq(b, h + 1, p - q)
    BY <1>2, <1>5, <1>6 DEF Middle
  <2>2. \A w \in Seq(L), z \in Nat : h + q <= z /\ z = Len(w) =>
          /\ SubSeq(w, h + 1, z - q) \in Seq(L) /\ Len(SubSeq(w, h + 1, z - q)) = z - q - h
          /\ \A k \in 1 .. z - q - h : SubSeq(w, h + 1, z - q)[k] = w[h + k]
    <3> SUFFICES ASSUME NEW w \in Seq(L), NEW z \in Nat, h + q <= z, z = Len(w)
                 PROVE  /\ SubSeq(w, h + 1, z - q) \in Seq(L) /\ Len(SubSeq(w, h + 1, z - q)) = z - q - h
                        /\ \A k \in 1 .. z - q - h : SubSeq(w, h + 1, z - q)[k] = w[h + k]
      OBVIOUS
    <3> DEFINE c == z - q - h
               f == [k \in 1 .. c |-> w[h + k]]
    <3>1. SubSeq(w, h + 1, z - q) = f
      OBVIOUS
    <3>2. c \in Nat
      OBVIOUS
    <3>3. f \in [1 .. c -> L] /\ \A k \in 1 .. c : f[k] = w[h + k]
      <4>1. DOMAIN w = 1 .. z /\ \A k \in 1 .. z : w[k] \in L
        BY LenProperties
      <4>2. \A k \in 1 .. c : h + k \in 1 .. z
        OBVIOUS
      <4> QED BY <4>1, <4>2
    <3> HIDE DEF f, c
    <3>4. f \in Seq(L) /\ Len(f) = c
      BY <3>2, <3>3, FunctionIsSeq
    <3> QED BY <3>1, <3>3, <3>4 DEF c
  <2> HIDE DEF u, v
  <2>3. /\ u \in Seq(L) /\ Len(u) = m - q - h /\ \A k \in 1 .. m - q - h : u[k] = a[h + k]
    BY <1>1, <1>2, <1>6, <2>1, <2>2
  <2>4. /\ v \in Seq(L) /\ Len(v) = p - q - h /\ \A k \in 1 .. p - q - h : v[k] = b[h + k]
    BY <1>1, <1>2, <1>6, <2>1, <2>2
  <2> QED BY <2>3, <2>4
<1>11. lcs' = LongestCommon(u, v)
  BY <1>3
<1> HIDE DEF u, v
<1>12. \A x \in 0 .. m - q - h, y \in 0 .. p - q - h :
         IsLongest(a, b, lcs'[<<x, y>>], h + x, m - q, h + y, p - q)
  <2>1. \A x \in 0 .. Len(u), y \in 0 .. Len(v) :
          IsLongest(a, b, LongestCommon(u, v)[<<x, y>>], h + x, h + Len(u), h + y, h + Len(v))
    BY <1>10, TableIsLongest
  <2>2. h + (m - q - h) = m - q /\ h + (p - q - h) = p - q
    OBVIOUS
  <2> QED BY <1>10, <1>11, <2>1, <2>2
<1>13. TableKnows'
  <2>1. Len(a') = m /\ Len(b') = p
    BY <1>2, <1>4
  <2> QED BY <1>4, <1>5, <1>6, <1>12, <2>1 DEF TableKnows
<1>14. /\ DOMAIN diff' = {"rows", "added", "removed", "identical", "onlyIn"}
       /\ diff'.rows = Equal(h, 0)
  BY <1>3, <1>5 DEF DiffInv
<1>15. Tells(Equal(h, 0), 0, h, 0, h, h)
  <2>1. Tells([k \in 1 .. h |-> Row("equal", 0 + k, 0 + k)], 0, 0 + h, 0, 0 + h, h)
    <3>1. /\ 0 + h <= Len(a) /\ 0 + h <= Len(b) /\ 0 \in Nat
          /\ \A k \in 1 .. h : a[0 + k] = b[0 + k]
      BY <1>2, <1>5
    <3> QED BY <1>2, <3>1, EqualTells
  <2>2. Equal(h, 0) = [k \in 1 .. h |-> Row("equal", 0 + k, 0 + k)]
    BY DEF Equal
  <2> QED BY <2>1, <2>2
<1>16. Tells(diff.rows, 0, h, 0, h, h)'
  BY <1>3, <1>14, <1>15, TellsStays
<1>17. ASSUME NEW c \in Nat, IsLongest(a, b, c, h, m - q, h, p - q)
       PROVE  IsLongest(a, b, c + h + q, 0, m, 0, p)
  <2>1. IsLongest(a, b, c + q, h, m, h, p)
    BY <1>6, <1>17, LongestTail
  <2> DEFINE d == c + q
  <2>2. d \in Nat /\ d + h = c + h + q
    OBVIOUS
  <2>3. IsLongest(a, b, d + h, 0, m, 0, p)
    <3> HIDE DEF d
    <3>1. IsLongest(a, b, d, h, m, h, p)
      BY <2>1 DEF d
    <3> QED BY <1>5, <2>2, <3>1, LongestHead
  <2> QED BY <2>2, <2>3
<1>18. NothingLost(h)'
  <2>1. head' + taken'["left"] = h /\ head' + taken'["right"] = h /\ tail' = q
    <3>1. h + 0 = h
      OBVIOUS
    <3> QED BY <1>5, <1>6, <1>7, <3>1
  <2>2. Len(a') = m /\ Len(b') = p
    BY <1>2, <1>4
  <2> QED BY <1>4, <1>8, <1>16, <1>17, <2>1, <2>2 DEF NothingLost
<1>19. (text \in [Sides -> Texts] /\ lines = [s \in Sides |-> LinesOf(text[s])])'
  BY <1>3 DEF DiffInv, Sides
<1> QED BY <1>3, <1>9, <1>13, <1>14, <1>18, <1>19 DEF DiffInv

\* Inside the loop: the numbers of the lines that are next, and what a flush tells.
LEMMA FlushInLoop ==
  ASSUME DiffInv, pc = "align", NEW e \in Nat, NothingLost(e)
  PROVE  /\ Len(a) \in Nat /\ Len(b) \in Nat
         /\ head + taken["left"] \in Nat /\ head + taken["right"] \in Nat
         /\ Tells(Flushed(diff.rows), 0, head + taken["left"], 0, head + taken["right"], e)
<1>1. Len(a) \in Nat /\ Len(b) \in Nat
  BY FilesAreLines
<1>2. Aligning
  BY DEF DiffInv
<1>3. head \in Nat /\ tail \in Nat /\ taken["left"] \in Nat /\ taken["right"] \in Nat
  BY <1>2 DEF Aligning, Sides
<1>4. pending["left"] \in Seq(DiffRows) /\ pending["right"] \in Seq(DiffRows)
  BY <1>2 DEF Aligning, Sides
<1> DEFINE d == Len(pending["left"])
           i == Len(pending["right"])
<1>5. /\ d \in Nat /\ pending["left"] \in [1 .. d -> DiffRows]
      /\ i \in Nat /\ pending["right"] \in [1 .. i -> DiffRows]
  BY <1>4, LenProperties
<1>6. /\ DeletesFrom \in Nat /\ InsertsFrom \in Nat
      /\ \A k \in 1 .. d : pending["left"][k] = Row("delete", DeletesFrom + k, 0)
      /\ \A k \in 1 .. i : pending["right"][k] = Row("insert", 0, InsertsFrom + k)
      /\ head + taken["left"] + tail <= Len(a) /\ head + taken["right"] + tail <= Len(b)
  BY <1>2 DEF Aligning
<1>7. DeletesFrom + d = head + taken["left"] /\ InsertsFrom + i = head + taken["right"]
  BY <1>3, <1>5 DEF DeletesFrom, InsertsFrom
<1> HIDE DEF d, i
<1>8. DeletesFrom + d <= Len(a) /\ InsertsFrom + i <= Len(b)
  BY <1>1, <1>3, <1>6, <1>7
<1>9. Tells(diff.rows, 0, DeletesFrom, 0, InsertsFrom, e)
  BY DEF NothingLost
<1>10. Tells(Flushed(diff.rows), 0, DeletesFrom + d, 0, InsertsFrom + i, e)
  BY <1>1, <1>5, <1>6, <1>8, <1>9, FlushedTells
<1> QED BY <1>1, <1>3, <1>7, <1>10

\* A line that both sides have next is shown as equal, after what was pending.
LEMMA TakeEqualKeeps ==
  ASSUME DiffInv, TakeEqual
  PROVE  DiffInv'
<1>1. /\ text' = text /\ lines' = lines /\ pc = "align" /\ pc' = "align"
      /\ head' = head /\ tail' = tail /\ lcs' = lcs
      /\ taken' = [s \in Sides |-> taken[s] + 1] /\ pending' = [s \in Sides |-> << >>]
      /\ diff' = [diff EXCEPT !.rows = Append(Flushed(@),
                                           Row("equal", NextLeft, NextRight))]
      /\ LeftRemains /\ RightRemains /\ a[NextLeft] = b[NextRight]
  BY DEF TakeEqual, BothAgree
<1>2. PICK e \in Nat : NothingLost(e)
  BY <1>1 DEF DiffInv
<1>3. /\ Aligning /\ TableKnows
  BY <1>1 DEF DiffInv
<1>4. PICK m \in Nat, p \in Nat : m = Len(a) /\ p = Len(b)
  BY FilesAreLines
<1>5. PICK h \in Nat, q \in Nat, u \in Nat, v \in Nat :
        h = head /\ q = tail /\ u = taken["left"] /\ v = taken["right"]
  BY <1>3 DEF Aligning, Sides
<1>6. a' = a /\ b' = b
  BY <1>1 DEF a, b
<1>7. /\ NextLeft = h + u + 1 /\ NextRight = h + v + 1
      /\ h + u + 1 <= m - q /\ h + v + 1 <= p - q
      /\ a[h + u + 1] = b[h + v + 1]
  BY <1>1, <1>4, <1>5 DEF NextLeft, NextRight, LeftRemains, RightRemains
<1>8. /\ taken'["left"] = u + 1 /\ taken'["right"] = v + 1 /\ taken' \in [Sides -> Nat]
      /\ pending'["left"] = << >> /\ pending'["right"] = << >>
  <2>1. taken \in [Sides -> Nat]
    BY <1>3 DEF Aligning
  <2> QED BY <1>1, <1>5, <2>1 DEF Sides
<1>9. Len(pending'["left"]) = 0 /\ Len(pending'["right"]) = 0
  BY <1>8
<1>10. DeletesFrom' = h + u + 1 /\ InsertsFrom' = h + v + 1
  <2>1. h + (u + 1) - 0 = h + u + 1 /\ h + (v + 1) - 0 = h + v + 1
    OBVIOUS
  <2> QED BY <1>1, <1>5, <1>8, <1>9, <2>1 DEF DeletesFrom, InsertsFrom
<1>11. Aligning'
  <2>1. (head \in Nat /\ tail \in Nat /\ taken \in [Sides -> Nat])'
    BY <1>1, <1>5, <1>8
  <2>2. /\ (head + taken["left"] + tail <= Len(a))'
        /\ (head + taken["right"] + tail <= Len(b))'
    <3>1. h + (u + 1) + q <= m /\ h + (v + 1) + q <= p
      BY <1>7
    <3> QED BY <1>1, <1>4, <1>5, <1>6, <1>8, <3>1
  <2>3. (\A k \in 0 .. tail - 1 : a[Len(a) - k] = b[Len(b) - k])'
    BY <1>1, <1>3, <1>6 DEF Aligning
  <2>4. (pending \in [Sides -> Seq(DiffRows)])'
    BY <1>1 DEF Sides
  <2>5. (DeletesFrom \in Nat /\ InsertsFrom \in Nat)'
    BY <1>10
  <2>6. (\A k \in 1 .. Len(pending["left"]) : pending["left"][k] = Row("delete", DeletesFrom + k, 0))'
    BY <1>9
  <2>7. (\A k \in 1 .. Len(pending["right"]) : pending["right"][k] = Row("insert", 0, InsertsFrom + k))'
    BY <1>9
  <2> QED BY <2>1, <2>2, <2>3, <2>4, <2>5, <2>6, <2>7 DEF Aligning
<1>12. TableKnows'
  BY <1>1, <1>3, <1>6 DEF TableKnows
<1>13. /\ DOMAIN diff' = {"rows", "added", "removed", "identical", "onlyIn"}
       /\ diff'.rows = Append(Flushed(diff.rows), Row("equal", h + u + 1, h + v + 1))
  BY <1>1, <1>7 DEF DiffInv
<1> DEFINE F == Flushed(diff.rows)
           one == [k \in 1 .. 1 |-> Row("equal", h + u + k, h + v + k)]
<1>14. Tells(F, 0, h + u, 0, h + v, e)
  BY <1>1, <1>2, <1>5, FlushInLoop
<1>15. Tells(one, h + u, h + u + 1, h + v, h + v + 1, 1)
  <2>1. /\ h + u \in Nat /\ h + v \in Nat /\ 1 \in Nat
        /\ h + u + 1 <= Len(a) /\ h + v + 1 <= Len(b)
        /\ \A k \in 1 .. 1 : a[h + u + k] = b[h + v + k]
    BY <1>4, <1>7
  <2> QED BY <1>4, <2>1, EqualTells
<1>16. Append(F, Row("equal", h + u + 1, h + v + 1)) = F \o one
  <2>1. one = <<Row("equal", h + u + 1, h + v + 1)>>
    OBVIOUS
  <2>2. F \in Seq(DiffRows)
    BY <1>14 DEF Tells
  <2> HIDE DEF F, one
  <2> QED BY <2>1, <2>2, AppendIsConcat
<1>17. Tells(F \o one, 0, h + u + 1, 0, h + v + 1, e + 1)
  <2> DEFINE x == h + u
             xx == h + u + 1
             y == h + v
             yy == h + v + 1
  <2>1. /\ x \in Nat /\ xx \in Nat /\ y \in Nat /\ yy \in Nat /\ 0 \in Nat
        /\ 0 <= x /\ x <= xx /\ 0 <= y /\ y <= yy
    OBVIOUS
  <2>2. Tells(F, 0, x, 0, y, e) /\ Tells(one, x, xx, y, yy, 1)
    BY <1>14, <1>15
  <2> HIDE DEF F, one, x, xx, y, yy
  <2>3. Tells(F \o one, 0, xx, 0, yy, e + 1)
    BY <2>1, <2>2, TellsJoin
  <2> QED BY <2>3 DEF xx, yy
<1>18. diff'.rows = F \o one
  BY <1>13, <1>16
<1> HIDE DEF F, one
<1>19. Tells(diff.rows, 0, h + u + 1, 0, h + v + 1, e + 1)'
  BY <1>1, <1>17, <1>18, TellsStays
<1>20. ASSUME NEW c \in Nat, IsLongest(a, b, c, h + u + 1, m - q, h + v + 1, p - q)
       PROVE  IsLongest(a, b, c + (e + 1) + q, 0, m, 0, p)
  <2> DEFINE x == h + u
             y == h + v
             mm == m - q
             pp == p - q
  <2>1. x \in Nat /\ y \in Nat /\ mm \in Nat /\ pp \in Nat /\ x < mm /\ y < pp
    BY <1>7
  <2>2. IsLongest(a, b, c, x + 1, mm, y + 1, pp) /\ a[x + 1] = b[y + 1]
    BY <1>7, <1>20
  <2>3. \A n \in Nat : IsLongest(a, b, n, x, mm, y, pp)
                         => IsLongest(a, b, n + e + q, 0, m, 0, p)
    BY <1>2, <1>4, <1>5 DEF NothingLost
  <2> HIDE DEF x, y, mm, pp
  <2>4. IsLongest(a, b, c + 1, x, mm, y, pp)
    BY <2>1, <2>2, LongestBack
  <2>5. IsLongest(a, b, c + 1 + e + q, 0, m, 0, p)
    BY <2>3, <2>4
  <2> QED BY <2>5
<1>21. NothingLost(e + 1)'
  <2>1. /\ head' + taken'["left"] = h + u + 1 /\ head' + taken'["right"] = h + v + 1 /\ tail' = q
    BY <1>1, <1>5, <1>8
  <2>2. Len(a') = m /\ Len(b') = p
    BY <1>4, <1>6
  <2> QED BY <1>6, <1>10, <1>19, <1>20, <2>1, <2>2 DEF NothingLost
<1>22. e + 1 \in Nat
  OBVIOUS
<1>23. (text \in [Sides -> Texts] /\ lines = [s \in Sides |-> LinesOf(text[s])])'
  BY <1>1 DEF DiffInv, Sides
<1> QED BY <1>1, <1>11, <1>12, <1>13, <1>21, <1>22, <1>23 DEF DiffInv

\* A line of one side may be skipped when skipping one of the other keeps no more.
LEMMA SkipKeepsLongest ==
  ASSUME NEW s, NEW t, NEW i \in Nat, NEW m \in Nat, NEW j \in Nat, NEW p \in Nat, NEW c, NEW d
  PROVE  /\ /\ j < p /\ IsLongest(s, t, c, i, m, j + 1, p)
            /\ i < m => s[i + 1] # t[j + 1] /\ IsLongest(s, t, d, i + 1, m, j, p) /\ c >= d
            => IsLongest(s, t, c, i, m, j, p)
         /\ /\ i < m /\ IsLongest(s, t, d, i + 1, m, j, p)
            /\ j < p => s[i + 1] # t[j + 1] /\ IsLongest(s, t, c, i, m, j + 1, p) /\ d >= c
            => IsLongest(s, t, d, i, m, j, p)
<1>1. ASSUME j < p, IsLongest(s, t, c, i, m, j + 1, p),
             i < m => s[i + 1] # t[j + 1] /\ IsLongest(s, t, d, i + 1, m, j, p) /\ c >= d
      PROVE  IsLongest(s, t, c, i, m, j, p)
  <2>1. CASE i >= m
    <3>1. IsLongest(s, t, 0, i, m, j, p)
      BY <2>1, LongestBack
    <3>3. IsLongest(s, t, 0, i, m, j + 1, p)
      <4> DEFINE k == j + 1
      <4>1. k \in Nat
        OBVIOUS
      <4> HIDE DEF k
      <4>2. IsLongest(s, t, 0, i, m, k, p)
        BY <2>1, <4>1, LongestBack
      <4> QED BY <4>2 DEF k
    <3>2. c = 0
      BY <1>1, <3>3, LongestIsUnique
    <3> QED BY <3>1, <3>2
  <2>2. CASE i < m
    <3>1. IsLongest(s, t, IF d >= c THEN d ELSE c, i, m, j, p)
      BY <1>1, <2>2, LongestBack
    <3>2. c \in Nat /\ d \in Nat
      BY <1>1, <2>2 DEF IsLongest
    <3>3. (IF d >= c THEN d ELSE c) = c
      BY <1>1, <2>2, <3>2
    <3> QED BY <3>1, <3>3
  <2> QED BY <2>1, <2>2
<1>2. ASSUME i < m, IsLongest(s, t, d, i + 1, m, j, p),
             j < p => s[i + 1] # t[j + 1] /\ IsLongest(s, t, c, i, m, j + 1, p) /\ d >= c
      PROVE  IsLongest(s, t, d, i, m, j, p)
  <2>1. CASE j >= p
    <3>1. IsLongest(s, t, 0, i, m, j, p)
      BY <2>1, LongestBack
    <3>3. IsLongest(s, t, 0, i + 1, m, j, p)
      <4> DEFINE k == i + 1
      <4>1. k \in Nat
        OBVIOUS
      <4> HIDE DEF k
      <4>2. IsLongest(s, t, 0, k, m, j, p)
        BY <2>1, <4>1, LongestBack
      <4> QED BY <4>2 DEF k
    <3>2. d = 0
      BY <1>2, <3>3, LongestIsUnique
    <3> QED BY <3>1, <3>2
  <2>2. CASE j < p
    <3>1. IsLongest(s, t, IF d >= c THEN d ELSE c, i, m, j, p)
      BY <1>2, <2>2, LongestBack
    <3>2. (IF d >= c THEN d ELSE c) = d
      BY <1>2, <2>2
    <3> QED BY <3>1, <3>2
  <2> QED BY <2>1, <2>2
<1> QED BY <1>1, <1>2

\* A line that only the right side has next waits among the inserts.
LEMMA TakeInsertKeeps ==
  ASSUME DiffInv, TakeInsert
  PROVE  DiffInv'
<1>1. /\ text' = text /\ lines' = lines /\ pc = "align" /\ pc' = "align"
      /\ head' = head /\ tail' = tail /\ lcs' = lcs /\ diff' = diff
      /\ taken' = [taken EXCEPT !["right"] = @ + 1]
      /\ pending' = [pending EXCEPT !["right"] = Append(@, Row("insert", 0, NextRight))]
      /\ ~BothAgree /\ PreferInsert
  BY DEF TakeInsert
<1>2. PICK e \in Nat : NothingLost(e)
  BY <1>1 DEF DiffInv
<1>3. Aligning /\ TableKnows
  BY <1>1 DEF DiffInv
<1>4. PICK m \in Nat, p \in Nat : m = Len(a) /\ p = Len(b)
  BY FilesAreLines
<1>5. PICK h \in Nat, q \in Nat, u \in Nat, v \in Nat :
        h = head /\ q = tail /\ u = taken["left"] /\ v = taken["right"]
  BY <1>3 DEF Aligning, Sides
<1>6. a' = a /\ b' = b
  BY <1>1 DEF a, b
<1>7. /\ NextRight = h + v + 1 /\ h + v + 1 <= p - q /\ h + u + q <= m
      /\ h + u < m - q => /\ a[h + u + 1] # b[h + v + 1]
                          /\ lcs[<<u, v + 1>>] >= lcs[<<u + 1, v>>]
  <2>1. NextLeft = h + u + 1 /\ NextRight = h + v + 1
    BY <1>5 DEF NextLeft, NextRight
  <2>2. RightRemains /\ h + v + 1 <= p - q
    BY <1>1, <1>4, <1>5, <2>1 DEF PreferInsert, RightRemains
  <2>3. LeftRemains <=> h + u < m - q
    BY <1>4, <1>5, <2>1 DEF LeftRemains
  <2>4. h + u + q <= m
    BY <1>3, <1>4, <1>5 DEF Aligning
  <2> QED BY <1>1, <1>5, <2>1, <2>2, <2>3, <2>4 DEF BothAgree, PreferInsert
<1>8. /\ taken \in [Sides -> Nat] /\ pending \in [Sides -> Seq(DiffRows)]
  BY <1>3 DEF Aligning
<1>9. /\ taken' \in [Sides -> Nat] /\ taken'["left"] = u /\ taken'["right"] = v + 1
      /\ pending'["left"] = pending["left"]
      /\ pending'["right"] = Append(pending["right"], Row("insert", 0, h + v + 1))
  <2>1. taken' \in [Sides -> Nat] /\ taken'["left"] = u /\ taken'["right"] = v + 1
    BY <1>1, <1>5, <1>8 DEF Sides
  <2>2. pending'["left"] = pending["left"]
    BY <1>1, <1>8 DEF Sides
  <2>3. pending'["right"] = Append(pending["right"], Row("insert", 0, h + v + 1))
    BY <1>1, <1>7, <1>8 DEF Sides
  <2> QED BY <2>1, <2>2, <2>3
<1>10. Row("insert", 0, h + v + 1) \in DiffRows
  <2>1. 0 \in 0 .. Len(a) /\ h + v + 1 \in 0 .. Len(b)
    BY <1>4, <1>7
  <2> QED BY <2>1 DEF DiffRows, RowOps
<1>11. PICK i \in Nat, d \in Nat : i = Len(pending["right"]) /\ d = Len(pending["left"])
  BY <1>8, LenProperties DEF Sides
<1>12. pending["left"] \in Seq(DiffRows) /\ pending["right"] \in Seq(DiffRows)
  BY <1>8 DEF Sides
<1>13. /\ pending'["right"] \in Seq(DiffRows) /\ Len(pending'["right"]) = i + 1
       /\ \A k \in 1 .. i : pending'["right"][k] = pending["right"][k]
       /\ pending'["right"][i + 1] = Row("insert", 0, h + v + 1)
  BY <1>9, <1>10, <1>11, <1>12, AppendProperties
<1>14. /\ DeletesFrom = h + u - d /\ InsertsFrom = h + v - i
       /\ DeletesFrom' = DeletesFrom /\ InsertsFrom' = InsertsFrom
  <2>1. DeletesFrom = h + u - d /\ DeletesFrom' = h + u - d
    BY <1>1, <1>5, <1>9, <1>11 DEF DeletesFrom
  <2>2. InsertsFrom = h + v - i /\ InsertsFrom' = h + (v + 1) - (i + 1)
    BY <1>1, <1>5, <1>9, <1>11, <1>13 DEF InsertsFrom
  <2> QED BY <2>1, <2>2
<1>15. DiffRows' = DiffRows /\ \A op, l, r : Row(op, l, r)' = Row(op, l, r)
  BY <1>6 DEF DiffRows, Row
<1>16. Aligning'
  <2>1. (head \in Nat /\ tail \in Nat /\ taken \in [Sides -> Nat])'
    BY <1>1, <1>5, <1>9
  <2>2. /\ (head + taken["left"] + tail <= Len(a))'
        /\ (head + taken["right"] + tail <= Len(b))'
    <3>1. h + u + q <= m /\ h + (v + 1) + q <= p
      BY <1>7
    <3> QED BY <1>1, <1>4, <1>5, <1>6, <1>9, <3>1
  <2>3. (\A k \in 0 .. tail - 1 : a[Len(a) - k] = b[Len(b) - k])'
    BY <1>1, <1>3, <1>6 DEF Aligning
  <2>4. (pending \in [Sides -> Seq(DiffRows)])'
    BY <1>1, <1>8, <1>9, <1>12, <1>13, <1>15 DEF Sides
  <2>5. (DeletesFrom \in Nat /\ InsertsFrom \in Nat)'
    BY <1>3, <1>14 DEF Aligning
  <2>6. (\A k \in 1 .. Len(pending["left"]) : pending["left"][k] = Row("delete", DeletesFrom + k, 0))'
    <3>1. \A k \in 1 .. d : pending["left"][k] = Row("delete", DeletesFrom + k, 0)
      BY <1>3, <1>11 DEF Aligning
    <3> QED BY <1>9, <1>11, <1>14, <1>15, <3>1
  <2>7. (\A k \in 1 .. Len(pending["right"]) : pending["right"][k] = Row("insert", 0, InsertsFrom + k))'
    <3>1. \A k \in 1 .. i : pending["right"][k] = Row("insert", 0, InsertsFrom + k)
      BY <1>3, <1>11 DEF Aligning
    <3>2. InsertsFrom + (i + 1) = h + v + 1
      BY <1>14
    <3>3. \A k \in 1 .. i + 1 : k \in 1 .. i \/ k = i + 1
      OBVIOUS
    <3>4. \A k \in 1 .. i + 1 : pending'["right"][k] = Row("insert", 0, InsertsFrom + k)
      BY <1>13, <3>1, <3>2, <3>3
    <3> QED BY <1>13, <1>14, <1>15, <3>4
  <2> QED BY <2>1, <2>2, <2>3, <2>4, <2>5, <2>6, <2>7 DEF Aligning
<1>17. TableKnows'
  BY <1>1, <1>3, <1>6 DEF TableKnows
<1>18. Tells(diff.rows, 0, DeletesFrom, 0, InsertsFrom, e)'
  <2>1. Tells(diff.rows, 0, DeletesFrom, 0, InsertsFrom, e)
    BY <1>2 DEF NothingLost
  <2>2. PICK x, y : x = DeletesFrom /\ y = InsertsFrom
    OBVIOUS
  <2>3. Tells(diff.rows, 0, x, 0, y, e)'
    BY <1>1, <2>1, <2>2, TellsStays
  <2>4. DeletesFrom' = x /\ InsertsFrom' = y
    BY <1>14, <2>2
  <2> QED BY <2>3, <2>4
<1>19. ASSUME NEW c \in Nat, IsLongest(a, b, c, h + u, m - q, h + v + 1, p - q)
       PROVE  IsLongest(a, b, c + e + q, 0, m, 0, p)
  <2> DEFINE x == h + u
             y == h + v
             mm == m - q
             pp == p - q
             f == lcs[<<u + 1, v>>]
             g == lcs[<<u, v + 1>>]
  <2>1. x \in Nat /\ y \in Nat /\ mm \in Nat /\ pp \in Nat /\ y < pp
    BY <1>7
  <2>2. x < mm => a[x + 1] # b[y + 1] /\ g >= f
    BY <1>7
  <2>3. \A n \in Nat : IsLongest(a, b, n, x, mm, y, pp)
                         => IsLongest(a, b, n + e + q, 0, m, 0, p)
    BY <1>2, <1>4, <1>5 DEF NothingLost
  <2>4. x < mm => IsLongest(a, b, f, x + 1, mm, y, pp)
    <3> SUFFICES ASSUME x < mm
                 PROVE  IsLongest(a, b, f, x + 1, mm, y, pp)
      OBVIOUS
    <3>1. u + 1 \in 0 .. m - q - h /\ v \in 0 .. p - q - h /\ h + (u + 1) = h + u + 1
      BY <1>7
    <3> QED BY <1>3, <1>4, <1>5, <3>1 DEF TableKnows
  <2>5. IsLongest(a, b, g, x, mm, y + 1, pp)
    <3>1. u \in 0 .. m - q - h /\ v + 1 \in 0 .. p - q - h /\ h + (v + 1) = h + v + 1
      BY <1>7
    <3> QED BY <1>3, <1>4, <1>5, <3>1 DEF TableKnows
  <2>6. IsLongest(a, b, c, x, mm, y + 1, pp)
    BY <1>19
  <2> HIDE DEF x, y, mm, pp, f, g
  <2>7. c = g
    BY <2>5, <2>6, LongestIsUnique
  <2>8. IsLongest(a, b, c, x, mm, y, pp)
    BY <2>1, <2>2, <2>4, <2>6, <2>7, SkipKeepsLongest
  <2> QED BY <2>3, <2>8
<1>20. NothingLost(e)'
  <2>1. head' + taken'["left"] = h + u /\ head' + taken'["right"] = h + v + 1 /\ tail' = q
    BY <1>1, <1>5, <1>9
  <2>2. Len(a') = m /\ Len(b') = p
    BY <1>4, <1>6
  <2> QED BY <1>6, <1>18, <1>19, <2>1, <2>2 DEF NothingLost
<1>21. (text \in [Sides -> Texts] /\ lines = [s \in Sides |-> LinesOf(text[s])])'
  BY <1>1 DEF DiffInv, Sides
<1>22. (DOMAIN diff = {"rows", "added", "removed", "identical", "onlyIn"})'
  BY <1>1 DEF DiffInv
<1> QED BY <1>1, <1>2, <1>16, <1>17, <1>20, <1>21, <1>22 DEF DiffInv

\* A line that only the left side has next waits among the deletes.
LEMMA TakeDeleteKeeps ==
  ASSUME DiffInv, TakeDelete
  PROVE  DiffInv'
<1>1. /\ text' = text /\ lines' = lines /\ pc = "align" /\ pc' = "align"
      /\ head' = head /\ tail' = tail /\ lcs' = lcs /\ diff' = diff
      /\ taken' = [taken EXCEPT !["left"] = @ + 1]
      /\ pending' = [pending EXCEPT !["left"] = Append(@, Row("delete", NextLeft, 0))]
      /\ ~BothAgree /\ LeftRemains /\ ~PreferInsert
  BY DEF TakeDelete
<1>2. PICK e \in Nat : NothingLost(e)
  BY <1>1 DEF DiffInv
<1>3. Aligning /\ TableKnows
  BY <1>1 DEF DiffInv
<1>4. PICK m \in Nat, p \in Nat : m = Len(a) /\ p = Len(b)
  BY FilesAreLines
<1>5. PICK h \in Nat, q \in Nat, u \in Nat, v \in Nat :
        h = head /\ q = tail /\ u = taken["left"] /\ v = taken["right"]
  BY <1>3 DEF Aligning, Sides
<1>6. a' = a /\ b' = b
  BY <1>1 DEF a, b
<1>7. /\ NextLeft = h + u + 1 /\ h + u + 1 <= m - q /\ h + v + q <= p
      /\ h + v < p - q => /\ a[h + u + 1] # b[h + v + 1]
                          /\ ~(lcs[<<u, v + 1>>] >= lcs[<<u + 1, v>>])
  <2>1. NextLeft = h + u + 1 /\ NextRight = h + v + 1
    BY <1>5 DEF NextLeft, NextRight
  <2>2. h + u + 1 <= m - q
    BY <1>1, <1>4, <1>5, <2>1 DEF LeftRemains
  <2>3. RightRemains <=> h + v < p - q
    BY <1>4, <1>5, <2>1 DEF RightRemains
  <2>4. h + v + q <= p
    BY <1>3, <1>4, <1>5 DEF Aligning
  <2> QED BY <1>1, <1>5, <2>1, <2>2, <2>3, <2>4 DEF BothAgree, PreferInsert
<1>8. /\ taken \in [Sides -> Nat] /\ pending \in [Sides -> Seq(DiffRows)]
  BY <1>3 DEF Aligning
<1>9. /\ taken' \in [Sides -> Nat] /\ taken'["left"] = u + 1 /\ taken'["right"] = v
      /\ pending'["right"] = pending["right"]
      /\ pending'["left"] = Append(pending["left"], Row("delete", h + u + 1, 0))
  <2>1. taken' \in [Sides -> Nat] /\ taken'["left"] = u + 1 /\ taken'["right"] = v
    BY <1>1, <1>5, <1>8 DEF Sides
  <2>2. pending'["right"] = pending["right"]
    BY <1>1, <1>8 DEF Sides
  <2>3. pending'["left"] = Append(pending["left"], Row("delete", h + u + 1, 0))
    BY <1>1, <1>7, <1>8 DEF Sides
  <2> QED BY <2>1, <2>2, <2>3
<1>10. Row("delete", h + u + 1, 0) \in DiffRows
  <2>1. 0 \in 0 .. Len(b) /\ h + u + 1 \in 0 .. Len(a)
    BY <1>4, <1>7
  <2> QED BY <2>1 DEF DiffRows, RowOps
<1>11. PICK i \in Nat, d \in Nat : i = Len(pending["right"]) /\ d = Len(pending["left"])
  BY <1>8, LenProperties DEF Sides
<1>12. pending["left"] \in Seq(DiffRows) /\ pending["right"] \in Seq(DiffRows)
  BY <1>8 DEF Sides
<1>13. /\ pending'["left"] \in Seq(DiffRows) /\ Len(pending'["left"]) = d + 1
       /\ \A k \in 1 .. d : pending'["left"][k] = pending["left"][k]
       /\ pending'["left"][d + 1] = Row("delete", h + u + 1, 0)
  BY <1>9, <1>10, <1>11, <1>12, AppendProperties
<1>14. /\ DeletesFrom = h + u - d /\ InsertsFrom = h + v - i
       /\ DeletesFrom' = DeletesFrom /\ InsertsFrom' = InsertsFrom
  <2>1. DeletesFrom = h + u - d /\ DeletesFrom' = h + (u + 1) - (d + 1)
    BY <1>1, <1>5, <1>9, <1>11, <1>13 DEF DeletesFrom
  <2>2. InsertsFrom = h + v - i /\ InsertsFrom' = h + v - i
    BY <1>1, <1>5, <1>9, <1>11 DEF InsertsFrom
  <2> QED BY <2>1, <2>2
<1>15. DiffRows' = DiffRows /\ \A op, l, r : Row(op, l, r)' = Row(op, l, r)
  BY <1>6 DEF DiffRows, Row
<1>16. Aligning'
  <2>1. (head \in Nat /\ tail \in Nat /\ taken \in [Sides -> Nat])'
    BY <1>1, <1>5, <1>9
  <2>2. /\ (head + taken["left"] + tail <= Len(a))'
        /\ (head + taken["right"] + tail <= Len(b))'
    <3>1. h + (u + 1) + q <= m /\ h + v + q <= p
      BY <1>7
    <3> QED BY <1>1, <1>4, <1>5, <1>6, <1>9, <3>1
  <2>3. (\A k \in 0 .. tail - 1 : a[Len(a) - k] = b[Len(b) - k])'
    BY <1>1, <1>3, <1>6 DEF Aligning
  <2>4. (pending \in [Sides -> Seq(DiffRows)])'
    BY <1>1, <1>8, <1>9, <1>12, <1>13, <1>15 DEF Sides
  <2>5. (DeletesFrom \in Nat /\ InsertsFrom \in Nat)'
    BY <1>3, <1>14 DEF Aligning
  <2>6. (\A k \in 1 .. Len(pending["left"]) : pending["left"][k] = Row("delete", DeletesFrom + k, 0))'
    <3>1. \A k \in 1 .. d : pending["left"][k] = Row("delete", DeletesFrom + k, 0)
      BY <1>3, <1>11 DEF Aligning
    <3>2. DeletesFrom + (d + 1) = h + u + 1
      BY <1>14
    <3>3. \A k \in 1 .. d + 1 : k \in 1 .. d \/ k = d + 1
      OBVIOUS
    <3>4. \A k \in 1 .. d + 1 : pending'["left"][k] = Row("delete", DeletesFrom + k, 0)
      BY <1>13, <3>1, <3>2, <3>3
    <3> QED BY <1>13, <1>14, <1>15, <3>4
  <2>7. (\A k \in 1 .. Len(pending["right"]) : pending["right"][k] = Row("insert", 0, InsertsFrom + k))'
    <3>1. \A k \in 1 .. i : pending["right"][k] = Row("insert", 0, InsertsFrom + k)
      BY <1>3, <1>11 DEF Aligning
    <3> QED BY <1>9, <1>11, <1>14, <1>15, <3>1
  <2> QED BY <2>1, <2>2, <2>3, <2>4, <2>5, <2>6, <2>7 DEF Aligning
<1>17. TableKnows'
  BY <1>1, <1>3, <1>6 DEF TableKnows
<1>18. Tells(diff.rows, 0, DeletesFrom, 0, InsertsFrom, e)'
  <2>1. Tells(diff.rows, 0, DeletesFrom, 0, InsertsFrom, e)
    BY <1>2 DEF NothingLost
  <2>2. PICK x, y : x = DeletesFrom /\ y = InsertsFrom
    OBVIOUS
  <2>3. Tells(diff.rows, 0, x, 0, y, e)'
    BY <1>1, <2>1, <2>2, TellsStays
  <2>4. DeletesFrom' = x /\ InsertsFrom' = y
    BY <1>14, <2>2
  <2> QED BY <2>3, <2>4
<1>19. ASSUME NEW c \in Nat, IsLongest(a, b, c, h + u + 1, m - q, h + v, p - q)
       PROVE  IsLongest(a, b, c + e + q, 0, m, 0, p)
  <2> DEFINE x == h + u
             y == h + v
             mm == m - q
             pp == p - q
             f == lcs[<<u + 1, v>>]
             g == lcs[<<u, v + 1>>]
  <2>1. x \in Nat /\ y \in Nat /\ mm \in Nat /\ pp \in Nat /\ x < mm
    BY <1>7
  <2>2. y < pp => a[x + 1] # b[y + 1] /\ ~(g >= f)
    BY <1>7
  <2>3. \A n \in Nat : IsLongest(a, b, n, x, mm, y, pp)
                         => IsLongest(a, b, n + e + q, 0, m, 0, p)
    BY <1>2, <1>4, <1>5 DEF NothingLost
  <2>4. y < pp => IsLongest(a, b, g, x, mm, y + 1, pp)
    <3> SUFFICES ASSUME y < pp
                 PROVE  IsLongest(a, b, g, x, mm, y + 1, pp)
      OBVIOUS
    <3>1. u \in 0 .. m - q - h /\ v + 1 \in 0 .. p - q - h /\ h + (v + 1) = h + v + 1
      BY <1>7
    <3> QED BY <1>3, <1>4, <1>5, <3>1 DEF TableKnows
  <2>5. IsLongest(a, b, f, x + 1, mm, y, pp)
    <3>1. u + 1 \in 0 .. m - q - h /\ v \in 0 .. p - q - h /\ h + (u + 1) = h + u + 1
      BY <1>7
    <3> QED BY <1>3, <1>4, <1>5, <3>1 DEF TableKnows
  <2>6. IsLongest(a, b, c, x + 1, mm, y, pp)
    BY <1>19
  <2> HIDE DEF x, y, mm, pp, f, g
  <2>7. c = f
    BY <2>5, <2>6, LongestIsUnique
  <2>8. y < pp => g \in Nat /\ c >= g
    BY <2>2, <2>4, <2>7 DEF IsLongest
  <2>9. IsLongest(a, b, c, x, mm, y, pp)
    BY <2>1, <2>2, <2>4, <2>6, <2>8, SkipKeepsLongest
  <2> QED BY <2>3, <2>9
<1>20. NothingLost(e)'
  <2>1. head' + taken'["left"] = h + u + 1 /\ head' + taken'["right"] = h + v /\ tail' = q
    BY <1>1, <1>5, <1>9
  <2>2. Len(a') = m /\ Len(b') = p
    BY <1>4, <1>6
  <2> QED BY <1>6, <1>18, <1>19, <2>1, <2>2 DEF NothingLost
<1>21. (text \in [Sides -> Texts] /\ lines = [s \in Sides |-> LinesOf(text[s])])'
  BY <1>1 DEF DiffInv, Sides
<1>22. (DOMAIN diff = {"rows", "added", "removed", "identical", "onlyIn"})'
  BY <1>1 DEF DiffInv
<1> QED BY <1>1, <1>2, <1>16, <1>17, <1>20, <1>21, <1>22 DEF DiffInv

\* The shared tail is shown and the changes are counted.
LEMMA FinishKeeps ==
  ASSUME DiffInv, Finish
  PROVE  DiffInv'
<1> DEFINE shared == [k \in 1 .. tail |-> Row("equal", Len(a) - tail + k, Len(b) - tail + k)]
           rows == Flushed(diff.rows) \o shared
<1>1. /\ text' = text /\ lines' = lines /\ pc = "align" /\ pc' = "done"
      /\ ~LeftRemains /\ ~RightRemains
      /\ diff' = [diff EXCEPT !.rows = rows, !.onlyIn = OnlyIn,
                              !.added = Count(rows, {"insert", "change"}),
                              !.removed = Count(rows, {"delete", "change"})]
  BY DEF Finish
<1>2. PICK e \in Nat : NothingLost(e)
  BY <1>1 DEF DiffInv
<1>3. Aligning
  BY <1>1 DEF DiffInv
<1>4. PICK m \in Nat, p \in Nat : m = Len(a) /\ p = Len(b)
  BY FilesAreLines
<1>5. PICK h \in Nat, q \in Nat, u \in Nat, v \in Nat :
        h = head /\ q = tail /\ u = taken["left"] /\ v = taken["right"]
  BY <1>3 DEF Aligning, Sides
<1>6. a' = a /\ b' = b
  BY <1>1 DEF a, b
<1> DEFINE x == h + u
           y == h + v
<1>7. x + q = m /\ y + q = p
  <2>1. NextLeft = h + u + 1 /\ NextRight = h + v + 1
    BY <1>5 DEF NextLeft, NextRight
  <2>2. ~(h + u + 1 <= m - q) /\ ~(h + v + 1 <= p - q)
    BY <1>1, <1>4, <1>5, <2>1 DEF LeftRemains, RightRemains
  <2>3. h + u + q <= m /\ h + v + q <= p
    BY <1>3, <1>4, <1>5 DEF Aligning
  <2> QED BY <2>2, <2>3
<1>8. x \in Nat /\ y \in Nat /\ m - q = x /\ p - q = y
  BY <1>7
<1>9. Tells(Flushed(diff.rows), 0, x, 0, y, e)
  BY <1>1, <1>2, <1>5, FlushInLoop
<1>10. Tells(shared, x, m, y, p, q)
  <2>1. ASSUME NEW k \in 1 .. q
        PROVE  a[x + k] = b[y + k]
    <3>1. q - k \in 0 .. q - 1 /\ m - (q - k) = x + k /\ p - (q - k) = y + k
      BY <1>7, <1>8
    <3>2. \A l \in 0 .. q - 1 : a[m - l] = b[p - l]
      BY <1>3, <1>4, <1>5 DEF Aligning
    <3>3. a[m - (q - k)] = b[p - (q - k)]
      BY <3>1, <3>2
    <3> QED BY <3>1, <3>3
  <2>2. shared = [k \in 1 .. q |-> Row("equal", x + k, y + k)]
    BY <1>4, <1>5, <1>8
  <2> HIDE DEF x, y, shared
  <2>3. Tells([k \in 1 .. q |-> Row("equal", x + k, y + k)], x, x + q, y, y + q, q)
    <3>1. /\ x + q <= Len(a) /\ y + q <= Len(b)
          /\ Len(a) \in Nat /\ Len(b) \in Nat
      BY <1>4, <1>7
    <3> QED BY <1>8, <2>1, <3>1, EqualTells
  <2> QED BY <1>7, <2>2, <2>3
<1>11. Tells(rows, 0, m, 0, p, e + q)
  <2> DEFINE F == Flushed(diff.rows)
  <2>1. /\ x <= m /\ y <= p /\ 0 <= x /\ 0 <= y /\ 0 \in Nat
    BY <1>7
  <2> HIDE DEF F, x, y, shared
  <2>2. Tells(F, 0, x, 0, y, e)
    BY <1>9 DEF F
  <2>3. Tells(F \o shared, 0, m, 0, p, e + q)
    BY <1>8, <1>10, <2>1, <2>2, TellsJoin
  <2> QED BY <2>3 DEF F
<1>12. IsLongest(a, b, e + q, 0, m, 0, p)
  <2>1. \A n \in Nat : IsLongest(a, b, n, x, x, y, y)
                         => IsLongest(a, b, n + e + q, 0, m, 0, p)
    BY <1>2, <1>4, <1>5, <1>8 DEF NothingLost
  <2> HIDE DEF x, y
  <2>2. IsLongest(a, b, 0, x, x, y, y)
    <3>1. x \in Nat /\ y \in Nat /\ x >= x
      BY <1>8
    <3> QED BY <3>1, LongestBack
  <2>3. 0 + e + q = e + q
    OBVIOUS
  <2> QED BY <2>1, <2>2, <2>3
<1> HIDE DEF rows, x, y
<1>13. /\ Count(rows, {"delete", "change"}) = m - (e + q)
       /\ Count(rows, {"insert", "change"}) = p - (e + q)
       /\ e + q \in Nat
  BY <1>11 DEF Tells
<1>14. /\ DOMAIN diff' = {"rows", "added", "removed", "identical", "onlyIn"}
       /\ diff'.rows = rows /\ diff'.removed = m - (e + q) /\ diff'.added = p - (e + q)
  BY <1>1, <1>13 DEF DiffInv
<1>15. Tells(diff.rows, 0, m, 0, p, e + q)'
  BY <1>1, <1>11, <1>14, TellsStays
<1>16. Finished(e + q)'
  BY <1>4, <1>6, <1>12, <1>14, <1>15 DEF Finished
<1>17. (text \in [Sides -> Texts] /\ lines = [s \in Sides |-> LinesOf(text[s])])'
  BY <1>1 DEF DiffInv, Sides
<1> QED BY <1>1, <1>13, <1>14, <1>16, <1>17 DEF DiffInv

\* The diff starts with nothing compared.
LEMMA DiffStarts ==
  ASSUME DiffInit
  PROVE  DiffInv
<1>1. text \in [Sides -> Texts]
  BY TextDiffAssumption DEF DiffInit, Sides
<1>2. /\ lines = [s \in Sides |-> LinesOf(text[s])] /\ pc = "compare"
      /\ taken = [s \in Sides |-> 0] /\ pending = [s \in Sides |-> << >>]
      /\ diff = [rows |-> << >>, added |-> 0, removed |-> 0, identical |-> FALSE, onlyIn |-> ""]
  BY DEF DiffInit
<1>3. DOMAIN diff = {"rows", "added", "removed", "identical", "onlyIn"} /\ diff.added = 0 /\ diff.removed = 0
  BY <1>2
<1> QED BY <1>1, <1>2, <1>3 DEF DiffInv

\* A step that changes nothing keeps what holds.
LEMMA DiffRests ==
  ASSUME DiffInv, UNCHANGED diffVars
  PROVE  DiffInv'
<1>1. /\ present' = present /\ text' = text /\ lines' = lines /\ pc' = pc /\ head' = head /\ tail' = tail
      /\ lcs' = lcs /\ taken' = taken /\ pending' = pending /\ diff' = diff
  BY DEF diffVars
<1>2. a' = a /\ b' = b /\ TooBig' = TooBig
  BY <1>1 DEF a, b, TooBig
<1>3. DiffRows' = DiffRows /\ \A op, l, r : Row(op, l, r)' = Row(op, l, r)
  BY <1>2 DEF DiffRows, Row
<1>4. DeletesFrom' = DeletesFrom /\ InsertsFrom' = InsertsFrom
  BY <1>1 DEF DeletesFrom, InsertsFrom
<1>5. ASSUME NEW x, NEW y, NEW e, Tells(diff.rows, 0, x, 0, y, e)
      PROVE  Tells(diff.rows, 0, x, 0, y, e)'
  BY <1>1, <1>5, TellsStays
<1>6. Aligning => Aligning'
  BY <1>1, <1>2, <1>3, <1>4 DEF Aligning
<1>7. TableKnows => TableKnows'
  BY <1>1, <1>2 DEF TableKnows
<1>8. ASSUME NEW e, NothingLost(e)
      PROVE  NothingLost(e)'
  <2>1. PICK x, y : x = DeletesFrom /\ y = InsertsFrom
    OBVIOUS
  <2>2. Tells(diff.rows, 0, x, 0, y, e)
    BY <1>8, <2>1 DEF NothingLost
  <2>3. Tells(diff.rows, 0, DeletesFrom, 0, InsertsFrom, e)'
    BY <1>4, <1>5, <2>1, <2>2
  <2> QED BY <1>1, <1>2, <1>8, <2>3 DEF NothingLost
<1>9. ASSUME NEW e, Finished(e)
      PROVE  Finished(e)'
  <2>1. PICK x, y : x = Len(a) /\ y = Len(b)
    OBVIOUS
  <2>2. Tells(diff.rows, 0, x, 0, y, e)
    BY <1>9, <2>1 DEF Finished
  <2>3. Tells(diff.rows, 0, Len(a), 0, Len(b), e)'
    BY <1>2, <1>5, <2>1, <2>2
  <2> QED BY <1>1, <1>2, <1>9, <2>3 DEF Finished
<1>10. (text \in [Sides -> Texts] /\ lines = [s \in Sides |-> LinesOf(text[s])])'
  BY <1>1 DEF DiffInv, Sides
<1>11. (/\ DOMAIN diff = {"rows", "added", "removed", "identical", "onlyIn"}
        /\ pc = "compare" => /\ taken = [s \in Sides |-> 0]
                             /\ pending = [s \in Sides |-> << >>]
                             /\ diff.added = 0 /\ diff.removed = 0)'
  BY <1>1 DEF DiffInv, Sides
<1>12. (pc = "align" => Aligning /\ TableKnows /\ \E e \in Nat : NothingLost(e))'
  BY <1>1, <1>6, <1>7, <1>8 DEF DiffInv
<1>13. (pc = "done" => diff.rows = <<TooBig>> \/ \E e \in Nat : Finished(e))'
  BY <1>1, <1>2, <1>9 DEF DiffInv
<1> QED BY <1>10, <1>11, <1>12, <1>13 DEF DiffInv

\* Every step of the diff keeps it telling both files.
LEMMA DiffInvariant == DiffSpec => []DiffInv
<1>1. DiffInit => DiffInv
  BY DiffStarts
<1>2. DiffInv /\ [DiffNext]_diffVars => DiffInv'
  <2> SUFFICES ASSUME DiffInv, [DiffNext]_diffVars
               PROVE  DiffInv'
    OBVIOUS
  <2>1. CASE CompareIdentical
    BY <2>1, CompareIdenticalKeeps
  <2>2. CASE GiveUp
    BY <2>2, GiveUpKeeps
  <2>3. CASE StartAlign
    BY <2>3, StartAlignKeeps
  <2>4. CASE TakeEqual
    BY <2>4, TakeEqualKeeps
  <2>5. CASE TakeInsert
    BY <2>5, TakeInsertKeeps
  <2>6. CASE TakeDelete
    BY <2>6, TakeDeleteKeeps
  <2>7. CASE Finish
    BY <2>7, FinishKeeps
  <2>8. CASE UNCHANGED diffVars
    BY <2>8, DiffRests
  <2> QED BY <2>1, <2>2, <2>3, <2>4, <2>5, <2>6, <2>7, <2>8 DEF DiffNext
<1> QED BY <1>1, <1>2, PTL DEF DiffSpec

\* No more lines are common than either side has.
LEMMA CommonFits ==
  ASSUME NEW s, NEW t, NEW n \in Nat, NEW m \in Nat, NEW p \in Nat, Common(s, t, n, 0, m, 0, p)
  PROVE  n <= m /\ n <= p
<1>1. PICK f \in [1 .. n -> 0 + 1 .. m], g \in [1 .. n -> 0 + 1 .. p] : Climbs(f, n) /\ Climbs(g, n)
  BY DEF Common
<1>2. ASSUME NEW z \in Nat, NEW r \in [1 .. n -> 0 + 1 .. z], Climbs(r, n)
      PROVE  n <= z
  <2>1. r \in Injection(1 .. n, 0 + 1 .. z)
    <3>1. \A k, l \in 1 .. n : k # l => r[k] # r[l]
      <4>1. \A k \in 1 .. n : r[k] \in 0 + 1 .. z
        OBVIOUS
      <4>2. \A k, l \in 1 .. n : k < l => r[k] < r[l]
        BY <1>2 DEF Climbs
      <4> QED BY <4>1, <4>2
    <3> QED BY <3>1 DEF Injection, IsInjective
  <2>2. /\ IsFiniteSet(1 .. n) /\ Cardinality(1 .. n) = n
        /\ IsFiniteSet(0 + 1 .. z) /\ Cardinality(0 + 1 .. z) = z
    <3>1. 0 + 1 = 1
      OBVIOUS
    <3>2. \A c \in Nat : IsFiniteSet(1 .. c) /\ Cardinality(1 .. c) = c
      <4> TAKE c \in Nat
      <4>1. 1 \in Int /\ c \in Int
        OBVIOUS
      <4>2. IsFiniteSet(1 .. c) /\ Cardinality(1 .. c) = IF 1 > c THEN 0 ELSE c - 1 + 1
        BY <4>1, FS_Interval, Zenon
      <4> QED BY <4>2
    <3> QED BY <3>1, <3>2
  <2>3. Cardinality(1 .. n) <= Cardinality(0 + 1 .. z)
    BY <2>1, <2>2, FS_Injection
  <2> QED BY <2>2, <2>3
<1> QED BY <1>1, <1>2

\* A stretch that is covered is the numbers shown, in ascending order.
LEMMA CoveredIsShown ==
  ASSUME NEW rows \in Seq(DiffRows), NEW s, NEW z \in Nat, Covers(rows, s, 0, z),
         NEW numbers, numbers = [k \in DOMAIN rows |-> NumberOf(rows[k], s)]
  PROVE  Range(numbers) \ {0} = 1 .. z /\ Ascends(numbers)
<1>1. DOMAIN numbers = DOMAIN rows /\ \A k \in DOMAIN rows : numbers[k] = NumberOf(rows[k], s)
  OBVIOUS
<1>2. DOMAIN rows = 1 .. Len(rows) /\ Len(rows) \in Nat
  BY LenProperties
<1>3. /\ \A k \in DOMAIN rows : numbers[k] = 0 \/ numbers[k] \in 1 .. z
      /\ \A i \in 1 .. z : \E k \in DOMAIN rows : numbers[k] = i
      /\ \A k, l \in DOMAIN rows : k < l /\ numbers[k] # 0 /\ numbers[l] # 0 => numbers[k] < numbers[l]
  <2>1. 0 + 1 = 1
    OBVIOUS
  <2> QED BY <1>1, <2>1 DEF Covers
<1>4. Range(numbers) = {numbers[k] : k \in DOMAIN rows}
  BY <1>1 DEF Range
<1>5. Range(numbers) \ {0} = 1 .. z
  <2>1. \A i \in 1 .. z : i # 0
    OBVIOUS
  <2> QED BY <1>3, <1>4, <2>1
<1>6. ASSUME NEW k \in DOMAIN numbers, NEW l \in DOMAIN numbers, k < l, numbers[k] > 0, numbers[l] > 0
      PROVE  numbers[k] < numbers[l]
  BY <1>1, <1>3, <1>6
<1> QED BY <1>5, <1>6 DEF Ascends

\* Both files can be read off the finished view, whatever texts are compared: each
\* side shows every one of its lines exactly once, in order, under its own number.
THEOREM BothSidesReadable == DiffSpec => []BothSidesShown
<1>1. ASSUME DiffInv
      PROVE  BothSidesShown
  <2> SUFFICES ASSUME pc = "done", Shows(diff.rows)
               PROVE  BothSidesShown
    BY DEF BothSidesShown
  <2>1. PICK e \in Nat : Finished(e)
    BY <1>1 DEF DiffInv, Shows
  <2>2. PICK rows : rows = diff.rows
    OBVIOUS
  <2>3. /\ rows \in Seq(DiffRows) /\ \A k \in DOMAIN rows : FitRow(rows[k])
        /\ Covers(rows, "left", 0, Len(a)) /\ Covers(rows, "right", 0, Len(b))
    BY <2>1, <2>2 DEF Finished, Tells
  <2>4. Len(a) \in Nat /\ Len(b) \in Nat
    BY <1>1, FilesAreLines
  <2> DEFINE left == [k \in DOMAIN rows |-> rows[k].leftNum]
             right == [k \in DOMAIN rows |-> rows[k].rightNum]
  <2>5. /\ left = [k \in DOMAIN rows |-> NumberOf(rows[k], "left")]
        /\ right = [k \in DOMAIN rows |-> NumberOf(rows[k], "right")]
    BY DEF NumberOf
  <2>6. Range(left) \ {0} = 1 .. Len(a) /\ Ascends(left)
    <3> HIDE DEF left
    <3> QED BY <2>3, <2>4, <2>5, CoveredIsShown
  <2>7. Range(right) \ {0} = 1 .. Len(b) /\ Ascends(right)
    <3> HIDE DEF right
    <3> QED BY <2>3, <2>4, <2>5, CoveredIsShown
  <2>8. ASSUME NEW k \in DOMAIN rows
        PROVE  /\ left[k] > 0 => rows[k].left = a[left[k]]
               /\ right[k] > 0 => rows[k].right = b[right[k]]
               /\ left[k] > 0 \/ right[k] > 0
               /\ rows[k].op = "equal" => rows[k].left = rows[k].right /\ left[k] > 0 /\ right[k] > 0
    <3>1. left[k] = rows[k].leftNum /\ right[k] = rows[k].rightNum
      OBVIOUS
    <3>2. FitRow(rows[k])
      BY <2>3
    <3> HIDE DEF left, right
    <3> QED BY <2>4, <3>1, <3>2 DEF FitRow
  <2> HIDE DEF left, right
  <2> QED BY <2>2, <2>6, <2>7, <2>8 DEF BothSidesShown, left, right
<1>2. DiffSpec => []DiffInv
  BY DiffInvariant
<1> QED BY <1>1, <1>2, PTL

\* The length the definition gives is the longest common part of the two files.
LEMMA LongestIsDefined ==
  ASSUME NEW L, NEW s \in Seq(L), NEW t \in Seq(L), NEW c, IsLongest(s, t, c, 0, Len(s), 0, Len(t))
  PROVE  LongestCommonLength(s, t) = c
<1> DEFINE S == {Len(u) : u \in Subsequences(s) \cap Subsequences(t)}
<1>1. S = {n \in Nat : Common(s, t, n, 0, Len(s), 0, Len(t))}
  BY CommonSubsequences
<1>2. LongestCommonLength(s, t) = Max(S)
  BY DEF LongestCommonLength
<1> HIDE DEF S
<1>3. c \in Nat /\ S = {n \in Nat : n <= c}
  BY <1>1 DEF IsLongest
<1>4. c \in S /\ \A n \in S : n \in Nat /\ n <= c
  BY <1>3
<1>5. Max(S) = CHOOSE n \in S : \A k \in S : n >= k
  BY DEF Max
<1>6. \A n \in S : (\A k \in S : n >= k) => n = c
  BY <1>3, <1>4
<1>7. \A k \in S : c >= k
  BY <1>3, <1>4
<1> QED BY <1>2, <1>4, <1>5, <1>6, <1>7

\* The view shows no more changes than there are: the counters are what a longest
\* common subsequence of the whole files leaves, and nothing changed only if the
\* files have the same lines.
THEOREM NoNeedlessChange == DiffSpec => []FewestChanges
<1>1. ASSUME DiffInv
      PROVE  FewestChanges
  <2> SUFFICES ASSUME pc = "done", Shows(diff.rows)
               PROVE  FewestChanges
    BY DEF FewestChanges
  <2>1. PICK e \in Nat : Finished(e)
    BY <1>1 DEF DiffInv, Shows
  <2>2. PICK L : a \in Seq(L) /\ b \in Seq(L)
    BY <1>1, FilesAreLines
  <2>3. PICK m \in Nat, p \in Nat : m = Len(a) /\ p = Len(b)
    BY <1>1, FilesAreLines
  <2>4. /\ diff.removed = m - e /\ diff.added = p - e
        /\ IsLongest(a, b, e, 0, m, 0, p)
    BY <2>1, <2>3 DEF Finished
  <2>5. LongestCommonLength(a, b) = e
    BY <2>2, <2>3, <2>4, LongestIsDefined
  <2>6. e <= m /\ e <= p
    <3>1. Common(a, b, e, 0, m, 0, p)
      BY <2>4 DEF IsLongest
    <3> QED BY <3>1, CommonFits
  <2>7. ASSUME m - e + (p - e) = 0
        PROVE  a = b
    <3>1. m = e /\ p = e
      BY <2>6, <2>7
    <3>2. Common(a, b, e, 0, e, 0, e)
      BY <2>4, <3>1 DEF IsLongest
    <3>3. \A k \in 1 .. e : a[k] = b[k]
      BY <3>2, AllCommon
    <3> QED BY <2>2, <2>3, <3>1, <3>3, SeqEqual
  <2>8. ASSUME a = b
        PROVE  m - e + (p - e) = 0
    <3>1. m = p /\ \A k \in 1 .. m : a[k] = b[k]
      BY <2>3, <2>8
    <3>2. m >= m /\ m <= m /\ 0 \in Nat
      OBVIOUS
    <3>3. IsLongest(a, b, 0, m, m, m, m)
      BY <3>2, LongestBack
    <3>4. IsLongest(a, b, 0 + m, 0, m, 0, m)
      BY <3>1, <3>2, <3>3, LongestHead
    <3>5. 0 + m = e
      BY <2>4, <3>1, <3>4, LongestIsUnique
    <3> QED BY <3>1, <3>5
  <2> QED BY <2>3, <2>4, <2>5, <2>7, <2>8 DEF FewestChanges
<1>2. DiffSpec => []DiffInv
  BY DiffInvariant
<1> QED BY <1>1, <1>2, PTL
==============================================================================
