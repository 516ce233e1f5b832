------------------------------- MODULE TextDiff -------------------------------
(***************************************************************************)
(* The side-by-side diff of internal/textdiff for one path: the comparison *)
(* of Lines, the loop of align over the longest-common-subsequence table,  *)
(* and the one-sided files of Files.  The code is sequential; its loop is  *)
(* a state machine here so that what holds of it can be stated per step.   *)
(*                                                                         *)
(* A text is a sequence of symbols, one of them the newline.               *)
(***************************************************************************)
EXTENDS Integers, SequencesExt, FiniteSetsExt

CONSTANTS
  Texts,   \* contents a file may have
  Newline, \* the symbol that ends a line
  MaxLines \* more lines than this are not aligned

ASSUME TextDiffAssumption ==
  /\ << >> \in Texts
  /\ \A t \in Texts : t \in Seq(Range(t))
  /\ MaxLines \in Nat

VARIABLES
  present, \* the sides that have the file
  text,    \* its content per side, empty where it is missing
  lines,   \* splitLines of the content, per side
  pc,      \* "compare", "align" or "done"
  head,    \* lines both sides start with
  tail,    \* lines both sides end with, the head excluded
  lcs,     \* longestCommon of the middle parts
  taken,   \* lines of the middle consumed so far, per side
  pending, \* deletes and inserts not yet paired, per side
  diff     \* the FileDiff

diffVars == <<present, text, lines, pc, head, tail, lcs, taken, pending, diff>>

Sides == {"left", "right"}

\* The members of a set of numbers, the smallest first.
InOrder(S) == [n \in 1 .. Cardinality(S) |-> CHOOSE i \in S : Cardinality({j \in S : j < i}) = n - 1]

\* splitLines: a final newline ends the last line and does not start another.
LinesOf(s) ==
  LET body == IF s # << >> /\ s[Len(s)] = Newline THEN SubSeq(s, 1, Len(s) - 1) ELSE s
      cuts == {n \in DOMAIN body : body[n] = Newline} \cup {0, Len(body) + 1}
      ends == InOrder(cuts)
  IN  IF s = << >> THEN << >>
      ELSE [n \in 1 .. Len(ends) - 1 |-> SubSeq(body, ends[n] + 1, ends[n + 1] - 1)]

a == lines["left"]
b == lines["right"]

Row(op, l, r) ==
  [op |-> op, leftNum |-> l, rightNum |-> r,
   left |-> IF l > 0 THEN a[l] ELSE << >>, right |-> IF r > 0 THEN b[r] ELSE << >>]

TooBig == [op |-> "change", leftNum |-> 0, rightNum |-> 0, left |-> <<"!">>, right |-> <<"!">>]

Equal(n, m) == [k \in 1 .. n |-> Row("equal", k, m + k)]

------------------------------------------------------------------------------
(* Lines. *)

\* The length of the longest shared head, or tail, of two sequences.
Shared(s, t) == Max({n \in 0 .. Min({Len(s), Len(t)}) : \A k \in 1 .. n : s[k] = t[k]})

\* Mutant: the tail may overlap the head.
SharedTail_Overlap == Shared(Reverse(a), Reverse(b))

SharedTail ==
  LET n == Shared(a, b)
  IN  Shared(Reverse(SubSeq(a, n + 1, Len(a))), Reverse(SubSeq(b, n + 1, Len(b))))

Middle(s) == SubSeq(s, head' + 1, Len(s) - tail')

\* The table, indexed from the end: entry i, j is for the parts of s and t that are
\* left when i and j lines are taken.
LongestCommon(s, t) ==
  LET table[at \in (0 .. Len(s)) \X (0 .. Len(t))] ==
        LET i == at[1]
            j == at[2]
        IN  IF i = Len(s) \/ j = Len(t) THEN 0
            ELSE IF s[i + 1] = t[j + 1] THEN table[<<i + 1, j + 1>>] + 1
            ELSE Max({table[<<i + 1, j>>], table[<<i, j + 1>>]})
  IN  table

DiffInit ==
  /\ present \in {{"left", "right"}, {"left"}, {"right"}}
  /\ \E l, r \in Texts :
       /\ "left" \notin present => l = << >>
       /\ "right" \notin present => r = << >>
       /\ text = [s \in Sides |-> IF s = "left" THEN l ELSE r]
  /\ lines = [s \in Sides |-> LinesOf(text[s])]
  /\ pc = "compare"
  /\ head = 0 /\ tail = 0 /\ lcs = << >>
  /\ taken = [s \in Sides |-> 0]
  /\ pending = [s \in Sides |-> << >>]
  /\ diff = [rows |-> << >>, added |-> 0, removed |-> 0, identical |-> FALSE, onlyIn |-> ""]

OnlyIn ==
  IF "right" \notin present THEN "left" ELSE IF "left" \notin present THEN "right" ELSE ""

CompareIdentical ==
  /\ pc = "compare"
  /\ text["left"] = text["right"]
  /\ diff' = [diff EXCEPT !.rows = Equal(Len(a), 0), !.identical = TRUE, !.onlyIn = OnlyIn]
  /\ pc' = "done"
  /\ UNCHANGED <<present, text, lines, head, tail, lcs, taken, pending>>

GiveUp ==
  /\ pc = "compare"
  /\ text["left"] # text["right"]
  /\ Len(a) > MaxLines \/ Len(b) > MaxLines
  /\ diff' = [diff EXCEPT !.rows = <<TooBig>>, !.onlyIn = OnlyIn]
  /\ pc' = "done"
  /\ UNCHANGED <<present, text, lines, head, tail, lcs, taken, pending>>

StartAlign ==
  /\ pc = "compare"
  /\ text["left"] # text["right"]
  /\ Len(a) <= MaxLines /\ Len(b) <= MaxLines
  /\ head' = Shared(a, b)
  /\ tail' = SharedTail
  /\ lcs' = LongestCommon(Middle(a), Middle(b))
  /\ diff' = [diff EXCEPT !.rows = Equal(head', 0)]
  /\ pc' = "align"
  /\ UNCHANGED <<present, text, lines, taken, pending>>

------------------------------------------------------------------------------
(* align. *)

NextLeft == head + taken["left"] + 1
NextRight == head + taken["right"] + 1

LeftRemains == NextLeft <= Len(a) - tail
RightRemains == NextRight <= Len(b) - tail

\* Pending deletes and inserts pair off into changes, the rest follows.
Flushed(rows) ==
  LET deletes == pending["left"]
      inserts == pending["right"]
      n == Min({Len(deletes), Len(inserts)})
      changes == [k \in 1 .. n |-> Row("change", deletes[k].leftNum, inserts[k].rightNum)]
  IN  rows \o changes \o SubSeq(deletes, n + 1, Len(deletes)) \o SubSeq(inserts, n + 1, Len(inserts))

BothAgree == LeftRemains /\ RightRemains /\ a[NextLeft] = b[NextRight]

\* Mutant: an equal line goes straight to the rows, past what is pending.
TakeEqual_NoFlush ==
  /\ pc = "align" /\ BothAgree
  /\ diff' = [diff EXCEPT !.rows = Append(@, Row("equal", NextLeft, NextRight))]
  /\ taken' = [s \in Sides |-> taken[s] + 1]
  /\ UNCHANGED <<present, text, lines, pc, head, tail, lcs, pending>>

TakeEqual ==
  /\ pc = "align" /\ BothAgree
  /\ diff' = [diff EXCEPT !.rows = Append(Flushed(@), Row("equal", NextLeft, NextRight))]
  /\ pending' = [s \in Sides |-> << >>]
  /\ taken' = [s \in Sides |-> taken[s] + 1]
  /\ UNCHANGED <<present, text, lines, pc, head, tail, lcs>>

\* Mutant: the two corners of the table swapped.
PreferInsert_Swapped ==
  RightRemains /\ (LeftRemains => lcs[<<taken["left"] + 1, taken["right"]>>] >= lcs[<<taken["left"], taken["right"] + 1>>])

\* Inserting loses no common line that deleting would keep.
PreferInsert ==
  RightRemains /\ (LeftRemains => lcs[<<taken["left"], taken["right"] + 1>>] >= lcs[<<taken["left"] + 1, taken["right"]>>])

TakeInsert ==
  /\ pc = "align" /\ ~BothAgree
  /\ PreferInsert
  /\ pending' = [pending EXCEPT !["right"] = Append(@, Row("insert", 0, NextRight))]
  /\ taken' = [taken EXCEPT !["right"] = @ + 1]
  /\ UNCHANGED <<present, text, lines, pc, head, tail, lcs, diff>>

TakeDelete ==
  /\ pc = "align" /\ ~BothAgree
  /\ LeftRemains /\ ~PreferInsert
  /\ pending' = [pending EXCEPT !["left"] = Append(@, Row("delete", NextLeft, 0))]
  /\ taken' = [taken EXCEPT !["left"] = @ + 1]
  /\ UNCHANGED <<present, text, lines, pc, head, tail, lcs, diff>>

Count(rows, ops) == Cardinality({n \in DOMAIN rows : rows[n].op \in ops})

\* The last flush, the shared tail, the counters.
Finish ==
  /\ pc = "align" /\ ~LeftRemains /\ ~RightRemains
  /\ LET shared == [k \in 1 .. tail |-> Row("equal", Len(a) - tail + k, Len(b) - tail + k)]
         rows == Flushed(diff.rows) \o shared
     IN  diff' = [diff EXCEPT !.rows = rows, !.onlyIn = OnlyIn,
                              !.added = Count(rows, {"insert", "change"}),
                              !.removed = Count(rows, {"delete", "change"})]
  /\ pending' = [s \in Sides |-> << >>]
  /\ pc' = "done"
  /\ UNCHANGED <<present, text, lines, head, tail, lcs, taken>>

DiffNext ==
  \/ CompareIdentical \/ GiveUp \/ StartAlign
  \/ TakeEqual \/ TakeInsert \/ TakeDelete
  \/ Finish

DiffSpec == DiffInit /\ [][DiffNext]_diffVars

------------------------------------------------------------------------------
(* Properties. *)

DiffTypeOK ==
  /\ present \subseteq Sides
  /\ text \in [Sides -> Texts]
  /\ pc \in {"compare", "align", "done"}
  /\ head \in Nat /\ tail \in Nat
  /\ taken \in [Sides -> Nat]
  /\ diff.added \in Nat /\ diff.removed \in Nat

Shows(rows) == rows # <<TooBig>>

\* The numbers one side shows, read from top to bottom.
Ascends(numbers) ==
  \A k, l \in DOMAIN numbers : k < l /\ numbers[k] > 0 /\ numbers[l] > 0 => numbers[k] < numbers[l]

\* Both files can be read off the finished view: each side shows every one of its
\* lines exactly once, in order, under its own number, and a row marked equal
\* has the same line on both sides.
BothSidesShown ==
  pc = "done" /\ Shows(diff.rows) =>
    LET rows == diff.rows
        left == [k \in DOMAIN rows |-> rows[k].leftNum]
        right == [k \in DOMAIN rows |-> rows[k].rightNum]
    IN  /\ Range(left) \ {0} = 1 .. Len(a) /\ Ascends(left)
        /\ Range(right) \ {0} = 1 .. Len(b) /\ Ascends(right)
        /\ \A k \in DOMAIN rows :
             /\ left[k] > 0 => rows[k].left = a[left[k]]
             /\ right[k] > 0 => rows[k].right = b[right[k]]
             /\ left[k] > 0 \/ right[k] > 0
             /\ rows[k].op = "equal" => rows[k].left = rows[k].right /\ left[k] > 0 /\ right[k] > 0

\* What is left of s when some of its lines are struck out.
Subsequences(s) ==
  {LET order == InOrder(keep) IN [n \in DOMAIN order |-> s[order[n]]] : keep \in SUBSET DOMAIN s}

\* The definition the table stands for.
LongestCommonLength(s, t) == Max({Len(u) : u \in Subsequences(s) \cap Subsequences(t)})

\* The view shows no more changes than there are: the counters are what a longest
\* common subsequence of the whole files leaves, trimming and greedy matching
\* included, and nothing changed only if the files have the same lines.
FewestChanges ==
  pc = "done" /\ Shows(diff.rows) =>
    LET common == LongestCommonLength(a, b)
    IN  /\ diff.removed = Len(a) - common
        /\ diff.added = Len(b) - common
        /\ diff.added + diff.removed = 0 <=> a = b
==============================================================================
