------------------------------ MODULE MCJournal ------------------------------
(* The ledger with the screens that read it.  A day is 4 clock units and an   *)
(* attempt is resumable for 2 of them.                                        *)
EXTENDS Journal

CONSTANTS f1, f2

\* Both sides of a midnight, or three days.
MCMidnight == {3, 5}
MCThreeDays == {1, 5, 9}

MCTopic == <<"maps", "channels", "maps">>
MCDifficulty == <<2, 1, 1>>

\* One task alone.
MCTopicAlone == <<"maps">>
MCDifficultyAlone == <<1>>
==============================================================================
