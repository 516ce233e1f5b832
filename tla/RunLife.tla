------------------------------- MODULE RunLife -------------------------------
(***************************************************************************)
(* What the runner promises the HTTP handlers: a run that was started      *)
(* reports exactly one verdict, which never changes.  Runner implements    *)
(* this module (Runner!Life) and Trainer is built on it.                   *)
(***************************************************************************)
EXTENDS Integers

CONSTANT Runs  \* run ids

VARIABLE state \* per run: "absent", "going" or its Outcome

Outcomes == {"passed", "failed", "build_failed", "timeout", "canceled", "error"}

Init == state = [r \in Runs |-> "absent"]

Begin(r) ==
  /\ state[r] = "absent"
  /\ state' = [state EXCEPT ![r] = "going"]

Report(r, outcome) ==
  /\ state[r] = "going"
  /\ state' = [state EXCEPT ![r] = outcome]

Next == \E r \in Runs : Begin(r) \/ \E outcome \in Outcomes : Report(r, outcome)

Spec ==
  /\ Init /\ [][Next]_state
  /\ \A r \in Runs : WF_state(\E outcome \in Outcomes : Report(r, outcome))
==============================================================================
