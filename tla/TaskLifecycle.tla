------------------------------ MODULE TaskLifecycle ------------------------------
(***************************************************************************)
(* What the architect promises about a task, models.py TaskStatus and the  *)
(* routes of architect/router.py: a submitted task runs once, ends as      *)
(* succeeded or dead_lettered, stays that way, and is put into the dead    *)
(* letter queue in the same step in which it becomes dead_lettered.        *)
(***************************************************************************)
EXTENDS Sequences

CONSTANT Tasks

VARIABLES status, dead_letters

lifecycle_vars == <<status, dead_letters>>

Init ==
  /\ status = [t \in Tasks |-> "unsubmitted"]
  /\ dead_letters = << >>

Move(t, from, to) == status[t] = from /\ status' = [status EXCEPT ![t] = to]

Submit(t)  == Move(t, "unsubmitted", "queued") /\ UNCHANGED dead_letters
Start(t)   == Move(t, "queued", "running") /\ UNCHANGED dead_letters
Succeed(t) == Move(t, "running", "succeeded") /\ UNCHANGED dead_letters
DeadLetter(t) ==
  /\ Move(t, "running", "dead_lettered")
  /\ dead_letters' = Append(dead_letters, t)

Next == \E t \in Tasks : Submit(t) \/ Start(t) \/ Succeed(t) \/ DeadLetter(t)

\* Every submitted task is started and ends.
Fairness ==
  \A t \in Tasks :
    /\ WF_lifecycle_vars(Start(t))
    /\ WF_lifecycle_vars(Succeed(t) \/ DeadLetter(t))

SafeSpec == Init /\ [][Next]_lifecycle_vars
Spec == SafeSpec /\ Fairness
================================================================================
