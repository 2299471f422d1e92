------------------------------- MODULE MockService -------------------------------
(***************************************************************************)
(* What the mock catch-all of deo/router.py promises to a caller and to    *)
(* the reader of the log: a call gets at most one answer, fixed once and   *)
(* for all when the request has arrived; an answer that was sent is logged *)
(* once, as it was sent; nothing else is logged; and a call whose answer   *)
(* is fixed is logged or lost in the end.                                  *)
(***************************************************************************)
EXTENDS Sequences

CONSTANTS Requests, Answers, NoAnswer

VARIABLES
  state,    \* per call: open, decided, answered, logged or lost
  answer,   \* per call: what is answered, or NoAnswer
  log       \* the [call, answer] that were logged since the service started

service_vars == <<state, answer, log>>

Init ==
  /\ state = [r \in Requests |-> "open"]
  /\ answer = [r \in Requests |-> NoAnswer]
  /\ log = << >>

Move(r, from, to) == state[r] \in from /\ state' = [state EXCEPT ![r] = to]

Fix(r) ==
  /\ answer'[r] \in Answers
  /\ answer' = [answer EXCEPT ![r] = answer'[r]]

Decide(r) ==
  /\ Move(r, {"open"}, "decided")
  /\ Fix(r)
  /\ UNCHANGED log

AnswerAtOnce(r) ==
  /\ Move(r, {"open"}, "answered")
  /\ Fix(r)
  /\ UNCHANGED log

AnswerDecided(r) == Move(r, {"decided"}, "answered") /\ UNCHANGED <<answer, log>>

Log(r) ==
  /\ Move(r, {"answered"}, "logged")
  /\ log' = Append(log, [call |-> r, answer |-> answer[r]])
  /\ UNCHANGED answer

\* No answer is sent, and none will be.
Lose(r) ==
  /\ Move(r, {"open", "decided"}, "lost")
  /\ answer' = [answer EXCEPT ![r] = NoAnswer]
  /\ UNCHANGED log

\* The service starts again: the log is empty, calls that were made are lost.
Crash ==
  /\ state' \in [Requests -> {"open", "lost"}]
  /\ \A r \in Requests : state'[r] = "open" => state[r] = "open"
  /\ answer' = [r \in Requests |-> NoAnswer]
  /\ log' = << >>

Next ==
  \/ \E r \in Requests :
       Decide(r) \/ AnswerAtOnce(r) \/ AnswerDecided(r) \/ Log(r) \/ Lose(r)
  \/ Crash

\* The service does not forget what it has begun.
Fairness ==
  \A r \in Requests :
    /\ WF_service_vars(AnswerDecided(r) \/ (state[r] = "decided" /\ Lose(r)))
    /\ WF_service_vars(Log(r))

SafeSpec == Init /\ [][Next]_service_vars
Spec == SafeSpec /\ Fairness
================================================================================
