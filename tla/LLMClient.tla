-------------------------------- MODULE LLMClient --------------------------------
(***************************************************************************)
(* architect/llm_client.py: one client with its circuit breaker, shared by *)
(* every agent of every architect task.  A caller runs from the breaker's  *)
(* check to the start of the transport call without giving up the event    *)
(* loop, and from the end of the call to the bookkeeping of the breaker;   *)
(* any number of other calls may start and end in between.                 *)
(***************************************************************************)
EXTENDS Integers, FiniteSets

CONSTANTS
  Callers,            \* who calls complete_json; each has one call at a time
  FailureThreshold    \* failure_threshold of the breaker

ASSUME BreakerAssumption == FailureThreshold \in Nat \ {0}
ASSUME CallersAssumption == IsFiniteSet(Callers)

VARIABLES
  breaker,         \* CircuitBreaker: [state, failure_count]
  flight,          \* the callers that await the transport
  has_transport    \* a transport was configured

llm_vars == <<breaker, flight, has_transport>>

ClosedBreaker == [state |-> "closed", failure_count |-> 0]

\* Mutant: the state is reset and the count is not.
CloseOnly(b) == [b EXCEPT !.state = "closed"]

RecordSuccess(b) == [b EXCEPT !.failure_count = 0, !.state = "closed"]

RecordFailure(b) ==
  LET failures == b.failure_count + 1
  IN  [failure_count |-> failures,
       state |-> IF failures >= FailureThreshold THEN "open" ELSE b.state]

\* before_call raises CircuitBreakerOpen.
Refused == breaker.state = "open"

--------------------------------------------------------------------------------
LLMInit ==
  /\ breaker = ClosedBreaker
  /\ flight = {}
  /\ has_transport \in BOOLEAN

\* Mutant: before_call is not made.
StartUnchecked(c) ==
  /\ has_transport
  /\ c \notin flight
  /\ flight' = flight \cup {c}
  /\ UNCHANGED <<breaker, has_transport>>

\* complete_json up to the await of the transport.
StartCall(c) ==
  /\ ~ Refused
  /\ has_transport
  /\ c \notin flight
  /\ flight' = flight \cup {c}
  /\ UNCHANGED <<breaker, has_transport>>

\* complete_json with no transport: a failure, and RuntimeError.
CallWithoutTransport(c) ==
  /\ ~ Refused
  /\ ~ has_transport
  /\ c \notin flight
  /\ breaker' = RecordFailure(breaker)
  /\ UNCHANGED <<flight, has_transport>>

CallSucceeds(c) ==
  /\ c \in flight
  /\ flight' = flight \ {c}
  /\ breaker' = RecordSuccess(breaker)
  /\ UNCHANGED has_transport

\* Mutant: a call that timed out is not cancelled.
FailsUncancelled(c) ==
  /\ c \in flight
  /\ breaker' = RecordFailure(breaker)
  /\ UNCHANGED <<flight, has_transport>>

\* The transport raises, or wait_for cancels it at the timeout.
CallFails(c) ==
  /\ c \in flight
  /\ flight' = flight \ {c}
  /\ breaker' = RecordFailure(breaker)
  /\ UNCHANGED has_transport

LLMNext ==
  \E c \in Callers :
    StartCall(c) \/ CallWithoutTransport(c) \/ CallSucceeds(c) \/ CallFails(c)

LLMSpec == LLMInit /\ [][LLMNext]_llm_vars

\* Callers keep calling, and every call ends, at the latest by its timeout.
LLMFairness ==
  /\ WF_llm_vars(\E c \in Callers : StartCall(c))
  /\ \A c \in Callers : WF_llm_vars(CallSucceeds(c) \/ CallFails(c))

FairLLMSpec == LLMSpec /\ LLMFairness

--------------------------------------------------------------------------------
(***************************************************************************)
(* Properties.                                                             *)
(***************************************************************************)

\* What the client can hold.
LLMTypeOK ==
  /\ breaker \in [state : {"closed", "open"}, failure_count : Nat]
  /\ flight \in SUBSET Callers
  /\ has_transport \in BOOLEAN

\* State and count of the breaker tell the same story whatever order calls end
\* in, including calls that were let through before it opened and end after: it
\* is open exactly while the failures since the last success reach the threshold.
OpenIffExhausted == Refused <=> breaker.failure_count >= FailureThreshold

\* An outage costs a bounded number of calls: since the last success at most the
\* failures below the threshold plus one call per caller, which may all have been
\* in the air when the breaker opened.
OutageBounded ==
  breaker.failure_count + Cardinality(flight)
    <= FailureThreshold - 1 + Cardinality(Callers)

\* README.md, Observability & resilience: the breaker opens after failures and "a
\* success resets it".  If calls stop failing, the breaker is closed again and again.
Recovers ==
  has_transport /\ <>[][\A c \in Callers : ~ CallFails(c)]_llm_vars => []<>(~ Refused)
================================================================================
