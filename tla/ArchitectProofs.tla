----------------------------- MODULE ArchitectProofs -----------------------------
(***************************************************************************)
(* Proofs about LLMClient and ArchitectWorkflow.                           *)
(*                                                                         *)
(* LLMInv is inductive as it stands: the three properties of the client    *)
(* support each other.  A call starts only while the breaker is closed, so *)
(* the count is below the threshold then; and a call that ends moves at    *)
(* most one unit from Cardinality(flight) to the count.                    *)
(*                                                                         *)
(* Of the workflow, WorkflowInv joins to the types what holds of a task    *)
(* between two of its steps: who has the event loop, who is in the air,    *)
(* which verdicts a phase stands on, and how many configurations were      *)
(* made.  It is inductive; the properties are read off it.  The refinement *)
(* of TaskLifecycle needs WorkflowInv too, for a task can only end while   *)
(* it is "running".                                                        *)
(***************************************************************************)
EXTENDS ArchitectWorkflow, FiniteSetTheorems, SequenceTheorems, TLAPS

--------------------------------------------------------------------------------
\* The client and its circuit breaker.

LLMInv == LLMTypeOK /\ OpenIffExhausted /\ OutageBounded

\* The set of calls in the air is finite and no larger than the set of callers;
\* the cardinality follows a caller that joins or leaves it.
LEMMA FlightCardinality ==
  ASSUME NEW F \in SUBSET Callers, NEW c \in Callers
  PROVE  /\ IsFiniteSet(F)
         /\ Cardinality(F) \in Nat
         /\ Cardinality(Callers) \in Nat
         /\ Cardinality(F) <= Cardinality(Callers)
         /\ c \notin F => /\ Cardinality(F \cup {c}) = Cardinality(F) + 1
                          /\ Cardinality(F \cup {c}) <= Cardinality(Callers)
         /\ c \in F => Cardinality(F \ {c}) = Cardinality(F) - 1
<1>1. IsFiniteSet(Callers) BY CallersAssumption
<1>2. IsFiniteSet(F) /\ Cardinality(F) <= Cardinality(Callers) BY <1>1, FS_Subset
<1>3. Cardinality(F) \in Nat /\ Cardinality(Callers) \in Nat
  BY <1>1, <1>2, FS_CardinalityType
<1>4. ASSUME c \notin F
      PROVE  Cardinality(F \cup {c}) = Cardinality(F) + 1
  BY <1>2, <1>4, FS_AddElement
<1>5. Cardinality(F \cup {c}) <= Cardinality(Callers)
  <2>1. F \cup {c} \in SUBSET Callers OBVIOUS
  <2> QED BY <1>1, <2>1, FS_Subset
<1>6. ASSUME c \in F
      PROVE  Cardinality(F \ {c}) = Cardinality(F) - 1
  BY <1>2, <1>6, FS_RemoveElement
<1> QED BY <1>2, <1>3, <1>4, <1>5, <1>6

LEMMA LLMInitial == LLMInit => LLMInv
<1> SUFFICES ASSUME LLMInit PROVE LLMInv OBVIOUS
<1>1. Cardinality({}) = 0 /\ Cardinality(Callers) \in Nat
  BY CallersAssumption, FS_EmptySet, FS_CardinalityType
<1> QED BY <1>1, BreakerAssumption
        DEF LLMInit, LLMInv, LLMTypeOK, OpenIffExhausted, OutageBounded, Refused,
            ClosedBreaker

\* Every step of the client keeps state and count together and the outage bounded.
LEMMA LLMInductive == LLMInv /\ [LLMNext]_llm_vars => LLMInv'
<1> SUFFICES ASSUME LLMInv, [LLMNext]_llm_vars PROVE LLMInv' OBVIOUS
<1> USE BreakerAssumption
<1> DEFINE size == Cardinality(flight)
           all  == Cardinality(Callers)
<1>1. ASSUME NEW c \in Callers, StartCall(c) PROVE LLMInv'
  <2>1. /\ Cardinality(flight') <= all /\ Cardinality(flight') \in Nat /\ all \in Nat
        /\ flight' \in SUBSET Callers
    BY <1>1, FlightCardinality DEF StartCall, LLMInv, LLMTypeOK
  <2>2. breaker' = breaker /\ has_transport' = has_transport /\ ~ Refused
    BY <1>1 DEF StartCall
  <2>3. breaker.failure_count \in Nat /\ breaker.failure_count < FailureThreshold
    BY <2>2 DEF LLMInv, LLMTypeOK, OpenIffExhausted
  <2>4. OutageBounded' BY <2>1, <2>2, <2>3 DEF OutageBounded
  <2> QED BY <2>1, <2>2, <2>4 DEF LLMInv, LLMTypeOK, OpenIffExhausted, Refused
<1>2. ASSUME NEW c \in Callers, CallWithoutTransport(c) PROVE LLMInv'
  <2>1. size + 1 <= all /\ size \in Nat /\ all \in Nat
    BY <1>2, FlightCardinality DEF CallWithoutTransport, LLMInv, LLMTypeOK
  <2>2. /\ flight' = flight /\ has_transport' = has_transport /\ ~ Refused
        /\ breaker' = RecordFailure(breaker)
    BY <1>2 DEF CallWithoutTransport
  <2>3. breaker.failure_count \in Nat /\ breaker.failure_count < FailureThreshold
    BY <2>2 DEF LLMInv, LLMTypeOK, OpenIffExhausted
  <2>4. /\ breaker'.failure_count = breaker.failure_count + 1
        /\ breaker' \in [state : {"closed", "open"}, failure_count : Nat]
        /\ breaker'.state = "open" <=> breaker'.failure_count >= FailureThreshold
    BY <2>2, <2>3 DEF RecordFailure, LLMInv, LLMTypeOK, Refused
  <2>5. OutageBounded' BY <2>1, <2>2, <2>3, <2>4 DEF OutageBounded
  <2> QED BY <2>2, <2>4, <2>5 DEF LLMInv, LLMTypeOK, OpenIffExhausted, Refused
<1>3. ASSUME NEW c \in Callers, CallSucceeds(c) PROVE LLMInv'
  <2>1. /\ Cardinality(flight') = size - 1 /\ size <= all
        /\ size \in Nat /\ all \in Nat /\ flight' \in SUBSET Callers
    BY <1>3, FlightCardinality DEF CallSucceeds, LLMInv, LLMTypeOK
  <2>2. /\ breaker' \in [state : {"closed", "open"}, failure_count : Nat]
        /\ breaker'.failure_count = 0 /\ breaker'.state = "closed"
        /\ has_transport' = has_transport
    BY <1>3 DEF CallSucceeds, RecordSuccess, LLMInv, LLMTypeOK
  <2>3. OutageBounded' BY <2>1, <2>2 DEF OutageBounded
  <2> QED BY <2>1, <2>2, <2>3 DEF LLMInv, LLMTypeOK, OpenIffExhausted, Refused
<1>4. ASSUME NEW c \in Callers, CallFails(c) PROVE LLMInv'
  <2>1. /\ Cardinality(flight') = size - 1
        /\ size \in Nat /\ all \in Nat /\ flight' \in SUBSET Callers
    BY <1>4, FlightCardinality DEF CallFails, LLMInv, LLMTypeOK
  <2>2. /\ breaker'.failure_count = breaker.failure_count + 1
        /\ breaker.failure_count \in Nat
        /\ breaker' \in [state : {"closed", "open"}, failure_count : Nat]
        /\ breaker'.state = "open" <=> breaker'.failure_count >= FailureThreshold
        /\ has_transport' = has_transport
    BY <1>4 DEF CallFails, RecordFailure, LLMInv, LLMTypeOK, OpenIffExhausted, Refused
  <2>3. OutageBounded' BY <2>1, <2>2 DEF OutageBounded, LLMInv
  <2> QED BY <2>1, <2>2, <2>3 DEF LLMInv, LLMTypeOK, OpenIffExhausted, Refused
<1>5. ASSUME UNCHANGED llm_vars PROVE LLMInv'
  BY <1>5 DEF llm_vars, LLMInv, LLMTypeOK, OpenIffExhausted, OutageBounded, Refused
<1> QED BY <1>1, <1>2, <1>3, <1>4, <1>5 DEF LLMNext

LEMMA LLMInvHolds == LLMSpec => []LLMInv
BY LLMInitial, LLMInductive, PTL DEF LLMSpec

\* State and count of the breaker agree, for any number of concurrent callers and
\* any threshold.
THEOREM OpenIffExhaustedHolds == LLMSpec => []OpenIffExhausted
<1>1. LLMInv => OpenIffExhausted BY DEF LLMInv
<1> QED BY <1>1, LLMInvHolds, PTL

\* An outage costs at most the failures below the threshold and one call per caller.
THEOREM OutageBoundedHolds == LLMSpec => []OutageBounded
<1>1. LLMInv => OutageBounded BY DEF LLMInv
<1> QED BY <1>1, LLMInvHolds, PTL

--------------------------------------------------------------------------------
\* The workflow.

\* What holds of a task in state s, with the loop or without.
TaskInv(s) ==
  /\ s.status # "running" => s.waiting = "no"
  /\ s.status \in {"unsubmitted", "queued"} =>
       /\ s.phase = "plan" /\ s.iteration = 1 /\ s.rounds = 0 /\ s.error = "none"
  /\ s.waiting = "delay" => s.phase = "sandbox"
  /\ s.waiting = "llm" => s.phase \in {"plan", "codegen", "critic"}
  /\ s.phase = "plan" => s.iteration = 1 /\ s.rounds = 0
  /\ s.phase \in {"codegen", "critic", "sandbox"} => s.plan \in Plans
  /\ s.phase = "codegen" => s.rounds = s.iteration - 1
  /\ s.phase \in {"critic", "sandbox"} => s.config \in Configs /\ s.rounds = s.iteration
  /\ s.phase = "critic" /\ s.waiting = "llm" => s.config \in Clean
  /\ s.phase \in {"sandbox", "complete"} =>
       s.config \in Clean /\ s.critic = Verdict(s.config, TRUE)
  /\ s.phase = "complete" =>
       /\ SandboxVerdict[s.config] = "passed"
       /\ s.sandbox = Verdict(s.config, TRUE)
  /\ s.phase = "dead_letter" =>
       /\ s.rounds = MaxIterations
       /\ s.critic = Verdict(s.config, FALSE) \/ s.sandbox = Verdict(s.config, FALSE)
  /\ s.rounds <= MaxIterations
  /\ s.status \in {"queued", "running"} => s.error = "none"
  /\ s.status = "succeeded" => s.phase = "complete" /\ s.error = "none"
  /\ s.error = "exhausted" => s.phase = "dead_letter"

WorkflowInv ==
  /\ TypeOK
  /\ \A t \in Callers : TaskInv(task[t])
  /\ CallsAwaited
  /\ event_loop # Idle =>
       task[event_loop].status = "running" /\ task[event_loop].waiting = "no"

\* A task that has the event loop, or takes it.
Live(s) ==
  s \in ArchitectTask /\ TaskInv(s) /\ s.status = "running" /\ s.waiting = "no"

--------------------------------------------------------------------------------
\* What agents and sandbox leave behind is the state of a live task.

LEMMA RaisedLive ==
  ASSUME NEW s, Live(s) PROVE Live(Raised(s))
BY DEF Live, Raised, TaskInv, ArchitectTask, Phases, MaxIterations

LEMMA PlannedLive ==
  ASSUME NEW s, Live(s), s.phase = "plan", NEW plan \in Plans \cup {NoPlan}
  PROVE  Live(Planned(s, plan))
<1>1. CASE plan = NoPlan BY <1>1, RaisedLive DEF Planned
<1>2. CASE plan # NoPlan
  <2> DEFINE n == [s EXCEPT !.plan = plan, !.phase = "codegen"]
  <2>1. n \in ArchitectTask BY DEF Live, ArchitectTask, Phases
  <2>2. TaskInv(n) /\ n.status = "running" /\ n.waiting = "no"
    BY <1>2 DEF Live, TaskInv, ArchitectTask, MaxIterations
  <2> QED BY <1>2, <2>1, <2>2 DEF Live, Planned
<1> QED BY <1>1, <1>2

LEMMA GeneratedLive ==
  ASSUME NEW s, Live(s), s.phase = "codegen", NEW config \in Configs \cup {NoConfig}
  PROVE  Live(Generated(s, config))
<1>1. CASE config = NoConfig BY <1>1, RaisedLive DEF Generated
<1>2. CASE config # NoConfig
  <2> DEFINE n == [s EXCEPT !.config = config, !.phase = "critic", !.rounds = @ + 1]
  <2>0. s \in ArchitectTask /\ s.rounds + 1 \in Nat BY DEF Live, ArchitectTask
  <2>1. n \in ArchitectTask BY <2>0, Zenon DEF ArchitectTask, Phases
  <2>2. TaskInv(n) /\ n.status = "running" /\ n.waiting = "no"
    BY <1>2 DEF Live, TaskInv, ArchitectTask, MaxIterations
  <2> QED BY <1>2, <2>1, <2>2 DEF Live, Generated
<1> QED BY <1>1, <1>2

\* A negative verdict on the configuration at hand sends a task back, or ends it.
LEMMA RetriedLive ==
  ASSUME NEW s, Live(s), s.phase \in {"critic", "sandbox"},
         NEW n \in ArchitectTask, n.status = "running", n.waiting = "no",
         n.iteration = s.iteration, n.rounds = s.rounds, n.plan \in Plans,
         n.error = s.error, n.config = s.config,
         n.critic = Verdict(n.config, FALSE) \/ n.sandbox = Verdict(n.config, FALSE)
  PROVE  Live(Retried(n))
<1>1. s.rounds = s.iteration /\ s.error = "none" BY DEF Live, TaskInv
<1>2. n.iteration \in 1 .. 3 /\ n.rounds \in Nat BY DEF ArchitectTask, MaxIterations
<1>3. CASE n.iteration < MaxIterations
  <2> DEFINE m == [n EXCEPT !.iteration = @ + 1, !.phase = "codegen"]
  <2>1. n.iteration + 1 \in 1 .. MaxIterations BY <1>2, <1>3 DEF MaxIterations
  <2>2. m \in ArchitectTask BY <2>1, Zenon DEF ArchitectTask, Phases
  <2>3. /\ m.phase = "codegen" /\ m.iteration = n.iteration + 1 /\ m.rounds = n.rounds
        /\ m.plan = n.plan /\ m.waiting = "no" /\ m.status = "running" /\ m.error = "none"
    BY <1>1 DEF ArchitectTask
  <2>4. TaskInv(m)
    <3> HIDE DEF m
    <3> QED BY <1>1, <1>2, <1>3, <2>3 DEF TaskInv, MaxIterations
  <2> QED BY <1>3, <2>2, <2>3, <2>4 DEF Live, Retried
<1>4. CASE ~ (n.iteration < MaxIterations)
  <2> DEFINE m == [n EXCEPT !.phase = "dead_letter"]
  <2>1. m \in ArchitectTask BY Zenon DEF ArchitectTask, Phases
  <2>2. /\ m.phase = "dead_letter" /\ m.rounds = n.rounds /\ m.config = n.config
        /\ m.critic = n.critic /\ m.sandbox = n.sandbox
        /\ m.waiting = "no" /\ m.status = "running" /\ m.error = "none"
    BY <1>1 DEF ArchitectTask
  <2>3. n.rounds = MaxIterations BY <1>1, <1>2, <1>4 DEF MaxIterations
  <2>4. TaskInv(m)
    <3> HIDE DEF m
    <3> QED BY <2>2, <2>3 DEF TaskInv, MaxIterations, Verdict
  <2> QED BY <1>4, <2>1, <2>2, <2>4 DEF Live, Retried
<1> QED BY <1>3, <1>4

LEMMA ReviewedLive ==
  ASSUME NEW s, Live(s), s.phase = "critic", NEW passed \in BOOLEAN,
         passed => s.config \in Clean
  PROVE  Live(Reviewed(s, passed))
<1> DEFINE n == [s EXCEPT !.critic = Verdict(s.config, passed)]
<1>1. s \in ArchitectTask /\ s.config \in Configs /\ s.plan \in Plans
  BY DEF Live, TaskInv
<1>2. n \in ArchitectTask
  <2>1. Verdict(s.config, passed) \in Verdicts BY <1>1 DEF Verdict, Verdicts
  <2> QED BY <1>1, <2>1, Zenon DEF ArchitectTask
<1>3. /\ n.status = "running" /\ n.waiting = "no" /\ n.iteration = s.iteration
      /\ n.rounds = s.rounds /\ n.plan = s.plan /\ n.error = s.error
      /\ n.config = s.config /\ n.critic = Verdict(s.config, passed)
  BY <1>1 DEF Live, ArchitectTask
<1>4. CASE passed = TRUE
  <2> DEFINE m == [n EXCEPT !.phase = "sandbox"]
  <2>1. m \in ArchitectTask BY <1>2, Zenon DEF ArchitectTask, Phases
  <2>2. /\ m.phase = "sandbox" /\ m.status = "running" /\ m.waiting = "no"
        /\ m.rounds = s.rounds /\ m.iteration = s.iteration /\ m.plan = s.plan
        /\ m.error = s.error /\ m.config = s.config
        /\ m.critic = Verdict(s.config, TRUE)
    BY <1>2, <1>3, <1>4 DEF ArchitectTask
  <2>3. TaskInv(m)
    <3> HIDE DEF m, n
    <3> QED BY <1>1, <1>4, <2>2 DEF Live, TaskInv, Verdict
  <2> QED BY <1>4, <2>1, <2>2, <2>3 DEF Live, Reviewed
<1>5. CASE passed = FALSE
  <2>1. n.critic = Verdict(n.config, FALSE) BY <1>3, <1>5
  <2>2. Live(Retried(n))
    <3> HIDE DEF n
    <3> QED BY <1>1, <1>2, <1>3, <2>1, RetriedLive
  <2> QED BY <1>5, <2>2 DEF Reviewed
<1> QED BY <1>4, <1>5

LEMMA RejectedLive ==
  ASSUME NEW s, Live(s), s.phase = "critic" PROVE Live(Rejected(s))
<1> DEFINE n == [s EXCEPT !.feedback = s.config]
           no == FALSE
<1>1. n \in ArchitectTask BY Zenon DEF Live, TaskInv, ArchitectTask
<1>2. TaskInv(n) /\ n.status = "running" /\ n.waiting = "no" /\ n.phase = "critic"
  BY DEF Live, TaskInv, ArchitectTask
<1>3. Live(n) BY <1>1, <1>2 DEF Live
<1>4. Live(Reviewed(n, no))
  <2>1. no \in BOOLEAN /\ (no => n.config \in Clean) OBVIOUS
  <2> HIDE DEF n, no
  <2> QED BY <1>2, <1>3, <2>1, ReviewedLive
<1> QED BY <1>4 DEF Rejected

LEMMA SimulatedLive ==
  ASSUME NEW s \in ArchitectTask, TaskInv(s), s.status = "running", s.phase = "sandbox"
  PROVE  Live(Simulated(s))
<1> DEFINE r == [s EXCEPT !.waiting = "no"]
           passed == SandboxVerdict[s.config] = "passed"
           n == [s EXCEPT !.sandbox = Verdict(s.config, passed), !.waiting = "no"]
<1>1. /\ s.config \in Configs /\ s.config \in Clean /\ s.plan \in Plans
      /\ s.critic = Verdict(s.config, TRUE)
  BY DEF TaskInv
<1>2. Live(r)
  <2>1. r \in ArchitectTask BY Zenon DEF ArchitectTask
  <2>2. TaskInv(r) /\ r.status = "running" /\ r.waiting = "no"
    BY DEF TaskInv, ArchitectTask
  <2> QED BY <2>1, <2>2 DEF Live
<1>3. passed \in BOOLEAN OBVIOUS
<1>4. n \in ArchitectTask
  <2>1. Verdict(s.config, passed) \in Verdicts BY <1>1, <1>3 DEF Verdict, Verdicts
  <2> HIDE DEF passed
  <2> QED BY <2>1, Zenon DEF ArchitectTask
<1>5. /\ n.status = "running" /\ n.waiting = "no" /\ n.iteration = s.iteration
      /\ n.rounds = s.rounds /\ n.plan = s.plan /\ n.error = s.error
      /\ n.config = s.config /\ n.critic = s.critic
      /\ n.sandbox = Verdict(s.config, passed)
  <2> HIDE DEF passed
  <2> QED BY DEF ArchitectTask
<1>6. CASE SandboxVerdict[s.config] = "raised"
  BY <1>2, <1>6, RaisedLive DEF Simulated
<1>7. CASE passed /\ SandboxVerdict[s.config] # "raised"
  <2> DEFINE m == [n EXCEPT !.phase = "complete"]
  <2>1. m \in ArchitectTask
    <3> HIDE DEF n
    <3> QED BY <1>4, Zenon DEF ArchitectTask, Phases
  <2>2. /\ m.phase = "complete" /\ m.status = "running" /\ m.waiting = "no"
        /\ m.rounds = s.rounds /\ m.error = s.error /\ m.config = s.config
        /\ m.critic = s.critic /\ m.sandbox = Verdict(s.config, passed)
    <3> HIDE DEF n
    <3> QED BY <1>4, <1>5 DEF ArchitectTask
  <2>3. m.sandbox = Verdict(s.config, TRUE) BY <1>7, <2>2
  <2>4. TaskInv(m)
    <3> HIDE DEF m, n
    <3> QED BY <1>1, <1>7, <2>2, <2>3 DEF TaskInv, Verdict
  <2> QED BY <1>7, <2>1, <2>2, <2>4 DEF Live, Simulated
<1>8. CASE ~ passed /\ SandboxVerdict[s.config] # "raised"
  <2> DEFINE m == [n EXCEPT !.feedback = s.config]
  <2>1. m \in ArchitectTask
    <3> HIDE DEF n
    <3> QED BY <1>1, <1>4, Zenon DEF ArchitectTask
  <2>2. /\ m.status = "running" /\ m.waiting = "no" /\ m.iteration = r.iteration
        /\ m.rounds = r.rounds /\ m.plan \in Plans /\ m.error = r.error
        /\ m.config = r.config /\ m.config = s.config
        /\ m.sandbox = Verdict(s.config, passed) /\ r.phase = "sandbox"
    <3>1. /\ r.iteration = s.iteration /\ r.rounds = s.rounds /\ r.error = s.error
          /\ r.config = s.config /\ r.phase = s.phase
      BY DEF ArchitectTask
    <3>2. /\ m.status = n.status /\ m.waiting = n.waiting /\ m.iteration = n.iteration
          /\ m.rounds = n.rounds /\ m.plan = n.plan /\ m.error = n.error
          /\ m.config = n.config /\ m.sandbox = n.sandbox
      <4> HIDE DEF n
      <4> QED BY <1>4 DEF ArchitectTask
    <3> HIDE DEF m, n, r, passed
    <3> QED BY <1>1, <1>5, <3>1, <3>2
  <2>3. m.sandbox = Verdict(m.config, FALSE) BY <1>8, <2>2
  <2>4. Live(Retried(m))
    <3> HIDE DEF m, n, r, passed
    <3> QED BY <1>2, <2>1, <2>2, <2>3, RetriedLive
  <2>5. Simulated(s) = Retried(m) BY <1>8 DEF Simulated
  <2> QED BY <2>4, <2>5
<1> QED BY <1>6, <1>7, <1>8

\* Every agent's fallback leaves a live task: it exists for every phase that asks.
LEMMA FellBackLive ==
  ASSUME NEW s, Live(s),
         s.phase \in {"plan", "codegen"} \/ (s.phase = "critic" /\ s.config \in Clean)
  PROVE  Live(FellBack(s))
<1>1. CASE s.phase = "plan"
  <2>1. FallbackPlan[s.raw_spec] \in Plans \cup {NoPlan}
    BY WorkflowAssumption DEF Live, ArchitectTask
  <2> QED BY <1>1, <2>1, PlannedLive DEF FellBack
<1>2. CASE s.phase = "codegen"
  <2>1. FallbackConfig[s.plan] \in Configs \cup {NoConfig}
    BY <1>2, WorkflowAssumption DEF Live, TaskInv
  <2> QED BY <1>2, <2>1, GeneratedLive DEF FellBack
<1>3. CASE s.phase = "critic" /\ s.config \in Clean
  <2> DEFINE yes == TRUE
  <2>1. yes \in BOOLEAN /\ (yes => s.config \in Clean) BY <1>3
  <2>2. Live(Reviewed(s, yes))
    <3> HIDE DEF yes
    <3> QED BY <1>3, <2>1, ReviewedLive
  <2> QED BY <1>3, <2>2 DEF FellBack
<1> QED BY <1>1, <1>2, <1>3

LEMMA AcceptedLive ==
  ASSUME NEW s, Live(s),
         s.phase \in {"plan", "codegen"} \/ (s.phase = "critic" /\ s.config \in Clean),
         NEW n \in Accepted(s)
  PROVE  Live(n)
<1>1. CASE s.phase = "plan" BY <1>1, PlannedLive DEF Accepted
<1>2. CASE s.phase = "codegen" BY <1>2, GeneratedLive DEF Accepted
<1>3. CASE s.phase = "critic" /\ s.config \in Clean
  BY <1>3, ReviewedLive DEF Accepted
<1> QED BY <1>1, <1>2, <1>3

--------------------------------------------------------------------------------
\* The invariant.

LEMMA Initial == Init => WorkflowInv
<1> SUFFICES ASSUME Init PROVE WorkflowInv OBVIOUS
<1>1. LLMTypeOK /\ flight = {} BY LLMInitial DEF Init, LLMInit, LLMInv
<1>2. NewTask \in ArchitectTask
  <2>1. (CHOOSE raw_spec \in RawSpecs : TRUE) \in RawSpecs BY WorkflowAssumption
  <2>2. NoVerdict \in Verdicts BY DEF NoVerdict, Verdict, Verdicts
  <2>3. 1 \in 1 .. MaxIterations /\ 0 \in Nat BY DEF MaxIterations
  <2> QED BY <2>1, <2>2, <2>3, Zenon DEF NewTask, ArchitectTask, TaskStatus, Phases
<1>3. /\ NewTask.status = "unsubmitted" /\ NewTask.waiting = "no"
      /\ NewTask.phase = "plan" /\ NewTask.iteration = 1 /\ NewTask.rounds = 0
      /\ NewTask.error = "none"
  BY DEF NewTask
<1>4. TaskInv(NewTask) BY <1>3 DEF TaskInv, MaxIterations
<1>5. TypeOK BY <1>1, <1>2 DEF TypeOK, Init
<1> QED BY <1>1, <1>3, <1>4, <1>5 DEF WorkflowInv, CallsAwaited, Init

\* Steps change one task; the rest of the invariant follows from its new state n.
LEMMA OneTask ==
  ASSUME WorkflowInv, NEW t \in Callers, NEW n \in ArchitectTask, TaskInv(n),
         task' = [task EXCEPT ![t] = n],
         LLMTypeOK', dlq' \in Seq(Callers),
         flight' \ {t} = flight \ {t},
         t \in flight' <=> n.status = "running" /\ n.waiting = "llm",
         \/ event_loop' = Idle
         \/ event_loop' = t /\ n.status = "running" /\ n.waiting = "no"
  PROVE  WorkflowInv'
<1>1. task' \in [Callers -> ArchitectTask] /\ task'[t] = n
  BY DEF WorkflowInv, TypeOK
<1>2. \A u \in Callers \ {t} : task'[u] = task[u] BY DEF WorkflowInv, TypeOK
<1>3. event_loop' \in Callers \cup {Idle} OBVIOUS
<1>4. \A u \in Callers : TaskInv(task'[u]) BY <1>1, <1>2 DEF WorkflowInv
<1>5. CallsAwaited'
  <2>1. flight \subseteq Callers /\ flight' \subseteq Callers
    BY DEF WorkflowInv, TypeOK, LLMTypeOK
  <2>2. ASSUME NEW u \in Callers
        PROVE  u \in flight' <=> task'[u].status = "running" /\ task'[u].waiting = "llm"
    <3>1. CASE u = t BY <3>1, <1>1
    <3>2. CASE u # t
      <4>1. u \in flight' <=> u \in flight BY <3>2
      <4>2. u \in flight <=> task[u].status = "running" /\ task[u].waiting = "llm"
        BY DEF WorkflowInv, CallsAwaited
      <4> QED BY <3>2, <4>1, <4>2, <1>2
    <3> QED BY <3>1, <3>2
  <2> QED BY <2>1, <2>2 DEF CallsAwaited
<1>6. event_loop' # Idle =>
        task'[event_loop'].status = "running" /\ task'[event_loop'].waiting = "no"
  BY <1>1
<1> QED BY <1>1, <1>3, <1>4, <1>5, <1>6 DEF WorkflowInv, TypeOK

\* The task that has the event loop is live and not in the air.
LEMMA RunnerLive ==
  ASSUME WorkflowInv, NEW t \in Callers, Runs(t)
  PROVE  Live(task[t]) /\ t \notin flight
<1>1. event_loop = t /\ t # Idle BY WorkflowAssumption DEF Runs
<1> QED BY <1>1 DEF WorkflowInv, TypeOK, CallsAwaited, Live

\* A step of the task with the loop that leaves client and dead letters alone.
LEMMA KeepsLoop ==
  ASSUME WorkflowInv, NEW t \in Callers, Runs(t), NEW n, Live(n),
         task' = [task EXCEPT ![t] = n], event_loop' = t, dlq' = dlq,
         LLMTypeOK', flight' = flight
  PROVE  WorkflowInv'
<1>1. t \notin flight BY RunnerLive
<1>2. dlq' \in Seq(Callers) BY DEF WorkflowInv, TypeOK
<1> QED BY <1>1, <1>2, OneTask DEF Live

LEMMA LLMTyped == LLMTypeOK /\ [LLMNext]_llm_vars => LLMTypeOK'
<1> SUFFICES ASSUME LLMTypeOK, [LLMNext]_llm_vars PROVE LLMTypeOK' OBVIOUS
<1>1. ASSUME NEW c \in Callers, StartCall(c) PROVE LLMTypeOK'
  BY <1>1 DEF StartCall, LLMTypeOK
<1>2. ASSUME NEW c \in Callers, CallWithoutTransport(c) PROVE LLMTypeOK'
  <2>1. breaker' \in [state : {"closed", "open"}, failure_count : Nat]
    BY <1>2 DEF CallWithoutTransport, RecordFailure, LLMTypeOK
  <2> QED BY <1>2, <2>1 DEF CallWithoutTransport, LLMTypeOK
<1>3. ASSUME NEW c \in Callers, CallSucceeds(c) PROVE LLMTypeOK'
  <2>1. breaker' \in [state : {"closed", "open"}, failure_count : Nat]
    BY <1>3 DEF CallSucceeds, RecordSuccess, LLMTypeOK
  <2> QED BY <1>3, <2>1 DEF CallSucceeds, LLMTypeOK
<1>4. ASSUME NEW c \in Callers, CallFails(c) PROVE LLMTypeOK'
  <2>1. breaker' \in [state : {"closed", "open"}, failure_count : Nat]
    BY <1>4 DEF CallFails, RecordFailure, LLMTypeOK
  <2> QED BY <1>4, <2>1 DEF CallFails, LLMTypeOK
<1>5. ASSUME UNCHANGED llm_vars PROVE LLMTypeOK' BY <1>5 DEF llm_vars, LLMTypeOK
<1> QED BY <1>1, <1>2, <1>3, <1>4, <1>5 DEF LLMNext

\* The workflow uses the client as LLMClient allows: its steps are the client's
\* steps, or leave the client alone.
LEMMA StepUsesClient == [Next]_vars => [LLMNext]_llm_vars
<1>1. ASSUME NEW t \in Callers, Submit(t) \/ Step(t) PROVE [LLMNext]_llm_vars
  <2>1. CASE CallLLM(t) BY <2>1 DEF CallLLM, LLMNext
  <2>2. CASE FallBackAtOnce(t) BY <2>2 DEF FallBackAtOnce, LLMNext
  <2>3. CASE ResumeFromLLM(t) BY <2>3 DEF ResumeFromLLM, LLMNext
  <2>4. CASE UNCHANGED llm_vars BY <2>4
  <2> QED
    BY <1>1, <2>1, <2>2, <2>3, <2>4
    DEF Step, Submit, RunTask, CriticRejects, RunSandbox, ResumeFromSandbox,
        Complete, DeadLetter, CatchException
<1> QED BY <1>1 DEF Next, vars

\* Each action of the workflow preserves the invariant.
LEMMA StepInductive ==
  ASSUME WorkflowInv, LLMTypeOK', NEW t \in Callers, Submit(t) \/ Step(t)
  PROVE  WorkflowInv'
<1> DEFINE s == task[t]
<1>0. /\ s \in ArchitectTask /\ TaskInv(s) /\ task \in [Callers -> ArchitectTask]
      /\ dlq \in Seq(Callers) /\ flight \subseteq Callers
      /\ t \in flight <=> s.status = "running" /\ s.waiting = "llm"
  BY DEF WorkflowInv, TypeOK, LLMTypeOK, CallsAwaited
<1>1. CASE Submit(t)
  <2>1. PICK raw_spec \in RawSpecs :
          task' = [task EXCEPT ![t].status = "queued", ![t].raw_spec = raw_spec]
    BY <1>1 DEF Submit
  <2> DEFINE n == [s EXCEPT !.status = "queued", !.raw_spec = raw_spec]
  <2>2. task' = [task EXCEPT ![t] = n] BY <1>0, <2>1
  <2>3. n \in ArchitectTask BY <1>0, Zenon DEF ArchitectTask, TaskStatus
  <2>4. s.status = "unsubmitted" /\ s.waiting = "no" BY <1>0, <1>1 DEF Submit, TaskInv
  <2>5. TaskInv(n) /\ n.status = "queued" BY <1>0, <2>4 DEF TaskInv, ArchitectTask
  <2>6. event_loop' = Idle /\ dlq' = dlq /\ flight' = flight
    BY <1>1 DEF Submit, llm_vars
  <2> HIDE DEF n
  <2> QED BY <1>0, <2>2, <2>3, <2>4, <2>5, <2>6, OneTask
<1>2. CASE RunTask(t)
  <2> DEFINE n == [s EXCEPT !.status = "running"]
  <2>1. task' = [task EXCEPT ![t] = n] BY <1>0, <1>2 DEF RunTask
  <2>2. n \in ArchitectTask BY <1>0, Zenon DEF ArchitectTask, TaskStatus
  <2>3. s.status = "queued" /\ s.waiting = "no" BY <1>0, <1>2 DEF RunTask, TaskInv
  <2>4. TaskInv(n) /\ n.status = "running" /\ n.waiting = "no"
    BY <1>0, <2>3 DEF TaskInv, ArchitectTask
  <2>5. event_loop' = t /\ dlq' = dlq /\ flight' = flight
    BY <1>2 DEF RunTask, llm_vars
  <2> HIDE DEF n
  <2> QED BY <1>0, <2>1, <2>2, <2>3, <2>4, <2>5, OneTask
<1>3. CASE CallLLM(t)
  <2> DEFINE n == [s EXCEPT !.waiting = "llm"]
  <2>1. task' = [task EXCEPT ![t] = n] BY <1>0, <1>3 DEF CallLLM
  <2>2. n \in ArchitectTask BY <1>0, Zenon DEF ArchitectTask
  <2>3. Live(s) BY <1>3, RunnerLive DEF CallLLM
  <2>4. TaskInv(n) /\ n.status = "running" /\ n.waiting = "llm"
    BY <1>3, <2>3 DEF CallLLM, AsksLLM, Live, TaskInv, ArchitectTask
  <2>5. event_loop' = Idle /\ dlq' = dlq /\ flight' = flight \cup {t}
    BY <1>3 DEF CallLLM, StartCall
  <2> HIDE DEF n
  <2> QED BY <1>0, <2>1, <2>2, <2>4, <2>5, OneTask
<1>4. CASE FallBackAtOnce(t)
  <2>1. Live(s) BY <1>4, RunnerLive DEF FallBackAtOnce
  <2>2. Live(FellBack(s)) BY <1>4, <2>1, FellBackLive DEF FallBackAtOnce, AsksLLM
  <2>3. /\ task' = [task EXCEPT ![t] = FellBack(s)] /\ event_loop' = t /\ dlq' = dlq
        /\ flight' = flight /\ Runs(t)
    BY <1>4 DEF FallBackAtOnce, Runs, llm_vars, CallWithoutTransport
  <2> QED BY <2>2, <2>3, KeepsLoop
<1>5. CASE ResumeFromLLM(t)
  <2> DEFINE r == [s EXCEPT !.waiting = "no"]
  <2>1. s.waiting = "llm" /\ s.status = "running" /\ t \in flight
    BY <1>0, <1>5 DEF ResumeFromLLM, TaskInv
  <2>2. r \in ArchitectTask BY <1>0, Zenon DEF ArchitectTask
  <2>3. /\ TaskInv(r) /\ r.status = "running" /\ r.waiting = "no"
        /\ r.phase \in {"plan", "codegen"} \/ (r.phase = "critic" /\ r.config \in Clean)
    BY <1>0, <2>1 DEF TaskInv, ArchitectTask
  <2>4. Live(r) BY <2>2, <2>3 DEF Live
  <2>5. PICK n \in Accepted(r) \cup {FellBack(r)} : task' = [task EXCEPT ![t] = n]
    BY <1>5 DEF ResumeFromLLM
  <2>6. Live(n)
    <3> HIDE DEF r
    <3> QED BY <2>3, <2>4, <2>5, AcceptedLive, FellBackLive
  <2>7. flight' = flight \ {t} /\ event_loop' = t /\ dlq' = dlq
    BY <1>5 DEF ResumeFromLLM, CallSucceeds, CallFails
  <2> QED BY <1>0, <2>5, <2>6, <2>7, OneTask DEF Live
<1>6. CASE CriticRejects(t)
  <2>1. Live(Rejected(s)) BY <1>6, RunnerLive, RejectedLive DEF CriticRejects
  <2>2. /\ task' = [task EXCEPT ![t] = Rejected(s)] /\ event_loop' = t /\ dlq' = dlq
        /\ flight' = flight /\ Runs(t)
    BY <1>6 DEF CriticRejects, Runs, llm_vars
  <2> QED BY <2>1, <2>2, KeepsLoop
<1>7. CASE RunSandbox(t)
  <2>1. Live(s) /\ t \notin flight /\ s.phase = "sandbox" /\ flight' = flight /\ dlq' = dlq
    BY <1>7, RunnerLive DEF RunSandbox, llm_vars
  <2>2. CASE s.config \in Slow
    <3> DEFINE n == [s EXCEPT !.waiting = "delay"]
    <3>1. task' = [task EXCEPT ![t] = n] /\ event_loop' = Idle
      BY <1>0, <1>7, <2>2 DEF RunSandbox
    <3>2. n \in ArchitectTask BY <1>0, Zenon DEF ArchitectTask
    <3>3. TaskInv(n) /\ n.waiting = "delay" BY <2>1 DEF Live, TaskInv, ArchitectTask
    <3> HIDE DEF n
    <3> QED BY <1>0, <2>1, <3>1, <3>2, <3>3, OneTask
  <2>3. CASE s.config \notin Slow
    <3>1. task' = [task EXCEPT ![t] = Simulated(s)] /\ event_loop' = t /\ Runs(t)
      BY <1>7, <2>3 DEF RunSandbox, Runs
    <3>2. Live(Simulated(s)) BY <2>1, SimulatedLive DEF Live
    <3> QED BY <2>1, <3>1, <3>2, KeepsLoop
  <2> QED BY <2>2, <2>3
<1>8. CASE ResumeFromSandbox(t)
  <2>1. /\ s.waiting = "delay" /\ s.status = "running" /\ s.phase = "sandbox"
        /\ t \notin flight
    BY <1>0, <1>8 DEF ResumeFromSandbox, TaskInv
  <2>2. Live(Simulated(s)) BY <1>0, <2>1, SimulatedLive
  <2>3. /\ task' = [task EXCEPT ![t] = Simulated(s)] /\ event_loop' = t /\ dlq' = dlq
        /\ flight' = flight
    BY <1>8 DEF ResumeFromSandbox, llm_vars
  <2> QED BY <1>0, <2>1, <2>2, <2>3, OneTask DEF Live
<1>9. CASE Complete(t)
  <2> DEFINE n == [s EXCEPT !.status = "succeeded"]
  <2>1. task' = [task EXCEPT ![t] = n] BY <1>0, <1>9 DEF Complete
  <2>2. n \in ArchitectTask BY <1>0, Zenon DEF ArchitectTask, TaskStatus
  <2>3. Live(s) /\ t \notin flight /\ s.phase = "complete"
    BY <1>9, RunnerLive DEF Complete
  <2>4. TaskInv(n) /\ n.status = "succeeded"
    BY <2>3 DEF Live, TaskInv, ArchitectTask
  <2>5. event_loop' = Idle /\ dlq' = dlq /\ flight' = flight
    BY <1>9 DEF Complete, llm_vars
  <2> HIDE DEF n
  <2> QED BY <1>0, <2>1, <2>2, <2>3, <2>4, <2>5, OneTask
<1>10. CASE DeadLetter(t)
  <2> DEFINE n == [s EXCEPT !.status = "dead_lettered", !.error = "exhausted"]
  <2>1. task' = [task EXCEPT ![t] = n] BY <1>0, <1>10 DEF DeadLetter
  <2>2. n \in ArchitectTask BY <1>0, Zenon DEF ArchitectTask, TaskStatus
  <2>3. Live(s) /\ t \notin flight /\ s.phase = "dead_letter"
    BY <1>10, RunnerLive DEF DeadLetter
  <2>4. TaskInv(n) /\ n.status = "dead_lettered"
    BY <2>3 DEF Live, TaskInv, ArchitectTask
  <2>5. event_loop' = Idle /\ dlq' \in Seq(Callers) /\ flight' = flight
    BY <1>0, <1>10 DEF DeadLetter, llm_vars
  <2> HIDE DEF n
  <2> QED BY <1>0, <2>1, <2>2, <2>3, <2>4, <2>5, OneTask
<1>11. CASE CatchException(t)
  <2> DEFINE n == [s EXCEPT !.status = "dead_lettered", !.error = "exception"]
  <2>1. task' = [task EXCEPT ![t] = n] BY <1>0, <1>11 DEF CatchException
  <2>2. n \in ArchitectTask BY <1>0, Zenon DEF ArchitectTask, TaskStatus
  <2>3. Live(s) /\ t \notin flight /\ s.phase = "raised"
    BY <1>11, RunnerLive DEF CatchException
  <2>4. TaskInv(n) /\ n.status = "dead_lettered"
    BY <2>3 DEF Live, TaskInv, ArchitectTask
  <2>5. event_loop' = Idle /\ dlq' \in Seq(Callers) /\ flight' = flight
    BY <1>0, <1>11 DEF CatchException, llm_vars
  <2> HIDE DEF n
  <2> QED BY <1>0, <2>1, <2>2, <2>3, <2>4, <2>5, OneTask
<1> QED
  BY <1>1, <1>2, <1>3, <1>4, <1>5, <1>6, <1>7, <1>8, <1>9, <1>10, <1>11 DEF Step

LEMMA WorkflowInductive == WorkflowInv /\ [Next]_vars => WorkflowInv'
<1> SUFFICES ASSUME WorkflowInv, [Next]_vars PROVE WorkflowInv' OBVIOUS
<1>1. LLMTypeOK' BY LLMTyped, StepUsesClient DEF WorkflowInv, TypeOK
<1>2. CASE Next BY <1>1, <1>2, StepInductive DEF Next
<1>3. CASE UNCHANGED vars
  BY <1>3 DEF vars, llm_vars, WorkflowInv, TypeOK, LLMTypeOK, CallsAwaited
<1> QED BY <1>2, <1>3

LEMMA WorkflowInvHolds == Spec => []WorkflowInv
BY Initial, WorkflowInductive, PTL DEF Spec

--------------------------------------------------------------------------------
\* The theorems.

\* Tasks, event loop and dead letters hold what they may, for any set of tasks.
THEOREM WorkflowTypeOKHolds == Spec => []TypeOK
<1>1. WorkflowInv => TypeOK BY DEF WorkflowInv
<1> QED BY <1>1, WorkflowInvHolds, PTL

\* What a succeeded task returns passed the critic and the sandbox, and the two
\* reports returned with it are about it.
THEOREM SucceededVerifiedHolds == Spec => []SucceededVerified
<1>1. WorkflowInv => SucceededVerified
  BY DEF WorkflowInv, TaskInv, SucceededVerified
<1> QED BY <1>1, WorkflowInvHolds, PTL

\* No interleaving of verdicts and failures gives a task a fourth configuration,
\* or gives one up as exhausted before the third.
THEOREM RetryBudgetHolds == Spec => []RetryBudget
<1>1. WorkflowInv => RetryBudget
  BY DEF WorkflowInv, TaskInv, TypeOK, ArchitectTask, RetryBudget, MaxIterations
<1> QED BY <1>1, WorkflowInvHolds, PTL

\* The calls in the air are those that running tasks await.
THEOREM CallsAwaitedHolds == Spec => []CallsAwaited
<1>1. WorkflowInv => CallsAwaited BY DEF WorkflowInv
<1> QED BY <1>1, WorkflowInvHolds, PTL

\* The workflow is a user of the client that LLMClient describes.
THEOREM WorkflowUsesClient == Spec => LLMSpec
<1>1. Init => LLMInit BY DEF Init
<1> QED BY <1>1, StepUsesClient, PTL DEF Spec, LLMSpec

\* So the breaker that the tasks share is open exactly while it is exhausted, and
\* an outage costs all tasks together a bounded number of calls.
THEOREM SharedBreaker == Spec => [](OpenIffExhausted /\ OutageBounded)
BY WorkflowUsesClient, OpenIffExhaustedHolds, OutageBoundedHolds, PTL

--------------------------------------------------------------------------------
\* The workflow implements TaskLifecycle.

LEMMA LifecycleInit == Init => Lifecycle!Init
<1> SUFFICES ASSUME Init PROVE Lifecycle!Init OBVIOUS
<1>1. \A t \in Callers : task[t].status = "unsubmitted" BY DEF Init, NewTask
<1> QED BY <1>1 DEF Init, Lifecycle!Init

\* A step that gives task t the state n and leaves the others alone.
LEMMA StatusOfOne ==
  ASSUME task \in [Callers -> ArchitectTask], NEW t \in Callers, NEW n,
         task' = [task EXCEPT ![t] = n]
  PROVE  [u \in Callers |-> task'[u].status]
           = [[u \in Callers |-> task[u].status] EXCEPT ![t] = n.status]
OBVIOUS

\* Every step of the workflow is a step of the lifecycle, or one it does not see.
LEMMA StepRefines ==
  ASSUME WorkflowInv, NEW t \in Callers, Submit(t) \/ Step(t)
  PROVE  [Lifecycle!Next]_(Lifecycle!lifecycle_vars)
<1> DEFINE status == [u \in Callers |-> task[u].status]
           s == task[t]
<1>0. /\ task \in [Callers -> ArchitectTask]
      /\ (event_loop = t => s.status = "running")
      /\ (s.waiting # "no" => s.status = "running")
      /\ t # Idle
  BY WorkflowAssumption DEF WorkflowInv, TypeOK, TaskInv
<1>1. CASE Submit(t)
  <2>1. PICK raw_spec \in RawSpecs :
          task' = [task EXCEPT ![t].status = "queued", ![t].raw_spec = raw_spec]
    BY <1>1 DEF Submit
  <2> DEFINE n == [s EXCEPT !.status = "queued", !.raw_spec = raw_spec]
  <2>2. task' = [task EXCEPT ![t] = n] BY <1>0, <2>1
  <2>3. n.status = "queued" BY <1>0 DEF ArchitectTask
  <2>4. status' = [status EXCEPT ![t] = "queued"]
    <3> HIDE DEF n
    <3> QED BY <1>0, <2>2, <2>3, StatusOfOne
  <2>5. status[t] = "unsubmitted" /\ dlq' = dlq BY <1>1 DEF Submit
  <2>6. Lifecycle!Submit(t) BY <2>4, <2>5 DEF Lifecycle!Submit, Lifecycle!Move
  <2> QED BY <2>6 DEF Lifecycle!Next
<1>2. CASE RunTask(t)
  <2> DEFINE n == [s EXCEPT !.status = "running"]
  <2>1. task' = [task EXCEPT ![t] = n] BY <1>0, <1>2 DEF RunTask
  <2>2. n.status = "running" BY <1>0 DEF ArchitectTask
  <2>3. status' = [status EXCEPT ![t] = "running"]
    <3> HIDE DEF n
    <3> QED BY <1>0, <2>1, <2>2, StatusOfOne
  <2>4. status[t] = "queued" /\ dlq' = dlq BY <1>2 DEF RunTask
  <2>5. Lifecycle!Start(t) BY <2>3, <2>4 DEF Lifecycle!Start, Lifecycle!Move
  <2> QED BY <2>5 DEF Lifecycle!Next
<1>3. CASE Complete(t)
  <2> DEFINE n == [s EXCEPT !.status = "succeeded"]
  <2>1. task' = [task EXCEPT ![t] = n] BY <1>0, <1>3 DEF Complete
  <2>2. n.status = "succeeded" BY <1>0 DEF ArchitectTask
  <2>3. status' = [status EXCEPT ![t] = "succeeded"]
    <3> HIDE DEF n
    <3> QED BY <1>0, <2>1, <2>2, StatusOfOne
  <2>4. status[t] = "running" /\ dlq' = dlq BY <1>0, <1>3 DEF Complete, Runs
  <2>5. Lifecycle!Succeed(t) BY <2>3, <2>4 DEF Lifecycle!Succeed, Lifecycle!Move
  <2> QED BY <2>5 DEF Lifecycle!Next
<1>4. CASE DeadLetter(t) \/ CatchException(t)
  <2>1. PICK reason \in {"exhausted", "exception"} :
          task' = [task EXCEPT ![t].status = "dead_lettered", ![t].error = reason]
    BY <1>4 DEF DeadLetter, CatchException
  <2> DEFINE n == [s EXCEPT !.status = "dead_lettered", !.error = reason]
  <2>2. task' = [task EXCEPT ![t] = n] BY <1>0, <2>1
  <2>3. n.status = "dead_lettered" BY <1>0 DEF ArchitectTask
  <2>4. status' = [status EXCEPT ![t] = "dead_lettered"]
    <3> HIDE DEF n
    <3> QED BY <1>0, <2>2, <2>3, StatusOfOne
  <2>5. status[t] = "running" /\ dlq' = Append(dlq, t)
    BY <1>0, <1>4 DEF DeadLetter, CatchException, Runs
  <2>6. Lifecycle!DeadLetter(t)
    BY <2>4, <2>5 DEF Lifecycle!DeadLetter, Lifecycle!Move
  <2> QED BY <2>6 DEF Lifecycle!Next
<1>5. ASSUME NEW n, task' = [task EXCEPT ![t] = n], n.status = s.status, dlq' = dlq
      PROVE  UNCHANGED <<status, dlq>>
  <2>1. status' = [status EXCEPT ![t] = s.status] BY <1>0, <1>5, StatusOfOne
  <2> QED BY <1>5, <2>1
<1>6. ASSUME CallLLM(t) \/ FallBackAtOnce(t) \/ ResumeFromLLM(t) \/ CriticRejects(t)
               \/ RunSandbox(t) \/ ResumeFromSandbox(t)
      PROVE  \E n : task' = [task EXCEPT ![t] = n] /\ n.status = s.status /\ dlq' = dlq
  <2>1. CASE CallLLM(t)
    BY <1>0, <2>1 DEF CallLLM, ArchitectTask
  <2>2. CASE FallBackAtOnce(t)
    <3>1. Live(s) BY <2>2, RunnerLive DEF FallBackAtOnce
    <3>2. Live(FellBack(s)) BY <2>2, <3>1, FellBackLive DEF FallBackAtOnce, AsksLLM
    <3> QED BY <2>2, <3>1, <3>2 DEF FallBackAtOnce, Live
  <2>3. CASE ResumeFromLLM(t)
    <3> DEFINE r == [s EXCEPT !.waiting = "no"]
    <3>1. s.waiting = "llm" /\ s.status = "running" BY <1>0, <2>3 DEF ResumeFromLLM
    <3>2. Live(r) /\ (r.phase \in {"plan", "codegen"}
                      \/ (r.phase = "critic" /\ r.config \in Clean))
      <4>1. TaskInv(s) /\ s \in ArchitectTask BY DEF WorkflowInv, TypeOK
      <4>2. r \in ArchitectTask BY <4>1, Zenon DEF ArchitectTask
      <4> QED BY <3>1, <4>1, <4>2 DEF TaskInv, ArchitectTask, Live
    <3>3. PICK n \in Accepted(r) \cup {FellBack(r)} : task' = [task EXCEPT ![t] = n]
      BY <2>3 DEF ResumeFromLLM
    <3>4. Live(n)
      <4> HIDE DEF r
      <4> QED BY <3>2, <3>3, AcceptedLive, FellBackLive
    <3> QED BY <2>3, <3>1, <3>3, <3>4 DEF ResumeFromLLM, Live
  <2>4. CASE CriticRejects(t)
    <3>1. Live(s) /\ Live(Rejected(s))
      BY <2>4, RunnerLive, RejectedLive DEF CriticRejects
    <3> QED BY <2>4, <3>1 DEF CriticRejects, Live
  <2>5. CASE RunSandbox(t)
    <3>1. Live(s) BY <2>5, RunnerLive DEF RunSandbox
    <3>2. CASE s.config \in Slow
      <4> DEFINE n == [s EXCEPT !.waiting = "delay"]
      <4>1. task' = [task EXCEPT ![t] = n] /\ dlq' = dlq
        BY <1>0, <2>5, <3>2 DEF RunSandbox
      <4>2. n.status = s.status BY <1>0 DEF ArchitectTask
      <4> QED BY <4>1, <4>2
    <3>3. CASE s.config \notin Slow
      <4>1. Live(Simulated(s)) BY <2>5, <3>1, SimulatedLive DEF Live, RunSandbox
      <4> QED BY <2>5, <3>1, <3>3, <4>1 DEF RunSandbox, Live
    <3> QED BY <3>2, <3>3
  <2>6. CASE ResumeFromSandbox(t)
    <3>1. /\ s \in ArchitectTask /\ TaskInv(s) /\ s.waiting = "delay"
          /\ s.status = "running" /\ s.phase = "sandbox"
      BY <1>0, <2>6 DEF ResumeFromSandbox, TaskInv, WorkflowInv, TypeOK
    <3>2. Live(Simulated(s)) BY <3>1, SimulatedLive
    <3> QED BY <2>6, <3>1, <3>2 DEF ResumeFromSandbox, Live
  <2> QED BY <1>6, <2>1, <2>2, <2>3, <2>4, <2>5, <2>6
<1>7. CASE CallLLM(t) \/ FallBackAtOnce(t) \/ ResumeFromLLM(t) \/ CriticRejects(t)
             \/ RunSandbox(t) \/ ResumeFromSandbox(t)
  BY <1>5, <1>6, <1>7 DEF Lifecycle!lifecycle_vars
<1> QED BY <1>1, <1>2, <1>3, <1>4, <1>7 DEF Step

LEMMA NextRefines == WorkflowInv /\ [Next]_vars => [Lifecycle!Next]_(Lifecycle!lifecycle_vars)
<1> SUFFICES ASSUME WorkflowInv, [Next]_vars
             PROVE  [Lifecycle!Next]_(Lifecycle!lifecycle_vars)
  OBVIOUS
<1>1. CASE Next BY <1>1, StepRefines DEF Next
<1>2. CASE UNCHANGED vars BY <1>2 DEF vars, Lifecycle!lifecycle_vars
<1> QED BY <1>1, <1>2

\* Whatever tasks, agents, breaker and event loop do, a task only moves from
\* unsubmitted to queued to running to one of its two ends, and becomes
\* dead_lettered in the step that queues it.
THEOREM ImplementsSafeLifecycle == Spec => Lifecycle!SafeSpec
BY LifecycleInit, NextRefines, WorkflowInvHolds, PTL DEF Spec, Lifecycle!SafeSpec

--------------------------------------------------------------------------------
\* The dead letters.

LettersOf(t) == {i \in DOMAIN dlq : dlq[i] = t}

LetterInv ==
  \A t \in Callers :
    IF task[t].status = "dead_lettered" THEN \E i \in DOMAIN dlq : LettersOf(t) = {i}
    ELSE LettersOf(t) = {}

\* The steps of the lifecycle keep the letters in line with the statuses.
LEMMA LetterInvStep ==
  TypeOK /\ LetterInv /\ [Lifecycle!Next]_(Lifecycle!lifecycle_vars) => LetterInv'
<1> SUFFICES ASSUME TypeOK, LetterInv, [Lifecycle!Next]_(Lifecycle!lifecycle_vars)
             PROVE  LetterInv'
  OBVIOUS
<1> DEFINE status == [u \in Callers |-> task[u].status]
           n      == Len(dlq) + 1
<1>0. dlq \in Seq(Callers) BY DEF TypeOK
<1>1. ASSUME dlq' = dlq,
             \A u \in Callers : status'[u] = status[u]
               \/ (status[u] # "dead_lettered" /\ status'[u] # "dead_lettered")
      PROVE  LetterInv'
  <2>1. \A u \in Callers : task'[u].status = "dead_lettered"
          <=> task[u].status = "dead_lettered"
    BY <1>1
  <2> QED BY <1>1, <2>1 DEF LetterInv, LettersOf
<1>2. CASE UNCHANGED <<status, dlq>>
  BY <1>1, <1>2
<1>3. ASSUME NEW t \in Callers, Lifecycle!DeadLetter(t)
      PROVE  LetterInv'
  <2>1. /\ status[t] = "running" /\ status' = [status EXCEPT ![t] = "dead_lettered"]
        /\ dlq' = Append(dlq, t)
    BY <1>3 DEF Lifecycle!DeadLetter, Lifecycle!Move
  <2>2. /\ task[t].status # "dead_lettered" /\ task'[t].status = "dead_lettered"
        /\ \A u \in Callers : u # t => task'[u].status = task[u].status
    <3>1. \A u \in Callers : status[u] = task[u].status /\ status'[u] = task'[u].status
      OBVIOUS
    <3> HIDE DEF status
    <3>2. DOMAIN status = Callers BY DEF status
    <3> QED BY <2>1, <3>1, <3>2
  <2>3. /\ DOMAIN dlq = 1 .. Len(dlq) /\ Len(dlq) \in Nat
        /\ DOMAIN dlq' = 1 .. Len(dlq) + 1
        /\ \A i \in 1 .. Len(dlq) : dlq'[i] = dlq[i]
        /\ dlq'[Len(dlq) + 1] = t
    BY <1>0, <2>1, AppendProperties, LenProperties
  <2>4. /\ n \in DOMAIN dlq' /\ n \notin DOMAIN dlq /\ dlq'[n] = t
        /\ \A i \in DOMAIN dlq : i \in DOMAIN dlq' /\ dlq'[i] = dlq[i]
        /\ \A i \in DOMAIN dlq' : i \in DOMAIN dlq \/ i = n
    BY <2>3
  <2> HIDE DEF n
  <2>5. LettersOf(t)' = {n}
    <3>1. LettersOf(t) = {} BY <2>2 DEF LetterInv
    <3> QED BY <2>4, <3>1 DEF LettersOf
  <2>6. ASSUME NEW u \in Callers, u # t
        PROVE  LettersOf(u)' = LettersOf(u)
    BY <2>4, <2>6 DEF LettersOf
  <2> QED BY <2>2, <2>4, <2>5, <2>6 DEF LetterInv
<1>4. ASSUME NEW t \in Callers,
             Lifecycle!Submit(t) \/ Lifecycle!Start(t) \/ Lifecycle!Succeed(t)
      PROVE  LetterInv'
  <2>1. PICK from \in {"unsubmitted", "queued", "running"},
             to \in {"queued", "running", "succeeded"} :
          status[t] = from /\ status' = [status EXCEPT ![t] = to] /\ dlq' = dlq
    BY <1>4 DEF Lifecycle!Submit, Lifecycle!Start, Lifecycle!Succeed, Lifecycle!Move
  <2>2. DOMAIN status = Callers OBVIOUS
  <2> HIDE DEF status
  <2>3. \A u \in Callers : status'[u] = status[u]
               \/ (status[u] # "dead_lettered" /\ status'[u] # "dead_lettered")
    BY <2>1, <2>2
  <2> QED BY <1>1, <2>1, <2>3
<1> QED BY <1>2, <1>3, <1>4 DEF Lifecycle!Next, Lifecycle!lifecycle_vars

\* A task is in the dead letter queue once if it was dead-lettered, and not at all
\* otherwise: it follows from what TaskLifecycle promises.
THEOREM DeadLetteredOnceHolds == Spec => []DeadLetteredOnce
<1>1. Init => LetterInv BY DEF Init, NewTask, LetterInv, LettersOf
<1>2. WorkflowInv => TypeOK BY DEF WorkflowInv
<1>3. Spec => []LetterInv
  BY <1>1, <1>2, NextRefines, LetterInvStep, WorkflowInvHolds, PTL DEF Spec
<1>4. LetterInv => DeadLetteredOnce
  <2> SUFFICES ASSUME LetterInv, NEW t \in Callers
               PROVE  Cardinality(LettersOf(t)) =
                        IF task[t].status = "dead_lettered" THEN 1 ELSE 0
    BY DEF DeadLetteredOnce, LettersOf
  <2>1. CASE task[t].status = "dead_lettered"
    <3>1. PICK i \in DOMAIN dlq : LettersOf(t) = {i} BY <2>1 DEF LetterInv
    <3>2. Cardinality({i}) = 1 BY FS_Singleton
    <3> QED BY <2>1, <3>1, <3>2
  <2>2. CASE task[t].status # "dead_lettered"
    <3>1. LettersOf(t) = {} BY <2>2 DEF LetterInv
    <3>2. Cardinality({}) = 0 BY FS_EmptySet
    <3> QED BY <2>2, <3>1, <3>2
  <2> QED BY <2>1, <2>2
<1> QED BY <1>3, <1>4, PTL

--------------------------------------------------------------------------------
\* What code generation is told.

\* RepairInformed for one task in state s.
Informed(s) ==
  s.phase = "codegen" /\ s.iteration > 1 =>
    \/ s.feedback = s.config
    \/ s.config \in Clean /\ s.critic = Verdict(s.config, FALSE)

\* A task that was sent back is informed if its feedback or its critic says why.
LEMMA RetriedInformed ==
  ASSUME NEW n \in ArchitectTask,
         \/ n.feedback = n.config
         \/ n.config \in Clean /\ n.critic = Verdict(n.config, FALSE)
  PROVE  Informed(Retried(n))
<1> DEFINE m == [n EXCEPT !.iteration = @ + 1, !.phase = "codegen"]
           d == [n EXCEPT !.phase = "dead_letter"]
<1>1. m.feedback = n.feedback /\ m.config = n.config /\ m.critic = n.critic
  BY DEF ArchitectTask
<1>2. d.phase = "dead_letter" BY DEF ArchitectTask
<1>3. Retried(n) = m \/ Retried(n) = d BY DEF Retried
<1> HIDE DEF m, d
<1> QED BY <1>1, <1>2, <1>3 DEF Informed

LEMMA RaisedInformed ==
  ASSUME NEW s \in ArchitectTask PROVE Informed(Raised(s))
BY DEF Raised, Informed, ArchitectTask

LEMMA PlannedInformed ==
  ASSUME NEW s, Live(s), s.phase = "plan", NEW plan
  PROVE  Informed(Planned(s, plan))
<1> DEFINE n == [s EXCEPT !.plan = plan, !.phase = "codegen"]
<1>1. n.iteration = 1 BY DEF Live, TaskInv, ArchitectTask
<1>2. Informed(n)
  <2> HIDE DEF n
  <2> QED BY <1>1 DEF Informed
<1> QED BY <1>2, RaisedInformed DEF Planned, Live

LEMMA GeneratedInformed ==
  ASSUME NEW s \in ArchitectTask, NEW config
  PROVE  Informed(Generated(s, config))
<1> DEFINE n == [s EXCEPT !.config = config, !.phase = "critic", !.rounds = @ + 1]
<1>1. n.phase = "critic" BY DEF ArchitectTask
<1>2. Informed(n)
  <2> HIDE DEF n
  <2> QED BY <1>1 DEF Informed
<1> QED BY <1>2, RaisedInformed DEF Generated

LEMMA ReviewedInformed ==
  ASSUME NEW s \in ArchitectTask, s.config \in Configs, NEW passed \in BOOLEAN,
         s.config \in Clean \/ s.feedback = s.config
  PROVE  Informed(Reviewed(s, passed))
<1> DEFINE n == [s EXCEPT !.critic = Verdict(s.config, passed)]
           p == [n EXCEPT !.phase = "sandbox"]
<1>1. n \in ArchitectTask
  <2>1. Verdict(s.config, passed) \in Verdicts BY DEF Verdict, Verdicts
  <2> QED BY <2>1, Zenon DEF ArchitectTask
<1>2. /\ n.feedback = s.feedback /\ n.config = s.config
      /\ n.critic = Verdict(s.config, passed)
  BY DEF ArchitectTask
<1>3. p.phase = "sandbox" BY <1>1 DEF ArchitectTask
<1>4. Reviewed(s, passed) = IF passed THEN p ELSE Retried(n) BY DEF Reviewed
<1> HIDE DEF n, p
<1>5. CASE passed BY <1>3, <1>4, <1>5 DEF Informed
<1>6. CASE ~ passed
  <2>1. n.feedback = n.config \/ (n.config \in Clean /\ n.critic = Verdict(n.config, FALSE))
    BY <1>2, <1>6
  <2> QED BY <1>1, <1>4, <1>6, <2>1, RetriedInformed
<1> QED BY <1>5, <1>6

LEMMA RejectedInformed ==
  ASSUME NEW s \in ArchitectTask, s.config \in Configs
  PROVE  Informed(Rejected(s))
<1> DEFINE n == [s EXCEPT !.feedback = s.config]
           no == FALSE
<1>1. n \in ArchitectTask BY Zenon DEF ArchitectTask
<1>2. n.config \in Configs /\ n.feedback = n.config BY DEF ArchitectTask
<1>3. no \in BOOLEAN OBVIOUS
<1>4. Rejected(s) = Reviewed(n, no) BY DEF Rejected
<1> HIDE DEF n, no
<1> QED BY <1>1, <1>2, <1>3, <1>4, ReviewedInformed

LEMMA SimulatedInformed ==
  ASSUME NEW s \in ArchitectTask, s.config \in Configs
  PROVE  Informed(Simulated(s))
<1> DEFINE r == [s EXCEPT !.waiting = "no"]
           passed == SandboxVerdict[s.config] = "passed"
           n == [s EXCEPT !.sandbox = Verdict(s.config, passed), !.waiting = "no"]
           c == [n EXCEPT !.phase = "complete"]
           f == [n EXCEPT !.feedback = s.config]
<1>1. r \in ArchitectTask BY Zenon DEF ArchitectTask
<1>2. n \in ArchitectTask
  <2>1. Verdict(s.config, passed) \in Verdicts BY DEF Verdict, Verdicts
  <2> QED BY <2>1, Zenon DEF ArchitectTask
<1>3. n.config = s.config BY DEF ArchitectTask
<1>4. Simulated(s) = IF SandboxVerdict[s.config] = "raised" THEN Raised(r)
                     ELSE IF passed THEN c ELSE Retried(f)
  BY DEF Simulated
<1> HIDE DEF r, n
<1>5. c.phase = "complete" BY <1>2 DEF ArchitectTask
<1>6. f \in ArchitectTask BY <1>2, Zenon DEF ArchitectTask
<1>7. f.feedback = f.config BY <1>2, <1>3 DEF ArchitectTask
<1> HIDE DEF c, f, passed
<1>8. Informed(Raised(r)) BY <1>1, RaisedInformed
<1>9. Informed(c) BY <1>5 DEF Informed
<1>10. Informed(Retried(f)) BY <1>6, <1>7, RetriedInformed
<1> QED BY <1>4, <1>8, <1>9, <1>10

\* What an agent makes of an answer, or falls back to.
LEMMA AgentInformed ==
  ASSUME NEW s, Live(s),
         s.phase \in {"plan", "codegen"} \/ (s.phase = "critic" /\ s.config \in Clean),
         NEW n \in Accepted(s) \cup {FellBack(s)}
  PROVE  Informed(n)
<1>1. s \in ArchitectTask BY DEF Live
<1>2. CASE s.phase = "plan"
  BY <1>2, PlannedInformed DEF Accepted, FellBack
<1>3. CASE s.phase = "codegen"
  BY <1>1, <1>3, GeneratedInformed DEF Accepted, FellBack
<1>4. CASE s.phase = "critic" /\ s.config \in Clean
  <2>1. s.config \in Configs BY <1>4, WorkflowAssumption
  <2>2. PICK passed \in BOOLEAN : n = Reviewed(s, passed)
    BY <1>4 DEF Accepted, FellBack
  <2> QED BY <1>1, <1>4, <2>1, <2>2, ReviewedInformed
<1> QED BY <1>2, <1>3, <1>4

\* What leaves phase and reports alone leaves the task as informed as it was.
LEMMA SameInformed ==
  ASSUME NEW s, NEW n, Informed(s), n.phase = s.phase, n.iteration = s.iteration,
         n.feedback = s.feedback, n.config = s.config, n.critic = s.critic
  PROVE  Informed(n)
BY DEF Informed

LEMMA StepInformed ==
  ASSUME WorkflowInv, NEW t \in Callers, Submit(t) \/ Step(t), Informed(task[t])
  PROVE  \E n : task' = [task EXCEPT ![t] = n] /\ Informed(n)
<1> DEFINE s == task[t]
<1>0. /\ s \in ArchitectTask /\ TaskInv(s) /\ task \in [Callers -> ArchitectTask]
      /\ Runs(t) => Live(s)
  BY RunnerLive DEF WorkflowInv, TypeOK
<1>1. CASE Submit(t)
  <2>1. PICK raw_spec \in RawSpecs :
          task' = [task EXCEPT ![t].status = "queued", ![t].raw_spec = raw_spec]
    BY <1>1 DEF Submit
  <2> DEFINE n == [s EXCEPT !.status = "queued", !.raw_spec = raw_spec]
  <2>2. task' = [task EXCEPT ![t] = n] BY <1>0, <2>1
  <2>3. /\ n.phase = s.phase /\ n.iteration = s.iteration /\ n.feedback = s.feedback
        /\ n.config = s.config /\ n.critic = s.critic
    BY <1>0 DEF ArchitectTask
  <2> HIDE DEF n
  <2> QED BY <2>2, <2>3, SameInformed
<1>2. ASSUME NEW n, task' = [task EXCEPT ![t] = n],
             \/ \E f : n = [s EXCEPT !.status = f]
             \/ \E f : n = [s EXCEPT !.waiting = f]
             \/ \E f, g : n = [s EXCEPT !.status = f, !.error = g]
      PROVE  \E m : task' = [task EXCEPT ![t] = m] /\ Informed(m)
  <2>1. /\ n.phase = s.phase /\ n.iteration = s.iteration /\ n.feedback = s.feedback
        /\ n.config = s.config /\ n.critic = s.critic
    BY <1>0, <1>2 DEF ArchitectTask
  <2> QED BY <1>2, <2>1, SameInformed
<1>3. CASE \/ RunTask(t) \/ CallLLM(t) \/ Complete(t) \/ DeadLetter(t)
           \/ CatchException(t) \/ (RunSandbox(t) /\ s.config \in Slow)
  <2>1. ASSUME NEW f, task' = [task EXCEPT ![t].status = f]
        PROVE  \E m : task' = [task EXCEPT ![t] = m] /\ Informed(m)
    BY <1>2, <2>1
  <2>2. ASSUME NEW f, task' = [task EXCEPT ![t].waiting = f]
        PROVE  \E m : task' = [task EXCEPT ![t] = m] /\ Informed(m)
    BY <1>2, <2>2
  <2>3. ASSUME NEW f, NEW g, task' = [task EXCEPT ![t].status = f, ![t].error = g]
        PROVE  \E m : task' = [task EXCEPT ![t] = m] /\ Informed(m)
    <3>1. task' = [task EXCEPT ![t] = [s EXCEPT !.status = f, !.error = g]]
      BY <1>0, <2>3
    <3> QED BY <1>2, <3>1
  <2> QED
    BY <1>3, <2>1, <2>2, <2>3
       DEF RunTask, CallLLM, Complete, DeadLetter, CatchException, RunSandbox
<1>4. CASE FallBackAtOnce(t)
  <2>1. Live(s) BY <1>0, <1>4 DEF FallBackAtOnce
  <2>2. Informed(FellBack(s)) BY <1>4, <2>1, AgentInformed DEF FallBackAtOnce, AsksLLM
  <2> QED BY <1>4, <2>2 DEF FallBackAtOnce
<1>5. CASE ResumeFromLLM(t)
  <2> DEFINE r == [s EXCEPT !.waiting = "no"]
  <2>1. s.waiting = "llm" /\ s.status = "running"
    BY <1>0, <1>5 DEF ResumeFromLLM, TaskInv
  <2>2. r \in ArchitectTask BY <1>0, Zenon DEF ArchitectTask
  <2>3. /\ TaskInv(r) /\ r.status = "running" /\ r.waiting = "no"
        /\ r.phase \in {"plan", "codegen"} \/ (r.phase = "critic" /\ r.config \in Clean)
    BY <1>0, <2>1 DEF TaskInv, ArchitectTask
  <2>4. Live(r) BY <2>2, <2>3 DEF Live
  <2>5. PICK n \in Accepted(r) \cup {FellBack(r)} : task' = [task EXCEPT ![t] = n]
    BY <1>5 DEF ResumeFromLLM
  <2> HIDE DEF r
  <2>6. Informed(n) BY <2>3, <2>4, <2>5, AgentInformed
  <2> QED BY <2>5, <2>6
<1>6. CASE CriticRejects(t)
  <2>1. s.config \in Configs BY <1>0, <1>6 DEF CriticRejects, Live, TaskInv
  <2> QED BY <1>0, <1>6, <2>1, RejectedInformed DEF CriticRejects
<1>7. CASE ResumeFromSandbox(t) \/ (RunSandbox(t) /\ s.config \notin Slow)
  <2>1. s.phase = "sandbox" /\ task' = [task EXCEPT ![t] = Simulated(s)]
    BY <1>0, <1>7 DEF ResumeFromSandbox, RunSandbox, TaskInv
  <2>2. s.config \in Configs BY <1>0, <2>1 DEF TaskInv
  <2> QED BY <1>0, <2>1, <2>2, SimulatedInformed
<1> QED BY <1>1, <1>3, <1>4, <1>5, <1>6, <1>7 DEF Step

\* Code generation is repaired with what is wrong with the configuration it has
\* just made, unless the semantic review sent that one back without a word.
THEOREM RepairInformedHolds == Spec => []RepairInformed
<1> DEFINE Inv == \A t \in Callers : Informed(task[t])
<1>1. Init => Inv BY DEF Init, NewTask, Informed
<1>2. ASSUME WorkflowInv, Inv, [Next]_vars
      PROVE  Inv'
  <2>1. CASE UNCHANGED vars BY <1>2, <2>1 DEF vars
  <2>2. ASSUME NEW t \in Callers, Submit(t) \/ Step(t)
        PROVE  Inv'
    <3>1. PICK n : task' = [task EXCEPT ![t] = n] /\ Informed(n)
      BY <1>2, <2>2, StepInformed
    <3>2. task \in [Callers -> ArchitectTask] BY <1>2 DEF WorkflowInv, TypeOK
    <3> QED BY <1>2, <3>1, <3>2
  <2> QED BY <1>2, <2>1, <2>2 DEF Next
<1>3. Inv => RepairInformed BY DEF Informed, RepairInformed
<1> QED BY <1>1, <1>2, <1>3, WorkflowInvHolds, PTL DEF Spec
================================================================================
