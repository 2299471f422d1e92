---------------------------- MODULE ArchitectWorkflow ----------------------------
(***************************************************************************)
(* ArchitectOrchestrator, architect/orchestrator.py, with the control flow *)
(* of its agents: planner_agent.py, codegen_agent.py and critic_agent.py.  *)
(* A task is a coroutine on the event loop.  It holds the loop until it    *)
(* awaits the transport of the LLM client or a delay in the sandbox; other *)
(* tasks run in between, and share the breaker and the dead letters.       *)
(*                                                                         *)
(* A configuration is a member of Configs, known here by what the          *)
(* deterministic critic and the sandbox say of it.                         *)
(***************************************************************************)
EXTENDS LLMClient, Sequences

CONSTANTS
  RawSpecs,         \* the texts tasks are submitted with
  Plans,            \* the plans an LLM or the fallback planner makes
  Configs,          \* the configurations an LLM or the fallback makes
  FallbackPlan,     \* raw_spec -> plan, or NoPlan where _fallback_plan raises
  FallbackConfig,   \* plan -> configuration, or NoConfig where
                    \*   _fallback_codegen raises
  NoPlan,
  NoConfig,
  Idle,             \* no task has the event loop
  Clean,            \* the configurations without deterministic issues
  SandboxVerdict,   \* configuration -> "passed", "failed", or "raised"
  Slow              \* the configurations whose sandbox cases sleep

ASSUME WorkflowAssumption ==
  /\ NoPlan \notin Plans
  /\ NoConfig \notin Configs
  /\ Idle \notin Callers
  /\ RawSpecs # {}
  /\ FallbackPlan \in [RawSpecs -> Plans \cup {NoPlan}]
  /\ FallbackConfig \in [Plans -> Configs \cup {NoConfig}]
  /\ Clean \subseteq Configs
  /\ SandboxVerdict \in [Configs -> {"passed", "failed", "raised"}]
  /\ Slow \subseteq Configs

VARIABLES
  task,         \* ArchitectTask and the local state of its execute
  event_loop,   \* the task that runs, or Idle
  dlq           \* the dead letters, each known by its task

vars == <<task, event_loop, dlq, llm_vars>>

MaxIterations == 3

\* A critic_report or a sandbox_result: the configuration it is about, or
\* NoConfig before there is one, and its passed.
Verdict(config, passed) == [config |-> config, passed |-> passed]
NoVerdict == Verdict(NoConfig, FALSE)

\* phase "raised" is an exception on its way to the except clause of execute.
Phases == {"plan", "codegen", "critic", "sandbox", "complete", "dead_letter", "raised"}

\* rounds counts the configurations made, for properties only.
NewTask ==
  [status |-> "unsubmitted", raw_spec |-> CHOOSE raw_spec \in RawSpecs : TRUE,
   phase |-> "plan", waiting |-> "no", iteration |-> 1, plan |-> NoPlan,
   config |-> NoConfig, feedback |-> NoConfig, critic |-> NoVerdict,
   sandbox |-> NoVerdict, rounds |-> 0, error |-> "none"]

Init ==
  /\ LLMInit
  /\ task = [t \in Callers |-> NewTask]
  /\ event_loop = Idle
  /\ dlq = << >>

--------------------------------------------------------------------------------
\* What an agent or the sandbox leaves in the state of its task.

Raised(s) == [s EXCEPT !.phase = "raised"]

Planned(s, plan) ==
  IF plan = NoPlan THEN Raised(s) ELSE [s EXCEPT !.plan = plan, !.phase = "codegen"]

Generated(s, config) ==
  IF config = NoConfig THEN Raised(s)
  ELSE [s EXCEPT !.config = config, !.phase = "critic", !.rounds = @ + 1]

\* Mutant: one retry too many.
RetriedOnceMore(s) ==
  IF s.iteration <= MaxIterations
    THEN [s EXCEPT !.iteration = @ + 1, !.phase = "codegen"]
    ELSE [s EXCEPT !.phase = "dead_letter"]

\* Back to code generation, or out of iterations.
Retried(s) ==
  IF s.iteration < MaxIterations
    THEN [s EXCEPT !.iteration = @ + 1, !.phase = "codegen"]
    ELSE [s EXCEPT !.phase = "dead_letter"]

\* Mutant: a rejected configuration is generated anew without counting.
ReviewedUncounted(s, passed) ==
  LET reviewed == [s EXCEPT !.critic = Verdict(s.config, passed)]
  IN  [reviewed EXCEPT !.phase = IF passed THEN "sandbox" ELSE "codegen"]

Reviewed(s, passed) ==
  LET reviewed == [s EXCEPT !.critic = Verdict(s.config, passed)]
  IN  IF passed THEN [reviewed EXCEPT !.phase = "sandbox"] ELSE Retried(reviewed)

\* Deterministic issues come with feedback; a semantic verdict has none.
Rejected(s) == Reviewed([s EXCEPT !.feedback = s.config], FALSE)

\* Mutant: the deltas are handed on and the verdict is not looked at.
SimulatedAlways(s) ==
  LET passed    == SandboxVerdict[s.config] = "passed"
      simulated == [s EXCEPT !.sandbox = Verdict(s.config, passed), !.waiting = "no"]
  IN  IF SandboxVerdict[s.config] = "raised" THEN Raised([s EXCEPT !.waiting = "no"])
      ELSE [simulated EXCEPT !.phase = "complete"]

\* Mutant: a failed simulation goes back without its deltas.
SimulatedUntold(s) ==
  LET passed    == SandboxVerdict[s.config] = "passed"
      simulated == [s EXCEPT !.sandbox = Verdict(s.config, passed), !.waiting = "no"]
  IN  IF SandboxVerdict[s.config] = "raised" THEN Raised([s EXCEPT !.waiting = "no"])
      ELSE IF passed THEN [simulated EXCEPT !.phase = "complete"]
      ELSE Retried(simulated)

Simulated(s) ==
  LET passed    == SandboxVerdict[s.config] = "passed"
      simulated == [s EXCEPT !.sandbox = Verdict(s.config, passed), !.waiting = "no"]
  IN  IF SandboxVerdict[s.config] = "raised" THEN Raised([s EXCEPT !.waiting = "no"])
      ELSE IF passed THEN [simulated EXCEPT !.phase = "complete"]
      ELSE Retried([simulated EXCEPT !.feedback = s.config])

\* What an agent does when complete_json raises or its answer does not validate.
FellBack(s) ==
  CASE s.phase = "plan"    -> Planned(s, FallbackPlan[s.raw_spec])
    [] s.phase = "codegen" -> Generated(s, FallbackConfig[s.plan])
    [] s.phase = "critic"  -> Reviewed(s, TRUE)

\* What an agent may do with the answer of complete_json.
Accepted(s) ==
  CASE s.phase = "plan"    -> {Planned(s, plan) : plan \in Plans}
    [] s.phase = "codegen" -> {Generated(s, config) : config \in Configs}
    [] s.phase = "critic"  -> {Reviewed(s, passed) : passed \in BOOLEAN}

--------------------------------------------------------------------------------
\* Tasks.

Runs(t) == event_loop = t

\* submit; asyncio.create_task schedules _run_task.
Submit(t) ==
  /\ event_loop = Idle
  /\ task[t].status = "unsubmitted"
  /\ \E raw_spec \in RawSpecs :
       task' = [task EXCEPT ![t].status = "queued", ![t].raw_spec = raw_spec]
  /\ UNCHANGED <<event_loop, dlq, llm_vars>>

\* _run_task up to execute.
RunTask(t) ==
  /\ event_loop = Idle
  /\ task[t].status = "queued"
  /\ task' = [task EXCEPT ![t].status = "running"]
  /\ event_loop' = t
  /\ UNCHANGED <<dlq, llm_vars>>

\* The agents that call the LLM: the critic does if there are no issues.
AsksLLM(t) ==
  \/ task[t].phase \in {"plan", "codegen"}
  \/ task[t].phase = "critic" /\ task[t].config \in Clean

\* The agent starts the transport call and gives up the event loop.
CallLLM(t) ==
  /\ Runs(t)
  /\ AsksLLM(t)
  /\ StartCall(t)
  /\ task' = [task EXCEPT ![t].waiting = "llm"]
  /\ event_loop' = Idle
  /\ UNCHANGED dlq

\* complete_json raises without suspending, and the agent falls back.
FallBackAtOnce(t) ==
  /\ Runs(t)
  /\ AsksLLM(t)
  /\ \/ Refused /\ UNCHANGED llm_vars
     \/ CallWithoutTransport(t)
  /\ task' = [task EXCEPT ![t] = FellBack(@)]
  /\ UNCHANGED <<event_loop, dlq>>

\* The task goes on after its call, with an answer that is accepted, with one
\* that does not validate, or with the exception.
ResumeFromLLM(t) ==
  /\ event_loop = Idle
  /\ task[t].waiting = "llm"
  /\ LET s == [task[t] EXCEPT !.waiting = "no"]
     IN  \/ CallSucceeds(t) /\ \E next \in Accepted(s) \cup {FellBack(s)} :
                                 task' = [task EXCEPT ![t] = next]
         \/ CallFails(t) /\ task' = [task EXCEPT ![t] = FellBack(s)]
  /\ event_loop' = t
  /\ UNCHANGED dlq

CriticRejects(t) ==
  /\ Runs(t)
  /\ task[t].phase = "critic"
  /\ task[t].config \notin Clean
  /\ task' = [task EXCEPT ![t] = Rejected(@)]
  /\ UNCHANGED <<event_loop, dlq, llm_vars>>

\* The sandbox runs to its end, or to the first delay of a case.
RunSandbox(t) ==
  /\ Runs(t)
  /\ task[t].phase = "sandbox"
  /\ IF task[t].config \in Slow
       THEN /\ task' = [task EXCEPT ![t].waiting = "delay"]
            /\ event_loop' = Idle
       ELSE /\ task' = [task EXCEPT ![t] = Simulated(@)]
            /\ UNCHANGED event_loop
  /\ UNCHANGED <<dlq, llm_vars>>

ResumeFromSandbox(t) ==
  /\ event_loop = Idle
  /\ task[t].waiting = "delay"
  /\ task' = [task EXCEPT ![t] = Simulated(@)]
  /\ event_loop' = t
  /\ UNCHANGED <<dlq, llm_vars>>

\* execute returns from COMPLETE; _run_task stores the result.
Complete(t) ==
  /\ Runs(t)
  /\ task[t].phase = "complete"
  /\ task' = [task EXCEPT ![t].status = "succeeded"]
  /\ event_loop' = Idle
  /\ UNCHANGED <<dlq, llm_vars>>

\* execute returns from DEAD_LETTER.
DeadLetter(t) ==
  /\ Runs(t)
  /\ task[t].phase = "dead_letter"
  /\ task' = [task EXCEPT ![t].status = "dead_lettered", ![t].error = "exhausted"]
  /\ dlq' = Append(dlq, t)
  /\ event_loop' = Idle
  /\ UNCHANGED llm_vars

\* Mutant: the except clause returns its result and does not queue it.
CatchUnqueued(t) ==
  /\ Runs(t)
  /\ task[t].phase = "raised"
  /\ task' = [task EXCEPT ![t].status = "dead_lettered", ![t].error = "exception"]
  /\ event_loop' = Idle
  /\ UNCHANGED <<dlq, llm_vars>>

\* The except clause of execute.
CatchException(t) ==
  /\ Runs(t)
  /\ task[t].phase = "raised"
  /\ task' = [task EXCEPT ![t].status = "dead_lettered", ![t].error = "exception"]
  /\ dlq' = Append(dlq, t)
  /\ event_loop' = Idle
  /\ UNCHANGED llm_vars

\* A task that is due.
Step(t) ==
  \/ RunTask(t) \/ CallLLM(t) \/ FallBackAtOnce(t) \/ ResumeFromLLM(t)
  \/ CriticRejects(t) \/ RunSandbox(t) \/ ResumeFromSandbox(t)
  \/ Complete(t) \/ DeadLetter(t) \/ CatchException(t)

Next == \E t \in Callers : Submit(t) \/ Step(t)

Spec == Init /\ [][Next]_vars

\* The event loop runs every task that is due; a call of the LLM ends by its
\* timeout at the latest, and delays are finite.
Fairness == \A t \in Callers : WF_vars(Step(t))

FairSpec == Spec /\ Fairness

--------------------------------------------------------------------------------
(***************************************************************************)
(* Properties.                                                             *)
(***************************************************************************)

TaskStatus == {"unsubmitted", "queued", "running", "succeeded", "dead_lettered"}
Verdicts == [config : Configs \cup {NoConfig}, passed : BOOLEAN]

ArchitectTask ==
  [status : TaskStatus, raw_spec : RawSpecs, phase : Phases,
   waiting : {"no", "llm", "delay"}, iteration : 1 .. MaxIterations,
   plan : Plans \cup {NoPlan}, config : Configs \cup {NoConfig},
   feedback : Configs \cup {NoConfig}, critic : Verdicts, sandbox : Verdicts,
   rounds : Nat, error : {"none", "exhausted", "exception"}]

\* What tasks, event loop and dead letters can hold.
TypeOK ==
  /\ LLMTypeOK
  /\ task \in [Callers -> ArchitectTask]
  /\ event_loop \in Callers \cup {Idle}
  /\ dlq \in Seq(Callers)

\* A task that succeeded returns a configuration that has no deterministic issue
\* and passes the sandbox, and the report and the sandbox result returned with it
\* are about that configuration and not about one of an earlier round.
SucceededVerified ==
  \A t \in Callers :
    task[t].status = "succeeded" =>
      /\ task[t].config \in Clean
      /\ SandboxVerdict[task[t].config] = "passed"
      /\ task[t].critic = Verdict(task[t].config, TRUE)
      /\ task[t].sandbox = Verdict(task[t].config, TRUE)

\* The retry budget is spent exactly: no task makes more than MaxIterations
\* configurations, whatever mix of critic, semantic and sandbox verdicts sends
\* it back, and only a task that made them all is given up as exhausted, with
\* a negative verdict on the last of them.
RetryBudget ==
  \A t \in Callers :
    /\ task[t].rounds <= MaxIterations
    /\ task[t].error = "exhausted" =>
         /\ task[t].rounds = MaxIterations
         /\ \/ task[t].critic = Verdict(task[t].config, FALSE)
            \/ task[t].sandbox = Verdict(task[t].config, FALSE)

\* Code generation repairs what it was told about: the feedback it is given is
\* about the configuration it just made, unless it was the semantic review that
\* sent that one back, which hands on nothing.
RepairInformed ==
  \A t \in Callers :
    task[t].phase = "codegen" /\ task[t].iteration > 1 =>
      \/ task[t].feedback = task[t].config
      \/ task[t].config \in Clean /\ task[t].critic = Verdict(task[t].config, FALSE)

\* A task is in the dead letter queue once if it was dead-lettered, for whatever
\* reason, and not at all otherwise.
DeadLetteredOnce ==
  \A t \in Callers :
    Cardinality({i \in DOMAIN dlq : dlq[i] = t})
      = IF task[t].status = "dead_lettered" THEN 1 ELSE 0

\* No call of the LLM outlives the task that made it, and no task waits for a
\* call that is over: the calls in the air are those that running tasks await.
CallsAwaited ==
  flight = {t \in Callers : task[t].status = "running" /\ task[t].waiting = "llm"}

Lifecycle == INSTANCE TaskLifecycle WITH
  Tasks <- Callers,
  status <- [t \in Callers |-> task[t].status],
  dead_letters <- dlq

\* The workflow with its event loop, agents, retries and shared breaker does what
\* TaskLifecycle promises: every submitted task is started, ends once and for
\* all, and is dead-lettered exactly when its status says so.
ImplementsLifecycle == Lifecycle!Spec
================================================================================
