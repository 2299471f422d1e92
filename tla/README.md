# MockMesh DEO in TLA+

A verification project for MockMesh: the *dynamic endpoint orchestrator* (DEO), which
serves configured mock endpoints, and the *architect*, which turns a text into such a
configuration. The modules are translated from the Python source; TLC checks them on
small instances and TLAPS proves the properties that matter most for all of them.

Run, in this directory: `tlc -config X.cfg M.tla` for a run of the table below,
`tlapm M.tla` for a module whose name ends in `Proofs`.

## 1. The system

MockMesh is one Python process with one asyncio event loop. Nothing is persisted. A
coroutine keeps the loop until an `await` really suspends it; the methods of the
in-memory repository are coroutines but never suspend, so a handler that only uses the
repository is atomic. What suspends: reading the body of a mock call, the sleep of a
configured delay, writing a response before its background task runs, the LLM
transport, and the delays of sandbox cases. That cut decides what an action is.

| Part | State | Operations | Hard about it | What makes it correct |
|---|---|---|---|---|
| Route matcher `deo/route_matcher.py` | none | `match`, `_split_path`, `_match_segments` | empty, encoded and query segments; ties | the captured parameters rebuild the request; the most static template wins, then the oldest |
| Rule engine `deo/rule_engine.py` | none | seven operators, first match | exceptions of operators, mixed types | the first rule that decides, decides; a missing field never raises |
| Selector, delay, renderer `deo/response_selector.py`, `delay_engine.py`, `response_renderer.py` | none | `select`, `apply`, `render` | placeholders, headers that cannot be encoded | an endpoint answers with a response of its own |
| Repository `deo/repository.py` | endpoints, rules, responses, delays, logs | `create_endpoint`, `create_rule`, `save_request_log`, queries | lists linked by identifiers only | referential integrity, unique signatures |
| Router `deo/router.py` and event loop | open calls | mock catch-all, control plane, log page, check form | creations during a sleep; lost background tasks; restarts | a call is answered as of the moment its body was read, and logged once |
| LLM client `architect/llm_client.py` | breaker, calls in the air | `complete_json` | calls that end after the breaker opened | state and count agree; an outage is bounded; recovery |
| Workflow `architect/orchestrator.py` and agents | tasks, dead letters | `submit`, `_run_task`, `execute`, `commit` | retries, fallbacks and exceptions, tasks that share a breaker | every task ends once, verified or dead-lettered, within the budget |
| Planner, code generation `planner_agent.py`, `codegen_agent.py` | none | fallbacks | several expressions read one text | what is planned passes critic and sandbox |
| Critic, sandbox `critic_agent.py`, `sandbox.py` | none | `run` | an isolated repository stands for the live one | what passed serves after the commit |
| Dashboard `deo/static/dashboard.js` | selected project, session, tables, active task, poll timer, two buttons | `login`, `logout`, `selectProject`, loads, `generateArchitecture`, `pollArchitectTask`, `commitArchitecture` | answers that are late, out of order or missing while project and session change | one conversation at a time; a plan goes where it was generated; tables follow the project; the button comes back |
| Architect support `security.py`, `context.py`, `telemetry.py`, ... | traces | | shared trace list | not modelled |

Calls flow router → orchestrator → matcher → rules → selector → delay → renderer, and
after the response router → repository (log). The control plane and `commit` write the
same repository. The sandbox runs the same pipeline on a repository of its own. All
tasks share one LLM client. The dashboard is the one client of the control plane and of
the architect routes; a task's project and the project of a commit meet only there.

## 2. Modules

`A < B` below says that B extends A.

```
RouteMatcher, RuleEngine < Matching < MCMatching
RouteMatcher, RuleEngine < Repository < Orchestrator < MockServer      < MCMockServer (with SeedData)
                                        Orchestrator < GeneratedConfig < Configurations < MCGeneratedConfig
                                                       GeneratedConfig < FallbackAgents < FallbackTexts < MCFallbackAgents
MockServer (INSTANCE MockService), GeneratedConfig < ArchitectServer < MCArchitectServer (with MCMockServer)
LLMClient < ArchitectWorkflow (INSTANCE TaskLifecycle) < MCArchitectWorkflow
Dashboard < DashboardProofs
GeneratedConfig < PipelineProofs < MatchingProofs (with Matching)
                  PipelineProofs < MockServerProofs (with MockServer) < ArchitectServerProofs (with ArchitectServer)
                  PipelineProofs < ConfigurationProofs (with Configurations)
                  PipelineProofs < FallbackProofs (with FallbackTexts)
ArchitectWorkflow < ArchitectProofs
```

**RouteMatcher**: pure operators. A path is the sequence of its raw segments; what the
code does to the characters of one segment (cut at `?`, percent-decode, read the name
in braces) is given by constant functions, so that theorems hold for every alphabet.
`NormalizePath` is the repository's, `StripSlashes` the router's treatment of a path.

**RuleEngine**: operators answer `"yes"`, `"no"` or `"raise"`. A value is a record of a
kind with its number, text or items; `float()` of texts, substrings and patterns are
constants. `FirstDecisive` is the loop of `evaluate`.

**Matching**: the two by themselves, a routing table that grows under a request and a
list of rules that grows under a value; its properties say what `match` and `evaluate`
promise, `Loop` is the source's loop written as a recursive function.

**Repository**: the four lists as sequences of records, the queries the runtime decides
by, the two creations, the sorted log page, and `Integral` and `UniqueSignatures`, the
shape the lists are meant to have. Identifiers are naturals above every one in use
(uuid4). A response keeps `echo`: whether a header template copies text of the request.

**Orchestrator**: `Resolve` is `DEOOrchestrator.resolve` up to the first point where it
suspends: it raises, sleeps or is ready to render.

**MockServer**: the state machine. `call[r]` is one open mock call: `Arrive`,
`BodyRead` (the handler, up to the sleep of a delay or to its end), `Wake`,
`SaveRequestLog` (the background task), `Disconnect`. `PostEndpoint` and `PostRule` are
the control plane with its 409 and 404 answers, `Restart` loses everything but the
seed, `Tick` is the clock of log timestamps. `seen[r]` remembers the sizes of the
lists when the body was read, for properties only. **SeedData** is the content of
`InMemoryEndpointRepository.__init__`. **MockService** is the abstract specification of
the catch-all: a call gets at most one answer, fixed when the request has arrived; an
answer that was sent is logged once, as it was sent, and nothing else is; a call whose
answer is fixed is logged or lost in the end. The refinement mapping reads the phases
of `call` as its states, the answer out of the call, and the log without timestamps.

**ArchitectServer**: the process. To MockServer it adds `result[t]`, the configuration
a task succeeded with, and the call of `commit` that holds the event loop, one step per
round of its two loops (`CommitNextEndpoint`, `CommitNextRule`), between which only the
death of the process can come. A task is committed to any project, as often as clients
like; it is refused until the task has succeeded. Of ArchitectWorkflow it takes what is
shown there: a task succeeds at most once, with a configuration that critic and sandbox
passed (`ResultAssumption`).

**LLMClient**: `breaker` is `CircuitBreaker`, `flight` the callers between the start and
the end of a transport call. `StartCall` and `CallWithoutTransport` are the part of
`complete_json` before the await, `CallSucceeds` and `CallFails` the part after it.

**ArchitectWorkflow**: `task[t]` is an `ArchitectTask` with the local state of its
`execute`; `event_loop` is the task that runs, or `Idle`, so that between two
suspensions no other task takes a step. Phases are those of `ArchitectPhase`, and
`"raised"` for an exception on its way to the except clause. An agent either calls the
LLM (`CallLLM`, `ResumeFromLLM`) or falls back at once because the breaker refuses or
there is no transport (`FallBackAtOnce`). A configuration is a constant known by what
critic and sandbox say of it. The actions of LLMClient are conjoined into those of the
workflow, and `WorkflowUsesClient` proves that the workflow only uses them as callers
may. **TaskLifecycle** is the abstract specification: a task is submitted, started,
and succeeds or is dead-lettered in the step that queues it.

**GeneratedConfig**: what a configuration *means*: `HasIssues` (the deterministic
critic), `SandboxResult` (build an empty repository, replay the scenarios through
`Resolve`), `Commit` (build into a live repository, skipping what exists). The two loops
over endpoints and rules are one recursive function over their rounds (`SandboxRound`,
`CommitRound`). **Configurations** lets a configuration grow piece by piece and states
what critic, sandbox and commit owe each other at every size.

**FallbackAgents**: `FallbackPlanOf` is the regular-expression planner over texts known
by their mentions, `FallbackCodegen` the structural code generation, `OfflineResult`
what the workflow makes of a text in every round without an LLM. **FallbackTexts** lets
a text grow mention by mention and says for which texts the fallbacks agree with critic
and sandbox (`Plain`).

**Dashboard**: a page and the fetches in flight, counted by what was posted. One
callback posts a fetch, another takes its answer in, or its failure; `Exchange` does
both to the bag of fetches. `GenerateArchitecture`, `GenerateAnswered`, `PollFires`,
`PollAnswered` and `PollFails` are the conversation about a task, `ClearArchitectState`
what a switch does to it. An `await` of the answer and one of its body are one
suspension here, for nothing is read or written between them but a status light. The
refresh that a commit awaits before its `finally` ends at any later time. `overtaken`
is history: which of the conversation, the tables and the poll a change of the project
broke into. `shown` is the project whose rows a table holds. The server is only what
its answers need: tasks of a project that run and end.

A definition whose comment begins with "Mutant:" is a plausible bug of the definition
it stands before. No specification uses it; it is there to be put in that definition's
place, where the named property must then fail.

## 3. Runs

All runs say `CHECK_DEADLOCK FALSE`: an instance has finitely many calls, creations or
tasks (or a configuration of bounded size), and when they are used up the system stops.

| Run | Question | Bounds, and why they are enough | Distinct states |
|---|---|---|---|
| `matching` | what do `match` and `evaluate` answer? | every table of two endpoints, every request up to three segments, over an alphabet with empty, encoded, query and parameter segments: preference and capture relate at most two endpoints and one segment at a time; every list of two rules, all operators and one unregistered, eight values of all kinds. Only one of table and list grows in a behaviour | 656543 |
| `server` | is a call right while endpoints are created and configurations committed under it, and may identifiers of a process before the restart do harm? | one call (calls share nothing but repository and log); one task that may succeed with either of two configurations (one that overlaps the seed and brings a rule that raises, one whose two endpoints are one signature under one key), committed to any project, again, after and before creations by hand that tie, repeat a signature or are inactive; a rule post; a restart | 202288 |
| `server_logs` | is the log complete, the page the newest part of it, and does the server implement `MockService`, liveness included? | three calls, two clock values, a restart: saves out of timestamp order and equal timestamps occur; weak fairness of `Wake` and `SaveRequestLog` | 78607 |
| `workflow` | is a result verified, the budget kept, the dead letter unique; does the shared breaker count right? | two tasks with symmetry, two texts, two plans, four configurations (good, rejected, failing, crashing), slow and not, with and without fallbacks and a transport: every mix of verdicts in three rounds and every interleaving at a suspension. Two calls overlap, so that one can end after the other opened the breaker; `OutageBoundedHolds` covers any number | 805908 |
| `workflow_ends` | does it implement `TaskLifecycle`, liveness included? | two tasks, a rejected and a slow good configuration, a text the planner has no fallback for: success, exhaustion and exception are all reached | 23506 |
| `configs` | do critic, sandbox and commit agree? | all configurations of up to two endpoints, two rules and a scenario, over keys and paths that repeat, clash, overlap or point nowhere; live repositories that are empty, foreign, or own one of the signatures, so that a commit is partial. The properties relate at most two endpoints at a time | 30303 |
| `dashboard` | is there one conversation, does a plan go where it was generated, do tables follow the project, does the generate button come back? | two projects, two tasks, the log table (the one that a failure empties; the tables share nothing), two fetches in flight besides polls: a late answer beside a new fetch, and a commit beside a conversation, all occur | 297516 |
| `fallback` | does a text pass without an LLM? | all texts of up to two mentions over seven paths, two methods, five statuses, with and without delay and query clause | 39482 |

Properties of the passing runs, and where they bite:

* `ParamsRebuildRequest`, `MostStaticWins`, `TwinsNeverRouted`: capture is exact, and
  of two endpoints that match the same requests the newer is never routed.
* `FirstMatchDecides` (against the loop of the source), `MissingFieldNeverRaises`,
  `GtLtConsistent`.
* `ConfigIntegrity`, `UniqueSignature`, `ServedByOwnEndpoint`,
  `AnsweredAsOfBodyRead` (what is created during a sleep changes nothing for the
  sleeper), `CheckExplained`, and as action properties `RoutingStable` and
  `RulesStable`: what a creation may take away from others. They are checked with
  commits beside the creations; `CommitTouchesOwn` and `CommitComplete` are about the
  commits themselves.
* `LoggedOnce`, `RecentFirst`, `ImplementsMockService`.
* `OneChain`, `CommitsWhereGenerated`, `TablesFollowProject`, `GenerateReturns`. The
  last three exclude what the code does not do: see the smaller disagreements below.
* `OpenIffExhausted`, `OutageBounded`; `SucceededVerified`, `RetryBudget`,
  `RepairInformed`, `DeadLetteredOnce`, `CallsAwaited`, `ImplementsLifecycle`.
* `CommitIdempotent`, `CommitSound`; `CreatedAsSimulated` (what is left of the sandbox's
  verdict when the project has some of the endpoints) and `CommittedAsSimulated` (when it
  has none); `FallbackUsable`.

Fairness. `MockServer` assumes that sleeps end and that background tasks run
(`WF(Wake)`, `WF(SaveRequestLog)`): the loop runs what is due; nothing is assumed of
clients, who need not send a body. `ArchitectWorkflow` assumes `WF(Step(t))` of every
task: the loop runs what is due, a transport call ends by its timeout and delays are
finite. `Dashboard` assumes that the browser settles the fetches of the conversation,
that its timer fires and that a workflow ends (which `workflow_ends` shows), and nothing
of users. ArchitectWorkflow also takes for granted that a task which was created is not collected while
it waits (`submit` keeps no reference to it). `LLMClient` assumes that callers keep
calling and calls end.

### Disagreements found

Each has a run that TLC finds violated by what the code does.

| Run | The code | What is said of it |
|---|---|---|
| `unlogged_header` | a header that echoes text outside latin-1 makes the response fail after the log task was added; neither answer nor log | README.md:136 |
| `breaker_latches` | an open breaker lets no call through and only a success closes it: it never closes | README.md:369 |
| `verified_serves` | the critic compares raw paths, commit normalised ones; of `/pay/p1` and `/pay/p1/` the second passes both checks and is then not committed | README.md:223 |
| `offline_usable` | a text that names one endpoint twice is rejected in all three rounds | README.md:371 |

`CommittedAsSimulated` is `VerifiedServes` with the premise that signatures are
distinct as the repository compares them; `FallbackUsable` is `OfflineUsable` for texts
whose mentions are in range and do not overlap. Both hold, which locates the two flaws.

Smaller disagreements without a run of their own, which the definitions show:

* A rule with a pattern that does not compile is accepted and then raises in every
  call whose field is present (`Regex`, `BodyRead` with step `"raise"`;
  `rule_engine.py:62`): such a call is not logged either.
* The check form calls an active endpoint with a nameless parameter inactive
  (`dashboard.js:685`); `CheckExplained` is what holds instead. It labels a match by
  another endpoint's pattern an exact signature when the exact endpoint is inactive
  (`dashboard.js:708`, `router.py:187`).
* A negative semantic review sends a task back without feedback, or with an older one,
  where the diagram at README.md:173 has it carry `repair_feedback`; `RepairInformed`
  is what holds instead.
* The critic never compares keys (`critic_agent.py:63`). Of two endpoints with one key the
  sandbox gives the rules to the later (`sandbox.py:41`), commit to the later one it
  creates (`orchestrator.py:209`): if the project has the later one already, they go to
  the other. `CreatedAsSimulated` therefore has `DistinctKeys` as a premise.
* After a switch of the project while a poll timer is pending, nothing enables the
  generate button again until the page is loaded anew (`dashboard.js:798`): the escape
  `"poll" \in overtaken` of `GenerateReturns`.
* A switch while a poll or a generate is in flight does not stop it: its answer makes
  the plan of the other project the active one again and enables its commit, to the
  project that is selected (`dashboard.js:833`, `dashboard.js:984`); so does a login,
  which keeps the plan (`applySession`). `CommitsWhereGenerated` excludes both, and the
  server does not compare the two projects (`architect/orchestrator.py:184`).
* A late answer fills a table with rows of the project shown before
  (`dashboard.js:395`), which `TablesFollowProject` excludes; and the message of a commit
  names the project selected when the answer arrives (`dashboard.js:997`).

## 4. Proofs

Every invariant and every action property of the passing runs is a theorem, for all
values of the constants that satisfy the assumptions the modules name:

| Assumption | What it says, and why the code justifies it |
|---|---|
| `SegmentAssumption` | the empty segment is a segment; cutting at `?` stays within the alphabet and leaves the empty one empty; every segment can be decoded |
| `ValueAssumption`, `NumberAssumption` | None is a value; what `float()` reads is ordered like integers, infinities at the ends. NaN is left out: it is below and above nothing |
| `ContextAssumption`, `PostAssumption` | requests and posts are typed, as the validators leave them |
| `SeedAssumption` | the seed is sound; TLC evaluates it for the real seed |
| `ResultAssumption` | what a task succeeds with is typed, has no issues and passed the sandbox, as `SucceededVerified` says of ArchitectWorkflow |
| `MatchingAssumption`, `PiecesAssumption` | the inputs of Matching and Configurations are typed |
| `LivesAssumption` | live repositories are sound, as `ConfigIntegrity` and `UniqueSignature` say of every repository the process reaches |
| `AgentsAssumption`, `TextsAssumption` | the samples the planner puts for parameters are segments, there is a key for every mention, GET is a method, 100 to 599 are statuses |
| `HealthAssumption` | the path `/generated-health` has nothing that is decoded or cut |
| `LiteralAssumption` | three literals of the planner are strings; true of any, but the provers have to be told |
| `BreakerAssumption`, `CallersAssumption` | a positive threshold, finitely many callers |
| `WorkflowAssumption`, `DashboardAssumption` | types of the constants |

* **PipelineProofs** has what the others share.
  *Matching.* `Preferred` orders positions totally, and every finite set of candidates
  has a best one, hence `MatchIsPreferred`. `NewcomerTakesOver`: appending an endpoint
  changes the answer only in favour of a more static newcomer. `NormalizedSplitsAlike`:
  paths that `_normalize_path` takes for one are split alike. Both stripping and
  splitting select subsequences, and a selection is determined by the rank of each
  element, the number of selected ones before it; so two sequences with the same
  elements at each rank are equal, and no induction over a path is needed.
  *Repository.* Each creation keeps `Sound(repo, n)`, types and integrity with all
  identifiers below n, and moves n up; behind the signature check signatures stay
  unique. Freshness is what makes it inductive: integrity alone does not exclude that a
  new identifier meets an old one.
  *Resolve.* What is routed to an endpoint is answered by an active endpoint of the
  project and method with a response of that endpoint (`ResolveServesOwn`); by
  `HasOneDefault` the 501 placeholder is out of reach.
  *Rounds.* `commit` and the sandbox are recursive functions over the rounds of two
  loops. `IsRun` says of a function that each of its values is one round after the one
  before; what every round keeps, a run keeps, by the smallest round that would not.
* **MatchingProofs**: the six properties of Matching. `ParamsRebuildRequest` reads the
  captured value of a name back from the one position that has it. `MostStaticWins`
  rests on the candidate no other beats. `FirstMatchDecides` compares `FirstDecisive` with the recursive
  `Loop` of the source: with the first rule that does not answer "no" as a witness, all
  values of `Loop` up to it are the same.
* **MockServerProofs**: `ConfigInv` (the fresh counter is past the seed, the repository
  is sound below it, signatures are unique) is inductive over creations and restarts.
  `TypeOKHolds`, `ConfigIntegrityHolds`, `UniqueSignatureHolds`,
  `ServedByOwnEndpointHolds` and the action property `RoutingStableHolds` follow. The
  fourth needs that lists only grow while a call sleeps, or are reset together with
  all calls by a restart. So does `AnsweredAsOfBodyReadHolds`, over `SeenInv`: below the
  sizes that a call remembers the lists are what they were, so the decision of then is
  the decision of now on the prefixes. `RulesStableHolds` is the same argument for one
  creation. `CheckExplainedHolds` compares a path the form splits with the template the
  repository normalised, by `NormalizedSplitsAlike`. `LoggedOnceHolds` rests on
  `LogInv`, a correspondence of entries and logged calls. `RecentFirstHolds` is about
  the page: an entry's position in it is the number of entries newer than it, which is
  a bijection because `Newer` is a strict total order. `ImplementsSafeService`
  (`Spec => Service!SafeSpec`) maps each action to one of MockService or a stutter.
* **ArchitectServerProofs**: `ConfigInv` holds of the process, with `CommitInv`: what a
  commit in its loops has added since it was called is of its project and, for rules,
  of its endpoints, and every signature and rule that a finished round was about is
  there. Its rounds are creations behind a signature check, so the lemmas about
  creations carry over, and with them all theorems about MockServer but the log's
  (`ProcessTypeOK`, `ProcessServedByOwnEndpoint`, `ProcessCheckExplained`,
  `ProcessRoutingStable` and others). `CommitTouchesOwnHolds` and `CommitCompleteHolds`
  hold of any configuration, in every interleaving.
* **ConfigurationProofs**: `Commit` as a whole, over its rounds. `CommitSoundHolds`: a
  round keeps soundness and unique signatures. `CommitIdempotentHolds`: after a commit
  every signature exists, so no round of a second one creates an endpoint, its map from
  keys to identifiers stays empty, and without one no rule is added.
  `CreatedAsSimulatedHolds` lets a commit and a sandbox run take their rounds in step
  (`InStep`): of every endpoint, `Decision` is what its rules decide and what is selected
  then; a creation leaves the decisions of other endpoints alone (`EndpointAdded`), a rule
  is put behind the decision of its own (`RuleAdded`), so an endpoint that commit created
  and its twin get the same rules in the same rounds (`Paired`), and a round that commit
  skips touches a key that it has not bound. `CommittedAsSimulatedHolds` is the central
  argument: with distinct signatures and a project without endpoints,
  each round of commit creates what the same round of the sandbox creates, in the same
  order, behind what other projects own (`Simulated`); a rule goes to the endpoint its
  key stands for in both, the later one where a key repeats; therefore matcher, rules
  and selector pick corresponding endpoints, rules and responses, and a scenario is
  answered alike although all identifiers and positions differ.
* **FallbackProofs**: `FallbackUsableHolds`, for texts of any size over any alphabet.
  The configuration made of a text is known piece by piece (`MadeOf`). The template of
  a mention fits its own sampled path (`SampleFits`): with a "?" the sample is cut where
  the path is. No other endpoint fits it, for mentions do not overlap; so the critic has no
  duplicate, matching has one candidate, the query clause does not apply to a scenario
  without fields, and the default response has the status that the scenario expects.
* **ArchitectProofs**: for the client, `LLMInv`, types with `OpenIffExhausted` and
  `OutageBounded`, is inductive: a call starts only below the threshold, and a call that
  ends moves at most one unit from `Cardinality(flight)` to the count. For the workflow,
  `WorkflowInv` adds to the types who has the loop, who is in the air, on which verdicts
  a phase stands and that `rounds` is the iteration, less one in code generation.
  `SucceededVerified` alone is not inductive: a verdict must be known to be about the
  configuration at hand already in the phase before. From it follow
  `WorkflowTypeOKHolds`, `SucceededVerifiedHolds`, `RetryBudgetHolds`,
  `CallsAwaitedHolds`; the refinement `WorkflowUsesClient` (`Spec => LLMSpec`), which
  carries the client's theorems over (`SharedBreaker`); and `ImplementsSafeLifecycle`
  (`Spec => Lifecycle!SafeSpec`), step by step. `DeadLetteredOnceHolds` needs that the
  queue holds a task only from the step that ends it; `RepairInformedHolds` that the
  feedback in hand is about the configuration before, unless a semantic review sent it
  back.
* **DashboardProofs**: `Exchanged` is what an exchange does to the count of one fetch.
  `OneChain` is inductive with the types: a conversation is idle or with exactly one
  fetch, which opens, passes on or closes it. `CommitsWhereGenerated` needs `PlanInv`:
  as long as nothing was overtaken, whatever names a task (the active one, the timer, a
  poll in flight) names one of the selected project, and every task that is named
  exists, so that a new one is none of them. `TablesFollowProjectHolds` needs the same of
  the loads in flight: as long as no change of the project overtook one, they are for
  the project that is selected.

Only model-checked: liveness, which is beyond TLAPS, that is `GenerateReturns` and the
fairness halves of `ImplementsMockService` and `ImplementsLifecycle`. Recursion
is written as recursive functions, which the provers unfold one round at a time. The
runs that expect a violation are about properties that do not hold.

## 5. Not modelled, and why

Bodies, names, header texts and template substitution are formatting: only their effect
on whether a response can be sent is kept. Role checks, status and static pages keep no
state. Telemetry and metrics only observe: the counts of `MetricsEvaluator` and the
trace list that tasks share are returned and never read by the workflow. Texts are
abstracted to what the regular expressions of the planner read; a brace pair that spans a
slash (`/x/{a/b}`), which `planner_agent.py:108` samples over the whole path, is outside
`ScenarioOf`, which samples segment by segment. Dotted lookups of rule fields are keys of
a context, read whole (`ExtractValue`). Every entry of the log is saved with its project,
so `GetRequestLogOverviews` leaves out entries without one (`repository.py:518`). Length limits of names
and paths are left out. Cancellation at server shutdown is subsumed under `Restart` for
the DEO and under `RestartProcess` for finished tasks; a task that runs when the process
dies is lost like one that was never submitted. Of the dashboard, rendering, filters, the
probe, the check card and the forms that create endpoints and rules are left out: each
posts once, shows the answer and loads tables again (`LoadTable`). A reload of the page
is a new `Init`.

## 6. Plan

Done, in this order: RouteMatcher; RuleEngine; Repository; Orchestrator, SeedData and
MockServer with their proofs; LLMClient with proofs; ArchitectWorkflow, its refinement
of TaskLifecycle and proofs; GeneratedConfig; FallbackAgents; MockService and its
refinement; ArchitectServer with proofs; Dashboard with proofs; Matching,
Configurations and FallbackTexts, split from their MC modules, with proofs; theorems
for the invariants that were only model-checked (`CheckExplained`, `RecentFirst`,
`TablesFollowProject` and those of the three).

Left: one workflow in which the verdicts of ArchitectWorkflow are those of
GeneratedConfig, which now meet only through `ResultAssumption`; template substitution,
should a property about it turn up.
