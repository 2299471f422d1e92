----------------------------- MODULE FallbackAgents -----------------------------
(***************************************************************************)
(* What the architect makes without an LLM: the plan that                  *)
(* planner_agent.py scrapes from the text of a specification, and the      *)
(* configuration codegen_agent.py makes of a plan.                         *)
(*                                                                         *)
(* A text is known by its mentions "METHOD /path", each with what stands   *)
(* between it and the next one ("status NNN", "delay N"), and by the value *)
(* of its first "query x == y".  An endpoint has the key its position      *)
(* names.  Names, bodies and lengths are left out.                         *)
(***************************************************************************)
EXTENDS GeneratedConfig

CONSTANTS
  Sample,           \* raw segment -> the segment with each {x} made sample_x
  PayoutSegments,   \* the raw segments with "payout" in them
  KeyOf             \* position -> endpoint_<position>

ASSUME AgentsAssumption ==
  /\ Sample \in [RawSegments -> RawSegments]
  /\ \A i \in DOMAIN KeyOf : KeyOf[i] \in Keys
  /\ "GET" \in Methods /\ "fixed" \in DelayModes
  /\ 100 .. 599 \subseteq Statuses
  /\ "generated-health" \in RawSegments

\* True of every literal; the provers have to be told.
ASSUME LiteralAssumption == {"query", "status", "equals"} \subseteq STRING

Unstated == -1      \* the status of a mention without one

\* A raw_spec as the regular expressions of the planner read it.  delay is 0 if
\* there is none, query is None or the value of the clause on the field "status".
Text(mentions, query) == [mentions |-> mentions, query |-> query]

\* The range of the fields default_status_code and expected_status_code.
ValidStatus(status_code) == status_code \in 100 .. 599

\* The status of the endpoint that a mention plans, 202 for a new payout.
PlannedStatus(mention) ==
  LET payout == \E i \in DOMAIN mention.path : mention.path[i] \in PayoutSegments
  IN  IF mention.status # Unstated THEN mention.status
      ELSE IF payout /\ mention.method = "POST" THEN 202 ELSE 200

PlannedEndpoint(key, mention) ==
  [key |-> key, path |-> mention.path, method |-> mention.method,
   status_code |-> PlannedStatus(mention), delay_ms |-> mention.delay,
   delay_mode |-> "fixed"]

\* Mutant: the scenario of a payout expects the default of other endpoints.
ScenarioExpecting200(mention) ==
  [method |-> mention.method,
   path |-> [i \in DOMAIN mention.path |-> Sample[mention.path[i]]],
   fields |-> << >>,
   expected_status_code |-> IF mention.status = Unstated THEN 200 ELSE mention.status,
   fragments_in |-> 100 .. 599]

ScenarioOf(mention) ==
  [method |-> mention.method,
   path |-> [i \in DOMAIN mention.path |-> Sample[mention.path[i]]],
   fields |-> << >>, expected_status_code |-> PlannedStatus(mention),
   fragments_in |-> 100 .. 599]

PlannedRule(key, value) ==
  [endpoint_key |-> key, condition_type |-> "query", field |-> "status",
   operator |-> "equals", value |-> value, status_code |-> 409]

\* What a text without a mention gets.
HealthMention ==
  [method |-> "GET", path |-> <<"generated-health">>, status |-> Unstated, delay |-> 0]

\* What a plan is made of: the mentions of the text, or the health endpoint.
PlannedMentions(text) ==
  IF text.mentions = << >> THEN <<HealthMention>> ELSE text.mentions

\* A scenario whose status is out of range raises.
PlanRaises(text) ==
  \E i \in DOMAIN PlannedMentions(text) : ~ ValidStatus(PlannedStatus(PlannedMentions(text)[i]))

\* _fallback_plan: the rule of the query clause belongs to the first mention.
FallbackPlanOf(text) ==
  LET mentions == PlannedMentions(text)
      ruled    == text.mentions # << >> /\ text.query # None
  IN  [endpoints |-> [i \in DOMAIN mentions |-> PlannedEndpoint(KeyOf[i], mentions[i])],
       rules     |-> IF ruled THEN <<PlannedRule(KeyOf[1], text.query)>> ELSE << >>,
       scenarios |-> [i \in DOMAIN mentions |-> ScenarioOf(mentions[i])]]

--------------------------------------------------------------------------------
\* Code generation.

ConditionTypes == {"query", "headers", "body", "path", "request"}

\* The validators of EndpointCreateRequest and RuleCreateRequest let it through;
\* code generation raises if they do not.
Convertible(plan) ==
  /\ \A i \in DOMAIN plan.endpoints :
       /\ plan.endpoints[i].method \in Methods
       /\ plan.endpoints[i].delay_mode \in DelayModes
  /\ \A i \in DOMAIN plan.rules :
       /\ plan.rules[i].condition_type \in ConditionTypes
       /\ plan.rules[i].operator \in OPERATOR_REGISTRY

EndpointConfigOf(e) ==
  [key |-> e.key,
   endpoint |-> [path |-> e.path, method |-> e.method, is_active |-> TRUE,
                 status_code |-> e.status_code, echo |-> FALSE, delay_ms |-> e.delay_ms,
                 delay_mode |-> e.delay_mode]]

RuleConfigOf(r) ==
  [endpoint_key |-> r.endpoint_key,
   rule |-> [condition_type |-> r.condition_type, field |-> r.field,
             operator |-> r.operator, value |-> r.value, status_code |-> r.status_code,
             echo |-> FALSE]]

\* _fallback_codegen.
FallbackCodegen(plan) ==
  [endpoints |-> [i \in DOMAIN plan.endpoints |-> EndpointConfigOf(plan.endpoints[i])],
   rules     |-> [i \in DOMAIN plan.rules |-> RuleConfigOf(plan.rules[i])],
   scenarios |-> plan.scenarios]

\* What a workflow without an LLM makes of a text, three times over: nothing, or a
\* configuration the critic rejects, or what the sandbox says of it.
OfflineResult(project, text) ==
  LET plan   == FallbackPlanOf(text)
      config == FallbackCodegen(plan)
  IN  IF PlanRaises(text) \/ ~ Convertible(plan) THEN "raised"
      ELSE IF HasIssues(config) THEN "rejected"
      ELSE SandboxResult(project, config)
================================================================================
