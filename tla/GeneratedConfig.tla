----------------------------- MODULE GeneratedConfig -----------------------------
(***************************************************************************)
(* What the architect does with a GeneratedConfig: the deterministic half  *)
(* of the critic (architect/critic_agent.py), the sandbox                  *)
(* (architect/sandbox.py) and commit (architect/orchestrator.py), over the *)
(* repository and the pipeline of the runtime.  None of them gives up the  *)
(* event loop but for the delays of sandbox cases, so each is an operator. *)
(*                                                                         *)
(* A body fragment a scenario expects is known by the statuses of the      *)
(* answers whose body has it.                                              *)
(***************************************************************************)
EXTENDS Orchestrator

CONSTANT Keys     \* the architect-local endpoint keys

GeneratedEndpointConfig == [key : Keys, endpoint : EndpointCreateRequest]
GeneratedRuleConfig == [endpoint_key : Keys, rule : RuleCreateRequest]

EmptyConfig == [endpoints |-> << >>, rules |-> << >>, scenarios |-> << >>]

EndpointKeys(config) == {config.endpoints[i].key : i \in DOMAIN config.endpoints}

--------------------------------------------------------------------------------
\* The critic.

SameRawSignature(e, f) ==
  e.endpoint.method = f.endpoint.method /\ e.endpoint.path = f.endpoint.path

\* _deterministic_issues is not empty.
HasIssues(config) ==
  \/ \E i, j \in DOMAIN config.endpoints :
       i # j /\ SameRawSignature(config.endpoints[i], config.endpoints[j])
  \/ \E i \in DOMAIN config.endpoints :
       /\ config.endpoints[i].endpoint.delay_ms # 0
       /\ config.endpoints[i].endpoint.delay_mode \notin DelayModes
  \/ \E i \in DOMAIN config.rules :
       \/ config.rules[i].endpoint_key \notin EndpointKeys(config)
       \/ config.rules[i].rule.operator \notin OPERATOR_REGISTRY

--------------------------------------------------------------------------------
\* A configuration is built into a repository; ids is endpoint_id_by_key.

Build(repo, fresh, ids) == [repo |-> repo, fresh |-> fresh, ids |-> ids]

WithId(ids, key, id) == [k \in DOMAIN ids \cup {key} |-> IF k = key THEN id ELSE ids[k]]

AddEndpoint(b, project, e) ==
  Build(CreateEndpoint(b.repo, project, e.endpoint, b.fresh, b.fresh + 1),
        b.fresh + 2, WithId(b.ids, e.key, b.fresh))

AddRule(b, r) ==
  Build(CreateRule(b.repo, b.ids[r.endpoint_key], r.rule, b.fresh), b.fresh + 1, b.ids)

\* A configuration takes a round for each endpoint, then one for each rule.
Rounds(config) == Len(config.endpoints) + Len(config.rules)

SandboxRound(b, project, config, n) ==
  IF n <= Len(config.endpoints) THEN AddEndpoint(b, project, config.endpoints[n])
  ELSE AddRule(b, config.rules[n - Len(config.endpoints)])

\* The repository of a sandbox run: endpoints whose signatures repeat are all
\* created, of endpoints that share a key the last one gets the rules.
SandboxRepository(project, config) ==
  LET built[n \in 0 .. Rounds(config)] ==
        IF n = 0 THEN Build(EmptyRepository, 1, << >>)
        ELSE SandboxRound(built[n - 1], project, config, n)
  IN  built[Rounds(config)].repo

\* The request that _run_case makes of a scenario.
ScenarioContext(scenario) ==
  [method |-> scenario.method, path |-> scenario.path, fields |-> scenario.fields]

Answer(repo, project, scenario) == Resolve(repo, project, ScenarioContext(scenario))

\* _run_case has no deltas.
CasePassed(repo, project, scenario) ==
  LET status_code == Answer(repo, project, scenario).selected.status_code
  IN  status_code = scenario.expected_status_code /\ status_code \in scenario.fragments_in

\* What run returns of passed, or "raised": KeyError for a rule of an unknown
\* key, or an exception that a case lets through.
SandboxResult(project, config) ==
  LET repo    == SandboxRepository(project, config)
      unknown == \E i \in DOMAIN config.rules :
                   config.rules[i].endpoint_key \notin EndpointKeys(config)
      raising == \E i \in DOMAIN config.scenarios :
                   Answer(repo, project, config.scenarios[i]).step = "raise"
      passed  == \A i \in DOMAIN config.scenarios :
                   CasePassed(repo, project, config.scenarios[i])
  IN  IF unknown \/ raising THEN "raised" ELSE IF passed THEN "passed" ELSE "failed"

--------------------------------------------------------------------------------
\* commit, past its checks of the task.

\* Mutant: signatures are not looked at.
CommitUnchecked(b, project, e) == AddEndpoint(b, project, e)

\* Mutant: the key of an endpoint that exists is bound to its identifier.
CommitReusing(b, project, e) ==
  LET same == {i \in DOMAIN b.repo.endpoints :
                 SameSignature(b.repo.endpoints[i], project, e.endpoint.method,
                               e.endpoint.path)}
  IN  IF same = {} THEN AddEndpoint(b, project, e)
      ELSE [b EXCEPT !.ids = WithId(@, e.key, b.repo.endpoints[LeastOf(same)].id)]

CommitEndpoint(b, project, e) ==
  IF EndpointSignatureExists(b.repo, project, e.endpoint.method, e.endpoint.path)
    THEN b ELSE AddEndpoint(b, project, e)

\* Mutant: every rule goes to the endpoint created last.
CommitRuleToLast(b, r) ==
  LET last == b.repo.endpoints[Len(b.repo.endpoints)].id
  IN  IF r.endpoint_key \in DOMAIN b.ids
        THEN AddRule([b EXCEPT !.ids[r.endpoint_key] = last], r) ELSE b

\* Mutant: a rule of an endpoint that exists goes to the endpoint created last.
CommitRuleAnyway(b, r) ==
  LET last == b.repo.endpoints[Len(b.repo.endpoints)].id
  IN  IF r.endpoint_key \in DOMAIN b.ids THEN AddRule(b, r)
      ELSE IF DOMAIN b.ids = {} THEN b
      ELSE AddRule([b EXCEPT !.ids = WithId(@, r.endpoint_key, last)], r)

\* Rules of endpoints that were not created are left out.
CommitRule(b, r) == IF r.endpoint_key \in DOMAIN b.ids THEN AddRule(b, r) ELSE b

CommitRound(b, project, config, n) ==
  IF n <= Len(config.endpoints) THEN CommitEndpoint(b, project, config.endpoints[n])
  ELSE CommitRule(b, config.rules[n - Len(config.endpoints)])

\* The build that commit ends with, from a repository and a fresh identifier.
Commit(repo, fresh, project, config) ==
  LET built[n \in 0 .. Rounds(config)] ==
        IF n = 0 THEN Build(repo, fresh, << >>)
        ELSE CommitRound(built[n - 1], project, config, n)
  IN  built[Rounds(config)]
================================================================================
