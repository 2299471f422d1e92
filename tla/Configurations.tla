------------------------------ MODULE Configurations ------------------------------
(***************************************************************************)
(* GeneratedConfig by itself: a configuration grows piece by piece, from   *)
(* endpoints, rules and a scenario whose keys, paths and flags may repeat, *)
(* clash, overlap or point nowhere, and is reviewed, simulated and         *)
(* committed to live repositories at every size.                           *)
(***************************************************************************)
EXTENDS GeneratedConfig

CONSTANTS
  Live,               \* the project that is committed to
  Lives,              \* repositories, [repo, fresh]: fresh and what follows is unused
  EndpointRequests,   \* the endpoints a configuration may have
  RuleRequests,       \* its rules
  Scenarios,          \* its scenarios
  MaxEndpoints,       \* bound on its endpoints
  MaxRules            \* bound on its rules

ASSUME LivesAssumption ==
  /\ Live \in Projects
  /\ \A live \in Lives :
       /\ live.fresh \in Nat \ {NoId}
       /\ live.repo \in RepositoryType
       /\ Integral(live.repo)
       /\ UniqueSignatures(live.repo)
       /\ IdsBelow(live.repo, live.fresh)

ASSUME PiecesAssumption ==
  /\ EndpointRequests \subseteq EndpointCreateRequest
  /\ RuleRequests \subseteq RuleCreateRequest
  /\ \A scenario \in Scenarios : scenario.path \in Paths

VARIABLE config

AddEndpointConfig(key, request) ==
  /\ Len(config.endpoints) < MaxEndpoints
  /\ config' = [config EXCEPT !.endpoints = Append(@, [key |-> key, endpoint |-> request])]

AddRuleConfig(key, request) ==
  /\ Len(config.rules) < MaxRules
  /\ config' = [config EXCEPT !.rules = Append(@, [endpoint_key |-> key, rule |-> request])]

AddScenario(scenario) ==
  /\ config.scenarios = << >>
  /\ config' = [config EXCEPT !.scenarios = <<scenario>>]

Init == config = EmptyConfig
Next ==
  \/ \E key \in Keys, request \in EndpointRequests : AddEndpointConfig(key, request)
  \/ \E key \in Keys, request \in RuleRequests : AddRuleConfig(key, request)
  \/ \E scenario \in Scenarios : AddScenario(scenario)

Spec == Init /\ [][Next]_config

--------------------------------------------------------------------------------
Committed(live) == Commit(live.repo, live.fresh, Live, config)

HasEndpoints(repo, project) ==
  \E i \in DOMAIN repo.endpoints : repo.endpoints[i].project_id = project

\* A commit that is repeated, by a client that got no answer or by a second click,
\* changes nothing, and the rules of the first commit are not added again.
CommitIdempotent ==
  \A live \in Lives :
    LET first == Committed(live)
    IN  Commit(first.repo, first.fresh, Live, config).repo = first.repo

\* Whatever keys and paths a configuration repeats and whatever the project has,
\* commit keeps the references of the repository intact and signatures unique.
CommitSound ==
  \A live \in Lives :
    LET done == Committed(live)
    IN  /\ Integral(done.repo) /\ UniqueSignatures(done.repo)
        /\ IdsBelow(done.repo, done.fresh)

DistinctKeys ==
  \A i, j \in DOMAIN config.endpoints :
    config.endpoints[i].key = config.endpoints[j].key => i = j

\* The same endpoint in two repositories.
Twins(endpoint, other) ==
  /\ endpoint.method = other.method
  /\ endpoint.path = other.path
  /\ endpoint.is_active = other.is_active

\* The request fits both and is answered alike, be it by an exception.
AnswerAlike(repo, endpoint, other_repo, other, ctx) ==
  LET here  == ResolveMatched(repo, endpoint, ctx)
      there == ResolveMatched(other_repo, other, ctx)
  IN  ctx.method = endpoint.method /\ MatchSegments(SplitPath(endpoint.path), SplitPath(ctx.path))
        => here.step = there.step /\ here.selected = there.selected

\* A project that has some of the endpoints gets the others only, and only their
\* rules.  Still, each endpoint that commit creates answers whatever is routed to it
\* as the same endpoint did in the sandbox: with its own rules, all of them, in
\* their order, and none of an endpoint that was left out.
CreatedAsSimulated ==
  DistinctKeys /\ ~ HasIssues(config) =>
    \A live \in Lives :
      LET done    == Committed(live).repo
          sandbox == SandboxRepository(Live, config)
      IN  \A p \in DOMAIN done.endpoints \ DOMAIN live.repo.endpoints :
            \E q \in DOMAIN sandbox.endpoints :
              /\ Twins(done.endpoints[p], sandbox.endpoints[q])
              /\ \A scenario \in Scenarios :
                   AnswerAlike(done, done.endpoints[p], sandbox, sandbox.endpoints[q],
                               ScenarioContext(scenario))

\* The sandbox is not the live project.  Still, a configuration whose endpoints
\* have distinct signatures and that passed the sandbox answers its scenarios in
\* the live repository, once committed to a project without endpoints: other
\* projects do not get in the way and every rule finds its endpoint.
CommittedAsSimulated ==
  /\ SandboxResult(Live, config) = "passed"
  /\ UniqueSignatures(SandboxRepository(Live, config))
  => \A live \in Lives :
       ~ HasEndpoints(live.repo, Live) =>
         \A i \in DOMAIN config.scenarios :
           CasePassed(Committed(live).repo, Live, config.scenarios[i])

\* README.md, section 5: the workflow makes a verified GeneratedConfig, after the
\* critic checked for duplicate method+path signatures and the sandbox replayed
\* every scenario.  What both passed answers its scenarios after the commit to
\* a project without endpoints.
VerifiedServes ==
  ~ HasIssues(config) /\ SandboxResult(Live, config) = "passed" =>
    \A live \in Lives :
      ~ HasEndpoints(live.repo, Live) =>
        \A i \in DOMAIN config.scenarios :
          CasePassed(Committed(live).repo, Live, config.scenarios[i])
================================================================================
