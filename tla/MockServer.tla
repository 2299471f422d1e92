------------------------------- MODULE MockServer -------------------------------
(***************************************************************************)
(* The DEO runtime, deo/router.py on one event loop: concurrent calls of   *)
(* the mock catch-all, the control plane that changes the configuration    *)
(* meanwhile, the background tasks that save request logs, and the loss    *)
(* of everything in memory at a restart.                                   *)
(*                                                                         *)
(* A handler runs until it really suspends.  A mock call does so while its *)
(* body arrives, while its delay sleeps, and while the written response    *)
(* drains to a slow client; only between those points can anything else    *)
(* happen.  A control-plane handler never suspends once its body is read.  *)
(***************************************************************************)
EXTENDS Orchestrator

CONSTANTS
  Requests,         \* the mock calls that may be made
  Contexts,         \* what a call may carry: [project_id, method, path, fields,
                    \*   exotic]; exotic if it holds text outside latin-1
  EndpointPosts,    \* the [project_id, body] posted to create an endpoint
  RulePosts,        \* the [project_id, body] posted to create a rule, where
                    \*   the body lacks its endpoint_id
  Seed,             \* the repository after __init__
  SeedIds,          \* the identifiers of the seed are below it
  MaxEndpoints,     \* bound on the endpoints of the repository
  MaxRules,         \* bound on its rules
  MaxClock,         \* bound on the clock
  MaxRestarts       \* bound on the restarts of the process

ASSUME ContextAssumption ==
  /\ Contexts # {}
  /\ \A ctx \in Contexts :
       ctx \in [project_id : Projects, method : Methods, path : Paths,
               fields : {ctx.fields}, exotic : BOOLEAN]

ASSUME PostAssumption ==
  /\ EndpointPosts \subseteq [project_id : Projects, body : EndpointCreateRequest]
  /\ RulePosts \subseteq [project_id : Projects, body : RuleCreateRequest]

ASSUME SeedAssumption ==
  /\ SeedIds \in Nat
  /\ Seed \in RepositoryType
  /\ Integral(Seed)
  /\ UniqueSignatures(Seed)
  /\ IdsBelow(Seed, SeedIds)

VARIABLES
  repo,           \* the configuration in InMemoryEndpointRepository
  request_logs,   \* its log entries, in the order they were saved
  fresh,          \* identifiers from here on were never used
  call,           \* per mock call: its phase and the locals of its handler
  clock,          \* datetime.now
  restarts,       \* how often the process was restarted
  seen            \* history: the lengths of the lists of repo at routing time

vars == <<repo, request_logs, fresh, call, clock, restarts, seen>>

Phases == {"idle", "reading", "sleeping", "responded", "logged", "failed", "aborted",
           "gone"}

SizesOf(r) == [endpoints |-> Len(r.endpoints), responses |-> Len(r.responses),
               rules |-> Len(r.rules), delays |-> Len(r.delays)]

AnyContext == CHOOSE c \in Contexts : TRUE

IdleCall == [phase |-> "idle", ctx |-> AnyContext, endpoint_id |-> NoId,
             selected |-> Selected(NotFound, FALSE), created_at |-> 0]

Init ==
  /\ repo = Seed
  /\ request_logs = << >>
  /\ fresh = SeedIds
  /\ call = [r \in Requests |-> IdleCall]
  /\ clock = 0
  /\ restarts = 0
  /\ seen = [r \in Requests |-> SizesOf(Seed)]

--------------------------------------------------------------------------------
\* The mock catch-all.

\* A call reaches mock_endpoint, which waits for its body.
Arrive(r) ==
  /\ call[r].phase = "idle"
  /\ \E ctx \in Contexts :
       call' = [call EXCEPT ![r].phase = "reading", ![r].ctx = ctx]
  /\ UNCHANGED <<repo, request_logs, fresh, clock, restarts, seen>>

\* request.body() raises because the client went away.
Disconnect(r) ==
  /\ call[r].phase = "reading"
  /\ call' = [call EXCEPT ![r].phase = "aborted"]
  /\ UNCHANGED <<repo, request_logs, fresh, clock, restarts, seen>>

\* Render, create the log entry, build the Response and write it.  If the
\* headers cannot be encoded the handler raises: 500, and the background
\* task that was added is dropped with the response.
Finished(state, resolution) ==
  [state EXCEPT
     !.phase       = IF HeadersEncodable(resolution.selected, state.ctx)
                       THEN "responded" ELSE "failed",
     !.endpoint_id = resolution.endpoint_id,
     !.selected    = resolution.selected,
     !.created_at  = clock]

\* build_request_context.
RequestContext(r) == [call[r].ctx EXCEPT !.path = StripSlashes(@)]

\* The body is there: the handler runs to the end, to an exception (500)
\* or to the sleep of the delay.
BodyRead(r) ==
  /\ call[r].phase = "reading"
  /\ LET resolution == Resolve(repo, call[r].ctx.project_id, RequestContext(r))
     IN  call' = [call EXCEPT ![r] =
           CASE resolution.step = "render" -> Finished(@, resolution)
             [] resolution.step = "sleep"  ->
                  [@ EXCEPT !.phase = "sleeping",
                            !.endpoint_id = resolution.endpoint_id,
                            !.selected = resolution.selected]
             [] resolution.step = "raise"  ->
                  [@ EXCEPT !.phase = "failed", !.endpoint_id = resolution.endpoint_id]]
  /\ seen' = [seen EXCEPT ![r] = SizesOf(repo)]
  /\ UNCHANGED <<repo, request_logs, fresh, clock, restarts>>

\* Mutant: the response is selected after the sleep, from what is configured then.
WakeAndResolve(r) ==
  /\ call[r].phase = "sleeping"
  /\ call' = [call EXCEPT ![r] =
       Finished(@, Resolve(repo, call[r].ctx.project_id, RequestContext(r)))]
  /\ UNCHANGED <<repo, request_logs, fresh, clock, restarts, seen>>

\* The delay has passed; the handler goes on with its local variables.
Wake(r) ==
  /\ call[r].phase = "sleeping"
  /\ call' = [call EXCEPT ![r] =
       Finished(@, Resolution("render", @.endpoint_id, @.selected))]
  /\ UNCHANGED <<repo, request_logs, fresh, clock, restarts, seen>>

LogEntry(r) ==
  [call |-> r, project_id |-> call[r].ctx.project_id,
   endpoint_id |-> call[r].endpoint_id,
   response_code |-> call[r].selected.status_code, created_at |-> call[r].created_at]

\* Mutant: the task is not taken off the response and may run again.
SaveRequestLogAgain(r) ==
  /\ call[r].phase = "responded"
  /\ Len(request_logs) < 4
  /\ request_logs' = Append(request_logs, LogEntry(r))
  /\ UNCHANGED <<repo, fresh, call, clock, restarts, seen>>

\* Mutant: calls that were routed nowhere are not logged.
SaveMatchedRequestLog(r) ==
  /\ call[r].phase = "responded"
  /\ call[r].endpoint_id # NoId
  /\ request_logs' = Append(request_logs, LogEntry(r))
  /\ call' = [call EXCEPT ![r].phase = "logged"]
  /\ UNCHANGED <<repo, fresh, clock, restarts, seen>>

\* The response has drained, the background task runs.
SaveRequestLog(r) ==
  /\ call[r].phase = "responded"
  /\ request_logs' = Append(request_logs, LogEntry(r))
  /\ call' = [call EXCEPT ![r].phase = "logged"]
  /\ UNCHANGED <<repo, fresh, clock, restarts, seen>>

--------------------------------------------------------------------------------
\* The control plane.

\* create_endpoint; 409 leaves the state alone.
PostEndpoint(post) ==
  /\ Len(repo.endpoints) < MaxEndpoints
  /\ ~ EndpointSignatureExists(repo, post.project_id, post.body.method, post.body.path)
  /\ repo' = CreateEndpoint(repo, post.project_id, post.body, fresh, fresh + 1)
  /\ fresh' = fresh + 2
  /\ UNCHANGED <<request_logs, call, clock, restarts, seen>>

\* create_rule, for any endpoint identifier a client may hold; 404 leaves
\* the state alone.
PostRule(post, endpoint_id) ==
  /\ Len(repo.rules) < MaxRules
  /\ EndpointExists(repo, post.project_id, endpoint_id)
  /\ repo' = CreateRule(repo, endpoint_id, post.body, fresh)
  /\ fresh' = fresh + 1
  /\ UNCHANGED <<request_logs, call, clock, restarts, seen>>

\* list_logs: the limit is clamped to 1..200.
LogPageMax == 200
ListLogs(project, limit) ==
  LET capped  == IF limit < LogPageMax THEN limit ELSE LogPageMax
      clamped == IF capped > 1 THEN capped ELSE 1
  IN  GetRequestLogOverviews(request_logs, project, clamped)

--------------------------------------------------------------------------------
\* The environment.

Tick ==
  /\ clock < MaxClock
  /\ clock' = clock + 1
  /\ UNCHANGED <<repo, request_logs, fresh, call, restarts, seen>>

\* The process dies and starts again: the memory is the seed, the open
\* connections are closed, identifiers handed out stay with their holders.
Restart ==
  /\ restarts < MaxRestarts
  /\ restarts' = restarts + 1
  /\ repo' = Seed
  /\ request_logs' = << >>
  /\ call' = [r \in Requests |->
                IF call[r].phase = "idle" THEN call[r]
                ELSE [call[r] EXCEPT !.phase = "gone"]]
  /\ UNCHANGED <<fresh, clock, seen>>

--------------------------------------------------------------------------------
\* What a process does that goes on.
Step ==
  \/ \E r \in Requests :
       Arrive(r) \/ Disconnect(r) \/ BodyRead(r) \/ Wake(r) \/ SaveRequestLog(r)
  \/ \E post \in EndpointPosts : PostEndpoint(post)
  \/ \E post \in RulePosts : \E endpoint_id \in 1 .. fresh : PostRule(post, endpoint_id)
  \/ Tick

Next == Step \/ Restart

Spec == Init /\ [][Next]_vars

\* The event loop runs what is due: sleeps end, and background tasks run
\* once their response has drained, which takes a client that reads or
\* hangs up.  Nothing makes a client send its body.
Fairness == \A r \in Requests : WF_vars(Wake(r)) /\ WF_vars(SaveRequestLog(r))

FairSpec == Spec /\ Fairness

--------------------------------------------------------------------------------
(***************************************************************************)
(* Properties.                                                             *)
(***************************************************************************)

\* Every variable holds what the code can store in it.
TypeOK ==
  /\ repo \in RepositoryType
  /\ request_logs \in Seq([call : Requests, project_id : Projects, endpoint_id : Nat,
                           response_code : Statuses \cup {NotFound, Unconfigured},
                           created_at : Nat])
  /\ fresh \in Nat
  /\ call \in [Requests -> [phase : Phases, ctx : Contexts, endpoint_id : Nat,
                            selected : [status_code : Statuses \cup {NotFound, Unconfigured},
                                        echo : BOOLEAN],
                            created_at : Nat]]
  /\ clock \in Nat
  /\ restarts \in Nat
  /\ seen \in [Requests -> [endpoints : Nat, responses : Nat, rules : Nat, delays : Nat]]

\* The relational shape the repository's lists are meant to have (identifiers
\* are keys, an endpoint has one default response and at most one delay, a
\* rule's action is a response of the rule's own endpoint) survives every
\* order of creations, restarts and clients that hold identifiers of an
\* earlier process.
ConfigIntegrity == Integral(repo)

\* project + method + path, normalised, identifies an endpoint, whatever the
\* order in which creations are posted.
UniqueSignature == UniqueSignatures(repo)

Answered == {"sleeping", "responded", "logged"}

\* A call that was routed to an endpoint is answered with a response configured
\* for that endpoint, and the endpoint is an active one of the call's project
\* and method: no 501 placeholder, no response of another endpoint or tenant.
ServedByOwnEndpoint ==
  \A r \in Requests :
    call[r].phase \in Answered /\ call[r].endpoint_id # NoId =>
      /\ \E i \in DOMAIN repo.endpoints :
           /\ repo.endpoints[i].id = call[r].endpoint_id
           /\ repo.endpoints[i].project_id = call[r].ctx.project_id
           /\ repo.endpoints[i].method = call[r].ctx.method
           /\ repo.endpoints[i].is_active
      /\ \E i \in DOMAIN repo.responses :
           /\ repo.responses[i].endpoint_id = call[r].endpoint_id
           /\ repo.responses[i].status_code = call[r].selected.status_code

\* The configuration as it was when it had the given sizes.
AsOf(r, sizes) ==
  [endpoints |-> SubSeq(r.endpoints, 1, sizes.endpoints),
   responses |-> SubSeq(r.responses, 1, sizes.responses),
   rules     |-> SubSeq(r.rules, 1, sizes.rules),
   delays    |-> SubSeq(r.delays, 1, sizes.delays)]

\* A call is answered by the configuration as it was when its body was read:
\* endpoints and rules created while it sleeps in its delay, or later, change
\* neither the endpoint nor the status it is answered and logged with.
AnsweredAsOfBodyRead ==
  \A r \in Requests :
    call[r].phase \in Answered =>
      LET then == Resolve(AsOf(repo, seen[r]), call[r].ctx.project_id, RequestContext(r))
      IN  /\ call[r].endpoint_id = then.endpoint_id
          /\ call[r].selected = then.selected

\* The log has one entry per call whose background task ran and none for any
\* other, and the entry records the status the client was sent.
LoggedOnce ==
  \A r \in Requests :
    LET entries == {i \in DOMAIN request_logs : request_logs[i].call = r}
    IN  /\ Cardinality(entries) = IF call[r].phase = "logged" THEN 1 ELSE 0
        /\ \A i \in entries :
             request_logs[i].response_code = call[r].selected.status_code

\* What the logs page shows is the newest part of the project's log, newest
\* first, although entries are saved in the order in which clients drain
\* their responses and not in the order of their timestamps.
RecentFirst ==
  \A project \in Projects, limit \in 0 .. 2 :
    LET page == ListLogs(project, limit)
        own  == {i \in DOMAIN request_logs : request_logs[i].project_id = project}
        shown == {page[k] : k \in DOMAIN page}
    IN  /\ Len(page) = IF limit <= 1 THEN (IF own = {} THEN 0 ELSE 1)
                       ELSE IF Cardinality(own) < limit THEN Cardinality(own) ELSE limit
        /\ shown \subseteq {request_logs[i] : i \in own}
        /\ \A k \in 1 .. Len(page) - 1 : page[k].created_at >= page[k + 1].created_at
        /\ \A i \in own, k \in DOMAIN page :
             request_logs[i] \notin shown => request_logs[i].created_at <= page[k].created_at

\* The position of the endpoint a context is routed to under r.
RouteOf(r, ctx) ==
  Match(r.endpoints, GetActiveEndpoints(r, ctx.project_id), ctx.method, ctx.path)

StaticOf(r, i) == StaticCount(SplitPath(r.endpoints[i].path))

\* The control plane has changed the repository of a process that goes on.
Configured == repo' # repo /\ restarts' = restarts

\* Creating an endpoint takes a request over from another endpoint only if its
\* template is strictly more static; a tie never moves traffic to a newcomer.
TakesOverOnlyIfMoreStatic ==
  \A ctx \in Contexts :
    LET before == RouteOf(repo, ctx)
        after  == RouteOf(repo', ctx)
    IN  before # NoMatch /\ after # before => StaticOf(repo', after) > StaticOf(repo', before)

RoutingStable == [][Configured => TakesOverOnlyIfMoreStatic]_vars

\* The positions of the endpoints whose template a context fits.
RoutableOf(r, ctx) ==
  Candidates(r.endpoints, GetActiveEndpoints(r, ctx.project_id), ctx.method, ctx.path)

\* What the rules of the endpoint at position i decide for a context.
DecisionOf(r, i, ctx) ==
  LET e == r.endpoints[i]
  IN  FirstDecisive(r.rules, GetRules(r, e.id), ctx,
                    PathParams(SplitPath(e.path), SplitPath(ctx.path)))

\* A new rule only gets the requests that no earlier rule of its endpoint has
\* decided, and never touches another endpoint.
EarlierRulesKeepTheirRequests ==
  \A ctx \in Contexts : \A i \in RoutableOf(repo, ctx) :
    /\ DecisionOf(repo, i, ctx) # NoRule => DecisionOf(repo', i, ctx) = DecisionOf(repo, i, ctx)
    /\ DecisionOf(repo', i, ctx) # NoRule =>
         repo'.rules[DecisionOf(repo', i, ctx)].endpoint_id = repo.endpoints[i].id

RulesStable == [][Configured => EarlierRulesKeepTheirRequests]_vars

\* The state of a call as its caller sees it.
ServiceState(phase) ==
  CASE phase \in {"idle", "reading"}             -> "open"
    [] phase = "sleeping"                         -> "decided"
    [] phase = "responded"                        -> "answered"
    [] phase = "logged"                           -> "logged"
    [] phase \in {"failed", "aborted", "gone"}    -> "lost"

NoAnswer == [endpoint_id |-> NoId, response_code |-> 0]

AnswerOf(c) ==
  IF c.phase \in Answered
    THEN [endpoint_id |-> c.endpoint_id, response_code |-> c.selected.status_code]
    ELSE NoAnswer

LoggedAnswer(entry) ==
  [call |-> entry.call,
   answer |-> [endpoint_id |-> entry.endpoint_id, response_code |-> entry.response_code]]

\* The runtime seen as a MockService.
Service == INSTANCE MockService WITH
  Answers <- [endpoint_id : Nat, response_code : Statuses \cup {NotFound, Unconfigured}],
  state   <- [r \in Requests |-> ServiceState(call[r].phase)],
  answer  <- [r \in Requests |-> AnswerOf(call[r])],
  log     <- [i \in DOMAIN request_logs |-> LoggedAnswer(request_logs[i])]

\* The runtime keeps the promises of MockService: what is decided when the body has
\* been read is what is sent after the sleep and what is logged, once, after the
\* response drained; a call whose answer is fixed is logged or lost in the end.
ImplementsMockService == Service!Spec

Ended == {"logged", "failed"}

\* README.md: every call of /mock is pushed through the pipeline and ends, found
\* or not, in a saved RequestLogEntry.
EveryResolvedCallIsLogged ==
  \A r \in Requests :
    call[r].phase \in Ended => \E i \in DOMAIN request_logs : request_logs[i].call = r

\* check_endpoint: whether a path resolves, over the active endpoints.  Whether
\* its exact signature exists is asked of all of them.
Resolves(project, method, path) ==
  Match(repo.endpoints, GetActiveEndpoints(repo, project), method, path) # NoMatch

Nameless(path) ==
  \E i \in DOMAIN SplitPath(path) :
    IsParam(SplitPath(path)[i]) /\ ParamName[SplitPath(path)[i]] = NoName

\* The checks a user can make of what is configured: the signature of any
\* endpoint that is in the repository or is about to be posted.
Checks ==
  {<<e.project_id, e.method, e.path>> : e \in {repo.endpoints[i] : i \in DOMAIN repo.endpoints}}
    \cup {<<p.project_id, p.body.method, p.body.path>> : p \in EndpointPosts}

\* The check form tells apart "no such endpoint" and "inactive": when a
\* signature exists and does not resolve, its endpoint is inactive or has a
\* parameter without a name.
CheckExplained ==
  \A c \in Checks :
    EndpointSignatureExists(repo, c[1], c[2], c[3]) /\ ~ Resolves(c[1], c[2], c[3]) =>
      \E i \in DOMAIN repo.endpoints :
        /\ SameSignature(repo.endpoints[i], c[1], c[2], c[3])
        /\ ~ repo.endpoints[i].is_active \/ Nameless(repo.endpoints[i].path)
================================================================================
