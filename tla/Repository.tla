------------------------------- MODULE Repository -------------------------------
(***************************************************************************)
(* The in-memory repository, deo/repository.py.  Every method runs without *)
(* giving up the event loop, so a method is an operator: a query of a      *)
(* repository, or the repository that a write leaves behind.               *)
(*                                                                         *)
(* A repository is a record of four lists in insertion order.  Names, body *)
(* templates and headers are left out, except that a response says with    *)
(* "echo" whether one of its header templates copies text of the request.  *)
(* Identifiers (uuid4) are naturals the caller guarantees to be fresh.  A  *)
(* rule is known by the response its action names.                         *)
(***************************************************************************)
EXTENDS RouteMatcher, RuleEngine

CONSTANTS
  Projects,       \* the project identifiers in use
  Methods,        \* HTTP_METHODS
  Statuses,       \* the status codes of configured responses
  DelayModes      \* DELAY_MODES

Endpoint == [id : Nat, project_id : Projects, path : Paths, method : Methods,
             is_active : BOOLEAN]
Response == [id : Nat, endpoint_id : Nat, status_code : Statuses,
             is_default : BOOLEAN, echo : BOOLEAN]
Rule == [endpoint_id : Nat, condition_type : STRING, field : STRING,
         operator : STRING, value : Values, action : Nat]
Delay == [endpoint_id : Nat, delay_ms : Nat, mode : DelayModes]

RepositoryType ==
  [endpoints : Seq(Endpoint), responses : Seq(Response), rules : Seq(Rule),
   delays : Seq(Delay)]

\* A request body that passed the validators of EndpointCreateRequest.
EndpointCreateRequest ==
  [path : Paths, method : Methods, is_active : BOOLEAN, status_code : Statuses,
   echo : BOOLEAN, delay_ms : Nat, delay_mode : DelayModes]

\* One that passed those of RuleCreateRequest, less its endpoint_id.
RuleCreateRequest ==
  [condition_type : STRING, field : STRING, operator : STRING, value : Values,
   status_code : Statuses, echo : BOOLEAN]

EmptyRepository ==
  [endpoints |-> << >>, responses |-> << >>, rules |-> << >>, delays |-> << >>]

--------------------------------------------------------------------------------
\* Queries.  A list of records is given by the positions it takes.

\* Mutant: the project is not compared.
ActiveOfAnyProject(repo, project) ==
  {i \in DOMAIN repo.endpoints : repo.endpoints[i].is_active}

GetActiveEndpoints(repo, project) ==
  {i \in DOMAIN repo.endpoints :
     repo.endpoints[i].project_id = project /\ repo.endpoints[i].is_active}

GetRules(repo, endpoint_id) ==
  {i \in DOMAIN repo.rules : repo.rules[i].endpoint_id = endpoint_id}

GetResponses(repo, endpoint_id) ==
  {i \in DOMAIN repo.responses : repo.responses[i].endpoint_id = endpoint_id}

NoDelay == 0

\* The position of the endpoint's first delay, or NoDelay.
GetDelay(repo, endpoint_id) ==
  LET own == {i \in DOMAIN repo.delays : repo.delays[i].endpoint_id = endpoint_id}
  IN  IF own = {} THEN NoDelay ELSE CHOOSE i \in own : \A j \in own : i <= j

SameSignature(endpoint, project, method, path) ==
  /\ endpoint.project_id = project
  /\ endpoint.method = method
  /\ NormalizePath(endpoint.path) = NormalizePath(path)

\* Mutant: paths are compared without normalising them.
RawSignatureExists(repo, project, method, path) ==
  \E i \in DOMAIN repo.endpoints :
    /\ repo.endpoints[i].project_id = project
    /\ repo.endpoints[i].method = method
    /\ repo.endpoints[i].path = path

\* Mutant: an endpoint of any project takes the signature.
SignatureOfAnyProject(repo, project, method, path) ==
  \E i \in DOMAIN repo.endpoints :
    /\ repo.endpoints[i].method = method
    /\ NormalizePath(repo.endpoints[i].path) = NormalizePath(path)

EndpointSignatureExists(repo, project, method, path) ==
  \E i \in DOMAIN repo.endpoints :
    SameSignature(repo.endpoints[i], project, method, path)

\* Mutant: any identifier is accepted for a project that has endpoints.
ProjectHasEndpoints(repo, project, endpoint_id) ==
  \E i \in DOMAIN repo.endpoints : repo.endpoints[i].project_id = project

EndpointExists(repo, project, endpoint_id) ==
  \E i \in DOMAIN repo.endpoints :
    /\ repo.endpoints[i].project_id = project
    /\ repo.endpoints[i].id = endpoint_id

--------------------------------------------------------------------------------
\* Writes.

\* create_endpoint: no signature check of its own; a delay of 0 is no delay.
CreateEndpoint(repo, project, request, endpoint_id, response_id) ==
  LET endpoint == [id |-> endpoint_id, project_id |-> project, path |-> request.path,
                   method |-> request.method, is_active |-> request.is_active]
      response == [id |-> response_id, endpoint_id |-> endpoint_id,
                   status_code |-> request.status_code, is_default |-> TRUE,
                   echo |-> request.echo]
      delay    == [endpoint_id |-> endpoint_id, delay_ms |-> request.delay_ms,
                   mode |-> request.delay_mode]
  IN  [endpoints |-> Append(repo.endpoints, endpoint),
       responses |-> Append(repo.responses, response),
       rules     |-> repo.rules,
       delays    |-> IF request.delay_ms = 0 THEN repo.delays
                     ELSE Append(repo.delays, delay)]

\* create_rule, past the check that the endpoint exists in the project.
CreateRule(repo, endpoint_id, request, response_id) ==
  LET response == [id |-> response_id, endpoint_id |-> endpoint_id,
                   status_code |-> request.status_code, is_default |-> FALSE,
                   echo |-> request.echo]
      rule     == [endpoint_id |-> endpoint_id, condition_type |-> request.condition_type,
                   field |-> request.field, operator |-> request.operator,
                   value |-> request.value, action |-> response_id]
  IN  [endpoints |-> repo.endpoints,
       responses |-> Append(repo.responses, response),
       rules     |-> Append(repo.rules, rule),
       delays    |-> repo.delays]

--------------------------------------------------------------------------------
\* The request log, a list of entries with project_id and created_at.

\* Mutant: the last entries saved, whatever their timestamps.
LastSavedOverviews(logs, project, limit) ==
  LET own     == {i \in DOMAIN logs : logs[i].project_id = project}
      rank(i) == Cardinality({j \in own : j >= i})
      n       == Cardinality(own)
  IN  [k \in 1 .. IF n < limit THEN n ELSE limit |-> logs[CHOOSE i \in own : rank(i) = k]]

\* Entries are ordered newest first, those with equal timestamps in the order they
\* were saved (the sort is stable).
Newer(logs, i, j) ==
  \/ logs[i].created_at > logs[j].created_at
  \/ logs[i].created_at = logs[j].created_at /\ i < j

\* get_request_log_overviews: the k-th entry of the sorted list is the one with
\* k - 1 newer ones, and at most limit of them are shown.
GetRequestLogOverviews(logs, project, limit) ==
  LET own     == {i \in DOMAIN logs : logs[i].project_id = project}
      rank(i) == Cardinality({j \in own : j = i \/ Newer(logs, j, i)})
      n       == Cardinality(own)
  IN  [k \in 1 .. IF n < limit THEN n ELSE limit |-> logs[CHOOSE i \in own : rank(i) = k]]

--------------------------------------------------------------------------------
\* The relational shape the four lists are meant to have.

DistinctIds(records) ==
  \A i, j \in DOMAIN records : records[i].id = records[j].id => i = j

HasOneDefault(r, endpoint_id) ==
  \E i \in DOMAIN r.responses :
    /\ r.responses[i].endpoint_id = endpoint_id /\ r.responses[i].is_default
    /\ \A j \in DOMAIN r.responses :
         r.responses[j].endpoint_id = endpoint_id /\ r.responses[j].is_default => j = i

HasTarget(r, rule) ==
  \E i \in DOMAIN r.responses :
    /\ r.responses[i].id = rule.action
    /\ r.responses[i].endpoint_id = rule.endpoint_id
    /\ ~ r.responses[i].is_default

\* No record is left without its endpoint.
HasOwner(r, endpoint_id) == \E i \in DOMAIN r.endpoints : r.endpoints[i].id = endpoint_id

OneDelay(r) ==
  \A i, j \in DOMAIN r.delays : r.delays[i].endpoint_id = r.delays[j].endpoint_id => i = j

Integral(r) ==
  /\ DistinctIds(r.endpoints)
  /\ DistinctIds(r.responses)
  /\ \A i \in DOMAIN r.endpoints : HasOneDefault(r, r.endpoints[i].id)
  /\ \A i \in DOMAIN r.rules : HasTarget(r, r.rules[i])
  /\ \A i \in DOMAIN r.responses : HasOwner(r, r.responses[i].endpoint_id)
  /\ \A i \in DOMAIN r.delays : HasOwner(r, r.delays[i].endpoint_id)
  /\ OneDelay(r)

UniqueSignatures(r) ==
  \A i, j \in DOMAIN r.endpoints :
    SameSignature(r.endpoints[i], r.endpoints[j].project_id,
                  r.endpoints[j].method, r.endpoints[j].path) => i = j

\* Every identifier r uses is below n.
IdsBelow(r, n) ==
  /\ \A i \in DOMAIN r.endpoints : r.endpoints[i].id < n
  /\ \A i \in DOMAIN r.responses : r.responses[i].id < n /\ r.responses[i].endpoint_id < n
  /\ \A i \in DOMAIN r.delays : r.delays[i].endpoint_id < n
================================================================================
