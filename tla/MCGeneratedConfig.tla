---------------------------- MODULE MCGeneratedConfig ----------------------------
(***************************************************************************)
(* Configurations of endpoints that repeat, overlap or are inactive, rules *)
(* that decide or raise, and a scenario, for live repositories that are    *)
(* empty, another project's, or have an endpoint of the project.           *)
(***************************************************************************)
EXTENDS Configurations, TLC

MCRawSegments == {"", "pay", "{id}", "p1"}
MCIdentity    == [raw \in MCRawSegments |-> raw]
MCParamName   == "{id}" :> "id"

Scalar(kind, text) == [kind |-> kind, num |-> 0, text |-> text, items |-> {}]
VNone   == Scalar("none", "None")
VFailed == Scalar("str", "failed")
VBad    == Scalar("str", "[")
MCValues == {VNone, VFailed, VBad}
NoFields == << >>

EP(path, active, status, delay) ==
  [path |-> path, method |-> "GET", is_active |-> active, status_code |-> status,
   echo |-> FALSE, delay_ms |-> delay, delay_mode |-> "fixed"]
MCEndpointRequests ==
  {EP(<<"pay", "p1">>, TRUE, 200, 0), EP(<<"pay", "p1", "">>, TRUE, 201, 5),
   EP(<<"pay", "p1">>, FALSE, 201, 0), EP(<<"pay", "{id}">>, TRUE, 201, 0),
   EP(<<"pay", "">>, TRUE, 200, 5)}

RuleOf(type, field, operator, value) ==
  [condition_type |-> type, field |-> field, operator |-> operator, value |-> value,
   status_code |-> 409, echo |-> FALSE]
MCRuleRequests ==
  {RuleOf("query", "status", "equals", VFailed), RuleOf("path", "id", "regex", VBad)}

Scenario(path, fields, status) ==
  [method |-> "GET", path |-> path, fields |-> fields, expected_status_code |-> status,
   fragments_in |-> {200, 201, 409}]
MCScenarios ==
  {Scenario(path, fields, status) :
     path \in {<<"pay", "p1">>, <<"pay">>},
     fields \in {NoFields, <<"query", "status">> :> VFailed}, status \in {200, 201, 409}}

\* Repositories a configuration may be committed to, with their fresh identifier:
\* empty, with the endpoint of another project, with one of the project.
Foreign == [repo |-> CreateEndpoint(EmptyRepository, "other", EP(<<"pay", "p1">>, TRUE, 200, 0), 1, 2),
            fresh |-> 3]
Own     == [repo |-> CreateEndpoint(EmptyRepository, Live, EP(<<"pay", "p1", "">>, TRUE, 200, 5), 1, 2),
            fresh |-> 3]
MCLives == {[repo |-> EmptyRepository, fresh |-> 1], Foreign, Own}
================================================================================
