-------------------------------- MODULE SeedData --------------------------------
(***************************************************************************)
(* The projects, endpoints, rule, delay and responses that                 *)
(* InMemoryEndpointRepository.__init__ creates.  Identifiers: endpoints    *)
(* are 1 to 5 and responses 6 to 11, in the order of the source.           *)
(***************************************************************************)
EXTENDS Sequences

SeedProjects == {"demo", "checkout-lab", "refunds-qa"}

SeedEndpoint(id, project, path, method) ==
  [id |-> id, project_id |-> project, path |-> path, method |-> method,
   is_active |-> TRUE]

SeedResponse(id, endpoint_id, status_code, is_default, echo) ==
  [id |-> id, endpoint_id |-> endpoint_id, status_code |-> status_code,
   is_default |-> is_default, echo |-> echo]

\* Only the headers x-mockmesh-endpoint: {{payment_id}} copy request text.
SeedRepository(failed) ==
  [endpoints |->
     << SeedEndpoint(1, "demo", <<"payments", "{payment_id}">>, "GET"),
        SeedEndpoint(2, "demo", <<"payouts">>, "POST"),
        SeedEndpoint(3, "demo", <<"health">>, "GET"),
        SeedEndpoint(4, "checkout-lab", <<"cards">>, "POST"),
        SeedEndpoint(5, "refunds-qa", <<"refunds", "{refund_id}", "status">>, "GET") >>,
   rules |->
     << [endpoint_id |-> 1, condition_type |-> "query", field |-> "status",
         operator |-> "equals", value |-> failed, action |-> 7] >>,
   delays |-> << [endpoint_id |-> 2, delay_ms |-> 650, mode |-> "fixed"] >>,
   responses |->
     << SeedResponse(6, 1, 200, TRUE, TRUE),   SeedResponse(7, 1, 402, FALSE, TRUE),
        SeedResponse(8, 2, 202, TRUE, FALSE),  SeedResponse(9, 3, 200, TRUE, FALSE),
        SeedResponse(10, 4, 201, TRUE, FALSE), SeedResponse(11, 5, 200, TRUE, FALSE) >>]

SeedFresh == 12
================================================================================
