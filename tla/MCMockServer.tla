------------------------------ MODULE MCMockServer ------------------------------
(* Instances of MockServer for TLC, over the repository's own seed data. *)
EXTENDS MockServer, SeedData, TLC

MCRawSegments ==
  {"", "payments", "{payment_id}", "{id}", "export", "payouts", "health", "cards",
   "refunds", "{refund_id}", "status", "p1", "exp%6Frt", "{}"}
MCBeforeQuery == [raw \in MCRawSegments |-> raw]
MCUnquote == [raw \in MCRawSegments |-> IF raw = "exp%6Frt" THEN "export" ELSE raw]
MCParamName == "{payment_id}" :> "payment_id" @@ "{id}" :> "id" @@ "{refund_id}" :> "refund_id" @@ "{}" :> ""

Scalar(kind, num, text) == [kind |-> kind, num |-> num, text |-> text, items |-> {}]
VNone   == Scalar("none", 0, "None")
VFailed == Scalar("str", 0, "failed")
VBad    == Scalar("str", 0, "[")
VP1     == Scalar("str", 0, "p1")
MCValues == {VNone, VFailed, VBad, VP1}

MCMethods == {"GET", "POST"}
MCStatuses == {200, 201, 202, 402, 409}
MCDelayModes == {"fixed", "random"}
MCSeed == SeedRepository(VFailed)

\* Mock calls.
NoFields == << >>
Ctx(project, method, path, fields, exotic) ==
  [project_id |-> project, method |-> method, path |-> path, fields |-> fields,
   exotic |-> exotic]
PaymentExport == Ctx("demo", "GET", <<"payments", "exp%6Frt">>, <<"query", "status">> :> VFailed, FALSE)
CardFailed    == Ctx("demo", "POST", <<"cards">>, <<"query", "status">> :> VFailed, FALSE)
PaymentExotic == Ctx("demo", "GET", <<"payments", "p1">>, NoFields, TRUE)
Payout        == Ctx("demo", "POST", <<"", "payouts", "">>, NoFields, FALSE)
CardElsewhere == Ctx("demo", "POST", <<"cards">>, NoFields, FALSE)
Card          == Ctx("checkout-lab", "POST", <<"cards">>, NoFields, FALSE)

\* Control-plane posts.
EP(project, method, path, active, status, echo, delay) ==
  [project_id |-> project,
   body |-> [path |-> path, method |-> method, is_active |-> active, status_code |-> status,
             echo |-> echo, delay_ms |-> delay, delay_mode |-> "random"]]
NewExport    == EP("demo", "GET", <<"payments", "export">>, TRUE, 201, FALSE, 5)
NewTie       == EP("demo", "GET", <<"payments", "{id}">>, TRUE, 409, TRUE, 0)
NewAgain     == EP("demo", "POST", <<"payouts", "">>, TRUE, 200, FALSE, 0)
NewCardsOff  == EP("demo", "POST", <<"cards", "">>, FALSE, 200, FALSE, 0)
NewCards     == EP("demo", "POST", <<"cards">>, TRUE, 201, FALSE, 0)
NewTwin      == EP("demo", "GET", <<"payments", "{}", "status", "">>, TRUE, 200, FALSE, 0)
NewNameless  == EP("demo", "GET", <<"payments", "{}", "status">>, TRUE, 201, FALSE, 0)

RP(project, type, field, operator, value, status) ==
  [project_id |-> project,
   body |-> [condition_type |-> type, field |-> field, operator |-> operator,
             value |-> value, status_code |-> status, echo |-> FALSE]]
RuleNotP1  == RP("demo", "query", "status", "not_equals", VP1, 409)
RuleRegex  == RP("demo", "query", "status", "regex", VBad, 200)

\* Run server_logs.
LogContexts == {Payout, CardElsewhere, Card, PaymentExotic}
NoPosts == {}

\* Run unlogged_header.
ExoticContexts == {PaymentExotic}
================================================================================
