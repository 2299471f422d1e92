---------------------------- MODULE MCFallbackAgents ----------------------------
(***************************************************************************)
(* Small texts, over paths that repeat, overlap or hide a parameter        *)
(* without a name, with statuses in and out of range.                      *)
(***************************************************************************)
EXTENDS FallbackTexts, TLC

MCRawSegments ==
  {"", "pay", "{id}", "{}", "sample_id", "payouts", "payouts?f=1", "generated-health"}
MCBeforeQuery == [raw \in MCRawSegments |-> IF raw = "payouts?f=1" THEN "payouts" ELSE raw]
MCUnquote     == [raw \in MCRawSegments |-> raw]
MCParamName   == "{id}" :> "id" @@ "{}" :> ""
MCSample      == [raw \in MCRawSegments |-> IF raw = "{id}" THEN "sample_id" ELSE raw]
MCPayoutSegments == {"payouts", "payouts?f=1"}
MCKeyOf       == <<"endpoint_1", "endpoint_2", "endpoint_3">>
MCStatuses    == 100 .. 599

Scalar(kind, content) == [kind |-> kind, num |-> 0, text |-> content, items |-> {}]
VNone   == Scalar("none", "None")
VFailed == Scalar("str", "failed")
MCValues == {VNone, VFailed}
NoFields == << >>

MentionsOf(paths, statuses) ==
  {[path |-> path, method |-> method, status |-> status, delay |-> delay] :
     path \in paths, method \in {"GET", "POST"}, status \in statuses, delay \in {0, 5}}

MCMentions ==
  MentionsOf({<<"pay">>, <<"pay", "">>, <<"pay", "{id}">>, <<"pay", "sample_id">>,
              <<"payouts">>, <<"payouts?f=1">>, <<"{}">>},
             {Unstated, 0, 201, 404, 999})
PlainMentions == MentionsOf({<<"pay">>, <<"pay", "{id}">>}, {Unstated, 201})
================================================================================
