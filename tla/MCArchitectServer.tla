---------------------------- MODULE MCArchitectServer ----------------------------
(* Instances of ArchitectServer for TLC, over those of MockServer. *)
EXTENDS MCMockServer, ArchitectServer

\* One task result: an endpoint that overlaps a seed endpoint and has a delay, one
\* whose signature another project has, and a rule for the latter whose pattern
\* does not compile.
Generated(key, post) == [key |-> key, endpoint |-> post.body]
GeneratedRule(key, post) == [endpoint_key |-> key, rule |-> post.body]
ExportsAndCards ==
  [endpoints |-> <<Generated("export", NewExport), Generated("cards", NewCards)>>,
   rules     |-> <<GeneratedRule("cards", RuleRegex)>>,
   scenarios |-> << >>]

\* Another: two endpoints that are one once their paths are normalised, under one
\* key, which the critic lets pass.
TwinRefunds ==
  [endpoints |-> <<Generated("refunds", NewNameless), Generated("refunds", NewTwin)>>,
   rules     |-> <<GeneratedRule("refunds", RuleNotP1)>>,
   scenarios |-> << >>]

CommittingContexts == {PaymentExport, CardFailed}
MCResults == {ExportsAndCards, TwinRefunds}
CommittingEndpointPosts == {NewTie, NewAgain, NewCardsOff}
CommittingRulePosts == {RuleNotP1}
================================================================================
