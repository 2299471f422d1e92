--------------------------------- MODULE Matching ---------------------------------
(***************************************************************************)
(* RouteMatcher and RuleEngine by themselves, before the composition of    *)
(* Orchestrator: a routing table that grows one endpoint at a time under a *)
(* request, and a list of rules that grows one rule at a time under a      *)
(* request whose one field holds a value or is missing.  The two share no  *)
(* state, so only one of them grows in a behaviour.                        *)
(***************************************************************************)
EXTENDS RouteMatcher, RuleEngine

CONSTANTS
  Templates,      \* the paths of endpoints
  RequestPaths,   \* the paths requests may ask for
  Operators,      \* the operator names of rules, registered or not
  MaxTable,       \* bound on the endpoints of the table
  MaxRules        \* bound on the rules of the list

ASSUME MatchingAssumption ==
  /\ Templates \subseteq Paths
  /\ RequestPaths \subseteq Paths
  /\ MaxTable \in Nat
  /\ MaxRules \in Nat

VARIABLES
  table, request,   \* endpoints of a project, the path asked for
  rules, actual     \* rules of an endpoint, the value of the field, or None

NewRule(operator, field, value) ==
  [condition_type |-> "body", field |-> field, operator |-> operator, value |-> value]

Fields == {"amount", "absent"}

\* The request has at most the one field.
Ctx ==
  [fields |-> [field \in IF actual = None THEN {} ELSE {<<"body", "amount">>} |-> actual]]

\* A creation puts an endpoint at the end of the table.
EnterEndpoint(path, active) ==
  /\ rules = << >> /\ actual = None
  /\ Len(table) < MaxTable
  /\ table' = Append(table, [path |-> path, method |-> "GET", is_active |-> active])
  /\ UNCHANGED <<request, rules, actual>>

EnterRule(operator, field, value) ==
  /\ table = << >> /\ request = << >>
  /\ Len(rules) < MaxRules
  /\ rules' = Append(rules, NewRule(operator, field, value))
  /\ UNCHANGED <<table, request, actual>>

Init ==
  /\ table = << >> /\ rules = << >>
  /\ \/ request \in RequestPaths /\ actual = None
     \/ request = << >> /\ actual \in Values

Next ==
  \/ \E path \in Templates, active \in BOOLEAN : EnterEndpoint(path, active)
  \/ \E operator \in Operators, field \in Fields, value \in Values :
       EnterRule(operator, field, value)

vars == <<table, request, rules, actual>>

Spec == Init /\ [][Next]_vars

----------------------------------------------------------------------------
(* Routing.                                                                *)

Chosen == Match(table, {i \in DOMAIN table : table[i].is_active}, "GET", request)

\* The template with every parameter replaced by its captured value.
Filled(template, params) ==
  [i \in DOMAIN template |->
     IF IsParam(template[i]) THEN params[ParamName[template[i]]] ELSE template[i]]

NamesOnce(template) ==
  \A i, j \in DOMAIN template :
    IsParam(template[i]) /\ IsParam(template[j])
      /\ ParamName[template[i]] = ParamName[template[j]] => i = j

\* What was captured is what was asked for: putting the captured parameters back
\* into the chosen template gives the segments of the request, unless the
\* template repeats a parameter name.
ParamsRebuildRequest ==
  Chosen # NoMatch =>
    LET template == SplitPath(table[Chosen].path)
        segments == SplitPath(request)
    IN  NamesOnce(template) =>
          Filled(template, PathParams(template, segments)) = segments

\* An active endpoint that a more static one does not beat is served: no request
\* that fits some active template, with all parameters named, goes unanswered,
\* and the answer comes from a template with the most static segments.
MostStaticWins ==
  \A i \in DOMAIN table :
    LET template == SplitPath(table[i].path)
        segments == SplitPath(request)
    IN  /\ table[i].is_active
        /\ \E captured \in [DOMAIN template -> {segments[k] : k \in DOMAIN segments}] :
             segments = [k \in DOMAIN template |->
                           IF IsParam(template[k]) THEN captured[k] ELSE template[k]]
        /\ \A k \in DOMAIN template : IsParam(template[k]) => ParamName[template[k]] # NoName
        => /\ Chosen # NoMatch
           /\ StaticCount(SplitPath(table[Chosen].path)) >= StaticCount(template)

\* Equal signatures route alike, so a creation that is refused for its signature
\* adds nothing to the table: the last endpoint never wins against one of the
\* same signature, and never fits a request its twin does not fit.
TwinsNeverRouted ==
  \A i, j \in DOMAIN table :
    /\ i < j
    /\ table[i].is_active
    /\ NormalizePath(table[i].path) = NormalizePath(table[j].path)
    => Chosen # j

----------------------------------------------------------------------------
(* Rules.                                                                  *)

Decided == FirstDecisive(rules, DOMAIN rules, Ctx, << >>)

\* The for loop of evaluate, run from rule i on.
Loop[i \in 1 .. MaxRules + 1] ==
  IF i > Len(rules) THEN NoRule
  ELSE IF rules[i].operator \notin OPERATOR_REGISTRY THEN Loop[i + 1]
  ELSE IF Outcome(rules[i], Ctx, << >>) = "no" THEN Loop[i + 1]
  ELSE i

\* The first rule in repository order that matches or raises ends the
\* evaluation, whatever stands behind it; unregistered operators are passed over.
FirstMatchDecides == Decided = Loop[1]

\* A request that lacks the field of every rule is never a server error: only a
\* present value can make an operator raise.
MissingFieldNeverRaises ==
  (\A i \in DOMAIN rules : rules[i].field = "absent" \/ actual = None)
    => ~ Raises(rules, DOMAIN rules, Ctx, << >>)

Says(operator, a, b) == Apply(operator, a, b) = "yes"

\* gt and lt are an order on whatever both sides of float() accept: numbers and
\* numerals mix, both operators never hold at once, swapping the operands swaps
\* the operators, and two values that convert are related unless they convert
\* to the same number.
GtLtConsistent ==
  \A b \in Values :
    /\ ~ (Says("gt", actual, b) /\ Says("lt", actual, b))
    /\ Says("gt", actual, b) <=> Says("lt", b, actual)
    /\ FloatKind(actual) = "number" /\ FloatKind(b) = "number" =>
         Says("gt", actual, b) \/ Says("lt", actual, b) \/ FloatOf(actual) = FloatOf(b)
================================================================================
