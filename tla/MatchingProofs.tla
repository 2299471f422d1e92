----------------------------- MODULE MatchingProofs -----------------------------
(***************************************************************************)
(* The properties of Matching for every alphabet of segments, every        *)
(* routing table, every request and every list of rules.  They hold of     *)
(* any typed state: that the lists hold what they should is the inductive  *)
(* part, what match and evaluate make of the lists is the rest.            *)
(***************************************************************************)
EXTENDS Matching, PipelineProofs

TableEntry == [path : Paths, method : {"GET"}, is_active : BOOLEAN]

RuleEntry == [condition_type : {"body"}, field : Fields, operator : Operators, value : Values]

MatchingInv ==
  /\ table \in Seq(TableEntry)
  /\ request \in Paths
  /\ rules \in Seq(RuleEntry) /\ Len(rules) <= MaxRules
  /\ actual \in Values

LEMMA MatchingInit == Init => MatchingInv
<1> SUFFICES ASSUME Init
             PROVE  MatchingInv
  OBVIOUS
<1>1. request \in Paths
  <2>1. << >> \in Paths
    BY DEF Paths
  <2> QED
    BY <2>1, MatchingAssumption DEF Init
<1>2. actual \in Values
  BY ValueAssumption DEF Init
<1>3. /\ table \in Seq(TableEntry)
      /\ rules \in Seq(RuleEntry) /\ Len(rules) <= MaxRules
  BY MatchingAssumption DEF Init
<1> QED
  BY <1>1, <1>2, <1>3 DEF MatchingInv

LEMMA MatchingStep == MatchingInv /\ [Next]_vars => MatchingInv'
<1> SUFFICES ASSUME MatchingInv, [Next]_vars
             PROVE  MatchingInv'
  OBVIOUS
<1> USE DEF MatchingInv
<1>1. ASSUME NEW path \in Templates, NEW active \in BOOLEAN, EnterEndpoint(path, active)
      PROVE  MatchingInv'
  <2>1. [path |-> path, method |-> "GET", is_active |-> active] \in TableEntry
    BY MatchingAssumption DEF TableEntry
  <2>2. table' \in Seq(TableEntry)
    BY <1>1, <2>1, AppendProperties DEF EnterEndpoint
  <2> QED
    BY <1>1, <2>2 DEF EnterEndpoint
<1>2. ASSUME NEW operator \in Operators, NEW field \in Fields, NEW value \in Values,
             EnterRule(operator, field, value)
      PROVE  MatchingInv'
  <2>1. NewRule(operator, field, value) \in RuleEntry
    BY DEF NewRule, RuleEntry
  <2>2. rules' \in Seq(RuleEntry) /\ Len(rules') = Len(rules) + 1 /\ Len(rules) \in Nat
    BY <1>2, <2>1, AppendProperties, LenProperties DEF EnterRule
  <2>3. Len(rules') <= MaxRules
    BY <1>2, <2>2, MatchingAssumption DEF EnterRule
  <2> QED
    BY <1>2, <2>2, <2>3 DEF EnterRule
<1>3. CASE UNCHANGED vars
  BY <1>3 DEF vars
<1> QED
  BY <1>1, <1>2, <1>3 DEF Next

THEOREM MatchingInvHolds == Spec => []MatchingInv
BY MatchingInit, MatchingStep, PTL DEF Spec

--------------------------------------------------------------------------------
\* Routing.

\* What match makes of the table.
LEMMA ChosenFacts ==
  ASSUME MatchingInv
  PROVE  LET active == {i \in DOMAIN table : table[i].is_active}
             found  == Candidates(table, active, "GET", request)
         IN  /\ DOMAIN table \subseteq Nat \ {0}
             /\ \A i \in DOMAIN table : table[i].path \in Paths /\ table[i].method = "GET"
             /\ found = {} => Chosen = NoMatch
             /\ found # {} => /\ Chosen \in found
                              /\ Chosen # NoMatch
                              /\ \A j \in found : Preferred(table, Chosen, j)
<1> DEFINE active == {i \in DOMAIN table : table[i].is_active}
<1>1. table \in Seq(TableEntry) /\ request \in Paths
  BY DEF MatchingInv
<1>2. DOMAIN table \subseteq Nat \ {0}
  BY <1>1, LenProperties
<1>3. \A i \in DOMAIN table : table[i].path \in Paths /\ table[i].method = "GET"
  <2>1. \A i \in 1 .. Len(table) : table[i] \in TableEntry
    BY <1>1, ElementOfSeq
  <2> QED
    BY <1>1, <2>1, LenProperties DEF TableEntry
<1>4. active \in SUBSET Nat /\ active \subseteq DOMAIN table /\ 0 \notin active
  BY <1>2
<1> QED
  BY <1>1, <1>2, <1>3, <1>4, MatchIsPreferred DEF Chosen

\* An active endpoint whose template fits is a candidate.
LEMMA FittingIsFound ==
  ASSUME MatchingInv, NEW i \in DOMAIN table, table[i].is_active,
         MatchSegments(SplitPath(table[i].path), SplitPath(request))
  PROVE  i \in Candidates(table, {j \in DOMAIN table : table[j].is_active}, "GET", request)
<1>1. table[i].method = "GET"
  BY ChosenFacts
<1> QED
  BY <1>1 DEF Candidates

\* Every candidate fits the request.
LEMMA ChosenFits ==
  ASSUME MatchingInv, Chosen # NoMatch
  PROVE  /\ Chosen \in DOMAIN table /\ table[Chosen].path \in Paths
         /\ MatchSegments(SplitPath(table[Chosen].path), SplitPath(request))
<1>1. Chosen \in Candidates(table, {i \in DOMAIN table : table[i].is_active}, "GET", request)
  BY ChosenFacts
<1> QED
  BY <1>1, ChosenFacts DEF Candidates

\* Filling the captured parameters back into a template that fits gives the request.
LEMMA FilledIsRequest ==
  ASSUME NEW template, NEW segments, NEW n \in Nat, NEW m \in Nat,
         DOMAIN template = 1 .. n, DOMAIN segments = 1 .. m, Len(template) = n,
         Len(segments) = m, segments = [k \in 1 .. m |-> segments[k]],
         MatchSegments(template, segments), NamesOnce(template)
  PROVE  Filled(template, PathParams(template, segments)) = segments
<1> DEFINE named == {i \in DOMAIN template : IsParam(template[i])}
           last(name) == CHOOSE i \in named :
                           /\ ParamName[template[i]] = name
                           /\ \A j \in named : ParamName[template[j]] = name => j <= i
           params == PathParams(template, segments)
<1>1. n = m
  BY DEF MatchSegments
<1>2. \A i \in named : last(ParamName[template[i]]) = i
  <2> SUFFICES ASSUME NEW i \in named
               PROVE  last(ParamName[template[i]]) = i
    OBVIOUS
  <2>1. \A j \in named : ParamName[template[j]] = ParamName[template[i]] => j = i
    BY DEF NamesOnce
  <2>2. i <= i
    OBVIOUS
  <2> QED
    BY <2>1, <2>2
<1>3. \A i \in named : params[ParamName[template[i]]] = segments[i]
  <2>1. params = [name \in {ParamName[template[i]] : i \in named} |-> segments[last(name)]]
    BY DEF PathParams
  <2> HIDE DEF params, last, named
  <2> QED
    BY <1>2, <2>1
<1>4. \A i \in DOMAIN template :
        IF IsParam(template[i]) THEN params[ParamName[template[i]]] = segments[i]
                                ELSE template[i] = segments[i]
  <2> HIDE DEF params
  <2> QED
    BY <1>3 DEF MatchSegments
<1> HIDE DEF params
<1>5. Filled(template, params)
        = [i \in DOMAIN template |->
             IF IsParam(template[i]) THEN params[ParamName[template[i]]] ELSE template[i]]
  BY DEF Filled
<1>6. Filled(template, params) = [i \in 1 .. m |-> segments[i]]
  BY <1>1, <1>4, <1>5
<1> QED
  BY <1>6 DEF params

\* What was captured is what was asked for.
THEOREM ParamsRebuildRequestHolds == Spec => []ParamsRebuildRequest
<1>1. ASSUME MatchingInv
      PROVE  ParamsRebuildRequest
  <2> SUFFICES ASSUME Chosen # NoMatch, NamesOnce(SplitPath(table[Chosen].path))
               PROVE  LET template == SplitPath(table[Chosen].path)
                          segments == SplitPath(request)
                      IN  Filled(template, PathParams(template, segments)) = segments
    BY DEF ParamsRebuildRequest
  <2> DEFINE template == SplitPath(table[Chosen].path)
             segments == SplitPath(request)
  <2>1. /\ table[Chosen].path \in Paths /\ request \in Paths
        /\ MatchSegments(template, segments)
    BY <1>1, ChosenFits DEF MatchingInv
  <2>2. /\ Len(template) \in Nat /\ DOMAIN template = 1 .. Len(template)
        /\ Len(segments) \in Nat /\ DOMAIN segments = 1 .. Len(segments)
    BY <2>1, SplitPathLength
  <2>3. segments = [k \in DOMAIN segments |-> segments[k]]
    BY DEF SplitPath
  <2> HIDE DEF template, segments
  <2> QED
    BY <2>1, <2>2, <2>3, FilledIsRequest DEF template, segments
<1> QED
  BY <1>1, MatchingInvHolds, PTL

\* A request that fits an active template is served by a template that is at least
\* as static.
THEOREM MostStaticWinsHolds == Spec => []MostStaticWins
<1>1. ASSUME MatchingInv
      PROVE  MostStaticWins
  <2> SUFFICES ASSUME NEW i \in DOMAIN table, table[i].is_active,
                      NEW captured \in [DOMAIN SplitPath(table[i].path) ->
                             {SplitPath(request)[k] : k \in DOMAIN SplitPath(request)}],
                      SplitPath(request)
                        = [k \in DOMAIN SplitPath(table[i].path) |->
                             IF IsParam(SplitPath(table[i].path)[k]) THEN captured[k]
                             ELSE SplitPath(table[i].path)[k]],
                      \A k \in DOMAIN SplitPath(table[i].path) :
                        IsParam(SplitPath(table[i].path)[k]) =>
                          ParamName[SplitPath(table[i].path)[k]] # NoName
               PROVE  /\ Chosen # NoMatch
                      /\ StaticCount(SplitPath(table[Chosen].path))
                           >= StaticCount(SplitPath(table[i].path))
    BY DEF MostStaticWins
  <2> DEFINE template == SplitPath(table[i].path)
             segments == SplitPath(request)
             found    == Candidates(table, {j \in DOMAIN table : table[j].is_active},
                                    "GET", request)
  <2>1. table[i].path \in Paths /\ request \in Paths
    BY <1>1, ChosenFacts DEF MatchingInv
  <2>2. /\ Len(template) \in Nat /\ DOMAIN template = 1 .. Len(template)
        /\ Len(segments) \in Nat /\ DOMAIN segments = 1 .. Len(segments)
        /\ StaticCount(template) \in Int
    BY <2>1, SplitPathLength
  <2>3. /\ DOMAIN segments = DOMAIN template
        /\ \A k \in DOMAIN template : ~ IsParam(template[k]) => template[k] = segments[k]
    OBVIOUS
  <2>4. Len(template) = Len(segments)
    <3> HIDE DEF template, segments
    <3> QED
      BY <2>2, <2>3, EqualIntervals
  <2>5. MatchSegments(template, segments)
    BY <2>3, <2>4 DEF MatchSegments
  <2>6. i \in found
    BY <1>1, <2>5, FittingIsFound
  <2>7. Chosen # NoMatch /\ Preferred(table, Chosen, i)
    BY <1>1, <2>6, ChosenFacts
  <2>8. StaticCount(SplitPath(table[Chosen].path)) \in Int
    BY <1>1, <2>7, ChosenFits, SplitPathLength
  <2> QED
    BY <2>2, <2>7, <2>8 DEF Preferred
<1> QED
  BY <1>1, MatchingInvHolds, PTL

\* Of two endpoints with one signature the later one never answers.
THEOREM TwinsNeverRoutedHolds == Spec => []TwinsNeverRouted
<1>1. ASSUME MatchingInv
      PROVE  TwinsNeverRouted
  <2> SUFFICES ASSUME NEW i \in DOMAIN table, NEW j \in DOMAIN table, i < j,
                      table[i].is_active,
                      NormalizePath(table[i].path) = NormalizePath(table[j].path),
                      Chosen = j
               PROVE  FALSE
    BY DEF TwinsNeverRouted
  <2>1. /\ table[i].path \in Paths /\ table[j].path \in Paths
        /\ i \in Nat /\ j \in Nat /\ j # NoMatch
    BY <1>1, ChosenFacts DEF NoMatch
  <2>2. SplitPath(table[i].path) = SplitPath(table[j].path)
    <3>1. /\ SplitPath(NormalizePath(table[i].path)) = SplitPath(table[i].path)
          /\ SplitPath(NormalizePath(table[j].path)) = SplitPath(table[j].path)
      BY <2>1, NormalizedSplitsAlike
    <3> QED
      BY <3>1
  <2>3. MatchSegments(SplitPath(table[i].path), SplitPath(request))
    BY <1>1, <2>1, <2>2, ChosenFits
  <2>4. Preferred(table, j, i)
    BY <1>1, <2>3, FittingIsFound, ChosenFacts
  <2>5. StaticCount(SplitPath(table[i].path)) \in Int
    BY <2>1, SplitPathLength
  <2> QED
    BY <2>1, <2>2, <2>4, <2>5 DEF Preferred
<1> QED
  BY <1>1, MatchingInvHolds, PTL

--------------------------------------------------------------------------------
\* Rules.

\* An operator that is not registered answers "no".
LEMMA UnregisteredSaysNo ==
  ASSUME NEW rule, NEW ctx, NEW params, rule.operator \notin OPERATOR_REGISTRY
  PROVE  Outcome(rule, ctx, params) = "no"
BY DEF Outcome, Apply, OPERATOR_REGISTRY

\* The rules that end the loop.
Decisive == {i \in DOMAIN rules : Outcome(rules[i], Ctx, << >>) # "no"}

\* What the loop finds from position i on.
NextDecisive ==
  [i \in 1 .. MaxRules + 1 |->
     LET ahead == {j \in Decisive : i <= j}
     IN  IF ahead = {} THEN NoRule ELSE CHOOSE j \in ahead : \A k \in ahead : j <= k]

LEMMA NextDecisiveFacts ==
  ASSUME MatchingInv, NEW i \in 1 .. MaxRules + 1
  PROVE  /\ i > Len(rules) => NextDecisive[i] = NoRule
         /\ i \in Decisive => NextDecisive[i] = i
         /\ i <= Len(rules) /\ i \notin Decisive => NextDecisive[i] = NextDecisive[i + 1]
<1> DEFINE ahead(m) == {j \in Decisive : m <= j}
           least(T) == CHOOSE j \in T : \A k \in T : j <= k
<1>1. /\ DOMAIN rules = 1 .. Len(rules) /\ Len(rules) \in Nat /\ Len(rules) <= MaxRules
      /\ MaxRules \in Nat
  BY LenProperties, MatchingAssumption DEF MatchingInv
<1>2. \A j \in Decisive : j \in 1 .. Len(rules)
  BY <1>1 DEF Decisive
<1>3. \A m \in 1 .. MaxRules + 1 :
        NextDecisive[m] = IF ahead(m) = {} THEN NoRule ELSE least(ahead(m))
  BY DEF NextDecisive
<1>4. i > Len(rules) => ahead(i) = {}
  BY <1>1, <1>2
<1>5. ASSUME i \in Decisive
      PROVE  least(ahead(i)) = i /\ i \in ahead(i)
  <2>1. i \in ahead(i) /\ \A k \in ahead(i) : i <= k
    BY <1>5
  <2>2. \A j \in ahead(i) : j \in Int
    BY <1>2
  <2> HIDE DEF ahead
  <2>3. \A j \in ahead(i) : (\A k \in ahead(i) : j <= k) => j = i
    BY <2>1, <2>2
  <2> QED
    BY <2>1, <2>3
<1>6. ASSUME i \notin Decisive
      PROVE  ahead(i) = ahead(i + 1)
  BY <1>2, <1>6
<1>7. i <= Len(rules) => i + 1 \in 1 .. MaxRules + 1
  BY <1>1
<1> HIDE DEF ahead, least
<1> QED
  BY <1>3, <1>4, <1>5, <1>6, <1>7

\* The loop of evaluate has a solution, so Loop is one.
LEMMA LoopEquation ==
  ASSUME MatchingInv
  PROVE  Loop = [i \in 1 .. MaxRules + 1 |->
                   IF i > Len(rules) THEN NoRule
                   ELSE IF rules[i].operator \notin OPERATOR_REGISTRY THEN Loop[i + 1]
                   ELSE IF Outcome(rules[i], Ctx, << >>) = "no" THEN Loop[i + 1]
                   ELSE i]
<1> DEFINE F(f) == [i \in 1 .. MaxRules + 1 |->
                      IF i > Len(rules) THEN NoRule
                      ELSE IF rules[i].operator \notin OPERATOR_REGISTRY THEN f[i + 1]
                      ELSE IF Outcome(rules[i], Ctx, << >>) = "no" THEN f[i + 1]
                      ELSE i]
<1>1. NextDecisive = F(NextDecisive)
  <2>1. ASSUME NEW i \in 1 .. MaxRules + 1
        PROVE  NextDecisive[i] = F(NextDecisive)[i]
    <3>1. CASE i > Len(rules)
      BY <3>1, NextDecisiveFacts
    <3>2. CASE ~ (i > Len(rules))
      <4>1. /\ DOMAIN rules = 1 .. Len(rules) /\ Len(rules) \in Nat
            /\ i <= Len(rules) /\ i \in DOMAIN rules
        BY <3>2, LenProperties DEF MatchingInv
      <4>2. i \in Decisive <=> Outcome(rules[i], Ctx, << >>) # "no"
        BY <4>1 DEF Decisive
      <4>3. rules[i].operator \notin OPERATOR_REGISTRY => Outcome(rules[i], Ctx, << >>) = "no"
        BY UnregisteredSaysNo
      <4> QED
        BY <3>2, <4>1, <4>2, <4>3, NextDecisiveFacts
    <3> QED
      BY <3>1, <3>2
  <2>2. NextDecisive = [i \in 1 .. MaxRules + 1 |-> NextDecisive[i]]
    BY DEF NextDecisive
  <2>3. F(NextDecisive) = [i \in 1 .. MaxRules + 1 |-> F(NextDecisive)[i]]
    OBVIOUS
  <2> HIDE DEF F
  <2> QED
    BY <2>1, <2>2, <2>3
<1>2. Loop = CHOOSE f : f = F(f)
  BY DEF Loop
<1> HIDE DEF F
<1>3. Loop = F(Loop)
  BY <1>1, <1>2
<1> QED
  BY <1>3 DEF F

\* The loop finds the first decisive rule, from wherever it is entered.
LEMMA LoopFindsNext ==
  ASSUME MatchingInv
  PROVE  \A i \in 1 .. MaxRules + 1 : Loop[i] = NextDecisive[i]
<1> DEFINE wrong == {i \in 1 .. MaxRules + 1 : Loop[i] # NextDecisive[i]}
<1>0. MaxRules \in Nat /\ Len(rules) \in Nat /\ Len(rules) <= MaxRules
  BY MatchingAssumption, LenProperties DEF MatchingInv
<1> SUFFICES ASSUME wrong # {}
             PROVE  FALSE
  OBVIOUS
<1>1. PICK i \in wrong : \A j \in wrong : j <= i
  <2>1. wrong \in SUBSET (1 .. MaxRules + 1) /\ MaxRules + 1 \in Nat
    BY <1>0
  <2> HIDE DEF wrong
  <2> QED
    BY <2>1, GreatestExists
<1>2. i \in 1 .. MaxRules + 1 /\ Loop[i] # NextDecisive[i]
  OBVIOUS
<1>3. Loop[i] = IF i > Len(rules) THEN NoRule
                ELSE IF rules[i].operator \notin OPERATOR_REGISTRY THEN Loop[i + 1]
                ELSE IF Outcome(rules[i], Ctx, << >>) = "no" THEN Loop[i + 1]
                ELSE i
  <2> DEFINE G(f) == [j \in 1 .. MaxRules + 1 |->
                        IF j > Len(rules) THEN NoRule
                        ELSE IF rules[j].operator \notin OPERATOR_REGISTRY THEN f[j + 1]
                        ELSE IF Outcome(rules[j], Ctx, << >>) = "no" THEN f[j + 1]
                        ELSE j]
  <2>1. Loop = G(Loop)
    BY LoopEquation
  <2>2. Loop[i] = G(Loop)[i]
    <3> HIDE DEF G
    <3> QED
      BY <2>1
  <2> QED
    BY <1>2, <2>2
<1>4. i <= Len(rules)
  BY <1>0, <1>2, <1>3, NextDecisiveFacts
<1>5. Loop[i + 1] = NextDecisive[i + 1]
  <2>1. i + 1 \in 1 .. MaxRules + 1 /\ ~ (i + 1 <= i)
    BY <1>0, <1>2, <1>4
  <2> QED
    BY <1>1, <2>1
<1>6. DOMAIN rules = 1 .. Len(rules) /\ i \in DOMAIN rules
  BY <1>2, <1>4, LenProperties DEF MatchingInv
<1>7. i \in Decisive <=> Outcome(rules[i], Ctx, << >>) # "no"
  BY <1>6 DEF Decisive
<1>8. rules[i].operator \notin OPERATOR_REGISTRY => Outcome(rules[i], Ctx, << >>) = "no"
  BY UnregisteredSaysNo
<1> QED
  BY <1>0, <1>2, <1>3, <1>4, <1>5, <1>7, <1>8, NextDecisiveFacts

\* evaluate ends with the first rule that does not answer "no".
THEOREM FirstMatchDecidesHolds == Spec => []FirstMatchDecides
<1>1. ASSUME MatchingInv
      PROVE  FirstMatchDecides
  <2>1. 1 \in 1 .. MaxRules + 1
    BY MatchingAssumption
  <2>2. Loop[1] = NextDecisive[1]
    BY <1>1, <2>1, LoopFindsNext
  <2>3. {j \in Decisive : 1 <= j} = Decisive
    BY <1>1, LenProperties DEF Decisive, MatchingInv
  <2>4. NextDecisive[1] = IF Decisive = {} THEN NoRule
                          ELSE CHOOSE j \in Decisive : \A k \in Decisive : j <= k
    <3> DEFINE ahead == {j \in Decisive : 1 <= j}
    <3>1. NextDecisive[1] = IF ahead = {} THEN NoRule
                            ELSE CHOOSE j \in ahead : \A k \in ahead : j <= k
      BY <2>1 DEF NextDecisive
    <3> HIDE DEF ahead
    <3>2. ahead = Decisive
      BY <2>3 DEF ahead
    <3> QED
      BY <3>1, <3>2
  <2>5. Decided = IF Decisive = {} THEN NoRule
                  ELSE CHOOSE j \in Decisive : \A k \in Decisive : j <= k
    BY DEF Decided, FirstDecisive, Decisive
  <2> QED
    BY <2>2, <2>4, <2>5 DEF FirstMatchDecides
<1> QED
  BY <1>1, MatchingInvHolds, PTL

\* No operator raises on a missing value.
LEMMA MissingSaysNothing ==
  ASSUME NEW operator, NEW expected
  PROVE  Apply(operator, None, expected) # "raise"
<1>1. None.kind = "none"
  BY ValueAssumption
<1>2. Equals(None, expected) # "raise" /\ NotEquals(None, expected) # "raise"
  BY DEF Equals, NotEquals, YesNo
<1>3. ContainsOp(None, expected) # "raise"
  BY <1>1 DEF ContainsOp
<1>4. Exists(None, expected) # "raise" /\ Regex(None, expected) # "raise"
  BY DEF Exists, Regex, YesNo
<1>5. Converted(None, expected) = "error"
  BY <1>1 DEF Converted, FloatKind
<1>6. Gt(None, expected) # "raise" /\ Lt(None, expected) # "raise"
  BY <1>5 DEF Gt, Lt, Compared
<1> QED
  BY <1>2, <1>3, <1>4, <1>6 DEF Apply

\* A request that lacks the fields of all rules is never a server error.
THEOREM MissingFieldNeverRaisesHolds == Spec => []MissingFieldNeverRaises
<1>1. ASSUME MatchingInv
      PROVE  MissingFieldNeverRaises
  <2> SUFFICES ASSUME \A i \in DOMAIN rules : rules[i].field = "absent" \/ actual = None
               PROVE  ~ Raises(rules, DOMAIN rules, Ctx, << >>)
    BY DEF MissingFieldNeverRaises
  <2>1. \A i \in DOMAIN rules : Outcome(rules[i], Ctx, << >>) # "raise"
    <3> SUFFICES ASSUME NEW i \in DOMAIN rules
                 PROVE  Outcome(rules[i], Ctx, << >>) # "raise"
      OBVIOUS
    <3>1. rules[i].condition_type = "body"
      <4>1. \A j \in 1 .. Len(rules) : rules[j] \in RuleEntry
        BY <1>1, ElementOfSeq DEF MatchingInv
      <4> QED
        BY <1>1, <4>1, LenProperties DEF MatchingInv, RuleEntry
    <3>2. DOMAIN Ctx.fields = IF actual = None THEN {} ELSE {<<"body", "amount">>}
      BY DEF Ctx
    <3>3. <<"body", rules[i].field>> \notin DOMAIN Ctx.fields
      BY <3>2
    <3>4. ExtractValue(rules[i], Ctx, << >>) = None
      BY <3>1, <3>3 DEF ExtractValue
    <3> QED
      BY <3>4, MissingSaysNothing DEF Outcome
  <2>2. ASSUME Decisive # {}
        PROVE  FirstDecisive(rules, DOMAIN rules, Ctx, << >>) \in DOMAIN rules
    <3>1. Decisive \in SUBSET Nat
      BY <1>1, LenProperties DEF Decisive, MatchingInv
    <3>2. \E j \in Decisive : \A k \in Decisive : j <= k
      BY <2>2, <3>1, LeastExists
    <3>3. FirstDecisive(rules, DOMAIN rules, Ctx, << >>)
            = CHOOSE j \in Decisive : \A k \in Decisive : j <= k
      BY <2>2 DEF FirstDecisive, Decisive
    <3>4. (CHOOSE j \in Decisive : \A k \in Decisive : j <= k) \in Decisive
      BY <3>2
    <3> QED
      BY <3>3, <3>4 DEF Decisive
  <2>3. ASSUME Decisive = {}
        PROVE  FirstDecisive(rules, DOMAIN rules, Ctx, << >>) = NoRule
    BY <2>3 DEF FirstDecisive, Decisive
  <2> QED
    BY <2>1, <2>2, <2>3 DEF Raises
<1> QED
  BY <1>1, MatchingInvHolds, PTL

\* A value that float() accepts is a number.
LEMMA FloatsAreNumbers ==
  ASSUME NEW value \in Values
  PROVE  /\ FloatKind(value) = "number" => FloatOf(value) \in Int
         /\ FloatKind(value) \in {"number", "error", "overflow"}
BY NumberAssumption DEF FloatKind, FloatOf

\* gt and lt order the values that float() accepts.
THEOREM GtLtConsistentHolds == Spec => []GtLtConsistent
<1>1. ASSUME MatchingInv
      PROVE  GtLtConsistent
  <2> SUFFICES ASSUME NEW a \in Values, NEW b \in Values
               PROVE  /\ ~ (Says("gt", a, b) /\ Says("lt", a, b))
                      /\ Says("gt", a, b) <=> Says("lt", b, a)
                      /\ FloatKind(a) = "number" /\ FloatKind(b) = "number" =>
                           Says("gt", a, b) \/ Says("lt", a, b) \/ FloatOf(a) = FloatOf(b)
    BY <1>1 DEF GtLtConsistent, MatchingInv
  <2> DEFINE both == FloatKind(a) = "number" /\ FloatKind(b) = "number"
  <2>1. /\ Converted(a, b) = "number" <=> both
        /\ Converted(b, a) = "number" <=> both
        /\ Converted(a, b) \in {"number", "error", "overflow"}
        /\ Converted(b, a) \in {"number", "error", "overflow"}
    BY FloatsAreNumbers DEF Converted
  <2>2. /\ Says("gt", a, b) <=> Gt(a, b) = "yes"
        /\ Says("lt", a, b) <=> Lt(a, b) = "yes"
        /\ Says("lt", b, a) <=> Lt(b, a) = "yes"
    BY DEF Says, Apply
  <2>3. Gt(a, b) = "yes" <=> both /\ FloatOf(a) > FloatOf(b)
    BY <2>1 DEF Gt, Compared, YesNo
  <2>4. Lt(a, b) = "yes" <=> both /\ FloatOf(a) < FloatOf(b)
    BY <2>1 DEF Lt, Compared, YesNo
  <2>5. Lt(b, a) = "yes" <=> both /\ FloatOf(b) < FloatOf(a)
    BY <2>1 DEF Lt, Compared, YesNo
  <2>6. both => FloatOf(a) \in Int /\ FloatOf(b) \in Int
    BY FloatsAreNumbers
  <2> QED
    BY <2>2, <2>3, <2>4, <2>5, <2>6
<1> QED
  BY <1>1, MatchingInvHolds, PTL
================================================================================
